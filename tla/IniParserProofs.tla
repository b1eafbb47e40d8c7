--------------------------- MODULE IniParserProofs --------------------------
(***************************************************************************)
(* Proofs about parsing, for files without a NUL byte of every length, and *)
(* buffers of every initial size: lines, section names and entries arrive  *)
(* whole, and nothing is written behind a buffer.                          *)
(***************************************************************************)
EXTENDS IniParser, SequenceTheorems, FiniteSetTheorems, WellFoundedInduction, TLAPS

\* The least and the greatest of a set of numbers are what they are called.
LEMMA MinIs ==
  ASSUME NEW X, X \subseteq Nat, X # {}
  PROVE  Min(X) \in X /\ \A y \in X : Min(X) <= y
<1>1. PICK x \in X : \A y \in X : ~(<<y, x>> \in OpToRel(<, Nat))
  BY NatLessThanWellFounded, WFMin
<1>2. ASSUME NEW y \in X PROVE x <= y
  <2>1. x \in Nat /\ y \in Nat
    OBVIOUS
  <2>2. ~(y < x)
    BY <1>1, <2>1 DEF OpToRel
  <2> QED BY <2>1, <2>2
<1> QED BY <1>2 DEF Min

LEMMA MaxIs ==
  ASSUME NEW n \in Nat, NEW X, X \subseteq 0..n, X # {}
  PROVE  Max(X) \in X /\ \A y \in X : y <= Max(X)
<1> DEFINE Y == {n - x : x \in X}
<1>1. Y \subseteq Nat /\ Y # {}
  <2>1. \A x \in X : n - x \in Nat
    OBVIOUS
  <2> QED BY <2>1
<1>2. Min(Y) \in Y /\ \A y \in Y : Min(Y) <= y
  <2> HIDE DEF Y
  <2> QED BY <1>1, MinIs
<1>3. PICK x \in X : Min(Y) = n - x
  BY <1>2
<1>4. ASSUME NEW y \in X PROVE x >= y
  <2>1. n - y \in Y
    OBVIOUS
  <2>2. n - x <= n - y
    BY <1>2, <1>3, <2>1
  <2>3. x \in 0..n /\ y \in 0..n
    OBVIOUS
  <2> QED BY <2>2, <2>3
<1>5. \A y \in X : y \in Int
  OBVIOUS
<1> QED BY <1>4, <1>5 DEF Max

-----------------------------------------------------------------------------
(* Reading.                                                                *)

Chars == STRING \ {"NUL"}

\* What lies between two places of a string.
LEMMA Cut ==
  ASSUME NEW C, NEW s \in Seq(C), NEW a \in Nat, NEW b \in Nat, a <= b, b <= Len(s)
  PROVE  /\ SubSeq(s, a + 1, b) \in Seq(C)
         /\ Len(SubSeq(s, a + 1, b)) = b - a
         /\ \A k \in 1..b-a : SubSeq(s, a + 1, b)[k] = s[a + k]
<1>1. \A k \in a+1..b : s[k] \in C
  OBVIOUS
<1>2. /\ SubSeq(s, a + 1, b) \in Seq(C)
      /\ Len(SubSeq(s, a + 1, b)) = IF a + 1 <= b THEN b - (a + 1) + 1 ELSE 0
      /\ \A k \in 1..b-(a+1)+1 : SubSeq(s, a + 1, b)[k] = s[a + 1 + k - 1]
  BY <1>1, SubSeqProperties
<1>3. \A k \in 1..b-a : k \in 1..b-(a+1)+1 /\ a + 1 + k - 1 = a + k
  OBVIOUS
<1> QED BY <1>2, <1>3

\* The first newline, the end or e, whichever comes first.
LEMMA StopIs ==
  ASSUME NEW r \in Seq(Chars), NEW e \in Nat \ {0}, NEW m,
         m = Min({k \in DOMAIN r : r[k] = Newline} \cup {Len(r), e})
  PROVE  /\ m \in Nat /\ m <= e /\ m <= Len(r)
         /\ m = 0 => Len(r) = 0
         /\ \A k \in 1..m-1 : r[k] # Newline
         /\ m = Len(r) \/ m = e \/ (m > 0 /\ r[m] = Newline)
<1> DEFINE stop == {k \in DOMAIN r : r[k] = Newline} \cup {Len(r), e}
<1>1. \A k : k \in stop <=> (k \in 1..Len(r) /\ r[k] = Newline) \/ k = Len(r) \/ k = e
  OBVIOUS
<1>2. stop \subseteq Nat /\ stop # {}
  <2>1. \A k \in stop : k \in Nat
    BY <1>1
  <2>2. e \in stop
    BY <1>1
  <2> QED BY <2>1, <2>2
<1> HIDE DEF stop
<1>3. m \in stop /\ \A y \in stop : m <= y
  BY <1>2, MinIs DEF stop
<1>4. m \in Nat /\ m <= e /\ m <= Len(r)
  BY <1>1, <1>2, <1>3
<1>5. m = Len(r) \/ m = e \/ (m > 0 /\ r[m] = Newline)
  BY <1>1, <1>3
<1>6. ASSUME NEW k \in 1..m-1 PROVE r[k] # Newline
  <2>1. k \in 1..Len(r) /\ ~(m <= k)
    BY <1>4
  <2> QED BY <1>1, <1>3, <2>1
<1> QED BY <1>4, <1>5, <1>6

\* What fgets returns lies right behind pos, ends at the first newline if not
\* before, and is only cut short by the size of the buffer or by the end.
Fetched(got, m, room) ==
  /\ pos + m <= Len(file)
  /\ got = SubSeq(file, pos + 1, pos + m)
  /\ got \in Seq(Chars) /\ Len(got) = m
  /\ m = 0 <=> pos = Len(file)
  /\ \A k \in pos+1..pos+m-1 : file[k] # Newline
  /\ pos + m = Len(file) \/ m = room - 1 \/ (m > 0 /\ file[pos + m] = Newline)

LEMMA FgetsIs ==
  ASSUME file \in Seq(Chars), pos \in 0..Len(file), NEW room \in Nat, room >= 2
  PROVE  \E m \in 0..room-1 : Fetched(Fgets(room), m, room)
<1> DEFINE rest == SubSeq(file, pos + 1, Len(file))
           m == Min({k \in DOMAIN rest : rest[k] = Newline} \cup {Len(rest), room - 1})
<1>0. pos \in Nat /\ Len(file) \in Nat /\ pos <= Len(file) /\ room - 1 \in Nat \ {0}
  OBVIOUS
<1>1. /\ rest \in Seq(Chars) /\ Len(rest) = Len(file) - pos
      /\ \A k \in 1..Len(file)-pos : rest[k] = file[pos + k]
  BY <1>0, Cut
<1>2. Fgets(room) = SubSeq(rest, 1, m)
  BY DEF Fgets
<1> HIDE DEF rest
<1>3. /\ m \in Nat /\ m <= room - 1 /\ m <= Len(rest)
      /\ m = 0 => Len(rest) = 0
      /\ \A k \in 1..m-1 : rest[k] # Newline
      /\ m = Len(rest) \/ m = room - 1 \/ (m > 0 /\ rest[m] = Newline)
  BY <1>0, <1>1, StopIs
<1> HIDE DEF m
<1>4. pos + m \in Nat /\ pos <= pos + m /\ pos + m <= Len(file)
  BY <1>0, <1>1, <1>3
<1>5. /\ SubSeq(file, pos + 1, pos + m) \in Seq(Chars)
      /\ Len(SubSeq(file, pos + 1, pos + m)) = m
      /\ \A k \in 1..m : SubSeq(file, pos + 1, pos + m)[k] = file[pos + k]
  <2>1. PICK q \in Nat : q = pos + m
    BY <1>4
  <2>2. /\ SubSeq(file, pos + 1, q) \in Seq(Chars)
        /\ Len(SubSeq(file, pos + 1, q)) = q - pos
        /\ \A k \in 1..q-pos : SubSeq(file, pos + 1, q)[k] = file[pos + k]
    BY <1>0, <1>4, <2>1, Cut
  <2>3. q - pos = m
    BY <1>0, <1>3, <2>1
  <2> QED BY <2>1, <2>2, <2>3
<1>6. /\ SubSeq(rest, 1, m) \in Seq(Chars) /\ Len(SubSeq(rest, 1, m)) = m
      /\ \A k \in 1..m : SubSeq(rest, 1, m)[k] = rest[k]
  BY <1>1, <1>3
<1>7. SubSeq(rest, 1, m) = SubSeq(file, pos + 1, pos + m)
  <2>1. \A k \in 1..m : rest[k] = file[pos + k]
    BY <1>0, <1>1, <1>3
  <2>2. \A k \in 1..m : SubSeq(rest, 1, m)[k] = SubSeq(file, pos + 1, pos + m)[k]
    BY <1>5, <1>6, <2>1
  <2> QED BY <1>5, <1>6, <2>2, SeqEqual
<1>8. ASSUME NEW k \in pos+1..pos+m-1 PROVE file[k] # Newline
  <2>1. k - pos \in 1..m-1 /\ k - pos \in 1..Len(file)-pos /\ pos + (k - pos) = k
    BY <1>0, <1>3, <1>4
  <2> QED BY <1>1, <1>3, <2>1
<1>9. pos + m = Len(file) \/ m = room - 1 \/ (m > 0 /\ file[pos + m] = Newline)
  BY <1>0, <1>1, <1>3
<1>10. m = 0 <=> pos = Len(file)
  BY <1>0, <1>1, <1>3
<1>11. m \in 0..room-1
  BY <1>0, <1>3
<1> QED BY <1>2, <1>4, <1>5, <1>7, <1>8, <1>9, <1>10, <1>11 DEF Fetched

-----------------------------------------------------------------------------
(* Where lines end.                                                        *)

\* The n-th line ends at k; nothing ends at the beginning.
EndsAt(n, k) == IF n = 0 THEN k = 0 ELSE k \in NthEnd(n)

NewlinesBefore(k) == {j \in Newlines : j < k}

LEMMA NewlinesAre ==
  ASSUME file \in Seq(Chars)
  PROVE  /\ \A j : j \in Newlines <=> j \in 1..Len(file) /\ file[j] = Newline
         /\ \A k, j : j \in NewlinesBefore(k) <=> j \in Newlines /\ j < k
         /\ \A n, k : k \in NthEnd(n) <=> /\ k \in Newlines \/ k = Len(file)
                                          /\ Cardinality(NewlinesBefore(k)) = n - 1
BY DEF Newlines, NewlinesBefore, NthEnd

LEMMA NewlinesFinite ==
  ASSUME file \in Seq(Chars), NEW k
  PROVE  IsFiniteSet(NewlinesBefore(k)) /\ Cardinality(NewlinesBefore(k)) \in Nat
<1>1. IsFiniteSet(1..Len(file))
  BY FS_Interval
<1>2. NewlinesBefore(k) \subseteq 1..Len(file)
  BY NewlinesAre
<1> QED BY <1>1, <1>2, FS_Subset, FS_CardinalityType

\* Fewer newlines lie in front of an end than of a later one.
LEMMA EndsApart ==
  ASSUME file \in Seq(Chars), NEW p \in Newlines, NEW q \in Nat, p < q
  PROVE  Cardinality(NewlinesBefore(p)) < Cardinality(NewlinesBefore(q))
<1>1. Newlines \subseteq Nat
  BY NewlinesAre
<1>2. (NewlinesBefore(p) \cup {p}) \subseteq NewlinesBefore(q) /\ p \notin NewlinesBefore(p)
  <2>1. \A j \in NewlinesBefore(p) : j \in NewlinesBefore(q)
    BY <1>1, NewlinesAre
  <2>2. p \in NewlinesBefore(q) /\ p \notin NewlinesBefore(p)
    BY <1>1, NewlinesAre
  <2> QED BY <2>1, <2>2
<1>3. /\ IsFiniteSet(NewlinesBefore(p)) /\ Cardinality(NewlinesBefore(p)) \in Nat
      /\ IsFiniteSet(NewlinesBefore(q)) /\ Cardinality(NewlinesBefore(q)) \in Nat
  BY NewlinesFinite
<1>4. Cardinality(NewlinesBefore(p) \cup {p}) = Cardinality(NewlinesBefore(p)) + 1
  BY <1>2, <1>3, FS_AddElement
<1>5. Cardinality(NewlinesBefore(p) \cup {p}) <= Cardinality(NewlinesBefore(q))
  BY <1>2, <1>3, FS_Subset
<1> QED BY <1>3, <1>4, <1>5

LEMMA EndOnce ==
  ASSUME file \in Seq(Chars), NEW n \in Nat, NEW p \in NthEnd(n), NEW q \in NthEnd(n)
  PROVE  p = q
<1>1. ASSUME NEW a \in NthEnd(n), NEW b \in NthEnd(n), a < b PROVE FALSE
  <2>1. a \in Newlines /\ b \in Nat
    BY <1>1, NewlinesAre
  <2>2. Cardinality(NewlinesBefore(a)) < Cardinality(NewlinesBefore(b))
    BY <1>1, <2>1, EndsApart
  <2> QED BY <2>2, NewlinesAre
<1>2. p \in Nat /\ q \in Nat
  BY NewlinesAre
<1>3. ~(p < q) /\ ~(q < p)
  BY <1>1
<1> QED BY <1>2, <1>3

LEMMA EndNext ==
  ASSUME file \in Seq(Chars), NEW n \in Nat, NEW b \in 0..Len(file), EndsAt(n, b),
         NEW p \in b+1..Len(file), \A k \in b+1..p-1 : file[k] # Newline,
         p = Len(file) \/ file[p] = Newline
  PROVE  EndsAt(n + 1, p)
<1>1. p \in Newlines \/ p = Len(file)
  BY NewlinesAre
<1>2. ASSUME NEW j \in NewlinesBefore(p) PROVE j \in 1..b
  <2>1. j \in 1..p-1 /\ file[j] = Newline
    BY NewlinesAre
  <2>2. j \notin b+1..p-1
    BY <2>1
  <2> QED BY <2>1, <2>2
<1>3. Cardinality(NewlinesBefore(p)) = n
  <2>1. CASE n = 0
    <3>1. NewlinesBefore(p) = {}
      BY <1>2, <2>1 DEF EndsAt
    <3> QED BY <2>1, <3>1, FS_EmptySet
  <2>2. CASE n # 0
    <3>1. b \in Newlines /\ Cardinality(NewlinesBefore(b)) = n - 1
      BY <2>2, NewlinesAre DEF EndsAt
    <3>2. \A j : j \in NewlinesBefore(p) <=> j \in NewlinesBefore(b) \/ j = b
      BY <1>2, <3>1, NewlinesAre
    <3>3. NewlinesBefore(p) = NewlinesBefore(b) \cup {b} /\ b \notin NewlinesBefore(b)
      BY <3>2, <3>1, NewlinesAre
    <3>4. Cardinality(NewlinesBefore(p)) = Cardinality(NewlinesBefore(b)) + 1
      BY <3>3, NewlinesFinite, FS_AddElement
    <3> QED BY <3>1, <3>4
  <2> QED BY <2>1, <2>2
<1>4. p \in NthEnd(n + 1)
  BY <1>1, <1>3, NewlinesAre
<1> QED BY <1>4 DEF EndsAt

LEMMA EndMin ==
  ASSUME file \in Seq(Chars), NEW n \in Nat, NEW q \in NthEnd(n)
  PROVE  Min(NthEnd(n)) = q
<1>1. q \in Nat
  BY NewlinesAre
<1>2. \A p : p \in NthEnd(n) <=> p = q
  BY EndOnce
<1>3. NthEnd(n) = {q}
  BY <1>2
<1>4. {q} \subseteq Nat /\ {q} # {}
  BY <1>1
<1> QED BY <1>3, <1>4, MinIs

LEMMA LineBetween ==
  ASSUME file \in Seq(Chars), NEW n \in Nat, NEW b \in 0..Len(file), EndsAt(n, b),
         NEW p \in 0..Len(file), EndsAt(n + 1, p)
  PROVE  NthLine(n + 1) = SubSeq(file, b + 1, p)
<1>1. Min(NthEnd(n + 1)) = p
  BY EndMin DEF EndsAt
<1>2. CASE n = 0
  BY <1>1, <1>2 DEF NthLine, EndsAt
<1>3. CASE n # 0
  <2>1. Min(NthEnd(n)) = b /\ n + 1 # 1 /\ n + 1 - 1 = n
    BY <1>3, EndMin DEF EndsAt
  <2> QED BY <1>1, <2>1 DEF NthLine
<1> QED BY <1>2, <1>3

-----------------------------------------------------------------------------
(* Looking at a string.                                                    *)

\* What lies behind a position, and what lies before one.
LEMMA AfterIs ==
  ASSUME NEW t \in Seq(Chars), NEW k \in Nat, k <= Len(t)
  PROVE  /\ After(t, k) \in Seq(Chars) /\ Len(After(t, k)) = Len(t) - k
         /\ \A i \in 1..Len(t)-k : After(t, k)[i] = t[k + i]
BY Cut DEF After

LEMMA BeforeIs ==
  ASSUME NEW t \in Seq(Chars), NEW k \in 1..Len(t)+1
  PROVE  /\ Before(t, k) \in Seq(Chars) /\ Len(Before(t, k)) = k - 1
         /\ \A i \in 1..k-1 : Before(t, k)[i] = t[i]
<1>1. k - 1 \in Nat /\ 0 <= k - 1 /\ k - 1 <= Len(t)
  OBVIOUS
<1>2. /\ SubSeq(t, 0 + 1, k - 1) \in Seq(Chars) /\ Len(SubSeq(t, 0 + 1, k - 1)) = (k - 1) - 0
      /\ \A i \in 1..(k-1)-0 : SubSeq(t, 0 + 1, k - 1)[i] = t[0 + i]
  BY <1>1, Cut
<1> QED BY <1>2 DEF Before

LEMMA InkIs ==
  ASSUME NEW t \in Seq(Chars)
  PROVE  \A k : k \in Ink(t) <=> k \in 1..Len(t) /\ ~IsSpace(t[k])
BY DEF Ink

\* The string between the first and the last visible character.
Trimmed(t, a, b) ==
  /\ a \in 1..Len(t) /\ b \in 1..Len(t) /\ a <= b
  /\ ~IsSpace(t[a]) /\ ~IsSpace(t[b])
  /\ \A k \in 1..a-1 : IsSpace(t[k])
  /\ \A k \in b+1..Len(t) : IsSpace(t[k])
  /\ Trim(t) = SubSeq(t, a, b)
  /\ Len(Trim(t)) = b - a + 1
  /\ \A k \in 1..b-a+1 : Trim(t)[k] = t[a + k - 1]

LEMMA TrimIs ==
  ASSUME NEW t \in Seq(Chars)
  PROVE  /\ Trim(t) \in Seq(Chars)
         /\ Ink(t) = {} => Trim(t) = <<>>
         /\ Ink(t) # {} => Trimmed(t, Min(Ink(t)), Max(Ink(t)))
<1>1. CASE Ink(t) = {}
  BY <1>1 DEF Trim
<1>2. CASE Ink(t) # {}
  <2>1. Ink(t) \subseteq Nat /\ Ink(t) \subseteq 0..Len(t) /\ Len(t) \in Nat
    BY InkIs
  <2>2. Min(Ink(t)) \in Ink(t) /\ \A y \in Ink(t) : Min(Ink(t)) <= y
    BY <1>2, <2>1, MinIs
  <2>3. Max(Ink(t)) \in Ink(t) /\ \A y \in Ink(t) : y <= Max(Ink(t))
    BY <1>2, <2>1, MaxIs
  <2> DEFINE a == Min(Ink(t))
             b == Max(Ink(t))
  <2>4. a \in 1..Len(t) /\ b \in 1..Len(t) /\ a <= b /\ ~IsSpace(t[a]) /\ ~IsSpace(t[b])
    BY <2>2, <2>3, InkIs
  <2>5. Trim(t) = SubSeq(t, a, b)
    BY <1>2 DEF Trim
  <2>6. (\A k \in 1..a-1 : k \notin Ink(t)) /\ (\A k \in b+1..Len(t) : k \notin Ink(t))
    <3> HIDE DEF a, b
    <3>1. (\A y \in Ink(t) : a <= y) /\ (\A y \in Ink(t) : y <= b)
      BY <2>2, <2>3 DEF a, b
    <3> QED BY <2>1, <2>4, <3>1
  <2> HIDE DEF a, b
  <2>7. (\A k \in 1..a-1 : IsSpace(t[k])) /\ (\A k \in b+1..Len(t) : IsSpace(t[k]))
    BY <2>4, <2>6, InkIs
  <2>8. PICK c \in Nat : c = a - 1
    BY <2>4
  <2>9. /\ SubSeq(t, c + 1, b) \in Seq(Chars) /\ Len(SubSeq(t, c + 1, b)) = b - c
        /\ \A k \in 1..b-c : SubSeq(t, c + 1, b)[k] = t[c + k]
    BY <2>4, <2>8, Cut
  <2>10. c + 1 = a /\ b - c = b - a + 1 /\ \A k \in 1..b-a+1 : c + k = a + k - 1
    BY <2>4, <2>8
  <2>11. /\ Trim(t) \in Seq(Chars) /\ Len(Trim(t)) = b - a + 1
         /\ \A k \in 1..b-a+1 : Trim(t)[k] = t[a + k - 1]
    BY <2>5, <2>9, <2>10
  <2> QED BY <1>2, <2>4, <2>5, <2>7, <2>11 DEF Trimmed, a, b
<1> QED BY <1>1, <1>2

\* Where FindCharsOrComment stops.
Stops(t, chars, k) ==
  t[k] \in chars \/ (k > 1 /\ IsSpace(t[k-1]) /\ t[k] \in Comments)

LEMMA FindIs ==
  ASSUME NEW t \in Seq(Chars), NEW chars
  PROVE  /\ FindCharsOrComment(t, chars) \in 1..Len(t)+1
         /\ FindCharsOrComment(t, chars) <= Len(t) => Stops(t, chars, FindCharsOrComment(t, chars))
         /\ \A k \in 1..FindCharsOrComment(t, chars)-1 : ~Stops(t, chars, k)
<1> DEFINE F == {k \in DOMAIN t : Stops(t, chars, k)} \cup {Len(t) + 1}
<1>1. \A k : k \in F <=> (k \in 1..Len(t) /\ Stops(t, chars, k)) \/ k = Len(t) + 1
  OBVIOUS
<1>2. FindCharsOrComment(t, chars) = Min(F)
  BY DEF FindCharsOrComment, Stops
<1>3. F \subseteq Nat /\ F # {}
  <2>1. \A k \in F : k \in Nat
    BY <1>1
  <2>2. Len(t) + 1 \in F
    BY <1>1
  <2> QED BY <2>1, <2>2
<1> HIDE DEF F
<1>4. Min(F) \in F /\ \A y \in F : Min(F) <= y
  BY <1>3, MinIs
<1> DEFINE m == Min(F)
<1> HIDE DEF m
<1>5. m \in F /\ \A y \in F : m <= y
  BY <1>4 DEF m
<1>6. m \in 1..Len(t)+1 /\ (m <= Len(t) => Stops(t, chars, m))
  BY <1>1, <1>5
<1>7. ASSUME NEW k \in 1..m-1 PROVE ~Stops(t, chars, k)
  <2>1. k \in 1..Len(t) /\ ~(m <= k)
    BY <1>6
  <2> QED BY <1>1, <1>5, <2>1
<1> QED BY <1>2, <1>6, <1>7 DEF m

LEMMA SkipMarkTyped ==
  ASSUME NEW t \in Seq(Chars), NEW n PROVE SkipMark(t, n) \in Seq(Chars)
<1>1. Len(Mark) = 3 /\ Mark = <<"EF", "BB", "BF">>
  BY DEF Mark
<1>2. CASE n = 1 /\ IsPrefix(Mark, t)
  <2>1. 3 <= Len(t)
    BY <1>1, <1>2 DEF IsPrefix
  <2> QED BY <1>1, <1>2, <2>1, AfterIs DEF SkipMark
<1>3. CASE ~(n = 1 /\ IsPrefix(Mark, t))
  BY <1>3 DEF SkipMark
<1> QED BY <1>2, <1>3

LEMMA NameTyped ==
  ASSUME NEW t \in Seq(Chars), Header(t) PROVE Name(t) \in Seq(Chars)
<1>1. 1 <= Len(t)
  BY DEF Header, Char
<1>2. After(t, 1) \in Seq(Chars)
  BY <1>1, AfterIs
<1>3. FindCharsOrComment(After(t, 1), {"]"}) \in 1..Len(After(t, 1))+1
  BY <1>2, FindIs
<1> QED BY <1>2, <1>3, BeforeIs DEF Name

\* As much of the name is in the buffer as fits.
Copied(buf, name, room) ==
  /\ Len(buf) <= Len(name) /\ Len(buf) <= room
  /\ Len(buf) = Len(name) \/ Len(buf) = room
  /\ \A k \in 1..Len(buf) : buf[k] = name[k]

LEMMA MinOfTwo ==
  ASSUME NEW a \in Nat, NEW b \in Nat
  PROVE  Min({a, b}) \in {a, b} /\ Min({a, b}) <= a /\ Min({a, b}) <= b
<1>1. {a, b} \subseteq Nat /\ {a, b} # {}
  OBVIOUS
<1> QED BY <1>1, MinIs

LEMMA StrncpyIs ==
  ASSUME NEW name \in Seq(Chars), section_buf \in Seq(Chars),
         NEW n \in Nat, NEW room \in Nat, n <= room,
         n = 0 \/ (Len(section_buf) = n /\ Copied(section_buf, name, n))
  PROVE  Strncpy(name, n, room) \in Seq(Chars) /\ Copied(Strncpy(name, n, room), name, room)
<1> DEFINE m == Min({Len(name), room})
           head == SubSeq(section_buf, 1, n)
           tail == SubSeq(name, n + 1, m)
<1>1. m \in {Len(name), room} /\ m <= Len(name) /\ m <= room /\ m \in Nat
  BY MinOfTwo
<1>2. head \in Seq(Chars) /\ Len(head) = n /\ \A k \in 1..n : head[k] = name[k]
  <2>1. CASE n = 0
    BY <2>1
  <2>2. CASE Len(section_buf) = n /\ Copied(section_buf, name, n)
    BY <2>2 DEF Copied
  <2> QED BY <2>1, <2>2
<1>3. n <= Len(name)
  BY DEF Copied
<1> HIDE DEF m
<1>4. n <= m
  BY <1>1, <1>3
<1>5. /\ tail \in Seq(Chars) /\ Len(tail) = m - n
      /\ \A k \in 1..m-n : tail[k] = name[n + k]
  BY <1>1, <1>4, Cut
<1>6. Strncpy(name, n, room) = head \o tail
  BY DEF Strncpy, m
<1> HIDE DEF head, tail
<1>7. /\ head \o tail \in Seq(Chars) /\ Len(head \o tail) = m
      /\ \A k \in 1..m : (head \o tail)[k] = IF k <= n THEN head[k] ELSE tail[k - n]
  <2>1. Len(head) + Len(tail) = m
    BY <1>1, <1>2, <1>4, <1>5
  <2>2. /\ head \o tail \in Seq(Chars) /\ Len(head \o tail) = Len(head) + Len(tail)
        /\ \A k \in 1..Len(head)+Len(tail) :
             (head \o tail)[k] = IF k <= Len(head) THEN head[k] ELSE tail[k - Len(head)]
    <3>1. head \in Seq(Chars) /\ tail \in Seq(Chars)
      BY <1>2, <1>5
    <3> QED BY <3>1, ConcatProperties
  <2> QED BY <1>2, <2>1, <2>2
<1>8. ASSUME NEW k \in 1..m PROVE (head \o tail)[k] = name[k]
  <2>1. CASE k <= n
    BY <1>2, <1>7, <2>1
  <2>2. CASE ~(k <= n)
    <3>1. k - n \in 1..m-n /\ n + (k - n) = k
      BY <1>1, <1>4, <2>2
    <3> QED BY <1>5, <1>7, <2>2, <3>1
  <2> QED BY <2>1, <2>2
<1> QED BY <1>1, <1>6, <1>7, <1>8 DEF Copied

-----------------------------------------------------------------------------
(* Lines.                                                                  *)

Typed ==
  /\ file \in Seq(Chars) /\ pos \in 0..Len(file)
  /\ line_size \in Nat \ {0, 1} /\ section_size \in Nat \ {0, 1}
  /\ line_buf \in Seq(Chars) /\ section_buf \in Seq(Chars)
  /\ line_no \in Nat /\ start \in Seq(Chars)
  /\ pc \in {"read", "grow", "line", "section", "done", "no_memory"}

\* Where the line in the buffer begins.
begin == pos - Len(line_buf)

\* The buffer holds what lies between there and pos, which is one line or a part.
Between ==
  /\ Len(line_buf) \in 1..pos
  /\ line_buf = SubSeq(file, begin + 1, pos)
  /\ \A k \in begin+1..pos-1 : file[k] # Newline

AtEnd == pos = Len(file) \/ file[pos] = Newline

\* Line by line, whatever pieces they are read in; the buffers hold.
LineInv ==
  /\ Typed
  /\ Len(line_buf) < line_size
  /\ Len(section_buf) <= section_size
  /\ pc \in {"read", "grow", "line", "done"} => Len(section_buf) < section_size
  /\ pc \in {"read", "done"} => EndsAt(line_no, pos)
  /\ pc = "grow" =>
       Between /\ EndsAt(line_no, begin) /\ (AtEnd \/ Len(line_buf) = line_size - 1)
  /\ pc \in {"line", "section"} =>
       /\ Between /\ line_no > 0 /\ EndsAt(line_no - 1, begin) /\ EndsAt(line_no, pos)
       /\ start = Trim(SkipMark(line_buf, line_no))
  /\ pc = "section" =>
       Header(start) /\ Closed(start) /\ Copied(section_buf, Name(start), section_size)

LEMMA FileKept ==
  ASSUME file' = file
  PROVE  /\ \A n : NthEnd(n)' = NthEnd(n)
         /\ \A n : NthLine(n)' = NthLine(n)
         /\ \A n, k : EndsAt(n, k)' = EndsAt(n, k)
BY DEF EndsAt, NthLine, NthEnd, Newlines

LEMMA InitLineInv == Init => LineInv
<1> SUFFICES ASSUME Init PROVE LineInv
  OBVIOUS
<1>1. file \in Seq(Chars)
  BY FilesAssumption DEF Init, Chars
<1>2. Typed
  BY <1>1, AllocsAssumption DEF Init, Typed
<1> QED BY <1>2 DEF Init, LineInv, Typed, EndsAt

LEMMA ReadLineInv == LineInv /\ Read => LineInv'
<1> SUFFICES ASSUME LineInv, Read PROVE LineInv'
  OBVIOUS
<1>1. Typed /\ line_size \in Nat /\ line_size >= 2
  BY DEF LineInv, Typed
<1>2. PICK m \in 0..line_size-1 : Fetched(Fgets(line_size), m, line_size)
  BY <1>1, FgetsIs DEF Typed
<1>3. m > 0 /\ pos' = pos + m /\ Len(line_buf') = m
  BY <1>2 DEF Read, Fetched
<1>4. Typed' /\ file' = file
  BY <1>1, <1>2, <1>3 DEF Read, Typed, sizes, Fetched
<1>5. begin' = pos
  BY <1>1, <1>3 DEF begin, Typed
<1>6. Between'
  BY <1>1, <1>2, <1>3, <1>5 DEF Between, Read, Typed, Fetched
<1>7. EndsAt(line_no, begin)'
  <2>1. EndsAt(line_no, pos)
    BY DEF LineInv, Read
  <2> QED BY <1>4, <1>5, <2>1, FileKept DEF Read, EndsAt
<1>8. AtEnd' \/ Len(line_buf') = line_size' - 1
  BY <1>2, <1>3 DEF AtEnd, Read, sizes, Fetched
<1>9. /\ Len(line_buf') < line_size'
      /\ Len(section_buf') < section_size' /\ Len(section_buf') <= section_size'
      /\ pc' = "grow"
  BY <1>1, <1>2, <1>3 DEF Read, sizes, LineInv, Fetched
<1> QED BY <1>4, <1>6, <1>7, <1>8, <1>9 DEF LineInv

\* A character of the line in the buffer is one of the file.
LEMMA LastOfLine ==
  ASSUME Typed, Between
  PROVE  line_buf[Len(line_buf)] = file[pos] /\ begin \in Nat /\ pos \in Nat /\ begin < pos
<1>1. begin \in Nat /\ pos \in Nat /\ begin <= pos /\ pos <= Len(file) /\ pos - begin = Len(line_buf)
  BY DEF Typed, Between, begin
<1>2. \A k \in 1..pos-begin : SubSeq(file, begin + 1, pos)[k] = file[begin + k]
  BY <1>1, Cut DEF Typed
<1>3. Len(line_buf) \in 1..pos-begin /\ begin + Len(line_buf) = pos
  BY <1>1 DEF Between
<1> QED BY <1>1, <1>2, <1>3 DEF Between

LEMMA GrowLineInv == LineInv /\ GrowLine => LineInv'
<1> SUFFICES ASSUME LineInv, GrowLine PROVE LineInv'
  OBVIOUS
<1>1. /\ Typed /\ Between /\ EndsAt(line_no, begin)
      /\ line_size \in Nat /\ Len(line_buf) = line_size - 1 /\ line_size >= 2
      /\ line_buf[Len(line_buf)] # Newline
  BY DEF LineInv, Typed, GrowLine, Unfinished
<1>2. begin \in Nat /\ pos \in Nat /\ begin < pos /\ file[pos] # Newline
  BY <1>1, LastOfLine
<1>3. Rest = Fgets(line_size + 1) /\ line_size + 1 \in Nat /\ line_size + 1 >= 2
  <2>1. 2 * line_size - Len(line_buf) = line_size + 1
    BY <1>1
  <2> QED BY <1>1, <2>1 DEF Rest
<1>4. PICK m \in 0..line_size : Fetched(Rest, m, line_size + 1)
  <2>1. line_size + 1 - 1 = line_size
    BY <1>1
  <2>2. file \in Seq(Chars) /\ pos \in 0..Len(file)
    BY <1>1 DEF Typed
  <2>3. PICK r \in Nat : r = line_size + 1 /\ r >= 2 /\ Rest = Fgets(r)
    BY <1>3
  <2>4. PICK m \in 0..r-1 : Fetched(Fgets(r), m, r)
    BY <2>2, <2>3, FgetsIs
  <2>5. m \in 0..line_size /\ r - 1 = line_size + 1 - 1
    BY <1>1, <2>1, <2>3
  <2>6. Fetched(Rest, m, line_size + 1)
    BY <2>3, <2>4, <2>5 DEF Fetched
  <2> QED BY <2>5, <2>6
<1>5. m > 0 /\ pos' = pos + m /\ file' = file /\ line_size' = 2 * line_size
  BY <1>4 DEF GrowLine, Fetched
<1>6. /\ line_buf' \in Seq(Chars) /\ Len(line_buf') = Len(line_buf) + m
      /\ \A k \in 1..Len(line_buf)+m :
           line_buf'[k] = IF k <= Len(line_buf) THEN line_buf[k] ELSE Rest[k - Len(line_buf)]
  <2>1. line_buf \in Seq(Chars) /\ Rest \in Seq(Chars) /\ line_buf' = line_buf \o Rest
    BY <1>1, <1>4 DEF GrowLine, Typed, Fetched
  <2>2. Len(Rest) = m
    BY <1>4 DEF Fetched
  <2> QED BY <2>1, <2>2, ConcatProperties
<1>7. Typed'
  BY <1>1, <1>4, <1>5, <1>6 DEF GrowLine, Typed, Fetched
<1>8. begin' = begin
  <2>1. pos \in Nat /\ Len(line_buf) \in Nat /\ m \in Nat
    BY <1>1, <1>4 DEF Typed
  <2>2. pos' = pos + m /\ Len(line_buf') = Len(line_buf) + m
    BY <1>1, <1>4, <1>5, <1>6
  <2>3. begin = pos - Len(line_buf) /\ begin' = pos' - Len(line_buf')
    BY DEF begin
  <2> QED BY <2>1, <2>2, <2>3
<1>9. Between'
  <2>1. Len(line_buf') \in 1..pos'
    BY <1>1, <1>2, <1>4, <1>5, <1>6 DEF Between
  <2>2. line_buf' = SubSeq(file, begin + 1, pos + m)
    <3> DEFINE L == Len(line_buf)
    <3>1. PICK q \in Nat : q = pos + m
      BY <1>2, <1>4
    <3>2. /\ L \in Nat /\ pos - begin = L /\ q - begin = L + m /\ q - pos = m
          /\ begin <= q /\ begin <= pos /\ pos <= q
          /\ q <= Len(file) /\ pos <= Len(file) /\ file \in Seq(Chars)
      BY <1>1, <1>2, <1>4, <3>1 DEF begin, Typed, Between, Fetched
    <3>c. begin \in Nat /\ q \in Nat
      BY <1>2, <3>1
    <3>3. /\ SubSeq(file, begin + 1, q) \in Seq(Chars) /\ Len(SubSeq(file, begin + 1, q)) = q - begin
          /\ \A k \in 1..q-begin : SubSeq(file, begin + 1, q)[k] = file[begin + k]
      <4> HIDE DEF L
      <4>1. file \in Seq(Chars) /\ begin <= q /\ q <= Len(file)
        BY <3>2
      <4> QED BY <3>c, <4>1, Cut
    <3>4. \A k \in 1..L : line_buf[k] = file[begin + k]
      <4>1. \A k \in 1..pos-begin : SubSeq(file, begin + 1, pos)[k] = file[begin + k]
        BY <1>2, <3>2, Cut
      <4> QED BY <1>1, <3>2, <4>1 DEF Between
    <3>5. \A k \in 1..m : Rest[k] = file[pos + k]
      <4>1. \A k \in 1..q-pos : SubSeq(file, pos + 1, q)[k] = file[pos + k]
        BY <1>2, <3>2, Cut
      <4> QED BY <1>4, <3>1, <3>2, <4>1 DEF Fetched
    <3>6. ASSUME NEW k \in 1..L+m PROVE line_buf'[k] = file[begin + k]
      <4>1. CASE k <= L
        BY <1>6, <3>2, <3>4, <4>1
      <4>2. CASE ~(k <= L)
        <5>1. k - L \in 1..m /\ pos + (k - L) = begin + k
          BY <1>2, <1>4, <3>2, <4>2
        <5> QED BY <1>6, <3>5, <4>2, <5>1
      <4> QED BY <4>1, <4>2
    <3>7. line_buf' = SubSeq(file, begin + 1, q)
      <4> HIDE DEF L
      <4> DEFINE cut == SubSeq(file, begin + 1, q)
      <4>1. /\ cut \in Seq(Chars) /\ Len(cut) = L + m
            /\ \A k \in 1..L+m : cut[k] = file[begin + k]
        BY <3>2, <3>3
      <4>2. line_buf' \in Seq(Chars) /\ Len(line_buf') = L + m
        BY <1>6 DEF L
      <4> HIDE DEF cut
      <4>3. \A k \in 1..Len(line_buf') : line_buf'[k] = cut[k]
        BY <3>6, <4>1, <4>2
      <4>4. line_buf' = cut
        BY <4>1, <4>2, <4>3, SeqEqual
      <4> QED BY <4>4 DEF cut
    <3> QED BY <3>1, <3>7
  <2>3. \A k \in begin+1..pos+m-1 : file[k] # Newline
    <3> SUFFICES ASSUME NEW k \in begin+1..pos+m-1 PROVE file[k] # Newline
      OBVIOUS
    <3>1. k \in begin+1..pos-1 \/ k = pos \/ k \in pos+1..pos+m-1
      BY <1>2, <1>4
    <3> QED BY <1>1, <1>2, <1>4, <3>1 DEF Between, Fetched
  <2>4. pos' = pos + m /\ file' = file /\ begin' = begin
    BY <1>5, <1>8
  <2>5. line_buf' = SubSeq(file', begin' + 1, pos')
    BY <2>2, <2>4
  <2>6. \A k \in begin'+1..pos'-1 : file'[k] # Newline
    <3> SUFFICES ASSUME NEW k \in begin'+1..pos'-1 PROVE file'[k] # Newline
      OBVIOUS
    <3>1. k \in begin+1..pos+m-1
      BY <1>2, <1>4, <2>4
    <3> QED BY <2>3, <2>4, <3>1
  <2> QED BY <2>1, <2>5, <2>6 DEF Between
<1>10. AtEnd' \/ Len(line_buf') = line_size' - 1
  BY <1>1, <1>4, <1>5, <1>6 DEF AtEnd, Fetched
<1>11. EndsAt(line_no, begin)'
  BY <1>1, <1>5, <1>8, FileKept DEF GrowLine, EndsAt
<1>12. /\ Len(line_buf') < line_size'
       /\ Len(section_buf') < section_size' /\ Len(section_buf') <= section_size'
       /\ pc' = "grow"
  BY <1>1, <1>4, <1>5, <1>6 DEF GrowLine, LineInv, Typed
<1> QED BY <1>7, <1>9, <1>10, <1>11, <1>12 DEF LineInv

LEMMA LineReadInv == LineInv /\ LineRead => LineInv'
<1> SUFFICES ASSUME LineInv, LineRead PROVE LineInv'
  OBVIOUS
<1>1. Typed /\ Between /\ EndsAt(line_no, begin) /\ (AtEnd \/ Len(line_buf) = line_size - 1)
  BY DEF LineInv, LineRead
<1>2. begin \in Nat /\ pos \in Nat /\ begin < pos /\ line_buf[Len(line_buf)] = file[pos]
  BY <1>1, LastOfLine
<1>3. AtEnd
  <2>1. CASE Unfinished
    <3>1. PICK r \in Nat : r = 2 * line_size - Len(line_buf) /\ r >= 2 /\ Rest = Fgets(r)
      <4>1. 2 * line_size - Len(line_buf) \in Nat /\ 2 * line_size - Len(line_buf) >= 2
        BY <1>1, <2>1 DEF Typed, Unfinished
      <4> QED BY <4>1 DEF Rest
    <3>2. file \in Seq(Chars) /\ pos \in 0..Len(file)
      BY <1>1 DEF Typed
    <3>3. PICK m \in 0..r-1 : Fetched(Fgets(r), m, r)
      BY <3>1, <3>2, FgetsIs
    <3>4. Len(Fgets(r)) = 0
      BY <2>1, <3>1 DEF LineRead
    <3> QED BY <3>3, <3>4 DEF AtEnd, Fetched
  <2>2. CASE ~Unfinished
    BY <1>1, <1>2, <2>2 DEF Unfinished, AtEnd
  <2> QED BY <2>1, <2>2
<1>4. EndsAt(line_no + 1, pos)
  <2>1. pos \in begin+1..Len(file) /\ begin \in 0..Len(file)
    BY <1>1, <1>2 DEF Typed
  <2> QED BY <1>1, <1>3, <2>1, EndNext DEF Typed, Between, AtEnd
<1>5. SkipMark(line_buf, line_no + 1) \in Seq(Chars)
  BY <1>1, SkipMarkTyped DEF Typed
<1>6. /\ file' = file /\ pos' = pos /\ line_buf' = line_buf /\ line_no' = line_no + 1
      /\ start' = Trim(SkipMark(line_buf, line_no + 1)) /\ pc' = "line"
      /\ section_buf' = section_buf /\ section_size' = section_size
      /\ line_size' \in {line_size, 2 * line_size}
  BY DEF LineRead
<1>7. Typed'
  BY <1>1, <1>5, <1>6, TrimIs DEF Typed
<1>8. begin' = begin
  BY <1>6 DEF begin
<1>9. Between'
  BY <1>1, <1>6 DEF Between, begin
<1>10. EndsAt(line_no - 1, begin)' /\ EndsAt(line_no, pos)'
  <2>1. line_no' - 1 = line_no
    BY <1>1, <1>6 DEF Typed
  <2>2. EndsAt(line_no, pos)'
    BY <1>4, <1>6 DEF EndsAt, NthEnd, Newlines
  <2>3. EndsAt(line_no - 1, begin)'
    BY <1>1, <1>6, <1>8, <2>1 DEF EndsAt, NthEnd, Newlines
  <2> QED BY <2>2, <2>3
<1>11. /\ Len(line_buf') < line_size'
       /\ Len(section_buf') < section_size' /\ Len(section_buf') <= section_size'
       /\ line_no' > 0 /\ start' = Trim(SkipMark(line_buf', line_no'))
  BY <1>1, <1>6 DEF LineInv, Typed, LineRead
<1> QED BY <1>6, <1>7, <1>9, <1>10, <1>11 DEF LineInv

LEMMA LineDone ==
  ASSUME LineInv, pc \in {"line", "section"}, UNCHANGED <<file, pos, sizes, line>>,
         section_buf' \in Seq(Chars), Len(section_buf') < section_size, pc' = "read"
  PROVE  LineInv'
<1>1. Typed'
  BY DEF LineInv, Typed, sizes, line
<1>2. EndsAt(line_no, pos)'
  BY DEF LineInv, line, EndsAt, NthEnd, Newlines
<1>3. Len(line_buf') < line_size' /\ Len(section_buf') < section_size' /\ Len(section_buf') <= section_size'
  BY <1>1 DEF LineInv, sizes, line, Typed
<1> QED BY <1>1, <1>2, <1>3 DEF LineInv

\* The name of the section is being copied.
LEMMA NameInv ==
  ASSUME LineInv, pc \in {"line", "section"}, UNCHANGED <<file, pos, line_size, line>>,
         Header(start), Closed(start),
         section_buf' \in Seq(Chars), section_size' \in Nat \ {0, 1},
         Copied(section_buf', Name(start), section_size'), pc' = "section"
  PROVE  LineInv'
<1>1. Typed'
  BY DEF LineInv, Typed, line
<1>2. EndsAt(line_no, pos)' /\ EndsAt(line_no - 1, begin)'
  BY DEF LineInv, line, EndsAt, NthEnd, Newlines, begin
<1>3. Between'
  BY DEF LineInv, line, Between, begin
<1>4. Len(line_buf') < line_size' /\ Len(section_buf') <= section_size'
  BY DEF LineInv, line, Copied
<1>5. line_no' > 0 /\ start' = Trim(SkipMark(line_buf', line_no')) /\ start' = start
  BY DEF LineInv, line
<1>6. Header(start') /\ Closed(start') /\ Copied(section_buf', Name(start'), section_size')
  BY <1>5
<1> QED BY <1>1, <1>2, <1>3, <1>4, <1>5, <1>6 DEF LineInv

LEMMA NextLineInv == LineInv /\ [Next]_vars => LineInv'
<1> SUFFICES ASSUME LineInv, [Next]_vars PROVE LineInv'
  OBVIOUS
<1>1. CASE Read
  BY <1>1, ReadLineInv
<1>2. CASE EndOfFile
  <2>1. Typed'
    BY <1>2 DEF EndOfFile, LineInv, Typed, sizes, line
  <2>2. EndsAt(line_no, pos)'
    BY <1>2 DEF EndOfFile, LineInv, line, EndsAt, NthEnd, Newlines
  <2> QED BY <1>2, <2>1, <2>2 DEF EndOfFile, LineInv, sizes, line
<1>3. CASE GrowLine
  BY <1>3, GrowLineInv
<1>4. CASE LineRead
  BY <1>4, LineReadInv
<1>5. CASE CommentLine \/ EntryLine \/ NoiseLine
  <2>1. pc = "line" /\ UNCHANGED <<file, pos, sizes, line>> /\ section_buf' = section_buf /\ pc' = "read"
    BY <1>5 DEF CommentLine, EntryLine, NoiseLine, Line
  <2> QED BY <2>1, LineDone DEF LineInv, Typed
<1>6. CASE UnclosedLine
  BY <1>6, LineDone DEF UnclosedLine, Line, LineInv, Typed
<1>7. CASE SectionLine
  <2>1. Name(start) \in Seq(Chars)
    BY <1>7, NameTyped DEF SectionLine, LineInv, Typed
  <2>2. Strncpy(Name(start), 0, section_size) \in Seq(Chars)
        /\ Copied(Strncpy(Name(start), 0, section_size), Name(start), section_size)
    BY <2>1, StrncpyIs DEF LineInv, Typed
  <2>3. /\ pc = "line" /\ UNCHANGED <<file, pos, sizes, line>> /\ pc' = "section"
        /\ Header(start) /\ Closed(start)
        /\ section_buf' = Strncpy(Name(start), 0, section_size)
    BY <1>7 DEF SectionLine, Line
  <2>4. section_size' \in Nat \ {0, 1} /\ Copied(section_buf', Name(start), section_size')
    BY <2>2, <2>3 DEF sizes, LineInv, Typed
  <2> QED BY <2>2, <2>3, <2>4, NameInv DEF sizes
<1>8. CASE GrowSection
  <2>1. /\ pc = "section" /\ Header(start) /\ Closed(start)
        /\ Len(section_buf) = section_size /\ Copied(section_buf, Name(start), section_size)
        /\ section_size \in Nat /\ 2 * section_size \in Nat \ {0, 1} /\ section_size <= 2 * section_size
        /\ section_buf \in Seq(Chars)
    BY <1>8 DEF GrowSection, NameCut, LineInv, Typed
  <2>2. Name(start) \in Seq(Chars)
    BY <2>1, NameTyped DEF LineInv, Typed
  <2>3. Strncpy(Name(start), section_size, 2 * section_size) \in Seq(Chars)
        /\ Copied(Strncpy(Name(start), section_size, 2 * section_size), Name(start), 2 * section_size)
    BY <2>1, <2>2, StrncpyIs
  <2>4. /\ UNCHANGED <<file, pos, line_size, line>> /\ pc' = "section"
        /\ section_size' = 2 * section_size
        /\ section_buf' = Strncpy(Name(start), section_size, 2 * section_size)
    BY <1>8, <2>1 DEF GrowSection
  <2>5. section_buf' \in Seq(Chars) /\ Copied(section_buf', Name(start), section_size')
    BY <2>3, <2>4
  <2> QED BY <2>1, <2>4, <2>5, NameInv
<1>9. CASE SectionRead
  <2>1. Len(section_buf') < section_size
    BY <1>9 DEF SectionRead, NameCut, LineInv, Typed, Copied
  <2> QED BY <1>9, <2>1, LineDone DEF SectionRead, LineInv, Typed
<1>10. CASE NoMemory
  <2>1. Typed'
    BY <1>10 DEF NoMemory, LineInv, Typed, sizes, line
  <2> QED BY <1>10, <2>1 DEF NoMemory, LineInv, sizes, line
<1>11. CASE UNCHANGED vars
  <2>1. Typed' /\ begin' = begin
    BY <1>11 DEF vars, LineInv, Typed, sizes, line, begin
  <2>2. /\ EndsAt(line_no, pos)' <=> EndsAt(line_no, pos)
        /\ EndsAt(line_no, begin)' <=> EndsAt(line_no, begin)
        /\ EndsAt(line_no - 1, begin)' <=> EndsAt(line_no - 1, begin)
    BY <1>11, <2>1 DEF vars, line, EndsAt, NthEnd, Newlines
  <2>3. /\ Between' <=> Between
        /\ AtEnd' <=> AtEnd
    BY <1>11, <2>1 DEF vars, line, Between, AtEnd
  <2> QED BY <1>11, <2>1, <2>2, <2>3 DEF vars, LineInv, sizes, line
<1> QED BY <1>1, <1>2, <1>3, <1>4, <1>5, <1>6, <1>7, <1>8, <1>9, <1>10, <1>11 DEF Next, Go

LEMMA LineInvAlways == Spec => []LineInv
BY InitLineInv, NextLineInv, PTL DEF Spec

\* For files of every length and buffers of every size at first: neither buffer
\* is written behind its end, and each string read from one has its terminator.
THEOREM BuffersAlwaysHold == Spec => []BuffersHold
<1>1. LineInv => BuffersHold
  BY DEF LineInv, BuffersHold
<1> QED BY <1>1, LineInvAlways, PTL

\* What has been read from the beginning of the line is the line.
LEMMA WholeLine ==
  ASSUME LineInv, pc \in {"line", "section"}
  PROVE  line_buf = NthLine(line_no) /\ start = Text(line_no)
<1>1. /\ file \in Seq(Chars) /\ pos \in 0..Len(file)
      /\ Between /\ line_no \in Nat /\ line_no > 0
      /\ EndsAt(line_no - 1, begin) /\ EndsAt(line_no, pos)
      /\ start = Trim(SkipMark(line_buf, line_no))
  BY DEF LineInv, Typed
<1>2. PICK n \in Nat, b \in 0..Len(file) : n = line_no - 1 /\ b = begin /\ line_no = n + 1
  <2>1. Typed
    BY DEF LineInv
  <2>2. begin \in Nat /\ begin < pos
    BY <1>1, <2>1, LastOfLine
  <2>3. begin \in 0..Len(file) /\ line_no - 1 \in Nat /\ line_no = line_no - 1 + 1
    BY <1>1, <2>2
  <2> QED BY <2>3
<1>3. NthLine(n + 1) = SubSeq(file, b + 1, pos)
  BY <1>1, <1>2, LineBetween
<1>4. line_buf = NthLine(line_no)
  BY <1>1, <1>2, <1>3 DEF Between
<1> QED BY <1>1, <1>4 DEF Text

\* For files of every length and in whatever pieces fgets returns them, a line is
\* looked at when it is there as a whole.
THEOREM LinesWhole == Spec => []LineWhole
<1>1. LineInv => LineWhole
  BY WholeLine DEF LineWhole
<1> QED BY <1>1, LineInvAlways, PTL

-----------------------------------------------------------------------------
(* Sections.                                                               *)

NameIfClosed(t) == IF Closed(t) THEN Name(t) ELSE <<>>

\* The section after this many lines.
SectionOf(n) ==
  IF HeadersUpTo(n) = {} THEN <<>> ELSE NameIfClosed(Text(Max(HeadersUpTo(n))))

LEMMA SectionNext ==
  ASSUME NEW n \in Nat
  PROVE  SectionOf(n + 1) = IF Header(Text(n + 1)) THEN NameIfClosed(Text(n + 1)) ELSE SectionOf(n)
<1>1. /\ \A k : k \in HeadersUpTo(n + 1) <=> k \in 1..n+1 /\ Header(Text(k))
      /\ \A k : k \in HeadersUpTo(n) <=> k \in 1..n /\ Header(Text(k))
  BY DEF HeadersUpTo
<1>2. CASE Header(Text(n + 1))
  <2>1. n + 1 \in HeadersUpTo(n + 1)
    BY <1>1, <1>2
  <2>2. HeadersUpTo(n + 1) \subseteq 0..n+1 /\ n + 1 \in Nat /\ HeadersUpTo(n + 1) # {}
    BY <1>1, <2>1
  <2>3. Max(HeadersUpTo(n + 1)) \in HeadersUpTo(n + 1) /\ n + 1 <= Max(HeadersUpTo(n + 1))
    BY <2>1, <2>2, MaxIs
  <2>4. Max(HeadersUpTo(n + 1)) = n + 1
    BY <2>2, <2>3
  <2> QED BY <1>2, <2>2, <2>4 DEF SectionOf
<1>3. CASE ~Header(Text(n + 1))
  <2>1. \A k : k \in HeadersUpTo(n + 1) <=> k \in HeadersUpTo(n)
    <3> SUFFICES ASSUME NEW k PROVE k \in HeadersUpTo(n + 1) <=> k \in HeadersUpTo(n)
      OBVIOUS
    <3>1. k \in 1..n+1 <=> k \in 1..n \/ k = n + 1
      OBVIOUS
    <3> QED BY <1>1, <1>3, <3>1
  <2>2. HeadersUpTo(n + 1) = HeadersUpTo(n)
    BY <2>1
  <2> QED BY <1>3, <2>2 DEF SectionOf
<1> QED BY <1>2, <1>3

\* Between lines it is the section of all lines so far, in a line that of those
\* before.
SectionInv ==
  /\ LineInv
  /\ \A n \in Nat :
       /\ pc \in {"read", "grow", "done"} /\ line_no = n => section_buf = SectionOf(n)
       /\ pc = "line" /\ line_no = n + 1 => section_buf = SectionOf(n)

LEMMA SectionsKept ==
  ASSUME file' = file
  PROVE  /\ \A n : Text(n)' = Text(n)
         /\ \A n : SectionOf(n)' = SectionOf(n)
<1>1. \A n : Text(n)' = Text(n)
  BY FileKept DEF Text
<1>2. \A n : HeadersUpTo(n)' = HeadersUpTo(n)
  BY <1>1 DEF HeadersUpTo
<1> QED BY <1>1, <1>2 DEF SectionOf

LEMMA InitSectionInv == Init => SectionInv
<1> SUFFICES ASSUME Init PROVE SectionInv
  OBVIOUS
<1>1. HeadersUpTo(0) = {}
  BY DEF HeadersUpTo
<1>2. SectionOf(0) = <<>>
  BY <1>1 DEF SectionOf
<1>3. \A n \in Nat : n + 1 # 0
  OBVIOUS
<1> QED BY InitLineInv, <1>2, <1>3 DEF Init, SectionInv

LEMMA NextSectionInv == SectionInv /\ [Next]_vars => SectionInv'
<1> SUFFICES ASSUME SectionInv, [Next]_vars PROVE SectionInv'
  OBVIOUS
<1>0. LineInv /\ LineInv' /\ line_no \in Nat
  BY NextLineInv DEF SectionInv, LineInv, Typed
<1>1. file' = file
  BY DEF Next, Go, Read, EndOfFile, GrowLine, LineRead, CommentLine, SectionLine, GrowSection,
         SectionRead, UnclosedLine, EntryLine, NoiseLine, NoMemory, Line, vars
<1> SUFFICES ASSUME NEW n \in Nat
             PROVE  /\ pc' \in {"read", "grow", "done"} /\ line_no' = n => section_buf' = SectionOf(n)
                    /\ pc' = "line" /\ line_no' = n + 1 => section_buf' = SectionOf(n)
  BY <1>0, <1>1, SectionsKept DEF SectionInv
<1>2. CASE Read \/ EndOfFile \/ GrowLine
  BY <1>2 DEF SectionInv, Read, EndOfFile, GrowLine, line
<1>3. CASE LineRead
  BY <1>0, <1>3 DEF SectionInv, LineRead
<1>4. ASSUME pc = "line", line_no = n
      PROVE  /\ start = Text(n)
             /\ \/ Header(start) /\ SectionOf(n) = NameIfClosed(start)
                \/ ~Header(start) /\ SectionOf(n) = section_buf
  <2>1. start = Text(n) /\ line_no > 0
    BY <1>0, <1>4, WholeLine DEF LineInv
  <2>2. PICK k \in Nat : k = n - 1 /\ n = k + 1
    BY <1>0, <1>4, <2>1
  <2>3. section_buf = SectionOf(k)
    BY <1>4, <2>2 DEF SectionInv
  <2>4. SectionOf(n) = IF Header(Text(n)) THEN NameIfClosed(Text(n)) ELSE SectionOf(k)
    BY <2>2, SectionNext
  <2> QED BY <2>1, <2>3, <2>4
<1>5. CASE CommentLine \/ EntryLine \/ NoiseLine
  <2>1. pc = "line" /\ line_no' = line_no /\ section_buf' = section_buf /\ pc' = "read"
    BY <1>5 DEF CommentLine, EntryLine, NoiseLine, Line, line
  <2>2. ~Header(start)
    BY <1>5 DEF CommentLine, EntryLine, NoiseLine, Header, Entry, Comments
  <2> QED BY <1>4, <2>1, <2>2
<1>6. CASE UnclosedLine
  BY <1>4, <1>6 DEF UnclosedLine, Line, line, NameIfClosed
<1>7. CASE SectionLine \/ GrowSection \/ NoMemory
  <2>1. pc' \in {"section", "no_memory"}
    BY <1>7 DEF SectionLine, GrowSection, NoMemory
  <2> QED BY <2>1
<1>8. CASE SectionRead
  <2>1. /\ pc = "section" /\ pc' = "read" /\ line_no' = line_no /\ section_buf' = section_buf
        /\ Len(section_buf) # section_size
    BY <1>8 DEF SectionRead, NameCut, line
  <2>2. /\ Header(start) /\ Closed(start) /\ Copied(section_buf, Name(start), section_size)
        /\ section_buf \in Seq(Chars) /\ start \in Seq(Chars)
    BY <1>0, <2>1 DEF LineInv, Typed
  <2>3. section_buf = Name(start)
    <3>1. Name(start) \in Seq(Chars) /\ Len(section_buf) = Len(Name(start))
          /\ \A k \in 1..Len(section_buf) : section_buf[k] = Name(start)[k]
      BY <2>1, <2>2, NameTyped DEF Copied
    <3> QED BY <2>2, <3>1, SeqEqual
  <2>4. start = Text(line_no) /\ line_no > 0
    BY <1>0, <2>1, WholeLine DEF LineInv
  <2>5. ASSUME line_no = n PROVE section_buf = SectionOf(n)
    <3>1. PICK k \in Nat : n = k + 1
      <4>1. n - 1 \in Nat /\ n = n - 1 + 1
        BY <2>4, <2>5
      <4> QED BY <4>1
    <3>2. SectionOf(n) = NameIfClosed(start)
      BY <2>2, <2>4, <2>5, <3>1, SectionNext
    <3> QED BY <2>2, <2>3, <3>2 DEF NameIfClosed
  <2> QED BY <2>1, <2>5
<1>9. CASE UNCHANGED vars
  BY <1>9 DEF vars, SectionInv, line
<1> QED BY <1>2, <1>3, <1>5, <1>6, <1>7, <1>8, <1>9 DEF Next, Go

\* For names, files and buffers of every length: between lines the section buffer
\* holds the whole name of the last header, or nothing if that was not closed.
THEOREM SectionsWhole == Spec => []SectionWhole
<1>1. SectionInv => SectionWhole
  <2> SUFFICES ASSUME SectionInv PROVE SectionWhole
    OBVIOUS
  <2>1. pc \in {"read", "done"} => section_buf = SectionOf(line_no)
    BY DEF SectionInv, LineInv, Typed
  <2> QED BY <2>1 DEF SectionWhole, SectionOf, NameIfClosed
<1>2. Spec => []SectionInv
  BY InitSectionInv, NextSectionInv, PTL DEF Spec
<1> QED BY <1>1, <1>2, PTL

-----------------------------------------------------------------------------
(* What trimming and looking for a comment do to an entry.                 *)

LEMMA TrimTwice ==
  ASSUME NEW t \in Seq(Chars) PROVE Trim(Trim(t)) = Trim(t)
<1> DEFINE u == Trim(t)
<1>1. u \in Seq(Chars)
  BY TrimIs
<1>2. CASE Ink(t) = {}
  <2>1. u = <<>>
    BY <1>2, TrimIs
  <2>2. Ink(u) = {}
    BY <2>1 DEF Ink
  <2> QED BY <2>1, <2>2 DEF Trim
<1>3. CASE Ink(t) # {}
  <2>1. PICK a, b : Trimmed(t, a, b)
    BY <1>3, TrimIs
  <2>2. Len(u) \in Nat \ {0} /\ ~IsSpace(u[1]) /\ ~IsSpace(u[Len(u)])
    BY <2>1 DEF Trimmed
  <2> HIDE DEF u
  <2>3. Ink(u) # {}
    BY <1>1, <2>2, InkIs
  <2>4. PICK c, d : Trimmed(u, c, d)
    BY <1>1, <2>3, TrimIs
  <2>5. c = 1
    BY <2>2, <2>4 DEF Trimmed
  <2>6. d = Len(u)
    BY <2>2, <2>4 DEF Trimmed
  <2>7. Trim(u) = u
    <3>1. Trim(u) = SubSeq(u, 1, Len(u))
      BY <2>4, <2>5, <2>6 DEF Trimmed
    <3> QED BY <1>1, <3>1
  <2> QED BY <2>7 DEF u
<1> QED BY <1>2, <1>3

\* A trimmed string starts with a visible character.
LEMMA TrimmedStart ==
  ASSUME NEW t \in Seq(Chars), t # <<>>, Trim(t) = t
  PROVE  1 \in 1..Len(t) /\ ~IsSpace(t[1])
<1>1. Ink(t) # {}
  BY TrimIs
<1>2. PICK a, b : Trimmed(t, a, b)
  BY <1>1, TrimIs
<1>3. Len(t) >= 1
  BY <1>2 DEF Trimmed
<1>4. t[1] = t[a]
  BY <1>2, <1>3 DEF Trimmed
<1> QED BY <1>2, <1>3, <1>4 DEF Trimmed

LEMMA BlankIs ==
  ASSUME NEW t \in Seq(Chars), NEW a \in Nat, NEW b \in Nat, a <= b, b <= Len(t),
         \A k \in a+1..b : IsSpace(t[k])
  PROVE  Blank(SubSeq(t, a + 1, b))
<1> DEFINE c == SubSeq(t, a + 1, b)
<1>1. c \in Seq(Chars) /\ Len(c) = b - a /\ \A k \in 1..b-a : c[k] = t[a + k]
  BY Cut
<1> HIDE DEF c
<1>2. \A k \in 1..b-a : IsSpace(c[k])
  <2>1. \A k \in 1..b-a : a + k \in a+1..b
    OBVIOUS
  <2> QED BY <1>1, <2>1
<1>3. Ink(c) = {}
  BY <1>1, <1>2, InkIs
<1> QED BY <1>3 DEF Blank, c

\* A comment is a comment character behind nothing but white space, of which there
\* is some.
LEMMA CommentIs ==
  ASSUME NEW r \in Seq(Chars), NEW j \in 2..Len(r),
         \A k \in 1..j-1 : IsSpace(r[k]), r[j] \in Comments
  PROVE  IsComment(r)
<1>1. ~IsSpace(r[j])
  BY DEF IsSpace, Comments, Newline
<1>2. Ink(r) # {}
  BY <1>1, InkIs
<1>3. PICK a, b : Trimmed(r, a, b)
  BY <1>2, TrimIs
<1>4. a = j
  BY <1>1, <1>3 DEF Trimmed
<1>5. 1 \in DOMAIN Trim(r) /\ Trim(r)[1] = r[j]
  <2>1. 1 \in 1..b-a+1 /\ a + 1 - 1 = a
    BY <1>3 DEF Trimmed
  <2>2. Trim(r) \in Seq(Chars)
    BY TrimIs
  <2> QED BY <1>3, <1>4, <2>1, <2>2 DEF Trimmed
<1>6. Len(r) > 1 /\ IsSpace(r[1])
  OBVIOUS
<1> QED BY <1>5, <1>6 DEF IsComment, Char

LEMMA CommentFound ==
  ASSUME NEW r \in Seq(Chars), IsComment(r)
  PROVE  \E j \in 2..Len(r) : IsSpace(r[j-1]) /\ r[j] \in Comments
<1>1. Len(r) > 1 /\ IsSpace(r[1]) /\ Char(Trim(r), 1) \in Comments
  BY DEF IsComment
<1>2. 1 \in DOMAIN Trim(r) /\ Trim(r)[1] \in Comments
  BY <1>1 DEF Char, Comments
<1>3. Ink(r) # {}
  BY <1>2, TrimIs
<1>4. PICK a, b : Trimmed(r, a, b)
  BY <1>3, TrimIs
<1>5. a \in 2..Len(r)
  BY <1>1, <1>4 DEF Trimmed
<1>6. Trim(r)[1] = r[a]
  <2>1. 1 \in 1..b-a+1 /\ a + 1 - 1 = a
    BY <1>4 DEF Trimmed
  <2> QED BY <1>4, <2>1 DEF Trimmed
<1>7. a - 1 \in 1..a-1
  BY <1>5
<1>8. IsSpace(r[a-1])
  BY <1>4, <1>7 DEF Trimmed
<1> QED BY <1>2, <1>5, <1>6, <1>8

\* What is left of a string when all up to b is taken from it, and there is only
\* white space from there to f, where a comment or the end is.
LEMMA RestIs ==
  ASSUME NEW v \in Seq(Chars), NEW b \in Nat, NEW f \in 1..Len(v)+1, b < f,
         f <= Len(v) => Stops(v, {}, f),
         \A k \in b+1..f-1 : IsSpace(v[k]), b = 0 \/ ~IsSpace(v[b])
  PROVE  Blank(After(v, b)) \/ IsComment(After(v, b))
<1> DEFINE r == After(v, b)
<1>1. r \in Seq(Chars) /\ Len(r) = Len(v) - b /\ \A k \in 1..Len(v)-b : r[k] = v[b + k]
  <2>1. b <= Len(v)
    OBVIOUS
  <2> QED BY <2>1, AfterIs
<1>2. CASE f = Len(v) + 1
  BY <1>2, BlankIs DEF After
<1>3. CASE f # Len(v) + 1
  <2>1. f \in 2..Len(v) /\ IsSpace(v[f-1]) /\ v[f] \in Comments
    BY <1>3 DEF Stops
  <2>2. b # f - 1
    BY <2>1
  <2> HIDE DEF r
  <2>3. PICK j \in 2..Len(r) : j = f - b
    BY <1>1, <2>1, <2>2
  <2>4. \A k \in 1..j : k \in 1..Len(v)-b /\ (k < j => b + k \in b+1..f-1) /\ b + j = f
    BY <2>1, <2>3
  <2>5. \A k \in 1..j-1 : IsSpace(r[k])
    <3> SUFFICES ASSUME NEW k \in 1..j-1 PROVE IsSpace(r[k])
      OBVIOUS
    <3>1. k \in 1..j /\ k < j
      BY <2>3
    <3>2. r[k] = v[b + k] /\ b + k \in b+1..f-1
      BY <1>1, <2>4, <3>1
    <3> QED BY <3>2
  <2>6. r[j] \in Comments
    BY <1>1, <2>1, <2>3, <2>4
  <2> QED BY <1>1, <2>3, <2>5, <2>6, CommentIs DEF r
<1> QED BY <1>2, <1>3

LEMMA NameShape ==
  ASSUME NEW t \in Seq(Chars), t # <<>>, Trim(t) = t, NEW s \in 1..Len(t),
         \A k \in 1..s-1 : t[k] \notin {"=", ":"},
         NEW name, name = Trim(Before(t, s))
  PROVE  /\ name \in Seq(Chars) /\ Len(name) < s
         /\ name = Trim(name)
         /\ \A k \in 1..Len(name) : name[k] \notin {"=", ":"}
         /\ IsPrefix(name, t)
         /\ Blank(SubSeq(t, Len(name) + 1, s - 1))
<1> DEFINE u == Before(t, s)
<1>1. u \in Seq(Chars) /\ Len(u) = s - 1 /\ \A k \in 1..s-1 : u[k] = t[k]
  BY BeforeIs
<1> HIDE DEF u
<1>2. name = Trim(u) /\ name \in Seq(Chars) /\ Trim(name) = name
  BY <1>1, TrimIs, TrimTwice DEF u
<1>3. /\ Len(name) \in Nat /\ Len(name) < s
      /\ \A k \in 1..Len(name) : name[k] = t[k]
      /\ \A k \in Len(name)+1..s-1 : IsSpace(t[k])
  <2>1. CASE s = 1
    <3>1. Ink(u) = {}
      <4>1. Len(u) = 0
        BY <1>1, <2>1
      <4>2. 1..Len(u) = {}
        BY <4>1
      <4>3. \A k \in Ink(u) : k \in 1..Len(u)
        BY <1>1, InkIs
      <4> QED BY <4>2, <4>3
    <3>2. name = <<>>
      BY <1>1, <1>2, <3>1, TrimIs
    <3> QED BY <2>1, <3>2
  <2>2. CASE s # 1
    <3>1. 1 \in 1..Len(u) /\ ~IsSpace(u[1])
      BY <1>1, <2>2, TrimmedStart
    <3>2. Ink(u) # {}
      BY <1>1, <3>1, InkIs
    <3>3. PICK a, b : Trimmed(u, a, b)
      BY <1>1, <3>2, TrimIs
    <3>4. a = 1 /\ b \in 1..s-1
      BY <1>1, <3>1, <3>3 DEF Trimmed
    <3>5. Len(name) = b /\ \A k \in 1..b : name[k] = u[k]
      BY <1>2, <3>3, <3>4 DEF Trimmed
    <3>6. \A k \in b+1..s-1 : IsSpace(u[k])
      BY <1>1, <3>3 DEF Trimmed
    <3> QED BY <1>1, <3>4, <3>5, <3>6
  <2> QED BY <2>1, <2>2
<1>4. IsPrefix(name, t)
  <2> DEFINE c == SubSeq(t, 1, Len(name))
  <2>1. c \in Seq(Chars) /\ Len(c) = Len(name) /\ \A k \in 1..Len(name) : c[k] = t[k]
    BY <1>3
  <2>2. SubSeq(name, 1, Len(name)) = name
    BY <1>2
  <2> HIDE DEF c
  <2>3. name = c
    BY <1>2, <1>3, <2>1, SeqEqual
  <2> QED BY <1>3, <2>2, <2>3 DEF IsPrefix, c
<1>5. Blank(SubSeq(t, Len(name) + 1, s - 1))
  <2>1. PICK a \in Nat, b \in Nat : a = Len(name) /\ b = s - 1
    BY <1>3
  <2>2. a <= b /\ b <= Len(t) /\ \A k \in a+1..b : IsSpace(t[k])
    BY <1>3, <2>1
  <2>3. Blank(SubSeq(t, a + 1, b))
    BY <2>2, BlankIs
  <2> QED BY <2>1, <2>3
<1>6. \A k \in 1..Len(name) : name[k] \notin {"=", ":"}
  BY <1>3
<1> QED BY <1>2, <1>3, <1>4, <1>5, <1>6

\* Between the separator and the end of the line: white space of length a, the
\* value, and what was left out.
LEMMA ValueShape ==
  ASSUME NEW v \in Seq(Chars), NEW value, value = Trim(Before(v, FindCharsOrComment(v, {})))
  PROVE  /\ value \in Seq(Chars) /\ value = Trim(value)
         /\ \A k \in 1..Len(value)-1 : ~IsComment(After(value, k))
         /\ \E a \in Nat :
              /\ a + Len(value) <= Len(v)
              /\ \A k \in 1..a : IsSpace(v[k])
              /\ \A k \in 1..Len(value) : value[k] = v[a + k]
              /\ Blank(After(v, a + Len(value))) \/ IsComment(After(v, a + Len(value)))
<1> DEFINE f == FindCharsOrComment(v, {})
           u == Before(v, f)
<1>1. /\ f \in 1..Len(v)+1
      /\ f <= Len(v) => Stops(v, {}, f)
      /\ \A k \in 1..f-1 : ~Stops(v, {}, k)
  BY FindIs
<1> HIDE DEF f
<1>2. u \in Seq(Chars) /\ Len(u) = f - 1 /\ \A k \in 1..f-1 : u[k] = v[k]
  BY <1>1, BeforeIs
<1> HIDE DEF u
<1>3. value = Trim(u) /\ value \in Seq(Chars) /\ Trim(value) = value
  BY <1>2, TrimIs, TrimTwice DEF u, f
<1>4. \E a \in Nat :
        /\ a + Len(value) <= f - 1
        /\ \A k \in 1..a : IsSpace(v[k])
        /\ \A k \in 1..Len(value) : value[k] = v[a + k]
        /\ Blank(After(v, a + Len(value))) \/ IsComment(After(v, a + Len(value)))
  <2>1. CASE Ink(u) = {}
    <3>1. value = <<>> /\ Len(value) = 0
      BY <1>2, <1>3, <2>1, TrimIs
    <3>2. \A k \in 1..f-1 : IsSpace(v[k])
      BY <1>2, <2>1, InkIs
    <3>3. Blank(After(v, 0)) \/ IsComment(After(v, 0))
      BY <1>1, <3>2, RestIs
    <3> QED BY <1>1, <3>1, <3>3
  <2>2. CASE Ink(u) # {}
    <3>1. PICK c, b : Trimmed(u, c, b)
      BY <1>2, <2>2, TrimIs
    <3>2. c \in 1..f-1 /\ b \in 1..f-1 /\ c <= b /\ ~IsSpace(v[b])
      BY <1>1, <1>2, <3>1 DEF Trimmed
    <3>3. PICK a \in Nat : a = c - 1
      BY <3>2
    <3>4. Len(value) = b - a /\ a + Len(value) = b
      BY <1>3, <3>1, <3>2, <3>3 DEF Trimmed
    <3>5. \A k \in 1..a : IsSpace(v[k])
      BY <1>1, <1>2, <3>1, <3>2, <3>3 DEF Trimmed
    <3>6. ASSUME NEW k \in 1..Len(value) PROVE value[k] = v[a + k]
      <4>1. k \in 1..b-c+1 /\ c + k - 1 = a + k /\ a + k \in 1..f-1
        BY <1>1, <3>2, <3>3, <3>4
      <4>2. value[k] = u[c + k - 1]
        BY <1>3, <3>1, <4>1 DEF Trimmed
      <4> QED BY <1>2, <4>1, <4>2
    <3>7. \A k \in b+1..f-1 : IsSpace(v[k])
      BY <1>1, <1>2, <3>1, <3>2 DEF Trimmed
    <3>8. Blank(After(v, b)) \/ IsComment(After(v, b))
      BY <1>1, <3>2, <3>7, RestIs
    <3> QED BY <1>1, <3>2, <3>4, <3>5, <3>6, <3>8
  <2> QED BY <2>1, <2>2
<1>5. ASSUME NEW k \in 1..Len(value)-1, IsComment(After(value, k)) PROVE FALSE
  <2>1. PICK a \in Nat : /\ a + Len(value) <= f - 1
                         /\ \A i \in 1..Len(value) : value[i] = v[a + i]
    BY <1>4
  <2>2. Len(value) \in Nat /\ k \in Nat /\ k <= Len(value)
    BY <1>3
  <2>3. /\ After(value, k) \in Seq(Chars) /\ Len(After(value, k)) = Len(value) - k
        /\ \A i \in 1..Len(value)-k : After(value, k)[i] = value[k + i]
    BY <1>3, <2>2, AfterIs
  <2>4. PICK j \in 2..Len(value)-k : IsSpace(After(value, k)[j-1]) /\ After(value, k)[j] \in Comments
    BY <1>5, <2>3, CommentFound
  <2>5. j - 1 \in 1..Len(value)-k /\ j \in 1..Len(value)-k
        /\ k + j \in 1..Len(value) /\ k + (j - 1) \in 1..Len(value)
    BY <2>2, <2>4
  <2>6. PICK i \in 1..f-1 : i = a + (k + j) /\ i > 1 /\ i - 1 = a + (k + (j - 1))
    BY <1>1, <2>1, <2>2, <2>5
  <2>7. IsSpace(v[i-1]) /\ v[i] \in Comments
    BY <2>1, <2>3, <2>4, <2>5, <2>6
  <2> QED BY <1>1, <2>6, <2>7 DEF Stops
<1>6. f - 1 <= Len(v)
  BY <1>1
<1> QED BY <1>1, <1>3, <1>4, <1>5, <1>6

\* What EntriesWhole says of one call.
Shape(c, t) ==
  LET n == Len(c.name) IN
  /\ c.name = Trim(c.name) /\ c.value = Trim(c.value)
  /\ \A k \in 1..n : c.name[k] \notin {"=", ":"}
  /\ \A k \in 1..Len(c.value)-1 : ~IsComment(After(c.value, k))
  /\ IsPrefix(c.name, t)
  /\ \E s \in n+1..Len(t), w \in n+1..Len(t) :
       /\ t[s] \in {"=", ":"} /\ s <= w
       /\ Blank(SubSeq(t, n + 1, s - 1)) /\ Blank(SubSeq(t, s + 1, w))
       /\ IsPrefix(c.value, After(t, w))
       /\ LET rest == After(t, w + Len(c.value)) IN Blank(rest) \/ IsComment(rest)

LEMMA EntryShape ==
  ASSUME NEW t \in Seq(Chars), Trim(t) = t, Entry(t), IsPair(t),
         NEW c, c.name = Trim(Before(t, Separator(t))), c.value = Value(t)
  PROVE  Shape(c, t) /\ c.name \in Seq(Chars) /\ c.value \in Seq(Chars)
<1> DEFINE s == Separator(t)
           v == After(t, s)
           name == c.name
           value == c.value
<1>1. s \in 1..Len(t) /\ t[s] \in {"=", ":"} /\ \A k \in 1..s-1 : t[k] \notin {"=", ":"}
  <2>1. s \in 1..Len(t) /\ t[s] \in {"=", ":"}
    BY DEF IsPair, Char
  <2>2. \A k \in 1..s-1 : ~Stops(t, {"=", ":"}, k)
    BY FindIs DEF Separator
  <2> QED BY <2>1, <2>2 DEF Stops
<1>2. t # <<>>
  BY <1>1
<1>3. /\ v \in Seq(Chars) /\ Len(v) = Len(t) - s /\ \A i \in 1..Len(t)-s : v[i] = t[s + i]
      /\ Len(t) \in Nat
  <2> HIDE DEF s
  <2>1. s \in Nat /\ s <= Len(t)
    BY <1>1
  <2>2. /\ After(t, s) \in Seq(Chars) /\ Len(After(t, s)) = Len(t) - s
        /\ \A i \in 1..Len(t)-s : After(t, s)[i] = t[s + i]
    BY <2>1, AfterIs
  <2>3. Len(t) \in Nat
    OBVIOUS
  <2> QED BY <2>2, <2>3
<1>4. value = Trim(Before(v, FindCharsOrComment(v, {})))
  BY DEF Value
<1>5. name = Trim(Before(t, s))
  OBVIOUS
<1> HIDE DEF s, v, name, value
<1>6. /\ name \in Seq(Chars) /\ Len(name) < s
      /\ name = Trim(name)
      /\ \A k \in 1..Len(name) : name[k] \notin {"=", ":"}
      /\ IsPrefix(name, t)
      /\ Blank(SubSeq(t, Len(name) + 1, s - 1))
  BY <1>1, <1>2, <1>5, NameShape
<1>7. /\ value \in Seq(Chars) /\ value = Trim(value)
      /\ \A k \in 1..Len(value)-1 : ~IsComment(After(value, k))
  BY <1>3, <1>4, ValueShape
<1>8. PICK a \in Nat :
        /\ a + Len(value) <= Len(v)
        /\ \A k \in 1..a : IsSpace(v[k])
        /\ \A k \in 1..Len(value) : value[k] = v[a + k]
        /\ Blank(After(v, a + Len(value))) \/ IsComment(After(v, a + Len(value)))
  BY <1>3, <1>4, ValueShape
<1>9. PICK w \in Nat : w = s + a
  BY <1>1
<1>10. Len(value) \in Nat /\ w + Len(value) <= Len(t) /\ w \in s..Len(t) /\ w - s = a
  BY <1>1, <1>3, <1>7, <1>8, <1>9
<1>11. s \in Len(name)+1..Len(t) /\ w \in Len(name)+1..Len(t) /\ s <= w
  BY <1>1, <1>6, <1>10
<1>12. Blank(SubSeq(t, s + 1, w))
  <2>1. ASSUME NEW k \in s+1..w PROVE IsSpace(t[k])
    <3>1. s \in Nat /\ a \in Nat /\ Len(t) \in Nat /\ w <= Len(t)
      BY <1>1, <1>3, <1>10
    <3>2. k \in Nat /\ s < k /\ k <= s + a /\ k <= Len(t)
      BY <1>9, <3>1
    <3>3. k - s \in 1..a /\ k - s \in 1..Len(t)-s /\ s + (k - s) = k
      BY <3>1, <3>2
    <3> QED BY <1>3, <1>8, <3>3
  <2> QED BY <1>1, <1>10, <2>1, BlankIs
<1>13. IsPrefix(value, After(t, w))
  <2> DEFINE u == After(t, w)
  <2>1. u \in Seq(Chars) /\ Len(u) = Len(t) - w /\ \A i \in 1..Len(t)-w : u[i] = t[w + i]
    BY <1>10, AfterIs
  <2> HIDE DEF u
  <2>2. Len(value) <= Len(u)
    BY <1>1, <1>10, <2>1
  <2>3. ASSUME NEW k \in 1..Len(value) PROVE value[k] = u[k]
    <3>1. k \in 1..Len(t)-w /\ a + k \in 1..Len(t)-s /\ s + (a + k) = w + k
      BY <1>1, <1>8, <1>9, <1>10
    <3> QED BY <1>3, <1>8, <2>1, <3>1
  <2> DEFINE p == SubSeq(u, 1, Len(value))
  <2>4. p \in Seq(Chars) /\ Len(p) = Len(value) /\ \A k \in 1..Len(value) : p[k] = u[k]
    BY <1>10, <2>1, <2>2
  <2>5. SubSeq(value, 1, Len(value)) = value
    BY <1>7
  <2> HIDE DEF p
  <2>6. value = p
    BY <1>7, <2>3, <2>4, SeqEqual
  <2> QED BY <2>2, <2>5, <2>6 DEF IsPrefix, u, p
<1>14. After(t, w + Len(value)) = After(v, a + Len(value))
  <2>1. PICK d \in Nat, e \in Nat : d = a + Len(value) /\ e = w + Len(value) /\ e = s + d
    <3>1. s \in Nat /\ a \in Nat /\ w \in Nat /\ Len(value) \in Nat
      BY <1>1, <1>10
    <3>2. w + Len(value) = s + (a + Len(value))
      BY <1>9, <3>1
    <3> QED BY <3>1, <3>2
  <2>2. d <= Len(v) /\ e <= Len(t)
    BY <1>8, <1>10, <2>1
  <2>3. /\ After(v, d) \in Seq(Chars) /\ Len(After(v, d)) = Len(v) - d
        /\ \A i \in 1..Len(v)-d : After(v, d)[i] = v[d + i]
    BY <1>3, <2>2, AfterIs
  <2>4. /\ After(t, e) \in Seq(Chars) /\ Len(After(t, e)) = Len(t) - e
        /\ \A i \in 1..Len(t)-e : After(t, e)[i] = t[e + i]
    BY <2>2, AfterIs
  <2>5. Len(t) - e = Len(v) - d
    <3>1. Len(v) = Len(t) - s /\ Len(t) \in Int /\ s \in Int /\ e = s + d
      BY <1>1, <1>3, <2>1
    <3> QED BY <3>1
  <2>6. ASSUME NEW i \in 1..Len(t)-e PROVE After(t, e)[i] = After(v, d)[i]
    <3>1. d + i \in 1..Len(t)-s /\ s + (d + i) = e + i
      BY <1>1, <2>1, <2>2
    <3> QED BY <1>3, <2>3, <2>4, <2>5, <3>1
  <2>7. After(t, e) = After(v, d)
    BY <2>3, <2>4, <2>5, <2>6, SeqEqual
  <2> QED BY <2>1, <2>7
<1>15. Shape(c, t)
  <2>1. \E q \in Len(name)+1..Len(t), z \in Len(name)+1..Len(t) :
          /\ t[q] \in {"=", ":"} /\ q <= z
          /\ Blank(SubSeq(t, Len(name) + 1, q - 1)) /\ Blank(SubSeq(t, q + 1, z))
          /\ IsPrefix(value, After(t, z))
          /\ Blank(After(t, z + Len(value))) \/ IsComment(After(t, z + Len(value)))
    BY <1>1, <1>6, <1>8, <1>11, <1>12, <1>13, <1>14
  <2> QED BY <1>6, <1>7, <2>1 DEF Shape, name, value
<1> QED BY <1>6, <1>7, <1>15 DEF name, value

-----------------------------------------------------------------------------
(* Entries.                                                                *)

IsEntry(t) == Entry(t) /\ IsPair(t)
Called(k) == \E i \in DOMAIN calls : calls[i].line_no = k

\* The lines before the one being looked at.
Past(k) == k \in 1..line_no /\ (pc = "line" => k # line_no)

Ordered == \A i, j \in DOMAIN calls : i < j => calls[i].line_no < calls[j].line_no
Shaped == \A i \in DOMAIN calls : \A n \in Nat : calls[i].line_no = n => Shape(calls[i], Text(n))
AllCalled == \A k \in Nat : Past(k) => (IsEntry(Text(k)) <=> Called(k))

Call == [section : Seq(Chars), name : Seq(Chars), value : Seq(Chars), line_no : Nat, good : BOOLEAN]
CallsPast == \A i \in DOMAIN calls : \A n \in Nat : calls[i].line_no = n => Past(n)

EntryInv == calls \in Seq(Call) /\ CallsPast /\ Ordered /\ Shaped /\ AllCalled

LEMMA CallNumbered ==
  ASSUME calls \in Seq(Call) PROVE \A i \in DOMAIN calls : calls[i].line_no \in Nat
<1>1. \A c \in Call : c.line_no \in Nat
  BY DEF Call
<1> QED BY <1>1

LEMMA InitEntryInv == Init => EntryInv
<1> SUFFICES ASSUME Init PROVE EntryInv
  OBVIOUS
<1>1. calls = <<>> /\ \A k \in Nat : ~Past(k)
  BY DEF Init, Past
<1> QED BY <1>1 DEF EntryInv, CallsPast, Ordered, Shaped, AllCalled

\* A step that calls nothing keeps it, if no line is past now that has not been
\* and is an entry.
LEMMA NoCall ==
  ASSUME EntryInv, UNCHANGED <<file, calls>>,
         \A k \in Nat : Past(k) => Past(k)',
         \A k \in Nat : Past(k)' /\ ~Past(k) => ~IsEntry(Text(k))
  PROVE  EntryInv'
<1>1. \A n : Text(n)' = Text(n)
  BY SectionsKept
<1>2. \A i \in DOMAIN calls : calls[i].line_no \in Nat
  BY CallNumbered DEF EntryInv
<1>3. CallsPast'
  BY <1>2 DEF EntryInv, CallsPast
<1>4. Ordered'
  BY DEF EntryInv, Ordered
<1>5. Shaped'
  BY <1>1 DEF EntryInv, Shaped
<1>6. AllCalled'
  <2> SUFFICES ASSUME NEW k \in Nat, Past(k)' PROVE IsEntry(Text(k)) <=> Called(k)
    BY <1>1 DEF AllCalled, Called
  <2>1. CASE Past(k)
    BY <2>1 DEF EntryInv, AllCalled
  <2>2. CASE ~Past(k)
    <3>1. ~IsEntry(Text(k))
      BY <2>2
    <3>2. ~Called(k)
      BY <2>2 DEF Called, EntryInv, CallsPast
    <3> QED BY <3>1, <3>2
  <2> QED BY <2>1, <2>2
<1> QED BY <1>3, <1>4, <1>5, <1>6 DEF EntryInv

LEMMA EntryLineInv == LineInv /\ EntryInv /\ EntryLine => EntryInv'
<1> SUFFICES ASSUME LineInv, EntryInv, EntryLine PROVE EntryInv'
  OBVIOUS
<1>1. PICK good \in BOOLEAN :
        calls' = Append(calls, [section |-> section_buf,
                                name    |-> Trim(Before(start, Separator(start))),
                                value   |-> Value(start),
                                line_no |-> line_no,
                                good    |-> good])
  BY DEF EntryLine
<1> DEFINE c == [section |-> section_buf, name |-> Trim(Before(start, Separator(start))),
                 value |-> Value(start), line_no |-> line_no, good |-> good]
           L == Len(calls)
<1>2. /\ pc = "line" /\ pc' = "read" /\ file' = file /\ line_no' = line_no
      /\ Entry(start) /\ IsPair(start)
  BY DEF EntryLine, Line, line
<1>3. line_no \in Nat /\ line_no > 0 /\ start \in Seq(Chars) /\ section_buf \in Seq(Chars)
  BY <1>2 DEF LineInv, Typed
<1>4. start = Text(line_no) /\ Trim(start) = start
  <2>1. SkipMark(line_buf, line_no) \in Seq(Chars) /\ start = Trim(SkipMark(line_buf, line_no))
    BY <1>2, SkipMarkTyped DEF LineInv, Typed
  <2> QED BY <1>2, <2>1, WholeLine, TrimTwice
<1>5. c.name = Trim(Before(start, Separator(start))) /\ c.value = Value(start) /\ c.line_no = line_no
  OBVIOUS
<1>6. c \in Call
  <2>1. c.name \in Seq(Chars) /\ c.value \in Seq(Chars)
    BY <1>2, <1>3, <1>4, <1>5, EntryShape
  <2> QED BY <1>3, <2>1 DEF Call
<1>7. Shape(c, start)
  BY <1>2, <1>3, <1>4, <1>5, EntryShape
<1>8. calls' = Append(calls, c)
  BY <1>1
<1> HIDE DEF c
<1>9. /\ calls' \in Seq(Call)
      /\ DOMAIN calls' = 1..L+1 /\ DOMAIN calls = 1..L /\ L \in Nat
      /\ calls'[L + 1] = c /\ \A i \in 1..L : calls'[i] = calls[i]
  BY <1>6, <1>8 DEF EntryInv
<1> HIDE DEF L
<1>10. \A i \in 1..L : calls[i].line_no \in Nat /\ calls[i].line_no < line_no
  <2> SUFFICES ASSUME NEW i \in 1..L PROVE calls[i].line_no \in Nat /\ calls[i].line_no < line_no
    OBVIOUS
  <2>1. PICK n \in Nat : n = calls[i].line_no
    BY <1>9, CallNumbered DEF EntryInv
  <2>2. Past(n)
    BY <1>9, <2>1 DEF EntryInv, CallsPast
  <2> QED BY <1>2, <1>3, <2>1, <2>2 DEF Past
<1>11. \A k \in Nat : Past(k)' <=> k \in 1..line_no
  BY <1>2 DEF Past
<1>12. CallsPast'
  <2> SUFFICES ASSUME NEW i \in 1..L+1, NEW n \in Nat, calls'[i].line_no = n PROVE n \in 1..line_no
    BY <1>9, <1>11 DEF CallsPast
  <2>1. CASE i \in 1..L
    <3>1. n = calls[i].line_no
      BY <1>9, <2>1
    <3>2. Past(n)
      BY <1>9, <2>1, <3>1 DEF EntryInv, CallsPast
    <3> QED BY <3>2 DEF Past
  <2>2. CASE i = L + 1
    BY <1>3, <1>5, <1>9, <2>2
  <2> QED BY <1>9, <2>1, <2>2
<1>13. Ordered'
  <2> SUFFICES ASSUME NEW i \in 1..L+1, NEW j \in 1..L+1, i < j
               PROVE  calls'[i].line_no < calls'[j].line_no
    BY <1>9 DEF Ordered
  <2>1. i \in 1..L
    BY <1>9
  <2>2. CASE j \in 1..L
    BY <1>9, <2>1, <2>2 DEF EntryInv, Ordered
  <2>3. CASE j = L + 1
    BY <1>5, <1>9, <1>10, <2>1, <2>3
  <2> QED BY <1>9, <2>2, <2>3
<1>14. \A n : Text(n)' = Text(n)
  BY <1>2, SectionsKept
<1>15. Shaped'
  <2> SUFFICES ASSUME NEW i \in 1..L+1, NEW n \in Nat, calls'[i].line_no = n
               PROVE  Shape(calls'[i], Text(n))
    BY <1>9, <1>14 DEF Shaped
  <2>1. CASE i \in 1..L
    BY <1>9, <2>1 DEF EntryInv, Shaped
  <2>2. CASE i = L + 1
    BY <1>4, <1>5, <1>7, <1>9, <2>2
  <2> QED BY <1>9, <2>1, <2>2
<1>16. AllCalled'
  <2> SUFFICES ASSUME NEW k \in Nat, k \in 1..line_no
               PROVE  IsEntry(Text(k)) <=> \E i \in 1..L+1 : calls'[i].line_no = k
    BY <1>9, <1>11, <1>14 DEF AllCalled, Called
  <2>1. CASE k = line_no
    <3>1. IsEntry(Text(k))
      BY <1>2, <1>4, <2>1 DEF IsEntry
    <3>2. L + 1 \in 1..L+1 /\ calls'[L + 1].line_no = k
      BY <1>5, <1>9, <2>1
    <3> QED BY <3>1, <3>2
  <2>2. CASE k # line_no
    <3>1. IsEntry(Text(k)) <=> \E i \in 1..L : calls[i].line_no = k
      BY <1>9, <2>2 DEF EntryInv, AllCalled, Past, Called
    <3>2. calls'[L + 1].line_no # k
      BY <1>5, <1>9, <2>2
    <3>3. \A i : i \in 1..L+1 <=> i \in 1..L \/ i = L + 1
      BY <1>9
    <3> QED BY <1>9, <3>1, <3>2, <3>3
  <2> QED BY <2>1, <2>2
<1> QED BY <1>9, <1>12, <1>13, <1>15, <1>16 DEF EntryInv

LEMMA NextEntryInv == LineInv /\ EntryInv /\ [Next]_vars => EntryInv'
<1> SUFFICES ASSUME LineInv, EntryInv, [Next]_vars PROVE EntryInv'
  OBVIOUS
<1>1. CASE EntryLine
  BY <1>1, EntryLineInv
<1>2. CASE Read \/ EndOfFile \/ GrowLine \/ GrowSection \/ SectionRead \/ NoMemory \/ UNCHANGED vars
  <2>1. /\ UNCHANGED <<file, calls, line_no>>
        /\ pc' = pc \/ (pc # "line" /\ pc' # "line")
    BY <1>2 DEF Read, EndOfFile, GrowLine, GrowSection, SectionRead, NoMemory, vars, line
  <2>2. \A k \in Nat : Past(k)' <=> Past(k)
    BY <2>1 DEF Past
  <2> QED BY <2>1, <2>2, NoCall
<1>3. CASE LineRead
  <2>1. /\ UNCHANGED <<file, calls>> /\ line_no' = line_no + 1 /\ line_no \in Nat
        /\ pc # "line" /\ pc' = "line"
    BY <1>3 DEF LineRead, LineInv, Typed
  <2>2. \A k \in Nat : Past(k)' <=> Past(k)
    BY <2>1 DEF Past
  <2> QED BY <2>1, <2>2, NoCall
<1>4. CASE CommentLine \/ SectionLine \/ UnclosedLine \/ NoiseLine
  <2>1. UNCHANGED <<file, calls, line_no>> /\ pc = "line" /\ pc' # "line"
    BY <1>4 DEF CommentLine, SectionLine, UnclosedLine, NoiseLine, Line, line
  <2>2. ~IsEntry(start)
    BY <1>4 DEF CommentLine, SectionLine, UnclosedLine, NoiseLine, IsEntry, Entry, Header
  <2>3. start = Text(line_no)
    BY <2>1, WholeLine
  <2>4. \A k \in Nat : Past(k)' <=> Past(k) \/ (k = line_no /\ k \in 1..line_no)
    BY <2>1 DEF Past, LineInv, Typed
  <2> QED BY <2>1, <2>2, <2>3, <2>4, NoCall
<1> QED BY <1>1, <1>2, <1>3, <1>4 DEF Next, Go

\* For lines of every length: the handler is called once for each entry line, in
\* order, with name and value free of comments and white space around them, and
\* nothing else is missing.
THEOREM EntriesArriveWhole == Spec => []EntriesWhole
<1>1. LineInv /\ EntryInv => EntriesWhole
  <2> SUFFICES ASSUME LineInv, EntryInv PROVE EntriesWhole
    OBVIOUS
  <2>1. \A i \in DOMAIN calls : Shape(calls[i], Text(calls[i].line_no))
    BY CallNumbered DEF EntryInv, Shaped
  <2>2. ASSUME pc \in {"read", "done"}, NEW k \in 1..line_no
        PROVE  Entry(Text(k)) /\ IsPair(Text(k)) <=> Called(k)
    BY <2>2 DEF EntryInv, AllCalled, Past, LineInv, Typed, IsEntry
  <2> QED BY <2>1, <2>2 DEF EntryInv, Ordered, EntriesWhole, Shape, Called
<1>2. Spec => []EntryInv
  BY InitEntryInv, NextEntryInv, LineInvAlways, PTL DEF Spec
<1> QED BY <1>1, <1>2, LineInvAlways, PTL
=============================================================================
