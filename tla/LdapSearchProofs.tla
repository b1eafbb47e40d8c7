-------------------------- MODULE LdapSearchProofs --------------------------
(***************************************************************************)
(* Proofs about a search, for templates, addresses and answers of every    *)
(* length: str_replace stays in its blocks and replaces all, filter and    *)
(* base are the filled templates, the array has the values of the answer   *)
(* in order, and what is allocated is freed.                               *)
(***************************************************************************)
EXTENDS LdapSearch, FiniteSets, FiniteSetTheorems, SequenceTheorems, WellFoundedInduction, TLAPS

\* The occurrences strstr finds from position k on.
Hits(s, old, k) == {j \in k..Len(s)-1 : Fill!HitAt(s, old, j)}

\* Both loops see the same occurrences: those counted and those ahead are all
\* there are, then those to be copied are the ones ahead, and the block has the
\* room that the rest of the text takes when they are replaced.
CountInv ==
  call < 4 /\ text # NULL =>
    /\ step = "count" =>
         /\ result = <<>>
         /\ count + Cardinality(Hits(text, Fill!Old, at)) = Cardinality(Hits(text, Fill!Old, 1))
    /\ step = "copy" =>
         /\ count = Cardinality(Hits(text, Fill!Old, at))
         /\ room = Len(result) + (Len(text) + 1 - at) + (Len(Fill!New) - 2) * count + 1

-----------------------------------------------------------------------------
(* Occurrences of a string of two different characters.                    *)

LEMMA HitsFinite ==
  ASSUME NEW s, Len(s) \in Nat, NEW old, NEW k \in Nat \ {0}
  PROVE  IsFiniteSet(Hits(s, old, k)) /\ Cardinality(Hits(s, old, k)) \in Nat
<1>1. IsFiniteSet(k..Len(s)-1)
  BY FS_Interval
<1>2. Hits(s, old, k) \in SUBSET (k..Len(s)-1)
  BY DEF Hits
<1>3. IsFiniteSet(Hits(s, old, k))
  BY <1>1, <1>2, FS_Subset
<1> QED BY <1>3, FS_CardinalityType

LEMMA NoHits ==
  ASSUME NEW s, Len(s) \in Nat, NEW old, NEW k \in Nat \ {0}
  PROVE  Fill!NoHit(s, old, k) <=> Cardinality(Hits(s, old, k)) = 0
<1>1. Fill!NoHit(s, old, k) <=> Hits(s, old, k) = {}
  <2>1. ASSUME NEW j \in k..Len(s), Fill!HitAt(s, old, j) PROVE j \in Hits(s, old, k)
    BY <2>1 DEF Hits, Fill!HitAt
  <2>2. ASSUME NEW j \in Hits(s, old, k) PROVE j \in k..Len(s) /\ Fill!HitAt(s, old, j)
    BY <2>2 DEF Hits
  <2> QED BY <2>1, <2>2, Zenon DEF Fill!NoHit
<1> QED BY <1>1, HitsFinite, FS_EmptySet

\* One occurrence less is ahead behind the one that is found.
LEMMA HitsNext ==
  ASSUME NEW s, Len(s) \in Nat, NEW old, old[1] # old[2], NEW k \in Nat \ {0},
         NEW j \in k..Len(s), Fill!IsNextHit(s, old, k, j)
  PROVE  /\ j + 1 <= Len(s)
         /\ Cardinality(Hits(s, old, k)) = Cardinality(Hits(s, old, j + 2)) + 1
<1>1. j \in 1..Len(s)-1 /\ ~Fill!HitAt(s, old, j + 1)
  BY DEF Fill!IsNextHit, Fill!HitAt
<1>2. \A i \in k..j-1 : ~Fill!HitAt(s, old, i)
  BY DEF Fill!IsNextHit
<1>3. Hits(s, old, k) = Hits(s, old, j + 2) \cup {j}
  <2>1. ASSUME NEW i \in Hits(s, old, k) PROVE i = j \/ i \in Hits(s, old, j + 2)
    BY <2>1, <1>1, <1>2 DEF Hits
  <2>2. j \in Hits(s, old, k)
    BY <1>1 DEF Fill!IsNextHit, Hits
  <2>3. Hits(s, old, j + 2) \subseteq Hits(s, old, k)
    BY <1>1 DEF Hits
  <2> QED BY <2>1, <2>2, <2>3
<1>4. j \notin Hits(s, old, j + 2)
  BY <1>1 DEF Hits
<1>5. IsFiniteSet(Hits(s, old, j + 2))
  BY <1>1, HitsFinite
<1>6. Cardinality(Hits(s, old, j + 2) \cup {j}) = Cardinality(Hits(s, old, j + 2)) + 1
  BY <1>4, <1>5, FS_AddElement
<1> QED BY <1>1, <1>3, <1>6

\* Occurrences do not overlap, so each takes two characters of what is ahead.
LEMMA HitsShort ==
  ASSUME NEW s, Len(s) \in Nat, NEW old, old[1] # old[2], NEW k \in 1..Len(s)+1
  PROVE  2 * Cardinality(Hits(s, old, k)) <= Len(s) + 1 - k
<1> DEFINE A == Hits(s, old, k)
           B == {j + 1 : j \in A}
           f == [j \in A |-> j + 1]
<1>1. IsFiniteSet(A) /\ Cardinality(A) \in Nat
  BY HitsFinite
<1>2. A \subseteq k..Len(s) /\ B \subseteq k..Len(s)
  BY DEF Hits
<1>3. A \cap B = {}
  BY DEF Hits, Fill!HitAt
<1>4. ExistsBijection(A, B)
  <2>1. f \in [A -> B]
    OBVIOUS
  <2>2. \A i, j \in A : f[i] = f[j] => i = j
    BY DEF Hits
  <2>3. \A b \in B : \E j \in A : f[j] = b
    OBVIOUS
  <2> HIDE DEF A, B, f
  <2> QED BY <2>1, <2>2, <2>3 DEF ExistsBijection, Bijection, Injection, Surjection, IsInjective
<1>5. IsFiniteSet(B) /\ Cardinality(B) = Cardinality(A)
  BY <1>1, <1>4, FS_Bijection
<1> HIDE DEF A, B
<1>6. IsFiniteSet(A \cup B) /\ Cardinality(A \cup B) = 2 * Cardinality(A)
  <2>1. /\ IsFiniteSet(A \cup B)
        /\ Cardinality(A \cup B) = Cardinality(A) + Cardinality(B) - Cardinality(A \cap B)
    BY <1>1, <1>5, FS_Union
  <2>2. Cardinality(A \cap B) = 0
    BY <1>3, FS_EmptySet
  <2> QED BY <1>1, <1>5, <2>1, <2>2
<1>7. IsFiniteSet(k..Len(s)) /\ Cardinality(k..Len(s)) = Len(s) + 1 - k
  <2>1. k \in Int /\ Len(s) \in Int /\ k <= Len(s) + 1
    OBVIOUS
  <2>2. /\ IsFiniteSet(k..Len(s))
        /\ Cardinality(k..Len(s)) = IF k > Len(s) THEN 0 ELSE Len(s) - k + 1
    BY <2>1, FS_Interval
  <2> QED BY <2>1, <2>2
<1>8. Cardinality(A \cup B) <= Cardinality(k..Len(s))
  BY <1>2, <1>7, FS_Subset
<1> QED BY <1>6, <1>7, <1>8 DEF A

-----------------------------------------------------------------------------
(* The two strings of a call.                                              *)

\* decompose_mail_address finds a place to cut every address.
LEMMA AtSignExists ==
  ASSUME NEW addr \in Seq(Character)
  PROVE  Fill!AtSign(addr) \in 1..Len(addr)+1
<1> DEFINE Cut(k) == k <= Len(addr) => addr[k] = "@"
           T == {k \in 1..Len(addr)+1 : Cut(k)}
<1>1. Len(addr) \in Nat
  OBVIOUS
<1>2. T \subseteq Nat /\ T # {}
  <2>1. Len(addr) + 1 \in 1..Len(addr)+1 /\ ~(Len(addr) + 1 <= Len(addr))
    BY <1>1
  <2>2. Len(addr) + 1 \in T
    BY <2>1
  <2>3. T \subseteq Nat
    BY <1>1
  <2> QED BY <2>2, <2>3
<1>3. PICK x \in T : \A y \in T : ~(<<y, x>> \in OpToRel(<, Nat))
  <2> HIDE DEF T
  <2> QED BY <1>2, NatLessThanWellFounded, WFMin
<1>4. \A y \in T : ~(y < x)
  BY <1>2, <1>3 DEF OpToRel
<1>5. /\ x \in 1..Len(addr)+1
      /\ x <= Len(addr) => addr[x] = "@"
      /\ \A j \in 1..x-1 : addr[j] # "@"
  BY <1>1, <1>4
<1> QED BY <1>5 DEF Fill!AtSign

LEMMA Parts ==
  ASSUME NEW addr \in Seq(Character)
  PROVE  Fill!LocalPart(addr) \in Seq(Character) /\ Fill!DomainPart(addr) \in Seq(Character)
<1>1. Fill!AtSign(addr) \in 1..Len(addr)+1
  BY AtSignExists
<1>2. \A m \in 1..Len(addr)+2, n \in 0..Len(addr) : SubSeq(addr, m, n) \in Seq(Character)
  BY SubSeqProperties
<1> QED BY <1>1, <1>2 DEF Fill!LocalPart, Fill!DomainPart

LEMMA CallStrings ==
  ASSUME Fill!TypeOK, call < 4
  PROVE  /\ Fill!New \in Seq(Character) /\ Len(Fill!New) \in Nat
         /\ Fill!Old[1] # Fill!Old[2] /\ Len(Fill!Old) = 2
<1>1. call = 1 \/ call = 2 \/ call = 3
  BY DEF Fill!TypeOK
<1>2. Fill!LocalPart(address) \in Seq(Character) /\ Fill!DomainPart(address) \in Seq(Character)
  BY Parts DEF Fill!TypeOK
<1>3. Fill!New \in Seq(Character)
  BY <1>1, <1>2 DEF Fill!New, Fill!TypeOK
<1>4. Fill!Old[1] # Fill!Old[2] /\ Len(Fill!Old) = 2
  BY <1>1 DEF Fill!Old
<1> QED BY <1>3, <1>4
-----------------------------------------------------------------------------
(* The actions.                                                            *)

LEMMA Slices ==
  ASSUME NEW s \in Seq(Character), NEW m \in 1..Len(s)+1, NEW n \in m-1..Len(s)
  PROVE  SubSeq(s, m, n) \in Seq(Character) /\ Len(SubSeq(s, m, n)) = n + 1 - m
<1>1. \A i \in m..n : s[i] \in Character
  BY ElementOfSeq
<1>2. m \in Int /\ n \in Int /\ (m <= n \/ m = n + 1)
  OBVIOUS
<1> QED BY <1>1, <1>2, SubSeqProperties

LEMMA ReturnKeeps ==
  ASSUME Fill!TypeOK, CountInv, call < 4, NEW s \in Seq(Character) \cup {NULL}, Fill!Return(s)
  PROVE  Fill!TypeOK' /\ CountInv'
<1>1. Fill!TypeOK'
  BY DEF Fill!TypeOK, Fill!Return
<1>2. CountInv'
  <2>1. SUFFICES ASSUME text' # NULL
                 PROVE  Cardinality(Hits(text', Fill!Old', 1)) \in Nat
    BY DEF Fill!Return, CountInv
  <2>2. Len(text') \in Nat
    BY <1>1, <2>1 DEF Fill!TypeOK
  <2> QED BY <2>2, HitsFinite
<1> QED BY <1>1, <1>2

\* The loops stay in the same call.
SameCall == UNCHANGED <<address, call, text>>

LEMMA SameStrings == SameCall => Fill!Old' = Fill!Old /\ Fill!New' = Fill!New
BY DEF SameCall, Fill!Old, Fill!New

LEMMA CountTurnKeeps ==
  ASSUME Fill!TypeOK, CountInv, Fill!CountTurn
  PROVE  Fill!TypeOK' /\ CountInv'
<1>1. call < 4 /\ text \in Seq(Character) /\ Len(text) \in Nat /\ at \in Nat \ {0}
  BY DEF Fill!TypeOK, Fill!CountTurn, Fill!Counting
<1>2. Fill!Old[1] # Fill!Old[2] /\ Len(Fill!Old) = 2
  BY <1>1, CallStrings
<1>3. PICK j \in at..Len(text) : Fill!IsNextHit(text, Fill!Old, at, j) /\ at' = j + 2
  BY <1>2 DEF Fill!CountTurn
<1>4. /\ j + 1 <= Len(text)
      /\ Cardinality(Hits(text, Fill!Old, at)) = Cardinality(Hits(text, Fill!Old, j + 2)) + 1
  <2>1. text \in Seq(Character) /\ Len(text) \in Nat /\ at \in Nat \ {0} /\ j \in at..Len(text)
    BY <1>1, <1>3
  <2>2. Fill!IsNextHit(text, Fill!Old, at, j) /\ Fill!Old[1] # Fill!Old[2]
    BY <1>2, <1>3
  <2> QED BY <2>1, <2>2, HitsNext
<1>5. SameCall /\ Fill!Old' = Fill!Old
  BY SameStrings DEF Fill!CountTurn, SameCall
<1>6. Cardinality(Hits(text, Fill!Old, j + 2)) \in Nat
  BY <1>1, <1>3, HitsFinite
<1>7. Fill!TypeOK'
  BY <1>1, <1>3, <1>4 DEF Fill!TypeOK, Fill!CountTurn
<1>8. CountInv'
  <2>1. result = <<>> /\ count + Cardinality(Hits(text, Fill!Old, at)) = Cardinality(Hits(text, Fill!Old, 1))
    BY <1>1 DEF CountInv, Fill!CountTurn, Fill!Counting
  <2>2. /\ step' = "count" /\ result' = result /\ count' = count + 1 /\ count \in Nat
        /\ text' = text
    BY DEF Fill!CountTurn, Fill!Counting, Fill!TypeOK
  <2>3. count + 1 + Cardinality(Hits(text, Fill!Old, j + 2)) = Cardinality(Hits(text, Fill!Old, 1))
    BY <1>4, <1>6, <2>1, <2>2
  <2> QED BY <1>3, <1>5, <2>1, <2>2, <2>3 DEF CountInv
<1> QED BY <1>7, <1>8

LEMMA AllocateKeeps ==
  ASSUME Fill!TypeOK, CountInv, Fill!Allocate
  PROVE  Fill!TypeOK' /\ CountInv'
<1>1. call < 4 /\ text \in Seq(Character) /\ Len(text) \in Nat /\ at \in Nat \ {0} /\ count \in Nat
  BY DEF Fill!TypeOK, Fill!Allocate, Fill!Counting
<1>2. Fill!New \in Seq(Character) /\ Len(Fill!New) \in Nat /\ Len(Fill!Old) = 2 /\ Fill!Old[1] # Fill!Old[2]
  BY <1>1, CallStrings
<1>3. Cardinality(Hits(text, Fill!Old, at)) = 0
  BY <1>1, NoHits DEF Fill!Allocate
<1>4. count = Cardinality(Hits(text, Fill!Old, 1)) /\ result = <<>>
  BY <1>1, <1>3 DEF CountInv, Fill!Allocate, Fill!Counting
<1>5. SameCall /\ Fill!Old' = Fill!Old /\ Fill!New' = Fill!New
  BY SameStrings DEF Fill!Allocate, SameCall
<1>6. 2 * count <= Len(text)
  BY <1>1, <1>2, <1>4, HitsShort
<1>7. room' = Len(text) + (Len(Fill!New) - 2) * count + 1 /\ room' \in Nat
  <2>1. room' = Len(text) + (Len(Fill!New) - 2) * count + 1
    BY <1>2 DEF Fill!Allocate
  <2>2. \A n, c \in Nat : (n - 2) * c \in Int /\ (n - 2) * c >= 0 - 2 * c
    OBVIOUS
  <2>3. (Len(Fill!New) - 2) * count \in Int /\ (Len(Fill!New) - 2) * count >= 0 - 2 * count
    BY <1>1, <1>2, <2>2
  <2> QED BY <1>1, <1>6, <2>1, <2>3
<1>8. Fill!TypeOK'
  BY <1>1, <1>7 DEF Fill!TypeOK, Fill!Allocate
<1>9. CountInv'
  BY <1>1, <1>2, <1>4, <1>5, <1>7 DEF CountInv, Fill!Allocate, SameCall
<1> QED BY <1>8, <1>9

LEMMA CopyTurnKeeps ==
  ASSUME Fill!TypeOK, CountInv, Fill!CopyTurn
  PROVE  Fill!TypeOK' /\ CountInv'
<1>1. /\ call < 4 /\ text \in Seq(Character) /\ Len(text) \in Nat /\ at \in 1..Len(text)+1
      /\ count \in Nat \ {0} /\ result \in Seq(Character) /\ Len(result) \in Nat
  BY DEF Fill!TypeOK, Fill!CopyTurn, Fill!Copying
<1>2. Fill!New \in Seq(Character) /\ Len(Fill!New) \in Nat /\ Fill!Old[1] # Fill!Old[2] /\ Len(Fill!Old) = 2
  BY <1>1, CallStrings
<1>3. PICK j \in at..Len(text) :
        /\ Fill!IsNextHit(text, Fill!Old, at, j) /\ at' = j + 2
        /\ result' = result \o SubSeq(text, at, j - 1) \o Fill!New
  BY <1>2 DEF Fill!CopyTurn
<1>4. /\ j + 1 <= Len(text)
      /\ Cardinality(Hits(text, Fill!Old, at)) = Cardinality(Hits(text, Fill!Old, j + 2)) + 1
  <2>1. text \in Seq(Character) /\ Len(text) \in Nat /\ at \in Nat \ {0} /\ j \in at..Len(text)
    BY <1>1, <1>3
  <2>2. Fill!IsNextHit(text, Fill!Old, at, j) /\ Fill!Old[1] # Fill!Old[2]
    BY <1>2, <1>3
  <2> QED BY <2>1, <2>2, HitsNext
<1>5. SameCall /\ Fill!Old' = Fill!Old /\ Fill!New' = Fill!New
  BY SameStrings DEF Fill!CopyTurn, SameCall
<1>6. Cardinality(Hits(text, Fill!Old, j + 2)) \in Nat
  BY <1>1, <1>3, HitsFinite
<1>7. result' \in Seq(Character) /\ Len(result') = Len(result) + (j - at) + Len(Fill!New)
  <2>1. SubSeq(text, at, j - 1) \in Seq(Character) /\ Len(SubSeq(text, at, j - 1)) = j - at
    BY <1>1, Slices
  <2>2. /\ result \o SubSeq(text, at, j - 1) \in Seq(Character)
        /\ Len(result \o SubSeq(text, at, j - 1)) = Len(result) + (j - at)
    BY <1>1, <2>1, ConcatProperties
  <2>3. /\ (result \o SubSeq(text, at, j - 1)) \o Fill!New \in Seq(Character)
        /\ Len((result \o SubSeq(text, at, j - 1)) \o Fill!New)
             = Len(result) + (j - at) + Len(Fill!New)
    BY <1>2, <2>2, ConcatProperties
  <2> QED BY <1>3, <2>3
<1>8. Fill!TypeOK'
  BY <1>1, <1>3, <1>4, <1>7 DEF Fill!TypeOK, Fill!CopyTurn
<1>9. room = Len(result) + (Len(text) + 1 - at) + (Len(Fill!New) - 2) * count + 1
  BY <1>1 DEF CountInv, Fill!CopyTurn, Fill!Copying
<1>10. room = Len(result') + (Len(text) + 1 - at') + (Len(Fill!New) - 2) * (count - 1) + 1
  <2> DEFINE rest == (Len(Fill!New) - 2) * (count - 1)
             all == (Len(Fill!New) - 2) * count
  <2>1. \A n \in Nat, c \in Nat \ {0} :
          (n - 2) * (c - 1) \in Int /\ (n - 2) * c = (n - 2) * (c - 1) + n - 2
    OBVIOUS
  <2>2. rest \in Int /\ all = rest + Len(Fill!New) - 2
    BY <1>1, <1>2, <2>1
  <2>3. room = Len(result) + (Len(text) + 1 - at) + all + 1
    BY <1>9
  <2> HIDE DEF rest, all
  <2>4. room = Len(result') + (Len(text) + 1 - at') + rest + 1
    <3>1. \A r, l, a, n, k, d \in Int :
            r + (l + 1 - a) + (d + n - 2) + 1 = (r + (k - a) + n) + (l + 1 - (k + 2)) + d + 1
      OBVIOUS
    <3>2. j \in Int /\ at \in Int /\ Len(result) \in Int
      BY <1>1
    <3>3. room = Len(result) + (Len(text) + 1 - at) + (rest + Len(Fill!New) - 2) + 1
      BY <2>2, <2>3
    <3>4. room = (Len(result) + (j - at) + Len(Fill!New)) + (Len(text) + 1 - (j + 2)) + rest + 1
      BY <1>1, <1>2, <2>2, <3>1, <3>2, <3>3
    <3>5. Len(result') = Len(result) + (j - at) + Len(Fill!New) /\ at' = j + 2
      BY <1>3, <1>7
    <3> QED BY <3>4, <3>5
  <2> QED BY <2>4 DEF rest
<1>11. CountInv'
  <2>1. /\ step' = "copy" /\ count' = count - 1 /\ room' = room /\ text' = text
        /\ count = Cardinality(Hits(text, Fill!Old, at))
    BY <1>1 DEF CountInv, Fill!CopyTurn, Fill!Copying
  <2>2. count' = Cardinality(Hits(text, Fill!Old, j + 2))
    BY <1>4, <1>6, <2>1
  <2> QED BY <1>3, <1>5, <1>10, <2>1, <2>2 DEF CountInv
<1> QED BY <1>8, <1>11

LEMMA FillKeeps ==
  ASSUME Fill!TypeOK, CountInv, Fill!Next \/ UNCHANGED filling
  PROVE  Fill!TypeOK' /\ CountInv'
<1>1. CASE Fill!NullOrig
  BY <1>1, ReturnKeeps DEF Fill!NullOrig
<1>2. CASE Fill!CountTurn
  BY <1>2, CountTurnKeeps
<1>3. CASE Fill!Allocate
  BY <1>3, AllocateKeeps
<1>4. CASE Fill!AllocateFails
  BY <1>4, ReturnKeeps DEF Fill!AllocateFails, Fill!Counting
<1>5. CASE Fill!CopyTurn
  BY <1>5, CopyTurnKeeps
<1>6. CASE Fill!CopyTail
  <2>1. call < 4 /\ text \in Seq(Character) /\ at \in 1..Len(text)+1 /\ result \in Seq(Character)
    BY <1>6 DEF Fill!TypeOK, Fill!CopyTail, Fill!Copying
  <2>2. SubSeq(text, at, Len(text)) \in Seq(Character)
    BY <2>1, Slices
  <2>3. result \o SubSeq(text, at, Len(text)) \in Seq(Character)
    BY <2>1, <2>2, ConcatProperties
  <2> QED BY <1>6, <2>1, <2>3, ReturnKeeps DEF Fill!CopyTail
<1>7. CASE UNCHANGED filling
  <2>1. UNCHANGED <<address, call, step, text, at, count, room, result>>
    BY <1>7 DEF filling
  <2>2. Fill!TypeOK'
    BY <2>1 DEF Fill!TypeOK
  <2>3. Fill!Old' = Fill!Old /\ Fill!New' = Fill!New
    BY <2>1 DEF Fill!Old, Fill!New
  <2>4. CountInv'
    BY <2>1, <2>3 DEF CountInv
  <2> QED BY <2>2, <2>4
<1> QED BY <1>1, <1>2, <1>3, <1>4, <1>5, <1>6, <1>7 DEF Fill!Next

-----------------------------------------------------------------------------
(* The buffers of a search.                                                *)

BufferInv == query \in Queries /\ Fill!TypeOK /\ CountInv

LEMMA CallStarts ==
  ASSUME NEW template \in Seq(Character) \cup {NULL}, NEW addr \in Seq(Character),
         Fill!Call(template, addr)
  PROVE  Fill!TypeOK' /\ CountInv'
<1>1. Fill!TypeOK'
  BY DEF Fill!TypeOK, Fill!Call
<1>2. text' # NULL => Cardinality(Hits(text', Fill!Old', 1)) \in Nat
  BY <1>1, HitsFinite DEF Fill!TypeOK
<1> QED BY <1>1, <1>2 DEF CountInv, Fill!Call

LEMMA BufferInvAlways == Spec => []BufferInv
<1>1. Init => BufferInv
  <2> SUFFICES ASSUME Init PROVE BufferInv
    OBVIOUS
  <2>1. /\ query \in Queries
        /\ query.filter \in Seq(Character) \cup {NULL} /\ query.address \in Seq(Character)
    BY QueriesAssumption DEF Init
  <2>2. Fill!TypeOK
    BY <2>1 DEF Init, Fill!TypeOK
  <2>3. text # NULL => Cardinality(Hits(text, Fill!Old, 1)) \in Nat
    BY <2>2, HitsFinite DEF Fill!TypeOK
  <2> QED BY <2>1, <2>2, <2>3 DEF Init, BufferInv, CountInv
<1>2. BufferInv /\ [Next]_vars => BufferInv'
  <2> SUFFICES ASSUME BufferInv, [Next]_vars PROVE BufferInv'
    OBVIOUS
  <2>1. query' = query
    BY DEF Next, vars, ReplacePlaceholders, DecomposeNoMemory, FilterReady, BaseReady,
           SearchFails, Searched, CreateArray, CreateNoMemory, FirstAttribute, GetValues,
           GetValuesFails, PushValue, FreeValues, NextEntry, Collect, Return
  <2>2. CASE FilterReady
    <3>1. query.base \in Seq(Character) \cup {NULL} /\ query.address \in Seq(Character)
      BY QueriesAssumption DEF BufferInv
    <3>2. Fill!Call(query.base, query.address)
      BY <2>2 DEF FilterReady
    <3> QED BY <2>1, <3>1, <3>2, CallStarts DEF BufferInv
  <2>3. CASE ~FilterReady
    <3>1. Fill!Next \/ UNCHANGED filling
      BY <2>3 DEF Next, vars, ReplacePlaceholders, DecomposeNoMemory, BaseReady,
           SearchFails, Searched, CreateArray, CreateNoMemory, FirstAttribute, GetValues,
           GetValuesFails, PushValue, FreeValues, NextEntry, Collect, Return
    <3> QED BY <2>1, <3>1, FillKeeps DEF BufferInv
  <2> QED BY <2>2, <2>3
<1> QED BY <1>1, <1>2, PTL DEF Spec

\* Whatever the template and the address, and whether or not memory runs out,
\* str_replace writes to the block it allocated only, fills it exactly, and finds
\* again each occurrence that it has counted.
THEOREM NothingOverrun == Spec => []WritesInBuffer
<1>1. BufferInv => WritesInBuffer
  <2> SUFFICES ASSUME Fill!TypeOK, CountInv, Fill!Copying
                PROVE  Fill!WritesInBuffer
    BY DEF BufferInv, WritesInBuffer, Fill!WritesInBuffer
  <2>1. /\ call < 4 /\ text \in Seq(Character) /\ Len(text) \in Nat /\ at \in 1..Len(text)+1
        /\ count \in Nat /\ Len(result) \in Nat
    BY DEF Fill!TypeOK, Fill!Copying
  <2>2. Len(Fill!New) \in Nat /\ Fill!Old[1] # Fill!Old[2]
    BY <2>1, CallStrings
  <2>3. /\ count = Cardinality(Hits(text, Fill!Old, at))
        /\ room = Len(result) + (Len(text) + 1 - at) + (Len(Fill!New) - 2) * count + 1
    BY <2>1 DEF CountInv, Fill!Copying, Fill!TypeOK
  <2>4. 2 * count <= Len(text) + 1 - at
    BY <2>1, <2>2, <2>3, HitsShort
  <2>5. \A n, c \in Nat : /\ (n - 2) * c \in Int /\ (n - 2) * c >= 0 - 2 * c
                           /\ c = 0 => (n - 2) * c = 0
    OBVIOUS
  <2> DEFINE all == (Len(Fill!New) - 2) * count
  <2>6. /\ all \in Int /\ all >= 0 - 2 * count
        /\ count = 0 => all = 0
    BY <2>1, <2>2, <2>5
  <2>7. room = Len(result) + (Len(text) + 1 - at) + all + 1
    BY <2>3
  <2> HIDE DEF all
  <2>8. Len(result) + 1 <= room
    BY <2>1, <2>4, <2>6, <2>7
  <2>9. count = 0 => Len(result) + (Len(text) + 1 - at) + 1 = room
    BY <2>1, <2>6, <2>7
  <2>10. count > 0 => ~Fill!NoHit(text, Fill!Old, at)
    BY <2>1, <2>3, NoHits
  <2> QED BY <2>8, <2>9, <2>10 DEF Fill!WritesInBuffer
<1> QED BY <1>1, BufferInvAlways, PTL

-----------------------------------------------------------------------------
(* What a search keeps.                                                    *)

\* What libldap has allocated and the search has not yet freed, by the place the
\* search is at.
Unfreed(r) ==
  IF r = "message" THEN \/ pc \in {"create", "entry", "attribute", "value"}
                        \/ pc \in {"return", "returned"} /\ Answer = <<>>
  ELSE IF r = "ber" THEN pc \in {"attribute", "value"}
  ELSE pc = "value"

HeldInv ==
  /\ query \in Queries
  /\ held \in [Resource -> Int]
  /\ pc # "crashed" =>
       \A r \in {"message", "ber", "attribute", "values"} :
         held[r] = IF Unfreed(r) THEN 1 ELSE 0
  /\ pc \in {"create", "entry", "attribute", "value"} => Answer \notin {Failed, Uncountable}
  /\ pc \in {"entry", "attribute", "value"} => Answer # <<>>
  /\ pc = "returned" => held["filter"] = 0 /\ held["base"] = 0

LEMMA AnswerEmpty ==
  ASSUME query \in Queries, Answer \notin {Failed, Uncountable}
  PROVE  Len(Answer) = 0 <=> Answer = <<>>
<1>1. Answer \in Seq(Seq({NULL} \cup Seq(Strings)))
  BY QueriesAssumption DEF Answer
<1> QED BY <1>1, EmptySeq

LEMMA Acquired ==
  ASSUME held \in [Resource -> Int], NEW R, Acquire(R)
  PROVE  /\ held' \in [Resource -> Int]
         /\ \A r \in Resource : held'[r] = IF r \in R THEN held[r] + 1 ELSE held[r]
BY DEF Acquire

LEMMA Freed ==
  ASSUME held \in [Resource -> Int], NEW R, FreeOf(R)
  PROVE  /\ held' \in [Resource -> Int]
         /\ \A r \in Resource : held'[r] = IF r \in R THEN held[r] - 1 ELSE held[r]
BY DEF FreeOf

LEMMA HeldInvAlways == Spec => []HeldInv
<1>1. Init => HeldInv
  BY DEF Init, HeldInv, Resource, Unfreed
<1>2. HeldInv /\ [Next]_vars => HeldInv'
  <2> SUFFICES ASSUME HeldInv, [Next]_vars PROVE HeldInv'
    OBVIOUS
  <2>1. CASE ReplacePlaceholders \/ DecomposeNoMemory
    BY <2>1 DEF ReplacePlaceholders, DecomposeNoMemory, HeldInv, Unfreed, Answer
  <2>2. CASE FilterReady \/ BaseReady
    <3>1. /\ query' = query /\ pc \in {"filter", "base"} /\ pc' \in {"base", "search"}
          /\ \E R \in SUBSET {"filter", "base"} : Acquire(R)
      BY <2>2 DEF FilterReady, BaseReady
    <3>2. /\ held' \in [Resource -> Int]
          /\ held'["message"] = held["message"] /\ held'["ber"] = held["ber"]
          /\ held'["attribute"] = held["attribute"] /\ held'["values"] = held["values"]
      BY <3>1, Acquired DEF HeldInv, Resource
    <3> QED BY <3>1, <3>2 DEF HeldInv, Unfreed, Answer
  <2>3. CASE SearchFails
    BY <2>3, QueriesAssumption DEF SearchFails, HeldInv, Unfreed, Answer
  <2>4. CASE Searched
    <3>1. query' = query /\ pc = "search" /\ pc' = "create" /\ Answer \notin {Failed, Uncountable}
      BY <2>4 DEF Searched
    <3>2. Acquire({"message"})
      BY <2>4 DEF Searched
    <3>3. /\ held' \in [Resource -> Int]
          /\ held'["message"] = held["message"] + 1 /\ held'["ber"] = held["ber"]
          /\ held'["attribute"] = held["attribute"] /\ held'["values"] = held["values"]
      BY <3>2, Acquired DEF HeldInv, Resource
    <3> QED BY <3>1, <3>3 DEF HeldInv, Unfreed, Answer
  <2>5. CASE CreateArray
    <3>1. query' = query /\ pc = "create" /\ pc' = IF Len(Answer) = 0 THEN "return" ELSE "entry"
      BY <2>5 DEF CreateArray
    <3>2. Acquire({"array"})
      BY <2>5 DEF CreateArray
    <3>3. /\ held' \in [Resource -> Int]
          /\ held'["message"] = held["message"] /\ held'["ber"] = held["ber"]
          /\ held'["attribute"] = held["attribute"] /\ held'["values"] = held["values"]
      BY <3>2, Acquired DEF HeldInv, Resource
    <3> QED BY <3>1, <3>3, AnswerEmpty DEF HeldInv, Unfreed, Answer
  <2>6. CASE CreateNoMemory
    <3>1. /\ query' = query /\ pc = "create" /\ pc' \in {"return", "crashed"}
          /\ Answer = <<>> => held' = held
          /\ Answer # <<>> /\ pc' = "return" => FreeOf({"message"})
          /\ held' = held \/ FreeOf({"message"})
      BY <2>6 DEF CreateNoMemory
    <3>2. held' \in [Resource -> Int]
      BY <3>1, Freed DEF HeldInv
    <3>3. held["message"] = 1 /\ held["ber"] = 0 /\ held["attribute"] = 0 /\ held["values"] = 0
      BY <3>1 DEF HeldInv, Unfreed
    <3>4. CASE pc' = "return" /\ Answer # <<>>
      <4>1. /\ held'["message"] = 0 /\ held'["ber"] = 0
            /\ held'["attribute"] = 0 /\ held'["values"] = 0
        BY <3>1, <3>3, <3>4, Freed DEF HeldInv, Resource
      <4> QED BY <3>1, <3>2, <3>4, <4>1 DEF HeldInv, Unfreed, Answer
    <3>5. CASE pc' = "return" /\ Answer = <<>>
      BY <3>1, <3>2, <3>3, <3>5 DEF HeldInv, Unfreed, Answer
    <3>6. CASE pc' = "crashed"
      BY <3>1, <3>2, <3>6 DEF HeldInv, Unfreed, Answer
    <3> QED BY <3>1, <3>4, <3>5, <3>6
  <2>7. CASE FirstAttribute
    <3>1. query' = query /\ pc = "entry" /\ pc' = "attribute"
      BY <2>7 DEF FirstAttribute
    <3>2. Acquire({"ber"})
      BY <2>7 DEF FirstAttribute
    <3>3. /\ held' \in [Resource -> Int]
          /\ held'["message"] = held["message"] /\ held'["ber"] = held["ber"] + 1
          /\ held'["attribute"] = held["attribute"] /\ held'["values"] = held["values"]
      BY <3>2, Acquired DEF HeldInv, Resource
    <3> QED BY <3>1, <3>3 DEF HeldInv, Unfreed, Answer
  <2>8. CASE GetValues
    <3>1. query' = query /\ pc = "attribute" /\ pc' = "value"
      BY <2>8 DEF GetValues
    <3>2. Acquire({"attribute", "values"})
      BY <2>8 DEF GetValues
    <3>3. /\ held' \in [Resource -> Int]
          /\ held'["message"] = held["message"] /\ held'["ber"] = held["ber"]
          /\ held'["attribute"] = held["attribute"] + 1 /\ held'["values"] = held["values"] + 1
      <4>1. held \in [Resource -> Int]
        BY DEF HeldInv
      <4>2. /\ held' \in [Resource -> Int]
            /\ \A r \in Resource : held'[r] = IF r \in {"attribute", "values"} THEN held[r] + 1 ELSE held[r]
        BY <3>2, <4>1, Acquired
      <4> QED BY <4>2 DEF Resource
    <3> QED BY <3>1, <3>3 DEF HeldInv, Unfreed, Answer
  <2>9. CASE GetValuesFails \/ PushValue
    BY <2>9 DEF GetValuesFails, PushValue, HeldInv, Unfreed, Answer
  <2>10. CASE FreeValues
    <3>1. query' = query /\ pc = "value" /\ pc' = "attribute"
      BY <2>10 DEF FreeValues
    <3>2. FreeOf({"values", "attribute"})
      BY <2>10 DEF FreeValues
    <3>3. /\ held' \in [Resource -> Int]
          /\ held'["message"] = held["message"] /\ held'["ber"] = held["ber"]
          /\ held'["attribute"] = held["attribute"] - 1 /\ held'["values"] = held["values"] - 1
      <4>1. held \in [Resource -> Int]
        BY DEF HeldInv
      <4>2. /\ held' \in [Resource -> Int]
            /\ \A r \in Resource : held'[r] = IF r \in {"attribute", "values"} THEN held[r] - 1 ELSE held[r]
        BY <3>2, <4>1, Freed
      <4> QED BY <4>2 DEF Resource
    <3> QED BY <3>1, <3>3 DEF HeldInv, Unfreed, Answer
  <2>11. CASE NextEntry
    <3>1. query' = query /\ pc = "attribute" /\ pc' = "entry"
      BY <2>11 DEF NextEntry
    <3>2. FreeOf({"ber"})
      BY <2>11 DEF NextEntry
    <3>3. /\ held' \in [Resource -> Int]
          /\ held'["message"] = held["message"] /\ held'["ber"] = held["ber"] - 1
          /\ held'["attribute"] = held["attribute"] /\ held'["values"] = held["values"]
      BY <3>2, Freed DEF HeldInv, Resource
    <3> QED BY <3>1, <3>3 DEF HeldInv, Unfreed, Answer
  <2>12. CASE Collect
    <3>1. query' = query /\ pc = "entry" /\ pc' = "return"
      BY <2>12 DEF Collect
    <3>2. FreeOf({"message"})
      BY <2>12 DEF Collect
    <3>3. /\ held' \in [Resource -> Int]
          /\ held'["message"] = held["message"] - 1 /\ held'["ber"] = held["ber"]
          /\ held'["attribute"] = held["attribute"] /\ held'["values"] = held["values"]
      BY <3>2, Freed DEF HeldInv, Resource
    <3> QED BY <3>1, <3>3 DEF HeldInv, Unfreed, Answer
  <2>13. CASE Return
    BY <2>13 DEF Return, HeldInv, Unfreed, Answer, Resource
  <2>14. CASE UNCHANGED vars
    BY <2>14 DEF vars, HeldInv, Unfreed, Answer
  <2> QED BY <2>1, <2>2, <2>3, <2>4, <2>5, <2>6, <2>7, <2>8, <2>9, <2>10, <2>11, <2>12, <2>13,
             <2>14 DEF Next
<1> QED BY <1>1, <1>2, PTL DEF Spec

\* Whatever the directory answers and wherever memory runs out, a search that
\* returns has freed all it got but the array, and the message of an answer
\* without entries.
THEOREM ReleasesAll == Spec => []Releases
<1>1. HeldInv => Releases
  BY DEF HeldInv, Unfreed, Releases, Resource
<1> QED BY <1>1, HeldInvAlways, PTL

-----------------------------------------------------------------------------
(* The types, with the string array as StringArrayProofs has it.           *)

AP == INSTANCE StringArrayProofs WITH room <- block, Capacities <- Nat

\* A resource is allocated at most once, what the search itself allocates from
\* the place on where it does, and the loops are within the answer.
ShapeInv ==
  /\ pc \in {"filter", "base", "search", "create", "entry", "attribute", "value",
             "return", "returned", "crashed"}
  /\ filter \in Seq(Character) \cup {NULL} /\ base \in Seq(Character) \cup {NULL}
  /\ entry \in Nat \ {0} /\ attr \in Nat \ {0} /\ val \in Nat \ {0}
  /\ held \in [Resource -> {0, 1}]
  /\ pc = "filter" => held["filter"] = 0
  /\ pc \in {"filter", "base"} => held["base"] = 0
  /\ pc \in {"filter", "base", "search", "create"} => held["array"] = 0
  /\ pc \in {"entry", "attribute", "value"} => held["array"] = 1
  /\ pc \in {"attribute", "value"} => entry \in 1..Len(Answer)
  /\ pc = "value" => attr \in 1..Len(Answer[entry]) /\ Answer[entry][attr] # NULL
  /\ lost \in BOOLEAN
  /\ held["array"] = 1 => Arr!TypeOK /\ AP!Bounded

LEMMA AnswerTyped ==
  ASSUME query \in Queries, Answer \notin {Failed, Uncountable}
  PROVE  /\ Answer \in Seq(Seq({NULL} \cup Seq(Strings)))
         /\ Len(Answer) \in Nat
         /\ \A e \in 1..Len(Answer) :
              /\ Answer[e] \in Seq({NULL} \cup Seq(Strings))
              /\ Len(Answer[e]) \in Nat
              /\ \A a \in 1..Len(Answer[e]) :
                   Answer[e][a] # NULL =>
                     /\ Answer[e][a] \in Seq(Strings)
                     /\ Len(Answer[e][a]) \in Nat
                     /\ \A v \in 1..Len(Answer[e][a]) : Answer[e][a][v] \in Strings
<1>1. Answer \in Seq(Seq({NULL} \cup Seq(Strings)))
  BY QueriesAssumption DEF Answer
<1>2. ASSUME NEW e \in 1..Len(Answer)
      PROVE  Answer[e] \in Seq({NULL} \cup Seq(Strings)) /\ Len(Answer[e]) \in Nat
  BY <1>1, ElementOfSeq
<1>3. ASSUME NEW e \in 1..Len(Answer), NEW a \in 1..Len(Answer[e]), Answer[e][a] # NULL
      PROVE  /\ Answer[e][a] \in Seq(Strings)
             /\ Len(Answer[e][a]) \in Nat
             /\ \A v \in 1..Len(Answer[e][a]) : Answer[e][a][v] \in Strings
  <2>1. Answer[e][a] \in {NULL} \cup Seq(Strings)
    BY <1>2, ElementOfSeq
  <2> QED BY <1>3, <2>1, ElementOfSeq
<1> QED BY <1>1, <1>2, <1>3

\* The array of a search keeps its type, as every string array does.
LEMMA ArrayKeeps ==
  ASSUME Arr!TypeOK, AP!Bounded, (\E s \in Strings : Arr!Push(s)) \/ Arr!PushNoMemory
  PROVE  Arr!TypeOK' /\ AP!Bounded'
<1>1. AP!StringsAssumption /\ AP!FailuresAssumption /\ AP!SizesAssumption
  BY ArrayAssumption DEF Arr!StringsAssumption, Arr!FailuresAssumption, AP!StringsAssumption,
     AP!FailuresAssumption, AP!SizesAssumption
<1>2. Arr!TypeOK <=> AP!TypeOK
  BY DEF Arr!TypeOK, Arr!Slot, AP!TypeOK, AP!Slot
<1>3. Arr!TypeOK' <=> AP!TypeOK'
  BY DEF Arr!TypeOK, Arr!Slot, AP!TypeOK, AP!Slot
<1>4. AP!Next
  BY DEF Arr!Push, Arr!PushNoMemory, Arr!Full, Arr!NewCapacity, Arr!NewRoom, Arr!Written,
     AP!Push, AP!PushNoMemory, AP!Full, AP!NewCapacity, AP!NewRoom, AP!Written, AP!Next
<1>5. AP!TypeOK /\ AP!Bounded => AP!TypeOK' /\ AP!Bounded'
  BY <1>1, <1>4, AP!TypeInductive, AP!BoundedInductive
<1> QED BY <1>2, <1>3, <1>5

\* Between the pushes nothing touches the array.
LEMMA ArrayStill == UNCHANGED array => Arr!TypeOK' = Arr!TypeOK /\ AP!Bounded' = AP!Bounded
BY DEF array, Arr!TypeOK, AP!Bounded

LEMMA ShapeInvAlways == Spec => []ShapeInv
<1>1. Init => ShapeInv
  <2> SUFFICES ASSUME Init PROVE ShapeInv
    OBVIOUS
  <2>1. /\ held = [r \in Resource |-> 0] /\ pc = "filter" /\ filter = NULL /\ base = NULL
        /\ entry = 1 /\ attr = 1 /\ val = 1 /\ lost = FALSE
    BY DEF Init
  <2>2. held \in [Resource -> {0, 1}] /\ held["filter"] = 0 /\ held["base"] = 0 /\ held["array"] = 0
    BY <2>1 DEF Resource
  <2>3. filter \in Seq(Character) \cup {NULL} /\ base \in Seq(Character) \cup {NULL}
    BY <2>1
  <2>4. pc = "filter" /\ entry \in Nat \ {0} /\ attr \in Nat \ {0} /\ val \in Nat \ {0}
    BY <2>1
  <2>5. held["array"] # 1
    BY <2>2
  <2>6. lost \in BOOLEAN
    BY <2>1, Zenon
  <2> QED BY <2>2, <2>3, <2>4, <2>5, <2>6 DEF ShapeInv
<1>2. ShapeInv /\ BufferInv /\ HeldInv /\ [Next]_vars => ShapeInv'
  <2> SUFFICES ASSUME ShapeInv, BufferInv, HeldInv, [Next]_vars PROVE ShapeInv'
    OBVIOUS
  <2>a. query \in Queries /\ (pc \in {"create", "entry", "attribute", "value"} =>
                                 Answer \notin {Failed, Uncountable})
    BY DEF HeldInv
  <2>h. held \in [Resource -> Int]
    BY DEF HeldInv
  <2>1. CASE ReplacePlaceholders \/ DecomposeNoMemory
    BY <2>1, ArrayStill DEF ReplacePlaceholders, DecomposeNoMemory, ShapeInv, Answer, loops
  <2>2. CASE FilterReady
    <3>1. text \in Seq(Character) \cup {NULL}
      BY DEF BufferInv, Fill!TypeOK
    <3>2. PICK R \in {{}, {"filter"}} : Acquire(R)
      BY <2>2 DEF FilterReady
    <3>3. \A r \in Resource : held'[r] = IF r \in R THEN held[r] + 1 ELSE held[r]
      BY <2>h, <3>2, Acquired
    <3>4. held["filter"] = 0 /\ held["base"] = 0 /\ held["array"] = 0
      BY <2>2 DEF FilterReady, ShapeInv
    <3>5. /\ held' \in [Resource -> {0, 1}] /\ held'["base"] = 0 /\ held'["array"] = 0
      <4>1. held' \in [Resource -> Int] /\ held \in [Resource -> {0, 1}]
        BY <2>h, <3>2, Acquired DEF ShapeInv
      <4>2. \A r \in Resource : held'[r] \in {0, 1}
        BY <3>2, <3>3, <3>4, <4>1
      <4>3. held'["base"] = 0 /\ held'["array"] = 0
        BY <3>2, <3>3, <3>4 DEF Resource
      <4> QED BY <4>1, <4>2, <4>3
    <3> QED BY <2>2, <3>1, <3>5 DEF FilterReady, ShapeInv, loops
  <2>3. CASE BaseReady
    <3>1. text \in Seq(Character) \cup {NULL}
      BY DEF BufferInv, Fill!TypeOK
    <3>2. PICK R \in {{}, {"base"}} : Acquire(R)
      BY <2>3 DEF BaseReady
    <3>3. \A r \in Resource : held'[r] = IF r \in R THEN held[r] + 1 ELSE held[r]
      BY <2>h, <3>2, Acquired
    <3>4. held["base"] = 0 /\ held["array"] = 0
      BY <2>3 DEF BaseReady, ShapeInv
    <3>5. /\ held' \in [Resource -> {0, 1}] /\ held'["array"] = 0
      <4>1. held' \in [Resource -> Int] /\ held \in [Resource -> {0, 1}]
        BY <2>h, <3>2, Acquired DEF ShapeInv
      <4>2. \A r \in Resource : held'[r] \in {0, 1}
        BY <3>2, <3>3, <3>4, <4>1
      <4>3. held'["array"] = 0
        BY <3>2, <3>3, <3>4 DEF Resource
      <4> QED BY <4>1, <4>2, <4>3
    <3> QED BY <2>3, <3>1, <3>5 DEF BaseReady, ShapeInv, loops
  <2>4. CASE SearchFails \/ GetValuesFails
    BY <2>4, ArrayStill DEF SearchFails, GetValuesFails, ShapeInv, Answer, loops
  <2>4a. CASE CreateNoMemory
    <3>1. /\ held["message"] = 1 /\ held["array"] = 0 /\ held \in [Resource -> {0, 1}]
          /\ held' = held \/ FreeOf({"message"})
      BY <2>4a DEF CreateNoMemory, HeldInv, Unfreed, ShapeInv
    <3>2. held' \in [Resource -> {0, 1}] /\ held'["array"] = 0
      BY <2>h, <3>1, Freed DEF Resource
    <3> QED BY <2>4a, <3>2, ArrayStill DEF CreateNoMemory, ShapeInv, Answer, loops
  <2>5. CASE Searched
    <3>1. Acquire({"message"}) /\ held["message"] = 0 /\ held["array"] = 0
      BY <2>5 DEF Searched, HeldInv, Unfreed, ShapeInv
    <3>2. held' \in [Resource -> {0, 1}] /\ held'["array"] = 0
      BY <2>h, <3>1, Acquired DEF Resource, ShapeInv
    <3> QED BY <2>5, <3>2 DEF Searched, ShapeInv, loops
  <2>6. CASE CreateArray
    <3>1. Acquire({"array"}) /\ held["array"] = 0
      BY <2>6 DEF CreateArray, ShapeInv
    <3>2. held' \in [Resource -> {0, 1}] /\ held'["array"] = 1
      BY <2>h, <3>1, Acquired DEF Resource, ShapeInv
    <3>3. Estimate \in Nat
      BY <2>6, <2>a, AnswerTyped DEF CreateArray, Estimate
    <3>4. Arr!TypeOK' /\ AP!Bounded'
      BY <2>6, <3>3 DEF CreateArray, Arr!TypeOK, Arr!Slot, AP!Bounded
    <3> QED BY <2>6, <3>2, <3>4 DEF CreateArray, ShapeInv, loops
  <2>7. CASE FirstAttribute
    <3>1. Acquire({"ber"}) /\ held["ber"] = 0 /\ held["array"] = 1
      BY <2>7 DEF FirstAttribute, HeldInv, Unfreed, ShapeInv
    <3>2. held' \in [Resource -> {0, 1}] /\ held'["array"] = 1
      BY <2>h, <3>1, Acquired DEF Resource, ShapeInv
    <3>3. entry \in 1..Len(Answer) /\ Answer' = Answer
      BY <2>7, <2>a, AnswerTyped DEF FirstAttribute, ShapeInv, Answer
    <3> QED BY <2>7, <3>2, <3>3, ArrayStill DEF FirstAttribute, ShapeInv
  <2>8. CASE GetValues
    <3>1. Acquire({"attribute", "values"}) /\ held["attribute"] = 0 /\ held["values"] = 0 /\ held["array"] = 1
      BY <2>8 DEF GetValues, HeldInv, Unfreed, ShapeInv
    <3>2. held' \in [Resource -> {0, 1}] /\ held'["array"] = 1
      BY <2>h, <3>1, Acquired DEF Resource, ShapeInv
    <3>3. /\ entry \in 1..Len(Answer) /\ Answer' = Answer
          /\ attr \in 1..Len(Answer[entry]) /\ Answer[entry][attr] # NULL
      BY <2>8, <2>a, AnswerTyped DEF GetValues, ShapeInv, Answer
    <3> QED BY <2>8, <3>2, <3>3, ArrayStill DEF GetValues, ShapeInv
  <2>9. CASE PushValue
    <3>1. /\ entry \in 1..Len(Answer) /\ Answer' = Answer /\ pc = "value" /\ pc' = pc
          /\ attr \in 1..Len(Answer[entry]) /\ Answer[entry][attr] # NULL
          /\ val \in 1..Len(Answer[entry][attr])
      BY <2>9, <2>a, AnswerTyped DEF PushValue, ShapeInv, Answer
    <3>2. Answer[entry][attr][val] \in Strings
      BY <2>a, <3>1, AnswerTyped
    <3>3. Arr!TypeOK' /\ AP!Bounded'
      <4>1. Arr!TypeOK /\ AP!Bounded
        BY <3>1 DEF ShapeInv
      <4>2. (\E s \in Strings : Arr!Push(s)) \/ Arr!PushNoMemory
        BY <2>9, <3>2 DEF PushValue
      <4> QED BY <4>1, <4>2, ArrayKeeps
    <3>4. lost' \in BOOLEAN /\ val' \in Nat \ {0}
      BY <2>9 DEF PushValue, ShapeInv
    <3>5. UNCHANGED <<filter, base, entry, attr, held>>
      BY <2>9 DEF PushValue
    <3> QED BY <3>1, <3>3, <3>4, <3>5 DEF ShapeInv
  <2>10. CASE FreeValues
    <3>1. FreeOf({"values", "attribute"}) /\ held["attribute"] = 1 /\ held["values"] = 1 /\ held["array"] = 1
      BY <2>10 DEF FreeValues, HeldInv, Unfreed, ShapeInv
    <3>2. held' \in [Resource -> {0, 1}] /\ held'["array"] = 1
      BY <2>h, <3>1, Freed DEF Resource, ShapeInv
    <3> QED BY <2>10, <3>2, ArrayStill DEF FreeValues, ShapeInv, Answer
  <2>11. CASE NextEntry
    <3>1. FreeOf({"ber"}) /\ held["ber"] = 1 /\ held["array"] = 1
      BY <2>11 DEF NextEntry, HeldInv, Unfreed, ShapeInv
    <3>2. held' \in [Resource -> {0, 1}] /\ held'["array"] = 1
      BY <2>h, <3>1, Freed DEF Resource, ShapeInv
    <3> QED BY <2>11, <3>2, ArrayStill DEF NextEntry, ShapeInv
  <2>12. CASE Collect
    <3>1. FreeOf({"message"}) /\ held["message"] = 1 /\ held["array"] = 1
      BY <2>12 DEF Collect, HeldInv, Unfreed, ShapeInv
    <3>2. held' \in [Resource -> {0, 1}] /\ held'["array"] = 1
      BY <2>h, <3>1, Freed DEF Resource, ShapeInv
    <3> QED BY <2>12, <3>2, ArrayStill DEF Collect, ShapeInv, loops
  <2>13. CASE Return
    <3>1. held' \in [Resource -> {0, 1}] /\ held'["array"] = held["array"]
      BY <2>13 DEF Return, ShapeInv, Resource
    <3> QED BY <2>13, <3>1, ArrayStill DEF Return, ShapeInv, loops
  <2>14. CASE UNCHANGED vars
    BY <2>14, ArrayStill DEF vars, ShapeInv, Answer, loops
  <2> QED BY <2>1, <2>2, <2>3, <2>4, <2>4a, <2>5, <2>6, <2>7, <2>8, <2>9, <2>10, <2>11, <2>12,
             <2>13, <2>14 DEF Next
<1> QED BY <1>1, <1>2, BufferInvAlways, HeldInvAlways, PTL DEF Spec

\* A search keeps its types, and allocates nothing it has and frees nothing it has
\* not, whatever fails.
THEOREM SearchTyped == Spec => []TypeOK
<1>1. ShapeInv /\ BufferInv => TypeOK
  BY DEF ShapeInv, BufferInv, TypeOK
<1> QED BY <1>1, ShapeInvAlways, BufferInvAlways, PTL

-----------------------------------------------------------------------------
(* The values of an answer, in order.                                      *)

\* Where the loops are.
Here ==
  <<entry,
    IF pc \in {"attribute", "value"} THEN attr ELSE 0,
    IF pc = "value" THEN val ELSE 0>>

ValueAt(t) == Answer[t[1]][t[2]][t[3]]

\* The values at the places in S are the entries of an array, each behind those
\* in front of it.
Gathered(S) ==
  /\ IsFiniteSet(S) /\ size = Cardinality(S)
  /\ \A t \in S : Answer[t[1]][t[2]] # NULL /\ values[Cardinality(InFront(t))] = ValueAt(t)

\* The array has been created, and no push has failed or gone astray.
Intact == held["array"] = 1 /\ wild = {} /\ lost = FALSE

\* The array has what is in front of the place the loops have come to.
CollectInv ==
  /\ pc \in {"filter", "base", "search", "create"} => entry = 1
  /\ pc = "entry" => entry <= Len(Answer) + 1
  /\ pc = "attribute" => attr <= Len(Answer[entry]) + 1
  /\ pc = "value" => val <= Len(Answer[entry][attr]) + 1
  /\ pc \in {"return", "returned"} /\ Answer \notin {Failed, Uncountable} /\ held["array"] = 1 =>
       entry = Len(Answer) + 1
  /\ pc \in {"entry", "attribute", "return", "returned"} /\ held["array"] = 1 => wild = {}
  /\ Answer \notin {Failed, Uncountable} /\ Intact
     /\ pc \in {"entry", "attribute", "value", "return", "returned"} =>
       Gathered(InFront(Here))

LEMMA PlacesAre ==
  ASSUME NEW s
  PROVE  s \in Places <=>
           /\ s = <<s[1], s[2], s[3]>>
           /\ s[1] \in 1..Len(Answer)
           /\ s[2] \in 1..Len(Answer[s[1]])
           /\ s[3] \in 1..Len(Answer[s[1]][s[2]])
<1>1. s \in Places <=>
        \E e \in 1..Len(Answer) : \E a \in 1..Len(Answer[e]) : \E v \in 1..Len(Answer[e][a]) :
          s = <<e, a, v>>
  <2> DEFINE OfAttribute(e, a) == {<<e, a, v>> : v \in 1..Len(Answer[e][a])}
             OfEntry(e) == UNION {OfAttribute(e, a) : a \in 1..Len(Answer[e])}
  <2>1. \A e, a : s \in OfAttribute(e, a) <=> \E v \in 1..Len(Answer[e][a]) : s = <<e, a, v>>
    OBVIOUS
  <2>2. Places = UNION {OfEntry(e) : e \in 1..Len(Answer)}
    BY DEF Places
  <2> HIDE DEF OfAttribute
  <2>3. \A e : s \in OfEntry(e) <=> \E a \in 1..Len(Answer[e]) : s \in OfAttribute(e, a)
    OBVIOUS
  <2> HIDE DEF OfEntry
  <2>4. s \in Places <=> \E e \in 1..Len(Answer) : s \in OfEntry(e)
    BY <2>2
  <2> QED BY <2>1, <2>3, <2>4, Zenon
<1>2. ASSUME NEW e, NEW a, NEW v, s = <<e, a, v>>
      PROVE  s[1] = e /\ s[2] = a /\ s[3] = v
  BY <1>2
<1> QED BY <1>1, <1>2, Zenon

\* The places that a step of a loop passes: none, but by a push.
LEMMA Steps ==
  ASSUME query \in Queries, Answer \notin {Failed, Uncountable}, NEW e \in 1..Len(Answer)
  PROVE  /\ InFront(<<e, 1, 0>>) = InFront(<<e, 0, 0>>)
         /\ InFront(<<e, Len(Answer[e]) + 1, 0>>) = InFront(<<e + 1, 0, 0>>)
         /\ \A a \in 1..Len(Answer[e]) :
              Answer[e][a] # NULL =>
                /\ InFront(<<e, a, 1>>) = InFront(<<e, a, 0>>)
                /\ InFront(<<e, a, Len(Answer[e][a]) + 1>>) = InFront(<<e, a + 1, 0>>)
                /\ \A v \in 1..Len(Answer[e][a]) :
                     InFront(<<e, a, v + 1>>) = InFront(<<e, a, v>>) \cup {<<e, a, v>>}
<1>0. Len(Answer) \in Nat /\ Len(Answer[e]) \in Nat /\ e \in Int
  BY AnswerTyped
<1>1. ASSUME NEW s \in Places
      PROVE  /\ s[1] \in Int /\ (s[1] = e => s[2] \in 1..Len(Answer[e]))
             /\ \A a \in 1..Len(Answer[e]) :
                  Answer[e][a] # NULL /\ s[1] = e /\ s[2] = a => s[3] \in 1..Len(Answer[e][a])
  BY <1>0, PlacesAre
<1>2. ASSUME NEW s \in Places PROVE ~(s[3] < 0)
  BY PlacesAre
<1>3. InFront(<<e, 1, 0>>) = InFront(<<e, 0, 0>>)
  <2>1. ASSUME NEW s \in Places PROVE Precedes(s, <<e, 1, 0>>) <=> Precedes(s, <<e, 0, 0>>)
    BY <1>0, <1>1, <1>2 DEF Precedes
  <2> QED BY <2>1 DEF InFront
<1>4. InFront(<<e, Len(Answer[e]) + 1, 0>>) = InFront(<<e + 1, 0, 0>>)
  <2>1. ASSUME NEW s \in Places
        PROVE  Precedes(s, <<e, Len(Answer[e]) + 1, 0>>) <=> Precedes(s, <<e + 1, 0, 0>>)
    <3>1. s[1] = e + 1 => s[2] \in Nat \ {0}
      BY <1>0, AnswerTyped, PlacesAre
    <3>2. s[1] \in Int /\ (s[1] = e => s[2] \in 1..Len(Answer[e]))
      BY <1>1
    <3> QED BY <1>0, <3>1, <3>2, <1>2 DEF Precedes
  <2> QED BY <2>1 DEF InFront
<1>5. ASSUME NEW a \in 1..Len(Answer[e]), Answer[e][a] # NULL
      PROVE  /\ InFront(<<e, a, 1>>) = InFront(<<e, a, 0>>)
             /\ InFront(<<e, a, Len(Answer[e][a]) + 1>>) = InFront(<<e, a + 1, 0>>)
             /\ \A v \in 1..Len(Answer[e][a]) :
                  InFront(<<e, a, v + 1>>) = InFront(<<e, a, v>>) \cup {<<e, a, v>>}
  <2>0. Len(Answer[e][a]) \in Nat /\ a \in Int
    BY <1>0, <1>5, AnswerTyped
  <2>1. ASSUME NEW s \in Places
        PROVE  /\ Precedes(s, <<e, a, 1>>) <=> Precedes(s, <<e, a, 0>>)
               /\ Precedes(s, <<e, a, Len(Answer[e][a]) + 1>>) <=> Precedes(s, <<e, a + 1, 0>>)
    <3>1. s[1] = e /\ s[2] = a => s[3] \in 1..Len(Answer[e][a])
      BY <1>1, <1>5
    <3>2. s[1] \in Int /\ (s[1] = e => s[2] \in 1..Len(Answer[e]))
      BY <1>1
    <3>3. Precedes(s, <<e, a, 1>>) <=> Precedes(s, <<e, a, 0>>)
      BY <1>0, <1>2, <2>0, <3>1, <3>2 DEF Precedes
    <3>4. s[1] = e => s[2] \in Int
      BY <1>0, <3>2
    <3>5. s[1] = e /\ s[2] = a => s[3] < Len(Answer[e][a]) + 1
      BY <2>0, <3>1
    <3>6. Precedes(s, <<e, a, Len(Answer[e][a]) + 1>>) <=> Precedes(s, <<e, a + 1, 0>>)
      BY <1>0, <1>2, <2>0, <3>2, <3>4, <3>5, SMTT(30) DEF Precedes
    <3> QED BY <3>3, <3>6
  <2>2. ASSUME NEW v \in 1..Len(Answer[e][a])
        PROVE  InFront(<<e, a, v + 1>>) = InFront(<<e, a, v>>) \cup {<<e, a, v>>}
    <3>1. <<e, a, v>> \in Places
      BY PlacesAre
    <3>2. ASSUME NEW s \in Places
          PROVE  Precedes(s, <<e, a, v + 1>>) <=> Precedes(s, <<e, a, v>>) \/ s = <<e, a, v>>
      <4>1. s[1] = e /\ s[2] = a => s[3] \in 1..Len(Answer[e][a])
        BY <1>1, <1>5
      <4>2. s[1] \in Int /\ (s[1] = e => s[2] \in Int)
        BY <1>1
      <4>3. s = <<e, a, v>> <=> s[1] = e /\ s[2] = a /\ s[3] = v
        BY PlacesAre
      <4> QED BY <1>0, <2>0, <4>1, <4>2, <4>3 DEF Precedes
    <3> QED BY <3>1, <3>2 DEF InFront
  <2> QED BY <2>1, <2>2 DEF InFront
<1> QED BY <1>3, <1>4, <1>5

LEMMA PrecedesOnce ==
  ASSUME NEW t \in Places, NEW S, NEW h, S = InFront(h), t \in S,
         query \in Queries, Answer \notin {Failed, Uncountable},
         h[1] \in 1..Len(Answer), h[2] \in 1..Len(Answer[h[1]]), h[3] \in Int,
         Answer[h[1]][h[2]] # NULL, Answer[t[1]][t[2]] # NULL
  PROVE  InFront(t) \subseteq S \ {t}
<1>1. Len(Answer) \in Nat /\ t[1] \in 1..Len(Answer) /\ t[2] \in 1..Len(Answer[t[1]])
  BY AnswerTyped, PlacesAre
<1>2. Len(Answer[t[1]]) \in Nat /\ Len(Answer[t[1]][t[2]]) \in Nat
  BY <1>1, AnswerTyped
<1>3. t[1] \in Int /\ t[2] \in Int /\ t[3] \in Int
  BY <1>1, <1>2, PlacesAre
<1>4. h[1] \in Int /\ h[2] \in Int
  BY <1>1, AnswerTyped
<1>5. ~Precedes(t, t)
  BY <1>3 DEF Precedes
<1>6. ASSUME NEW x \in Places, Precedes(x, t) PROVE Precedes(x, h)
  <2>1. x[1] \in 1..Len(Answer) /\ x[2] \in 1..Len(Answer[x[1]]) /\ x[3] \in 1..Len(Answer[x[1]][x[2]])
    BY PlacesAre
  <2>2. x[1] \in Int /\ x[2] \in Int
    BY <1>1, <2>1, AnswerTyped
  <2>3. x[1] = t[1] /\ x[2] = t[2] => x[3] \in Int
    BY <1>2, <2>1
  <2>4. Precedes(t, h)
    BY DEF InFront
  <2> QED BY <1>3, <1>4, <1>6, <2>2, <2>3, <2>4, SMTT(30) DEF Precedes
<1> QED BY <1>5, <1>6 DEF InFront

\* A push of the value the loops are at.
LEMMA PushGathers ==
  ASSUME query \in Queries, Answer \notin {Failed, Uncountable}, UNCHANGED query,
         NEW e \in 1..Len(Answer), NEW a \in 1..Len(Answer[e]), Answer[e][a] # NULL,
         NEW v \in 1..Len(Answer[e][a]),
         Gathered(InFront(<<e, a, v>>)), size \in Nat,
         size' = size + 1, values'[size] = Answer[e][a][v],
         \A q \in 0..size-1 : values'[q] = values[q]
  PROVE  Gathered(InFront(<<e, a, v + 1>>))'
<1> DEFINE h == <<e, a, v>>
           S == InFront(h)
<1>1. Answer' = Answer /\ Places' = Places /\ \A t : InFront(t)' = InFront(t)
  BY DEF Answer, Places, InFront
<1>2. InFront(<<e, a, v + 1>>) = S \cup {h}
  BY Steps
<1>3. h[1] = e /\ h[2] = a /\ h[3] = v /\ v \in Int
  BY AnswerTyped
<1>4. ~Precedes(h, h)
  BY <1>3, AnswerTyped DEF Precedes
<1>5. h \notin S
  BY <1>4 DEF InFront
<1>6. IsFiniteSet(S) /\ Cardinality(S) = size
  BY DEF Gathered
<1>7. IsFiniteSet(S \cup {h}) /\ Cardinality(S \cup {h}) = size + 1
  BY <1>5, <1>6, FS_AddElement
<1>8. ASSUME NEW t \in S
      PROVE  /\ Answer[t[1]][t[2]] # NULL
             /\ values'[Cardinality(InFront(t))] = Answer[t[1]][t[2]][t[3]]
  <2>1. Answer[t[1]][t[2]] # NULL /\ values[Cardinality(InFront(t))] = Answer[t[1]][t[2]][t[3]]
    BY DEF Gathered, ValueAt
  <2>2. t \in Places
    BY DEF InFront
  <2>3. h[1] \in 1..Len(Answer) /\ h[2] \in 1..Len(Answer[h[1]]) /\ h[3] \in Int /\ Answer[h[1]][h[2]] # NULL
    BY <1>3
  <2> HIDE DEF h
  <2>4. InFront(t) \subseteq S \ {t}
    BY <2>1, <2>2, <2>3, PrecedesOnce
  <2>5. IsFiniteSet(S \ {t}) /\ Cardinality(S \ {t}) = size - 1
    BY <1>6, FS_RemoveElement
  <2>6. Cardinality(InFront(t)) \in Nat /\ Cardinality(InFront(t)) <= size - 1
    BY <2>4, <2>5, FS_Subset, FS_CardinalityType
  <2>7. Cardinality(InFront(t)) \in 0..size-1
    BY <2>6
  <2> QED BY <2>1, <2>7
<1>9. Answer[h[1]][h[2]] # NULL /\ values'[Cardinality(InFront(h))] = Answer[h[1]][h[2]][h[3]]
  BY <1>3, <1>6
<1>10. \A t \in S \cup {h} : /\ Answer[t[1]][t[2]] # NULL
                             /\ values'[Cardinality(InFront(t))] = Answer[t[1]][t[2]][t[3]]
  BY <1>8, <1>9
<1> HIDE DEF h, S
<1>11. InFront(<<e, a, v + 1>>)' = S \cup {h}
  BY <1>1, <1>2
<1>12. size' = Cardinality(InFront(<<e, a, v + 1>>)') /\ IsFiniteSet(InFront(<<e, a, v + 1>>)')
  BY <1>7, <1>11
<1> QED BY <1>1, <1>10, <1>11, <1>12 DEF Gathered, ValueAt

LEMMA Pushed ==
  ASSUME Arr!TypeOK, AP!Bounded, NEW s, Arr!Push(s), returned' # NULL
  PROVE  /\ size \in Nat /\ size' = size + 1 /\ values'[size] = s
         /\ \A q \in 0..size-1 : values'[q] = values[q]
<1>1. /\ size \in Nat /\ block \in Nat /\ size < block
      /\ Arr!NewRoom \in Nat /\ block <= Arr!NewRoom
  <2>1. CASE Arr!Full
    BY <2>1 DEF Arr!TypeOK, AP!Bounded, Arr!Push, Arr!NewRoom, Arr!NewCapacity, Arr!Full
  <2>2. CASE ~Arr!Full
    BY <2>2 DEF Arr!TypeOK, AP!Bounded, Arr!Push, Arr!NewRoom, Arr!NewCapacity
  <2> QED BY <2>1, <2>2
<1>2. values' = Arr!Written(s)
  BY DEF Arr!Push
<1>3. size' = size + 1
  BY DEF Arr!Push
<1>4. values'[size] = s /\ \A q \in 0..size-1 : values'[q] = values[q]
  BY <1>1, <1>2 DEF Arr!Written
<1> QED BY <1>1, <1>3, <1>4

\* The loops move on without a push.
LEMMA StillGathered ==
  ASSUME UNCHANGED <<query, values, size>>, InFront(Here') = InFront(Here), Gathered(InFront(Here))
  PROVE  Gathered(InFront(Here))'
<1>1. Answer' = Answer /\ Places' = Places
  BY DEF Answer, Places
<1>2. \A t : InFront(t)' = InFront(t)
  BY <1>1 DEF InFront
<1>3. InFront(Here)' = InFront(Here)
  BY <1>1 DEF InFront
<1> QED BY <1>1, <1>2, <1>3 DEF Gathered, ValueAt

LEMMA CollectInvAlways == Spec => []CollectInv
<1>1. Init => CollectInv
  <2>1. Init => pc = "filter" /\ entry = 1
    BY DEF Init
  <2> QED BY <2>1 DEF CollectInv, Intact
<1>2. CollectInv /\ ShapeInv /\ HeldInv /\ [Next]_vars => CollectInv'
  <2> SUFFICES ASSUME CollectInv, ShapeInv, HeldInv, [Next]_vars PROVE CollectInv'
    OBVIOUS
  <2>1. query \in Queries
    BY DEF HeldInv
  <2>2. UNCHANGED query /\ Answer' = Answer
    BY DEF Next, vars, ReplacePlaceholders, DecomposeNoMemory, FilterReady, BaseReady,
           SearchFails, Searched, CreateArray, CreateNoMemory, FirstAttribute, GetValues,
           GetValuesFails, PushValue, FreeValues, NextEntry, Collect, Return, Answer
  <2>3. pc \in {"entry", "attribute", "value"} =>
          /\ Answer \notin {Failed, Uncountable} /\ Len(Answer) \in Nat
          /\ entry \in Nat /\ held["array"] = 1
    BY <2>1, AnswerTyped DEF HeldInv, ShapeInv
  <2>4. CASE ReplacePlaceholders \/ DecomposeNoMemory \/ FilterReady \/ BaseReady \/ Searched
    <3>1. pc \in {"filter", "base", "search"} /\ pc' \in {"filter", "base", "search", "create", "crashed"}
          /\ entry' = entry
      BY <2>4 DEF ReplacePlaceholders, DecomposeNoMemory, FilterReady, BaseReady, Searched, loops
    <3> QED BY <3>1 DEF CollectInv, Intact
  <2>5. CASE SearchFails
    BY <2>2, <2>5 DEF SearchFails, CollectInv, ShapeInv, loops
  <2>6. CASE CreateArray
    <3>1. /\ entry = 1 /\ UNCHANGED entry /\ wild' = {} /\ size' = 0
          /\ Answer \notin {Failed, Uncountable} /\ Len(Answer) \in Nat
          /\ pc' \in {"entry", "return"} /\ (pc' = "return" => Len(Answer) = 0)
      BY <2>1, <2>6, AnswerTyped DEF CreateArray, CollectInv, HeldInv, loops
    <3>2. Here' = <<1, 0, 0>>
      BY <3>1 DEF Here
    <3>3. InFront(<<1, 0, 0>>) = {}
      <4>1. ASSUME NEW s \in Places PROVE ~Precedes(s, <<1, 0, 0>>)
        <5>1. s[1] \in 1..Len(Answer) /\ s[2] \in 1..Len(Answer[s[1]])
          BY PlacesAre
        <5>2. s[1] \in Nat \ {0} /\ s[2] \in Nat \ {0}
          BY <3>1, <5>1, <2>1, AnswerTyped
        <5> QED BY <5>2 DEF Precedes
      <4> QED BY <4>1 DEF InFront
    <3>4. InFront(Here)' = {}
      <4>1. Places' = Places
        BY <2>2 DEF Places
      <4> QED BY <3>2, <3>3, <4>1 DEF InFront
    <3>5. Gathered(InFront(Here))'
      BY <3>1, <3>4, FS_EmptySet DEF Gathered
    <3> QED BY <2>2, <3>1, <3>5 DEF CollectInv, Intact
  <2>7. CASE CreateNoMemory
    <3>1. /\ held["array"] = 0 /\ held \in [Resource -> Int]
          /\ held' = held \/ FreeOf({"message"})
          /\ pc' \in {"return", "crashed"}
      BY <2>7 DEF CreateNoMemory, ShapeInv, HeldInv
    <3>2. held'["array"] # 1
      <4>1. CASE held' = held
        BY <3>1, <4>1
      <4>2. CASE FreeOf({"message"})
        <5>1. \A r \in Resource : held'[r] = IF r \in {"message"} THEN held[r] - 1 ELSE held[r]
          BY <3>1, <4>2, Freed
        <5> QED BY <3>1, <5>1 DEF Resource
      <4> QED BY <3>1, <4>1, <4>2
    <3> QED BY <3>1, <3>2 DEF CollectInv, Intact
  <2>8. CASE FirstAttribute
    <3>1. /\ pc = "entry" /\ pc' = "attribute" /\ entry' = entry /\ attr' = 1 /\ wild' = wild
          /\ lost' = lost /\ UNCHANGED <<values, size>> /\ entry \in 1..Len(Answer)
      BY <2>3, <2>8 DEF FirstAttribute, array, ShapeInv
    <3>2. Here = <<entry, 0, 0>> /\ Here' = <<entry, 1, 0>>
      BY <3>1 DEF Here
    <3>3. InFront(Here') = InFront(Here)
      BY <2>1, <2>3, <3>1, <3>2, Steps
    <3> QED BY <2>1, <2>2, <2>3, <3>1, <3>3, AnswerTyped, StillGathered DEF CollectInv, Intact
  <2>9. CASE GetValues
    <3>1. /\ pc = "attribute" /\ pc' = "value" /\ entry' = entry /\ attr' = attr /\ val' = 1
          /\ wild' = wild /\ lost' = lost /\ UNCHANGED <<values, size>> /\ entry \in 1..Len(Answer)
          /\ attr \in 1..Len(Answer[entry]) /\ Answer[entry][attr] # NULL
      BY <2>1, <2>3, <2>9, AnswerTyped DEF GetValues, array, ShapeInv
    <3>2. Here = <<entry, attr, 0>> /\ Here' = <<entry, attr, 1>>
      BY <3>1 DEF Here
    <3>3. InFront(Here') = InFront(Here)
      BY <2>1, <2>3, <3>1, <3>2, Steps
    <3> QED BY <2>1, <2>2, <2>3, <3>1, <3>3, AnswerTyped, StillGathered DEF CollectInv, Intact
  <2>10. CASE GetValuesFails
    <3>1. pc' = "crashed"
      BY <2>10 DEF GetValuesFails
    <3> QED BY <3>1 DEF CollectInv, Intact
  <2>11. CASE PushValue
    <3>1. /\ pc = "value" /\ pc' = "value" /\ entry' = entry /\ attr' = attr /\ val' = val + 1
          /\ entry \in 1..Len(Answer) /\ attr \in 1..Len(Answer[entry])
          /\ Answer[entry][attr] # NULL /\ val \in 1..Len(Answer[entry][attr])
      BY <2>1, <2>3, <2>11, AnswerTyped DEF PushValue, ShapeInv
    <3>2. Here = <<entry, attr, val>> /\ Here' = <<entry, attr, val + 1>>
      BY <3>1 DEF Here
    <3>3. lost' = (lost \/ returned' = NULL) /\ held' = held
      BY <2>11 DEF PushValue
    <3>4. val' <= Len(Answer'[entry'][attr']) + 1
      <4>1. Len(Answer[entry][attr]) \in Nat
        BY <2>1, <2>3, <3>1, AnswerTyped
      <4>2. val + 1 <= Len(Answer[entry][attr]) + 1
        BY <3>1, <4>1
      <4> QED BY <2>2, <3>1, <4>2
    <3>5. SUFFICES ASSUME lost' = FALSE PROVE Gathered(InFront(Here))'
      BY <2>2, <3>1, <3>4 DEF CollectInv, Intact
    <3>6. lost = FALSE /\ returned' # NULL
      <4>1. lost \in BOOLEAN
        BY DEF ShapeInv
      <4> QED BY <3>3, <3>5, <4>1, Zenon
    <3>7. Arr!Push(Answer[entry][attr][val])
      BY <2>11, <3>6 DEF PushValue, Arr!PushNoMemory
    <3>8. /\ size \in Nat /\ size' = size + 1 /\ values'[size] = Answer[entry][attr][val]
          /\ \A q \in 0..size-1 : values'[q] = values[q]
      <4>1. Arr!TypeOK /\ AP!Bounded
        BY <2>3, <3>1 DEF ShapeInv
      <4> QED BY <3>6, <3>7, <4>1, Pushed
    <3>9. Gathered(InFront(<<entry, attr, val>>))
      BY <2>3, <3>1, <3>2, <3>6, <3>7 DEF CollectInv, Intact, Arr!Push
    <3>10. ASSUME NEW e, NEW a, NEW v, e = entry, a = attr, v = val
          PROVE  Gathered(InFront(Here))'
      <4>1. Gathered(InFront(<<e, a, v + 1>>))'
        BY <2>1, <2>2, <2>3, <3>1, <3>8, <3>9, <3>10, PushGathers
      <4>2. Here' = <<e, a, v + 1>>
        BY <3>2, <3>10
      <4>3. InFront(Here)' = InFront(<<e, a, v + 1>>)'
        BY <4>2 DEF InFront
      <4> QED BY <4>1, <4>3 DEF Gathered
    <3> QED BY <3>10
  <2>12. CASE FreeValues
    <3>1. /\ pc = "value" /\ pc' = "attribute" /\ entry' = entry /\ attr' = attr + 1
          /\ wild = {} /\ wild' = wild /\ lost' = lost /\ UNCHANGED <<values, size>>
          /\ entry \in 1..Len(Answer) /\ attr \in 1..Len(Answer[entry])
          /\ Answer[entry][attr] # NULL /\ val > Len(Answer[entry][attr])
      BY <2>12 DEF FreeValues, array, ShapeInv
    <3>2. Here = <<entry, attr, val>> /\ Here' = <<entry, attr + 1, 0>>
      BY <3>1 DEF Here
    <3>3. val = Len(Answer[entry][attr]) + 1
      <4>1. Len(Answer[entry][attr]) \in Nat
        BY <2>1, <3>1, AnswerTyped
      <4>2. val \in Nat /\ val <= Len(Answer[entry][attr]) + 1
        BY <2>3, <3>1, <4>1 DEF CollectInv, ShapeInv
      <4> QED BY <3>1, <4>1, <4>2
    <3>4. InFront(Here') = InFront(Here)
      BY <2>1, <2>3, <3>1, <3>2, <3>3, Steps
    <3> QED BY <2>1, <2>2, <2>3, <3>1, <3>3, <3>4, AnswerTyped, StillGathered DEF CollectInv, Intact
  <2>13. CASE NextEntry
    <3>1. /\ pc = "attribute" /\ pc' = "entry" /\ entry' = entry + 1
          /\ wild' = wild /\ lost' = lost /\ UNCHANGED <<values, size>>
          /\ entry \in 1..Len(Answer) /\ attr > Len(Answer[entry])
      BY <2>13 DEF NextEntry, array, ShapeInv
    <3>2. Here = <<entry, attr, 0>> /\ Here' = <<entry + 1, 0, 0>>
      BY <3>1 DEF Here
    <3>3. attr = Len(Answer[entry]) + 1
      <4>1. Len(Answer[entry]) \in Nat
        BY <2>1, <3>1, AnswerTyped
      <4>2. attr \in Nat /\ attr <= Len(Answer[entry]) + 1
        BY <2>3, <3>1, <4>1 DEF CollectInv, ShapeInv
      <4> QED BY <3>1, <4>1, <4>2
    <3>4. InFront(Here') = InFront(Here)
      BY <2>1, <2>3, <3>1, <3>2, <3>3, Steps
    <3> QED BY <2>1, <2>2, <2>3, <3>1, <3>3, <3>4, AnswerTyped, StillGathered DEF CollectInv, Intact
  <2>14. CASE Collect
    <3>1. /\ pc = "entry" /\ pc' = "return" /\ entry > Len(Answer) /\ UNCHANGED entry
          /\ wild' = wild /\ lost' = lost /\ UNCHANGED <<values, size>>
      BY <2>14 DEF Collect, array, loops
    <3>2. Here = <<entry, 0, 0>> /\ Here' = <<entry, 0, 0>>
      BY <3>1 DEF Here
    <3>3. entry = Len(Answer) + 1
      BY <2>3, <3>1 DEF CollectInv, Intact
    <3> QED BY <2>2, <2>3, <3>1, <3>2, <3>3, StillGathered DEF CollectInv, Intact
  <2>15. CASE Return
    <3>1. /\ pc = "return" /\ pc' = "returned" /\ UNCHANGED entry
          /\ wild' = wild /\ lost' = lost /\ UNCHANGED <<values, size>>
          /\ held'["array"] = held["array"]
      BY <2>15 DEF Return, array, loops, HeldInv, Resource
    <3>2. Here' = Here
      BY <3>1 DEF Here
    <3> QED BY <2>2, <3>1, <3>2, StillGathered DEF CollectInv, Intact
  <2>16. CASE UNCHANGED vars
    <3>1. UNCHANGED <<pc, entry, attr, val, wild, lost, values, size, held>> /\ Here' = Here
      BY <2>16 DEF vars, array, loops, Here
    <3> QED BY <2>2, <3>1, StillGathered DEF CollectInv, Intact
  <2> QED BY <2>4, <2>5, <2>6, <2>7, <2>8, <2>9, <2>10, <2>11, <2>12, <2>13, <2>14, <2>15, <2>16
          DEF Next
<1> QED BY <1>1, <1>2, ShapeInvAlways, HeldInvAlways, PTL DEF Spec

\* Whatever the number of entries, attributes and values, and however often the
\* array has been moved to grow: unless memory ran out, no value is lost, taken
\* twice or out of order.
THEOREM AllCollected == Spec => []CollectsAll
<1>1. CollectInv /\ HeldInv /\ ShapeInv => CollectsAll
  <2> SUFFICES ASSUME CollectInv, HeldInv, ShapeInv PROVE CollectsAll
    OBVIOUS
  <2>0. lost \in BOOLEAN
    BY DEF ShapeInv
  <2>1. ~lost <=> lost = FALSE
    BY <2>0, Zenon
  <2>2. SUFFICES ASSUME pc = "returned", Answer \notin {Failed, Uncountable}, lost = FALSE,
                        held["array"] = 1
                 PROVE  /\ size = Cardinality(Places)
                        /\ \A t \in Places :
                             values[Cardinality(InFront(t))] = Answer[t[1]][t[2]][t[3]]
    BY <2>1 DEF CollectsAll
  <2>3. Gathered(InFront(Here)) /\ entry = Len(Answer) + 1
    BY <2>2 DEF CollectInv, Intact
  <2>4. InFront(Here) = Places
    <3>1. Here = <<Len(Answer) + 1, 0, 0>> /\ Len(Answer) \in Nat
      BY <2>2, <2>3, AnswerTyped DEF Here, HeldInv
    <3>2. ASSUME NEW s \in Places PROVE Precedes(s, Here)
      BY <3>1, PlacesAre DEF Precedes
    <3> QED BY <3>2 DEF InFront
  <2> QED BY <2>3, <2>4 DEF Gathered, ValueAt
<1> QED BY <1>1, CollectInvAlways, HeldInvAlways, ShapeInvAlways, PTL

-----------------------------------------------------------------------------
(* Reading a string from left to right.                                    *)

\* What holds of a position whenever it holds of all behind it holds of all.
LEMMA Backwards ==
  ASSUME NEW n \in Nat, NEW X,
         \A k \in 1..n : (\A j \in k+1..n : j \in X) => k \in X
  PROVE  1..n \subseteq X
<1> DEFINE Y == {d \in 0..n-1 : n - d \notin X}
<1>1. SUFFICES ASSUME Y # {} PROVE FALSE
  <2>1. ASSUME NEW k \in 1..n, k \notin X PROVE FALSE
    <3>1. n - k \in 0..n-1 /\ n - (n - k) = k
      OBVIOUS
    <3>2. n - k \in Y
      BY <2>1, <3>1
    <3> QED BY <3>2, <1>1
  <2> QED BY <2>1
<1>2. Y \subseteq Nat
  OBVIOUS
<1>3. PICK d \in Y : \A e \in Y : ~(<<e, d>> \in OpToRel(<, Nat))
  <2> HIDE DEF Y
  <2> QED BY <1>1, <1>2, NatLessThanWellFounded, WFMin
<1>4. \A e \in Y : ~(e < d)
  BY <1>2, <1>3 DEF OpToRel
<1>5. n - d \in 1..n /\ n - d \notin X
  OBVIOUS
<1>6. ASSUME NEW j \in n-d+1..n PROVE j \in X
  <2>1. n - j \in 0..n-1 /\ n - j < d /\ n - (n - j) = j
    OBVIOUS
  <2>2. n - j \notin Y
    BY <1>4, <2>1
  <2> QED BY <2>1, <2>2
<1> QED BY <1>5, <1>6

\* f writes what ins says for the w[k] characters at each position k, and then
\* what follows.
Writes(f, n, ins, w) ==
  f = [k \in 1..n+1 |-> IF k > n THEN <<>> ELSE ins[k] \o f[k + w[k]]]

Written(f, n, ins, w) ==
  /\ f \in [1..n+1 -> Seq(Character)]
  /\ f[n+1] = <<>>
  /\ \A k \in 1..n : f[k] = ins[k] \o f[k + w[k]]

LEMMA WritesAt ==
  ASSUME NEW n \in Nat, NEW ins \in [1..n -> Seq(Character)], NEW w \in [1..n -> {1, 2}],
         \A k \in 1..n : k + w[k] <= n + 1, NEW f, Writes(f, n, ins, w)
  PROVE  Written(f, n, ins, w)
<1> DEFINE X == {k \in 1..n+1 : f[k] \in Seq(Character)}
<1>1. f = [k \in 1..n+1 |-> f[k]]
  BY DEF Writes
<1>2. \A k \in 1..n+1 : f[k] = IF k > n THEN <<>> ELSE ins[k] \o f[k + w[k]]
  BY DEF Writes
<1>3. f[n+1] = <<>>
  <2>1. n + 1 \in 1..n+1 /\ n + 1 > n
    OBVIOUS
  <2> QED BY <1>2, <2>1
<1>4. \A k \in 1..n : f[k] = ins[k] \o f[k + w[k]]
  <2> SUFFICES ASSUME NEW k \in 1..n PROVE f[k] = ins[k] \o f[k + w[k]]
    OBVIOUS
  <2>1. k \in 1..n+1 /\ ~(k > n)
    OBVIOUS
  <2> QED BY <1>2, <2>1
<1>5. ASSUME NEW k \in 1..n+1, \A j \in k+1..n+1 : j \in X PROVE k \in X
  <2>1. CASE k = n + 1
    BY <1>3, <2>1, EmptySeq
  <2>2. CASE k # n + 1
    <3>1. k \in 1..n
      BY <2>2
    <3>2. k + w[k] <= n + 1 /\ w[k] \in {1, 2}
      BY <3>1
    <3>3. k + w[k] \in k+1..n+1
      BY <3>1, <3>2
    <3>4. f[k + w[k]] \in Seq(Character)
      BY <1>5, <3>3
    <3>5. ins[k] \in Seq(Character)
      BY <3>1
    <3>6. ins[k] \o f[k + w[k]] \in Seq(Character)
      BY <3>4, <3>5, ConcatProperties
    <3> QED BY <1>4, <3>1, <3>6
  <2> QED BY <2>1, <2>2
<1>6. 1..n+1 \subseteq X
  <2> HIDE DEF X
  <2>1. n + 1 \in Nat
    OBVIOUS
  <2> QED BY <1>5, <2>1, Backwards
<1> QED BY <1>1, <1>3, <1>4, <1>6 DEF Written

LEMMA WritesExists ==
  ASSUME NEW n \in Nat, NEW ins \in [1..n -> Seq(Character)], NEW w \in [1..n -> {1, 2}],
         \A k \in 1..n : k + w[k] <= n + 1
  PROVE  \E f : Writes(f, n, ins, w)
<1> DEFINE E(g, k) == IF k > n THEN <<>> ELSE ins[k] \o g[k + w[k]]
           From(m, g) == g = [k \in m..n+1 |-> E(g, k)]
           X == {m \in 1..n+1 : \E g : From(m, g)}
<1>1. ASSUME NEW k \in 1..n+1, \A j \in k+1..n+1 : j \in X PROVE k \in X
  <2>1. CASE k = n + 1
    <3> DEFINE g == [j \in k..n+1 |-> <<>>]
    <3>1. \A j \in k..n+1 : E(g, j) = <<>>
      BY <2>1
    <3>2. From(k, g)
      <4> HIDE DEF E
      <4> QED BY <3>1
    <3> HIDE DEF g, From
    <3> QED BY <3>2
  <2>2. CASE k # n + 1
    <3>1. k \in 1..n /\ k + 1 \in k+1..n+1 /\ k + 1 \in 1..n+1
      BY <2>2
    <3>2. PICK g : From(k + 1, g)
      <4> HIDE DEF From
      <4> QED BY <1>1, <3>1
    <3> DEFINE h == [j \in k..n+1 |-> IF j = k THEN E(g, k) ELSE g[j]]
    <3>3. ASSUME NEW j \in k..n+1 PROVE h[j] = E(h, j)
      <4>1. ASSUME j <= n PROVE h[j + w[j]] = g[j + w[j]]
        <5>1. j \in 1..n /\ w[j] \in {1, 2} /\ j + w[j] <= n + 1
          BY <3>1, <4>1
        <5>2. j + w[j] \in k..n+1 /\ j + w[j] # k
          BY <3>1, <5>1
        <5> HIDE DEF E
        <5> QED BY <5>2
      <4>2. E(h, j) = E(g, j)
        <5> HIDE DEF h
        <5>1. j > n \/ j <= n
          BY <3>1
        <5> QED BY <4>1, <5>1
      <4>3. h[j] = E(g, j)
        <5>1. CASE j = k
          <6> HIDE DEF E
          <6> QED BY <5>1
        <5>2. CASE j # k
          <6>1. j \in k+1..n+1
            BY <3>1, <5>2
          <6> HIDE DEF E
          <6> QED BY <3>2, <5>2, <6>1
        <5> QED BY <5>1, <5>2
      <4> QED BY <4>2, <4>3
    <3>4. h = [j \in k..n+1 |-> h[j]]
      OBVIOUS
    <3>5. From(k, h)
      <4> HIDE DEF h, E
      <4> QED BY <3>3, <3>4
    <3> HIDE DEF h, From
    <3> QED BY <3>5
  <2> QED BY <2>1, <2>2
<1>2. 1 \in X
  <2> HIDE DEF X
  <2>1. n + 1 \in Nat /\ 1 \in 1..n+1
    OBVIOUS
  <2>2. 1..n+1 \subseteq X
    BY <1>1, <2>1, Backwards
  <2> QED BY <2>1, <2>2
<1>3. PICK g : From(1, g)
  <2> HIDE DEF From
  <2> QED BY <1>2
<1> QED BY <1>3 DEF Writes

\* The function that Replaced is the first value of, and what it computes.
ReplacedFrom(s, old, new) ==
  CHOOSE f : f = [k \in 1..Len(s)+1 |->
    IF k > Len(s) THEN <<>>
    ELSE IF Fill!HitAt(s, old, k) THEN new \o f[k + 2]
    ELSE <<s[k]>> \o f[k + 1]]

Reads(f, s, old, new) ==
  /\ f \in [1..Len(s)+1 -> Seq(Character)]
  /\ f[Len(s)+1] = <<>>
  /\ \A k \in 1..Len(s) : Fill!HitAt(s, old, k) => f[k] = new \o f[k + 2]
  /\ \A k \in 1..Len(s) : ~Fill!HitAt(s, old, k) => f[k] = <<s[k]>> \o f[k + 1]

LEMMA ReplacedReads ==
  ASSUME NEW s \in Seq(Character), NEW old, NEW new \in Seq(Character)
  PROVE  /\ Reads(ReplacedFrom(s, old, new), s, old, new)
         /\ Fill!Replaced(s, old, new) = ReplacedFrom(s, old, new)[1]
<1> DEFINE n == Len(s)
           hit(k) == Fill!HitAt(s, old, k)
           ins == [k \in 1..n |-> IF hit(k) THEN new ELSE <<s[k]>>]
           w == [k \in 1..n |-> IF hit(k) THEN 2 ELSE 1]
           F(f) == f = [k \in 1..n+1 |->
                     IF k > n THEN <<>> ELSE IF hit(k) THEN new \o f[k + 2] ELSE <<s[k]>> \o f[k + 1]]
<1>1. n \in Nat /\ \A k \in 1..n : s[k] \in Character
  BY ElementOfSeq
<1>2. ins \in [1..n -> Seq(Character)] /\ w \in [1..n -> {1, 2}]
  <2>1. \A k \in 1..n : <<s[k]>> \in Seq(Character)
    BY <1>1
  <2> HIDE DEF hit, n
  <2> QED BY <2>1
<1>3. \A k \in 1..n : k + w[k] <= n + 1
  <2>1. \A k \in 1..n : hit(k) => k + 2 <= n + 1
    BY <1>1 DEF Fill!HitAt
  <2> HIDE DEF hit, n
  <2> QED BY <1>1, <2>1
<1>4. ASSUME NEW f PROVE Writes(f, n, ins, w) <=> F(f)
  <2>1. ASSUME NEW k \in 1..n
        PROVE  ins[k] \o f[k + w[k]] = IF hit(k) THEN new \o f[k + 2] ELSE <<s[k]>> \o f[k + 1]
    <3> HIDE DEF hit, n
    <3> QED OBVIOUS
  <2>2. \A k \in 1..n+1 : k > n \/ k \in 1..n
    BY <1>1
  <2> HIDE DEF hit, ins, w, n
  <2>3. [k \in 1..n+1 |-> IF k > n THEN <<>> ELSE ins[k] \o f[k + w[k]]]
        = [k \in 1..n+1 |->
             IF k > n THEN <<>> ELSE IF hit(k) THEN new \o f[k + 2] ELSE <<s[k]>> \o f[k + 1]]
    BY <2>1, <2>2
  <2> QED BY <2>3 DEF Writes
<1>5. \E f : F(f)
  <2> HIDE DEF F, ins, w, n
  <2>1. PICK f : Writes(f, n, ins, w)
    BY <1>1, <1>2, <1>3, WritesExists
  <2> QED BY <1>4, <2>1
<1> DEFINE g == ReplacedFrom(s, old, new)
<1>6. F(g)
  BY <1>5 DEF ReplacedFrom
<1>7. /\ g \in [1..n+1 -> Seq(Character)] /\ g[n+1] = <<>>
      /\ \A k \in 1..n : g[k] = ins[k] \o g[k + w[k]]
  <2> HIDE DEF F, ins, w, n, g
  <2>1. Writes(g, n, ins, w)
    BY <1>4, <1>6
  <2>2. Written(g, n, ins, w)
    BY <1>1, <1>2, <1>3, <2>1, WritesAt
  <2> QED BY <2>2 DEF Written
<1>8. Reads(g, s, old, new)
  <2> SUFFICES ASSUME NEW k \in 1..n
               PROVE  /\ hit(k) => g[k] = new \o g[k + 2]
                      /\ ~hit(k) => g[k] = <<s[k]>> \o g[k + 1]
    <3> HIDE DEF g
    <3> QED BY <1>7 DEF Reads
  <2> HIDE DEF hit, n, g
  <2> QED BY <1>7
<1>9. Fill!Replaced(s, old, new) = g[1]
  BY DEF Fill!Replaced, ReplacedFrom
<1> QED BY <1>8, <1>9

\* Three strings one behind the other, whichever two are put together first.
Regroups(x, y, z) == (x \o y) \o z = x \o (y \o z)

LEMMA Associative == \A x, y, z \in Seq(Character) : Regroups(x, y, z)
BY ConcatAssociative DEF Regroups

\* What is written for a stretch without an occurrence is the stretch itself.
Copies(f, s, a, b) == f[a] = SubSeq(s, a, b - 1) \o f[b]

LEMMA Stretch ==
  ASSUME NEW s \in Seq(Character), NEW old, NEW new \in Seq(Character), NEW f,
         Reads(f, s, old, new), NEW a \in 1..Len(s)+1, NEW b \in a..Len(s)+1,
         \A i \in a..b-1 : ~Fill!HitAt(s, old, i)
  PROVE  Copies(f, s, a, b)
<1> DEFINE P(i) == f[i] = SubSeq(s, i, b - 1) \o f[b]
           X == {i \in 1..b : i < a \/ P(i)}
<1>1. a \in Nat /\ b \in Nat /\ Len(s) \in Nat /\ f[b] \in Seq(Character)
  <2>1. Len(s) \in Nat /\ a \in Nat /\ b \in Nat
    OBVIOUS
  <2>2. b \in 1..Len(s)+1
    BY <2>1
  <2> QED BY <2>1, <2>2 DEF Reads
<1>2. ASSUME NEW k \in 1..b, \A j \in k+1..b : j \in X PROVE k \in X
  <2>1. CASE k < a
    <3> HIDE DEF P
    <3> QED BY <2>1
  <2>2. CASE k = b
    <3>1. SubSeq(s, b, b - 1) = <<>>
      BY <1>1, SubSeqEmpty
    <3>2. P(k)
      BY <1>1, <2>2, <3>1, ConcatEmptySeq
    <3> HIDE DEF P
    <3> QED BY <3>2
  <2>3. CASE k >= a /\ k < b
    <3>1. k \in 1..Len(s) /\ b - 1 \in k..Len(s) /\ k + 1 \in k+1..b /\ k \in a..b-1
      BY <1>1, <2>3
    <3>2. f[k] = <<s[k]>> \o f[k + 1]
      BY <3>1 DEF Reads
    <3>3. P(k + 1)
      <4> HIDE DEF P
      <4> QED BY <1>1, <1>2, <2>3, <3>1
    <3>4. SubSeq(s, k, b - 1) = <<s[k]>> \o SubSeq(s, k + 1, b - 1)
      BY <3>1, SubSeqRecursiveFirst
    <3>5. <<s[k]>> \in Seq(Character) /\ SubSeq(s, k + 1, b - 1) \in Seq(Character)
      <4>1. s[k] \in Character /\ \A i \in k+1..b-1 : s[i] \in Character
        BY <1>1, <3>1, ElementOfSeq
      <4> QED BY <1>1, <4>1, SubSeqProperties
    <3>6. <<s[k]>> \o (SubSeq(s, k + 1, b - 1) \o f[b]) = (<<s[k]>> \o SubSeq(s, k + 1, b - 1)) \o f[b]
      <4> DEFINE c == <<s[k]>>
                 u == SubSeq(s, k + 1, b - 1)
      <4>1. c \in Seq(Character) /\ u \in Seq(Character)
        BY <3>5
      <4>2. c \o (u \o f[b]) = (c \o u) \o f[b]
        <5> HIDE DEF c, u
        <5>1. Regroups(c, u, f[b])
          BY <1>1, <4>1, Associative
        <5> QED BY <5>1 DEF Regroups
      <4> QED BY <4>2
    <3>7. P(k)
      BY <3>2, <3>3, <3>4, <3>6, Zenon
    <3> HIDE DEF P
    <3> QED BY <3>7
  <2> HIDE DEF X
  <2> QED BY <1>1, <2>1, <2>2, <2>3
<1>3. 1..b \subseteq X
  <2> HIDE DEF X
  <2> QED BY <1>1, <1>2, Backwards
<1>4. a \in X
  <2> HIDE DEF X
  <2> QED BY <1>1, <1>3
<1>5. P(a)
  <2> HIDE DEF P
  <2> QED BY <1>1, <1>4
<1> QED BY <1>5 DEF Copies

\* What is written for a position depends on what follows it only.
LEMMA Shifted ==
  ASSUME NEW x \in Seq(Character), NEW y \in Seq(Character), NEW old, NEW new \in Seq(Character),
         NEW f, Reads(f, y, old, new), NEW g, Reads(g, x \o y, old, new)
  PROVE  g[Len(x) + 1] = f[1]
<1> DEFINE z == x \o y
           m == Len(x)
           P(k) == g[m + k] = f[k]
           X == {k \in 1..Len(y)+1 : P(k)}
<1>1. m \in Nat /\ Len(y) \in Nat /\ z \in Seq(Character) /\ Len(z) = m + Len(y)
  BY ConcatProperties
<1>2. \A k \in 1..Len(y) : z[m + k] = y[k]
  <2> SUFFICES ASSUME NEW k \in 1..Len(y) PROVE z[m + k] = y[k]
    OBVIOUS
  <2>1. m + k \in 1..Len(x)+Len(y) /\ ~(m + k <= Len(x)) /\ (m + k) - Len(x) = k
    BY <1>1
  <2> QED BY <2>1, ConcatProperties
<1> HIDE DEF z, m
<1>3. ASSUME NEW k \in 1..Len(y)
      PROVE  Fill!HitAt(z, old, m + k) <=> Fill!HitAt(y, old, k)
  <2>1. CASE k = Len(y)
    BY <1>1, <2>1 DEF Fill!HitAt
  <2>2. CASE k < Len(y)
    <3>1. z[m + k] = y[k] /\ z[m + k + 1] = y[k + 1]
      <4>1. k + 1 \in 1..Len(y) /\ m + (k + 1) = m + k + 1
        BY <1>1, <2>2
      <4> QED BY <1>2, <4>1
    <3>2. m + k \in 1..Len(z)-1 /\ k \in 1..Len(y)-1
      BY <1>1, <2>2
    <3> QED BY <3>1, <3>2 DEF Fill!HitAt
  <2> QED BY <1>1, <2>1, <2>2
<1>4. ASSUME NEW k \in 1..Len(y)+1, \A j \in k+1..Len(y)+1 : j \in X PROVE k \in X
  <2>1. CASE k = Len(y) + 1
    <3>1. g[Len(z) + 1] = <<>> /\ f[Len(y) + 1] = <<>>
      BY DEF Reads, z
    <3>2. m + k = Len(z) + 1
      BY <1>1, <2>1
    <3>3. P(k)
      BY <2>1, <3>1, <3>2
    <3> HIDE DEF P
    <3> QED BY <3>3
  <2>2. CASE k # Len(y) + 1
    <3>1. k \in 1..Len(y) /\ m + k \in 1..Len(z) /\ m + (k + 1) = m + k + 1 /\ m + (k + 2) = m + k + 2
      BY <1>1, <2>2
    <3>2. P(k + 1)
      <4> HIDE DEF P
      <4> QED BY <1>1, <1>4, <3>1
    <3>3. CASE Fill!HitAt(y, old, k)
      <4>1. P(k + 2)
        <5>1. k + 2 \in k+1..Len(y)+1
          BY <1>1, <3>1, <3>3 DEF Fill!HitAt
        <5> HIDE DEF P
        <5> QED BY <1>4, <5>1
      <4>2. f[k] = new \o f[k + 2] /\ g[m + k] = new \o g[m + k + 2]
        BY <1>3, <3>1, <3>3 DEF Reads, z
      <4>3. P(k)
        BY <3>1, <4>1, <4>2
      <4> HIDE DEF P
      <4> QED BY <4>3
    <3>4. CASE ~Fill!HitAt(y, old, k)
      <4>1. f[k] = <<y[k]>> \o f[k + 1] /\ g[m + k] = <<z[m + k]>> \o g[m + k + 1]
        BY <1>3, <3>1, <3>4 DEF Reads, z
      <4>2. P(k)
        BY <1>2, <3>1, <3>2, <4>1
      <4> HIDE DEF P
      <4> QED BY <4>2
    <3> QED BY <3>3, <3>4
  <2> QED BY <2>1, <2>2
<1>5. P(1)
  <2> HIDE DEF P
  <2>1. Len(y) + 1 \in Nat /\ 1 \in 1..Len(y)+1
    BY <1>1
  <2>2. 1..Len(y)+1 \subseteq X
    <3> HIDE DEF X
    <3> QED BY <1>4, <2>1, Backwards
  <2> QED BY <2>1, <2>2
<1> QED BY <1>5 DEF m

\* What is in front of the first occurrence stays.
Keeps(x, y, old, new) == Fill!Replaced(x \o y, old, new) = x \o Fill!Replaced(y, old, new)

LEMMA Skips ==
  ASSUME NEW x \in Seq(Character), NEW y \in Seq(Character), NEW old, NEW new \in Seq(Character),
         \A i \in 1..Len(x) : ~Fill!HitAt(x \o y, old, i)
  PROVE  Keeps(x, y, old, new)
<1> DEFINE z == x \o y
           f == ReplacedFrom(y, old, new)
           g == ReplacedFrom(z, old, new)
<1>1. Len(x) \in Nat /\ Len(y) \in Nat /\ z \in Seq(Character) /\ Len(z) = Len(x) + Len(y)
  BY ConcatProperties
<1>2. /\ Reads(f, y, old, new) /\ Fill!Replaced(y, old, new) = f[1]
      /\ Reads(g, z, old, new) /\ Fill!Replaced(z, old, new) = g[1]
  BY <1>1, ReplacedReads
<1>3. g[Len(x) + 1] = f[1]
  <2> HIDE DEF f, g
  <2> QED BY <1>2, Shifted
<1>4. SubSeq(z, 1, Len(x)) = x
  <2>1. SubSeq(z, 1, Len(x)) \in Seq(Character) /\ Len(SubSeq(z, 1, Len(x))) = Len(x)
        /\ \A i \in 1..Len(x) : SubSeq(z, 1, Len(x))[i] = z[i]
    <3>1. \A i \in 1..Len(x) : z[i] \in Character
      <4> HIDE DEF z
      <4> QED BY <1>1, ElementOfSeq
    <3> HIDE DEF z
    <3> QED BY <1>1, <3>1, SubSeqProperties
  <2>2. \A i \in 1..Len(x) : z[i] = x[i]
    BY <1>1, ConcatProperties
  <2> HIDE DEF z
  <2> QED BY <2>1, <2>2, SeqEqual
<1>5. g[1] = SubSeq(z, 1, Len(x)) \o g[Len(x) + 1]
  <2> DEFINE b == Len(x) + 1
  <2>1. 1 \in 1..Len(z)+1 /\ b \in 1..Len(z)+1 /\ b - 1 = Len(x)
    BY <1>1
  <2>2. \A i \in 1..b-1 : ~Fill!HitAt(z, old, i)
    BY <2>1
  <2>3. g[1] = SubSeq(z, 1, b - 1) \o g[b]
    <3>1. Copies(g, z, 1, b)
      <4> HIDE DEF z, g, b
      <4> QED BY <1>1, <1>2, <2>1, <2>2, Stretch
    <3> HIDE DEF z, g, b
    <3> QED BY <3>1 DEF Copies
  <2> HIDE DEF z, g
  <2> QED BY <2>1, <2>3
<1> HIDE DEF f, g, z
<1>7. g[1] = x \o f[1]
  BY <1>3, <1>4, <1>5
<1> QED BY <1>2, <1>7 DEF z, Keeps

\* An occurrence in front is replaced.
LEMMA Replaces ==
  ASSUME NEW x \in Seq(Character), NEW y \in Seq(Character), NEW old, NEW new \in Seq(Character)
  PROVE  Len(x) = 2 /\ Fill!HitAt(x \o y, old, 1) =>
           Fill!Replaced(x \o y, old, new) = new \o Fill!Replaced(y, old, new)
<1> DEFINE z == x \o y
           f == ReplacedFrom(y, old, new)
           g == ReplacedFrom(z, old, new)
<1>1. Len(x) \in Nat /\ Len(y) \in Nat /\ z \in Seq(Character) /\ Len(z) = Len(x) + Len(y)
  BY ConcatProperties
<1>2. /\ Reads(f, y, old, new) /\ Fill!Replaced(y, old, new) = f[1]
      /\ Reads(g, z, old, new) /\ Fill!Replaced(z, old, new) = g[1]
  BY <1>1, ReplacedReads
<1>3. g[Len(x) + 1] = f[1]
  <2> HIDE DEF f, g
  <2> QED BY <1>2, Shifted
<1>4. SUFFICES ASSUME Len(x) = 2, Fill!HitAt(z, old, 1)
               PROVE  Fill!Replaced(z, old, new) = new \o Fill!Replaced(y, old, new)
  OBVIOUS
<1> HIDE DEF f, g, z
<1>5. 1 \in 1..Len(z) /\ Len(x) + 1 = 1 + 2
  BY <1>1, <1>4
<1>6. g[1] = new \o g[1 + 2]
  BY <1>2, <1>4, <1>5 DEF Reads
<1>7. g[1] = new \o f[1]
  BY <1>3, <1>5, <1>6
<1> QED BY <1>2, <1>7

LEMMA ReplacedTyped ==
  ASSUME NEW s \in Seq(Character), NEW old, NEW new \in Seq(Character)
  PROVE  /\ Fill!Replaced(s, old, new) \in Seq(Character)
         /\ s = <<>> => Fill!Replaced(s, old, new) = <<>>
<1> DEFINE f == ReplacedFrom(s, old, new)
<1>1. Reads(f, s, old, new) /\ Fill!Replaced(s, old, new) = f[1] /\ Len(s) \in Nat
  BY ReplacedReads
<1> HIDE DEF f
<1>2. f[1] \in Seq(Character)
  BY <1>1 DEF Reads
<1>3. s = <<>> => Len(s) + 1 = 1
  OBVIOUS
<1>4. s = <<>> => f[1] = <<>>
  BY <1>1, <1>3 DEF Reads
<1> QED BY <1>1, <1>2, <1>4

\* The function that Filled is the first value of, and what it computes.
FilledFrom(t, addr) ==
  CHOOSE f : f = [k \in 1..Len(t)+1 |->
    IF k > Len(t) THEN <<>>
    ELSE IF HitAt(t, <<"%", "u">>, k) THEN addr \o f[k + 2]
    ELSE IF HitAt(t, <<"%", "d">>, k) THEN DomainPart(addr) \o f[k + 2]
    ELSE IF HitAt(t, <<"%", "n">>, k) THEN LocalPart(addr) \o f[k + 2]
    ELSE <<t[k]>> \o f[k + 1]]

Fills(f, t, addr) ==
  /\ f \in [1..Len(t)+1 -> Seq(Character)]
  /\ f[Len(t)+1] = <<>>
  /\ \A k \in 1..Len(t) : t[k] # "%" => f[k] = <<t[k]>> \o f[k + 1]
  /\ \A k \in 1..Len(t)-1 : t[k] = "%" =>
       /\ t[k+1] = "u" => f[k] = addr \o f[k + 2]
       /\ t[k+1] = "d" => f[k] = Fill!DomainPart(addr) \o f[k + 2]
       /\ t[k+1] = "n" => f[k] = Fill!LocalPart(addr) \o f[k + 2]

LEMMA FilledReads ==
  ASSUME NEW t \in Seq(Character), NEW addr \in Seq(Character)
  PROVE  Fills(FilledFrom(t, addr), t, addr) /\ Filled(t, addr) = FilledFrom(t, addr)[1]
<1> DEFINE n == Len(t)
           u(k) == HitAt(t, <<"%", "u">>, k)
           d(k) == HitAt(t, <<"%", "d">>, k)
           l(k) == HitAt(t, <<"%", "n">>, k)
           dom == DomainPart(addr)
           loc == LocalPart(addr)
           ins == [k \in 1..n |-> IF u(k) THEN addr ELSE IF d(k) THEN dom
                                  ELSE IF l(k) THEN loc ELSE <<t[k]>>]
           w == [k \in 1..n |-> IF u(k) \/ d(k) \/ l(k) THEN 2 ELSE 1]
           E(f, k) == IF u(k) THEN addr \o f[k + 2]
                      ELSE IF d(k) THEN dom \o f[k + 2]
                      ELSE IF l(k) THEN loc \o f[k + 2]
                      ELSE <<t[k]>> \o f[k + 1]
           F(f) == f = [k \in 1..n+1 |-> IF k > n THEN <<>> ELSE E(f, k)]
<1>1. n \in Nat /\ \A k \in 1..n : t[k] \in Character
  BY ElementOfSeq
<1>2. dom = Fill!DomainPart(addr) /\ loc = Fill!LocalPart(addr)
  BY DEF DomainPart, LocalPart, AtSign, Fill!DomainPart, Fill!LocalPart, Fill!AtSign
<1>3. dom \in Seq(Character) /\ loc \in Seq(Character)
  <2> HIDE DEF dom, loc
  <2> QED BY <1>2, Parts
<1>4. ins \in [1..n -> Seq(Character)] /\ w \in [1..n -> {1, 2}]
  <2>1. \A k \in 1..n : <<t[k]>> \in Seq(Character)
    BY <1>1
  <2> HIDE DEF u, d, l, n, dom, loc
  <2> QED BY <1>3, <2>1
<1>5. \A k \in 1..n : k + w[k] <= n + 1
  <2>1. \A k \in 1..n : u(k) \/ d(k) \/ l(k) => k + 2 <= n + 1
    BY <1>1 DEF HitAt
  <2> HIDE DEF u, d, l, n
  <2> QED BY <1>1, <2>1
<1>6. ASSUME NEW f PROVE Writes(f, n, ins, w) <=> F(f)
  <2>1. ASSUME NEW k \in 1..n PROVE ins[k] \o f[k + w[k]] = E(f, k)
    <3> HIDE DEF u, d, l, n, dom, loc
    <3> QED OBVIOUS
  <2>2. \A k \in 1..n+1 : k > n \/ k \in 1..n
    BY <1>1
  <2> HIDE DEF E, ins, w, n
  <2>3. [k \in 1..n+1 |-> IF k > n THEN <<>> ELSE ins[k] \o f[k + w[k]]]
        = [k \in 1..n+1 |-> IF k > n THEN <<>> ELSE E(f, k)]
    BY <2>1, <2>2
  <2> QED BY <2>3 DEF Writes
<1>7. \E f : F(f)
  <2> HIDE DEF F, ins, w, n
  <2>1. PICK f : Writes(f, n, ins, w)
    BY <1>1, <1>4, <1>5, WritesExists
  <2> QED BY <1>6, <2>1
<1> DEFINE g == FilledFrom(t, addr)
<1>8. F(g)
  BY <1>7 DEF FilledFrom
<1>9. /\ g \in [1..n+1 -> Seq(Character)] /\ g[n+1] = <<>>
      /\ \A k \in 1..n : g[k] = E(g, k)
  <2> HIDE DEF F, ins, w, n, g
  <2>1. Writes(g, n, ins, w)
    BY <1>6, <1>8
  <2>2. Written(g, n, ins, w)
    BY <1>1, <1>4, <1>5, <2>1, WritesAt
  <2>3. ASSUME NEW k \in 1..n PROVE g[k] = E(g, k)
    <3>1. k \in 1..n+1 /\ ~(k > n)
      BY <1>1
    <3> HIDE DEF E
    <3> QED BY <1>8, <3>1 DEF F
  <2> QED BY <2>2, <2>3 DEF Written
<1>10. ASSUME NEW k \in 1..n
       PROVE  /\ t[k] # "%" => ~u(k) /\ ~d(k) /\ ~l(k)
              /\ k \in 1..n-1 /\ t[k] = "%" =>
                   /\ t[k+1] = "u" => u(k)
                   /\ t[k+1] = "d" => ~u(k) /\ d(k)
                   /\ t[k+1] = "n" => ~u(k) /\ ~d(k) /\ l(k)
  BY DEF HitAt
<1>11. Fills(g, t, addr)
  <2>1. ASSUME NEW k \in 1..n
        PROVE  /\ t[k] # "%" => g[k] = <<t[k]>> \o g[k + 1]
               /\ k \in 1..n-1 /\ t[k] = "%" =>
                   /\ t[k+1] = "u" => g[k] = addr \o g[k + 2]
                   /\ t[k+1] = "d" => g[k] = dom \o g[k + 2]
                   /\ t[k+1] = "n" => g[k] = loc \o g[k + 2]
    <3> HIDE DEF u, d, l, n, dom, loc, g
    <3> QED BY <1>9, <1>10
  <2>2. 1..n-1 \subseteq 1..n
    BY <1>1
  <2> HIDE DEF g, dom, loc
  <2> QED BY <1>2, <1>9, <2>1, <2>2 DEF Fills
<1>12. Filled(t, addr) = g[1]
  BY DEF Filled, FilledFrom
<1> QED BY <1>11, <1>12

-----------------------------------------------------------------------------
(* Three replacements, one after the other.                                *)

Pct(c) == <<"%", c>>

\* A string without a percent sign has no occurrence that begins in it.
LEMMA Untouched ==
  ASSUME NEW x \in Seq(Character), \A k \in 1..Len(x) : x[k] # "%", NEW y \in Seq(Character),
         NEW c, NEW new \in Seq(Character)
  PROVE  Keeps(x, y, Pct(c), new)
<1>1. ASSUME NEW i \in 1..Len(x) PROVE ~Fill!HitAt(x \o y, Pct(c), i)
  <2>1. i \in 1..Len(x)+Len(y) /\ i <= Len(x)
    OBVIOUS
  <2>2. (x \o y)[i] = x[i]
    BY <2>1, ConcatProperties
  <2> DEFINE z == x \o y
  <2>3. z[i] # "%"
    BY <2>2
  <2> HIDE DEF z
  <2>4. ~Fill!HitAt(z, Pct(c), i)
    BY <2>3 DEF Fill!HitAt, Pct
  <2> QED BY <2>4 DEF z
<1> DEFINE old == Pct(c)
<1> HIDE DEF old
<1>2. \A i \in 1..Len(x) : ~Fill!HitAt(x \o y, old, i)
  BY <1>1 DEF old
<1>3. Keeps(x, y, old, new)
  BY <1>2, Skips
<1> QED BY <1>3 DEF old

\* A placeholder in front is an occurrence of itself and of nothing else.
LEMMA PlaceholderIs ==
  ASSUME NEW c \in Character, c # "%", NEW b, NEW y \in Seq(Character)
  PROVE  /\ Pct(c) \in Seq(Character) /\ Len(Pct(c)) = 2
         /\ Fill!HitAt(Pct(c) \o y, Pct(c), 1)
         /\ b # c => \A i \in 1..2 : ~Fill!HitAt(Pct(c) \o y, Pct(b), i)
<1> DEFINE x == Pct(c)
           z == x \o y
<1>1. x \in Seq(Character) /\ Len(x) = 2 /\ x[1] = "%" /\ x[2] = c
  BY CharacterAssumption DEF Pct
<1>2. Pct(b)[1] = "%" /\ Pct(b)[2] = b
  BY DEF Pct
<1> HIDE DEF x
<1>3. Len(y) \in Nat /\ z \in Seq(Character) /\ Len(z) = 2 + Len(y)
  <2>1. x \in Seq(Character)
    BY <1>1
  <2>2. Len(y) \in Nat /\ z \in Seq(Character) /\ Len(z) = Len(x) + Len(y)
    BY <2>1, ConcatProperties
  <2> QED BY <1>1, <2>2
<1>4. z[1] = "%" /\ z[2] = c
  <2>1. 1 \in 1..Len(x)+Len(y) /\ 2 \in 1..Len(x)+Len(y) /\ 1 <= Len(x) /\ 2 <= Len(x)
    BY <1>1
  <2>2. z[1] = x[1] /\ z[2] = x[2]
    BY <1>1, <2>1, ConcatProperties
  <2> QED BY <1>1, <2>2
<1> HIDE DEF z
<1>5. Fill!HitAt(z, x, 1)
  <2>1. 1 \in 1..Len(z)-1 /\ 1 + 1 = 2
    BY <1>3
  <2> QED BY <1>1, <1>4, <2>1 DEF Fill!HitAt
<1>6. b # c => ~Fill!HitAt(z, Pct(b), 1) /\ ~Fill!HitAt(z, Pct(b), 2)
  BY <1>2, <1>4 DEF Fill!HitAt
<1>7. \A i \in 1..2 : i = 1 \/ i = 2
  OBVIOUS
<1> QED BY <1>1, <1>5, <1>6, <1>7 DEF x, z

LEMMA PlaceholderFound ==
  \A c \in Character, y, new \in Seq(Character) : c # "%" =>
    Fill!Replaced(Pct(c) \o y, Pct(c), new) = new \o Fill!Replaced(y, Pct(c), new)
<1> SUFFICES ASSUME NEW c \in Character, NEW y \in Seq(Character), NEW new \in Seq(Character), c # "%"
             PROVE  Fill!Replaced(Pct(c) \o y, Pct(c), new) = new \o Fill!Replaced(y, Pct(c), new)
  OBVIOUS
<1> DEFINE x == Pct(c)
           old == Pct(c)
<1>1. x \in Seq(Character) /\ Len(x) = 2 /\ Fill!HitAt(x \o y, old, 1)
  BY PlaceholderIs
<1> HIDE DEF x, old
<1>2. Fill!Replaced(x \o y, old, new) = new \o Fill!Replaced(y, old, new)
  BY <1>1, Replaces
<1> QED BY <1>2 DEF x, old

LEMMA PlaceholderStays ==
  \A c \in Character, b \in Character, y, new \in Seq(Character) :
    c # "%" /\ b # c => Keeps(Pct(c), y, Pct(b), new)
<1> SUFFICES ASSUME NEW c \in Character, NEW b \in Character, NEW y \in Seq(Character),
                    NEW new \in Seq(Character), c # "%", b # c
             PROVE  Keeps(Pct(c), y, Pct(b), new)
  OBVIOUS
<1> DEFINE x == Pct(c)
           old == Pct(b)
<1>1. x \in Seq(Character) /\ Len(x) = 2 /\ \A i \in 1..2 : ~Fill!HitAt(x \o y, old, i)
  BY PlaceholderIs
<1> HIDE DEF x, old
<1>2. x \in Seq(Character) /\ \A i \in 1..Len(x) : ~Fill!HitAt(x \o y, old, i)
  BY <1>1
<1>3. Keeps(x, y, old, new)
  BY <1>2, Skips
<1> QED BY <1>3 DEF x, old

\* The address and its parts without a percent sign.
LEMMA PartsPlain ==
  ASSUME NEW addr \in Seq(Character), \A k \in DOMAIN addr : addr[k] # "%"
  PROVE  /\ \A k \in 1..Len(addr) : addr[k] # "%"
         /\ \A k \in 1..Len(Fill!DomainPart(addr)) : Fill!DomainPart(addr)[k] # "%"
         /\ \A k \in 1..Len(Fill!LocalPart(addr)) : Fill!LocalPart(addr)[k] # "%"
<1> DEFINE C == Character \ {"%"}
<1>1. Len(addr) \in Nat /\ DOMAIN addr = 1..Len(addr) /\ \A k \in 1..Len(addr) : addr[k] \in C
  <2>1. Len(addr) \in Nat /\ DOMAIN addr = 1..Len(addr)
    OBVIOUS
  <2> QED BY <2>1, ElementOfSeq
<1>2. Fill!AtSign(addr) \in 1..Len(addr)+1
  BY AtSignExists
<1>3. Fill!DomainPart(addr) \in Seq(C) /\ Fill!LocalPart(addr) \in Seq(C)
  <2> HIDE DEF C
  <2>1. \A m \in 1..Len(addr)+2, n \in 0..Len(addr) : SubSeq(addr, m, n) \in Seq(C)
    <3> SUFFICES ASSUME NEW m \in 1..Len(addr)+2, NEW n \in 0..Len(addr)
                 PROVE  SubSeq(addr, m, n) \in Seq(C)
      OBVIOUS
    <3>1. \A k \in m..n : addr[k] \in C
      BY <1>1
    <3> QED BY <3>1, SubSeqProperties
  <2> QED BY <1>1, <1>2, <2>1 DEF Fill!DomainPart, Fill!LocalPart
<1>4. \A s \in Seq(C) : \A k \in 1..Len(s) : s[k] \in C
  BY ElementOfSeq
<1> HIDE DEF C
<1>5. /\ \A k \in 1..Len(Fill!DomainPart(addr)) : Fill!DomainPart(addr)[k] \in C
      /\ \A k \in 1..Len(Fill!LocalPart(addr)) : Fill!LocalPart(addr)[k] \in C
  BY <1>3, <1>4
<1> QED BY <1>1, <1>5 DEF C

\* What the second and third call make of the result of the first.
Rest(s, addr) ==
  Fill!Replaced(Fill!Replaced(s, Pct("d"), Fill!DomainPart(addr)), Pct("n"), Fill!LocalPart(addr))

LEMMA Letters ==
  /\ "d" \in Character /\ "d" # "%" /\ "n" \in Character /\ "n" # "%" /\ "d" # "n"
  /\ <<"%">> \in Seq(Character) /\ \A c \in Character : <<c>> \in Seq(Character)
  /\ \A c \in Character : <<"%">> \o <<c>> = Pct(c)
<1>1. "%" \in Character /\ "d" \in Character /\ "n" \in Character
  BY CharacterAssumption
<1>2. ASSUME NEW c \in Character PROVE <<"%">> \o <<c>> = Pct(c)
  <2>1. <<"%">> \in Seq(Character) /\ <<c>> \in Seq(Character) /\ Pct(c) \in Seq(Character)
    BY <1>1 DEF Pct
  <2>2. Len(<<"%">>) = 1 /\ Len(<<c>>) = 1 /\ Len(Pct(c)) = 2
    BY DEF Pct
  <2> DEFINE x == <<"%">>
             y == <<c>>
             z == x \o y
  <2>3. x[1] = "%" /\ y[1] = c /\ Pct(c)[1] = "%" /\ Pct(c)[2] = c
    BY DEF Pct
  <2> HIDE DEF x, y
  <2>4. z \in Seq(Character) /\ Len(z) = Len(x) + Len(y)
        /\ \A i \in 1..Len(x)+Len(y) : z[i] = IF i <= Len(x) THEN x[i] ELSE y[i - Len(x)]
    BY <2>1, ConcatProperties DEF x, y
  <2> HIDE DEF z
  <2>5. Len(x) = 1 /\ Len(y) = 1
    BY <2>2 DEF x, y
  <2>6. Len(z) = 2 /\ z[1] = "%" /\ z[2] = c
    BY <2>3, <2>4, <2>5
  <2>7. \A i \in 1..Len(z) : z[i] = Pct(c)[i]
    BY <2>3, <2>6
  <2>8. z = Pct(c)
    BY <2>1, <2>2, <2>4, <2>6, <2>7, SeqEqual
  <2> QED BY <2>8 DEF z, x, y
<1> QED BY <1>1, <1>2

LEMMA RestOf ==
  ASSUME NEW addr \in Seq(Character), \A k \in DOMAIN addr : addr[k] # "%", NEW y \in Seq(Character)
  PROVE  /\ Rest(<<>>, addr) = <<>>
         /\ Rest(y, addr) \in Seq(Character)
         /\ \A x \in Seq(Character) :
              (\A k \in 1..Len(x) : x[k] # "%") => Rest(x \o y, addr) = x \o Rest(y, addr)
         /\ Rest(Pct("d") \o y, addr) = Fill!DomainPart(addr) \o Rest(y, addr)
         /\ Rest(Pct("n") \o y, addr) = Fill!LocalPart(addr) \o Rest(y, addr)
<1> DEFINE dom == Fill!DomainPart(addr)
           loc == Fill!LocalPart(addr)
           D(s) == Fill!Replaced(s, Pct("d"), dom)
           N(s) == Fill!Replaced(s, Pct("n"), loc)
<1>1. /\ dom \in Seq(Character) /\ \A k \in 1..Len(dom) : dom[k] # "%"
      /\ loc \in Seq(Character)
  BY Parts, PartsPlain
<1>2. \A s : Rest(s, addr) = N(D(s))
  BY DEF Rest
<1> HIDE DEF dom, loc
<1>3. \A s \in Seq(Character) : D(s) \in Seq(Character) /\ N(s) \in Seq(Character)
  BY <1>1, ReplacedTyped
<1>4. D(<<>>) = <<>> /\ N(<<>>) = <<>>
  BY <1>1, ReplacedTyped, EmptySeq
<1>8. \A x, s \in Seq(Character) : (\A k \in 1..Len(x) : x[k] # "%") =>
        D(x \o s) = x \o D(s) /\ N(x \o s) = x \o N(s)
  <2> SUFFICES ASSUME NEW x \in Seq(Character), NEW s \in Seq(Character),
                      \A k \in 1..Len(x) : x[k] # "%"
               PROVE  D(x \o s) = x \o D(s) /\ N(x \o s) = x \o N(s)
    OBVIOUS
  <2>1. Keeps(x, s, Pct("d"), dom)
    BY <1>1, Untouched
  <2>2. Keeps(x, s, Pct("n"), loc)
    BY <1>1, Untouched
  <2> QED BY <2>1, <2>2 DEF Keeps
<1>9. \A s \in Seq(Character) :
        /\ D(Pct("d") \o s) = dom \o D(s)
        /\ D(Pct("n") \o s) = Pct("n") \o D(s)
        /\ N(Pct("n") \o s) = loc \o N(s)
  <2> SUFFICES ASSUME NEW s \in Seq(Character)
               PROVE  /\ D(Pct("d") \o s) = dom \o D(s)
                      /\ D(Pct("n") \o s) = Pct("n") \o D(s)
                      /\ N(Pct("n") \o s) = loc \o N(s)
    OBVIOUS
  <2> DEFINE d == "d"
             n == "n"
  <2>1. d \in Character /\ d # "%" /\ n \in Character /\ n # "%" /\ d # n
    BY Letters
  <2> HIDE DEF d, n
  <2>2. Fill!Replaced(Pct(d) \o s, Pct(d), dom) = dom \o Fill!Replaced(s, Pct(d), dom)
    BY <1>1, <2>1, PlaceholderFound
  <2>3. Keeps(Pct(n), s, Pct(d), dom)
    BY <1>1, <2>1, PlaceholderStays
  <2>4. Fill!Replaced(Pct(n) \o s, Pct(n), loc) = loc \o Fill!Replaced(s, Pct(n), loc)
    BY <1>1, <2>1, PlaceholderFound
  <2> QED BY <2>2, <2>3, <2>4 DEF d, n, Keeps
<1> HIDE DEF D, N
<1>5. ASSUME NEW x \in Seq(Character), \A k \in 1..Len(x) : x[k] # "%"
      PROVE  N(D(x \o y)) = x \o N(D(y))
  <2>1. D(x \o y) = x \o D(y)
    BY <1>5, <1>8
  <2> DEFINE z == D(y)
  <2>2. z \in Seq(Character)
    BY <1>3
  <2> HIDE DEF z
  <2>3. N(x \o z) = x \o N(z)
    BY <1>5, <1>8, <2>2
  <2> QED BY <2>1, <2>3 DEF z
<1>6. N(D(Pct("d") \o y)) = dom \o N(D(y))
  <2> DEFINE z == D(y)
  <2>1. D(Pct("d") \o y) = dom \o z
    BY <1>9
  <2>2. z \in Seq(Character)
    BY <1>3
  <2> HIDE DEF z
  <2>3. N(dom \o z) = dom \o N(z)
    BY <1>1, <1>8, <2>2
  <2> QED BY <2>1, <2>3 DEF z
<1>7. N(D(Pct("n") \o y)) = loc \o N(D(y))
  <2> DEFINE z == D(y)
  <2>1. D(Pct("n") \o y) = Pct("n") \o z
    BY <1>9
  <2>2. z \in Seq(Character)
    BY <1>3
  <2> HIDE DEF z
  <2>3. N(Pct("n") \o z) = loc \o N(z)
    BY <1>9, <2>2
  <2> QED BY <2>1, <2>3 DEF z
<1> QED BY <1>2, <1>3, <1>4, <1>5, <1>6, <1>7 DEF dom, loc

\* Position by position, the three calls write what the comment on
\* replace_placeholders says.
LEMMA OneByOne ==
  ASSUME NEW t \in Seq(Character), NEW addr \in Seq(Character), Plain(t, addr)
  PROVE  Rest(Fill!Replaced(t, Pct("u"), addr), addr) = Filled(t, addr)
<1> DEFINE n == Len(t)
           r == ReplacedFrom(t, Pct("u"), addr)
           f == FilledFrom(t, addr)
           P(k) == Rest(r[k], addr) = f[k]
           X == {k \in 1..n+1 : P(k)}
<1>1. n \in Nat /\ DOMAIN t = 1..n /\ \A k \in 1..n : t[k] \in Character
  BY ElementOfSeq
<1>2. /\ \A k \in DOMAIN addr : addr[k] # "%"
      /\ \A k \in 1..n : t[k] = "%" => k < n /\ t[k+1] \in {"u", "d", "n"}
  BY <1>1 DEF Plain
<1>3. Reads(r, t, Pct("u"), addr) /\ Fill!Replaced(t, Pct("u"), addr) = r[1]
  BY ReplacedReads
<1>4. Fills(f, t, addr) /\ Filled(t, addr) = f[1]
  BY FilledReads
<1>5. r \in [1..n+1 -> Seq(Character)] /\ r[n+1] = <<>> /\ f[n+1] = <<>>
  BY <1>3, <1>4 DEF Reads, Fills
<1>6. ASSUME NEW k \in 1..n
      PROVE  /\ t[k] # "%" => r[k] = <<t[k]>> \o r[k + 1]
             /\ t[k] = "%" /\ t[k+1] = "u" => r[k] = addr \o r[k + 2]
             /\ t[k] = "%" /\ t[k+1] # "u" => r[k] = <<"%">> \o r[k + 1]
  <2> HIDE DEF r
  <2>1. /\ t[k] # "%" => ~Fill!HitAt(t, Pct("u"), k)
        /\ t[k] = "%" /\ t[k+1] = "u" => Fill!HitAt(t, Pct("u"), k)
        /\ t[k] = "%" /\ t[k+1] # "u" => ~Fill!HitAt(t, Pct("u"), k)
    BY <1>1, <1>2 DEF Fill!HitAt, Pct
  <2> QED BY <1>3, <2>1 DEF Reads
<1> HIDE DEF r, f, P
<1>7. ASSUME NEW k \in 1..n, t[k] # "%", P(k + 1) PROVE P(k)
  <2> DEFINE x == <<t[k]>>
             y == r[k + 1]
  <2>1. x \in Seq(Character) /\ \A j \in 1..Len(x) : x[j] # "%"
    BY <1>1, <1>7
  <2>2. r[k] = x \o y /\ y \in Seq(Character) /\ f[k] = x \o f[k + 1]
    <3>1. r[k] = x \o y
      BY <1>6, <1>7
    <3>2. y \in Seq(Character)
      BY <1>1, <1>5
    <3>3. f[k] = x \o f[k + 1]
      BY <1>4, <1>7 DEF Fills
    <3> QED BY <3>1, <3>2, <3>3
  <2> HIDE DEF x, y
  <2>3. Rest(x \o y, addr) = x \o Rest(y, addr)
    BY <1>2, <2>1, <2>2, RestOf
  <2>4. Rest(y, addr) = f[k + 1]
    BY <1>7 DEF P, y
  <2> QED BY <2>2, <2>3, <2>4 DEF P
<1>8. ASSUME NEW k \in 1..n, t[k] = "%", P(k + 2) PROVE P(k)
  <2> DEFINE y == r[k + 2]
             c == t[k + 1]
  <2>1. k + 2 \in 1..n+1 /\ k + 1 \in 1..n /\ k \in 1..n-1 /\ c \in {"u", "d", "n"} /\ c # "%"
    BY <1>1, <1>2, <1>8
  <2>2. y \in Seq(Character)
    BY <1>5, <2>1
  <2>3. Rest(y, addr) = f[k + 2]
    BY <1>8 DEF P
  <2>4. CASE c = "u"
    <3>1. r[k] = addr \o y /\ f[k] = addr \o f[k + 2]
      BY <1>4, <1>6, <1>8, <2>1, <2>4 DEF Fills
    <3> HIDE DEF y
    <3>2. \A j \in 1..Len(addr) : addr[j] # "%"
      BY <1>2, PartsPlain
    <3>3. Rest(addr \o y, addr) = addr \o Rest(y, addr)
      BY <1>2, <2>2, <3>2, RestOf
    <3> QED BY <2>3, <3>1, <3>3 DEF P
  <2>5. CASE c # "u"
    <3>1. r[k] = <<"%">> \o r[k + 1] /\ r[k + 1] = <<c>> \o r[(k + 1) + 1] /\ (k + 1) + 1 = k + 2
      <4>1. r[k] = <<"%">> \o r[k + 1]
        BY <1>6, <1>8, <2>5
      <4>2. k + 1 \in 1..n /\ t[k + 1] = c /\ c # "%"
        BY <2>1
      <4>3. r[k + 1] = <<c>> \o r[(k + 1) + 1]
        <5> HIDE DEF c
        <5> QED BY <1>6, <4>2
      <4>4. (k + 1) + 1 = k + 2
        BY <1>1
      <4> QED BY <4>1, <4>3, <4>4
    <3>2. r[k] = <<"%">> \o (<<c>> \o y)
      BY <3>1
    <3>3. <<"%">> \in Seq(Character) /\ <<c>> \in Seq(Character) /\ <<"%">> \o <<c>> = Pct(c)
      <4>1. c \in Character
        BY <1>1, <2>1
      <4> HIDE DEF c
      <4> QED BY <4>1, Letters
    <3> HIDE DEF y, c
    <3>4. r[k] = Pct(c) \o y
      <4> DEFINE p == <<"%">>
                 q == <<c>>
      <4>1. p \in Seq(Character) /\ q \in Seq(Character) /\ p \o q = Pct(c) /\ r[k] = p \o (q \o y)
        BY <3>2, <3>3, ZenonT(30)
      <4> HIDE DEF p, q
      <4>2. (p \o q) \o y = p \o (q \o y)
        <5>1. Regroups(p, q, y)
          BY <2>2, <4>1, Associative
        <5> QED BY <5>1 DEF Regroups
      <4> QED BY <4>1, <4>2
    <3>5. CASE c = "d"
      <4>1. f[k] = Fill!DomainPart(addr) \o f[k + 2]
        BY <1>4, <1>8, <2>1, <3>5 DEF Fills, c
      <4>2. Rest(Pct("d") \o y, addr) = Fill!DomainPart(addr) \o Rest(y, addr)
        BY <1>2, <2>2, RestOf
      <4> QED BY <2>3, <3>4, <3>5, <4>1, <4>2 DEF P
    <3>6. CASE c = "n"
      <4>1. f[k] = Fill!LocalPart(addr) \o f[k + 2]
        BY <1>4, <1>8, <2>1, <3>6 DEF Fills, c
      <4>2. Rest(Pct("n") \o y, addr) = Fill!LocalPart(addr) \o Rest(y, addr)
        BY <1>2, <2>2, RestOf
      <4> QED BY <2>3, <3>4, <3>6, <4>1, <4>2 DEF P
    <3> QED BY <2>1, <2>5, <3>5, <3>6 DEF c
  <2> QED BY <2>4, <2>5
<1>9. P(n + 1)
  BY <1>2, <1>5, RestOf, EmptySeq DEF P
<1>10. ASSUME NEW k \in 1..n+1, \A j \in k+1..n+1 : j \in X PROVE k \in X
  <2>1. CASE k = n + 1
    BY <1>9, <2>1
  <2>2. CASE k # n + 1 /\ t[k] # "%"
    BY <1>1, <1>7, <1>10, <2>2
  <2>3. CASE k # n + 1 /\ t[k] = "%"
    <3>1. k \in 1..n /\ k + 2 \in k+1..n+1
      BY <1>1, <1>2, <2>3
    <3> QED BY <1>8, <1>10, <2>3, <3>1
  <2> QED BY <2>1, <2>2, <2>3
<1>11. P(1)
  <2>1. n + 1 \in Nat /\ 1 \in 1..n+1
    BY <1>1
  <2>2. 1..n+1 \subseteq X
    <3> HIDE DEF X, n
    <3> QED BY <1>10, <2>1, Backwards
  <2> QED BY <2>1, <2>2
<1> QED BY <1>3, <1>4, <1>11 DEF P

-----------------------------------------------------------------------------
(* str_replace replaces all.                                               *)

\* While a call copies, what it has written and what the rest of the text still
\* makes it write are the whole result.
ReplaceInv ==
  call < 4 /\ text # NULL /\ step = "copy" =>
    result \o ReplacedFrom(text, Fill!Old, Fill!New)[at] = Fill!Replaced(text, Fill!Old, Fill!New)

LEMMA AllocateReplaces ==
  ASSUME Fill!TypeOK, CountInv, Fill!Allocate
  PROVE  ReplaceInv'
<1> DEFINE f == ReplacedFrom(text, Fill!Old, Fill!New)
<1>1. call < 4 /\ text \in Seq(Character) /\ text # NULL /\ step = "count"
  BY DEF Fill!TypeOK, Fill!Allocate, Fill!Counting
<1>2. Fill!New \in Seq(Character)
  BY <1>1, CallStrings
<1>3. Reads(f, text, Fill!Old, Fill!New) /\ Fill!Replaced(text, Fill!Old, Fill!New) = f[1]
  BY <1>1, <1>2, ReplacedReads
<1>4. SameCall /\ Fill!Old' = Fill!Old /\ Fill!New' = Fill!New
  BY SameStrings DEF Fill!Allocate, SameCall
<1>5. result' = <<>> /\ at' = 1 /\ text' = text
  BY <1>1 DEF CountInv, Fill!Allocate
<1>6. <<>> \o f[1] = f[1]
  <2> HIDE DEF f
  <2>1. f[1] \in Seq(Character)
    BY <1>1, <1>3 DEF Reads
  <2> QED BY <2>1, ConcatEmptySeq
<1>7. ReplacedFrom(text, Fill!Old, Fill!New)' = f
  BY <1>4, <1>5 DEF ReplacedFrom, Fill!HitAt
<1>8. Fill!Replaced(text, Fill!Old, Fill!New)' = f[1]
  BY <1>3, <1>4, <1>5 DEF Fill!Replaced, Fill!HitAt
<1> HIDE DEF f
<1> QED BY <1>5, <1>6, <1>7, <1>8 DEF ReplaceInv

LEMMA CopyTurnReplaces ==
  ASSUME Fill!TypeOK, CountInv, ReplaceInv, Fill!CopyTurn
  PROVE  ReplaceInv'
<1> DEFINE old == Fill!Old
           new == Fill!New
           f == ReplacedFrom(text, old, new)
<1>1. /\ call < 4 /\ text \in Seq(Character) /\ text # NULL /\ step = "copy"
      /\ at \in 1..Len(text)+1 /\ result \in Seq(Character) /\ Len(text) \in Nat
  BY DEF Fill!TypeOK, Fill!CopyTurn, Fill!Copying
<1>2. new \in Seq(Character) /\ Len(Fill!Old) = 2
  BY <1>1, CallStrings
<1>3. Reads(f, text, old, new) /\ Fill!Replaced(text, old, new) = f[1]
  BY <1>1, <1>2, ReplacedReads
<1>4. PICK j \in at..Len(text) :
        /\ Fill!IsNextHit(text, old, at, j) /\ at' = j + 2
        /\ result' = result \o SubSeq(text, at, j - 1) \o new
  BY <1>2 DEF Fill!CopyTurn
<1>5. SameCall /\ Fill!Old' = old /\ Fill!New' = new
  BY SameStrings DEF Fill!CopyTurn, SameCall
<1>6. ReplacedFrom(text, Fill!Old, Fill!New)' = f
  BY <1>5 DEF ReplacedFrom, Fill!HitAt, SameCall
<1>7. Fill!Replaced(text, Fill!Old, Fill!New)' = f[1]
  BY <1>3, <1>5 DEF Fill!Replaced, Fill!HitAt, SameCall
<1>8. result \o f[at] = f[1]
  BY <1>1, <1>3 DEF ReplaceInv
<1> HIDE DEF old, new, f
<1>9. /\ Fill!HitAt(text, old, j) /\ j \in 1..Len(text) /\ j + 1 <= Len(text)
      /\ \A i \in at..j-1 : ~Fill!HitAt(text, old, i)
  BY <1>1, <1>4 DEF Fill!IsNextHit, Fill!HitAt
<1> DEFINE s == SubSeq(text, at, j - 1)
           r == f[j + 2]
<1>10. f[at] = s \o f[j]
  <2>1. j \in at..Len(text)+1
    BY <1>1
  <2>2. Copies(f, text, at, j)
    BY <1>1, <1>2, <1>3, <1>9, <2>1, Stretch
  <2> QED BY <2>2 DEF Copies
<1>11. f[j] = new \o r
  BY <1>3, <1>9 DEF Reads
<1>12. s \in Seq(Character) /\ r \in Seq(Character)
  <2>1. j - 1 \in at-1..Len(text)
    BY <1>1
  <2>2. s \in Seq(Character)
    BY <1>1, <2>1, Slices
  <2>3. j + 2 \in 1..Len(text)+1
    BY <1>1, <1>9
  <2> QED BY <1>3, <2>2, <2>3 DEF Reads
<1>13. result' = (result \o s) \o new
  BY <1>4
<1> HIDE DEF s, r
<1>14. result' \o r = result \o (s \o (new \o r))
  <2>1. result \o s \in Seq(Character) /\ new \o r \in Seq(Character)
    BY <1>1, <1>2, <1>12, ConcatProperties
  <2>2. ((result \o s) \o new) \o r = (result \o s) \o (new \o r)
    <3>1. Regroups(result \o s, new, r)
      BY <1>2, <1>12, <2>1, Associative
    <3> QED BY <3>1 DEF Regroups
  <2>3. (result \o s) \o (new \o r) = result \o (s \o (new \o r))
    <3>1. Regroups(result, s, new \o r)
      BY <1>1, <1>12, <2>1, Associative
    <3> QED BY <3>1 DEF Regroups
  <2> QED BY <1>13, <2>2, <2>3
<1>15. result' \o r = f[1]
  BY <1>8, <1>10, <1>11, <1>14
<1>16. at' = j + 2
  BY <1>4
<1> QED BY <1>6, <1>7, <1>15, <1>16 DEF ReplaceInv, r

\* What the last piece completes.
LEMMA TailReplaces ==
  ASSUME Fill!TypeOK, CountInv, ReplaceInv, Fill!CopyTail
  PROVE  text' = Fill!Replaced(text, Fill!Old, Fill!New)
<1> DEFINE old == Fill!Old
           new == Fill!New
           f == ReplacedFrom(text, old, new)
           b == Len(text) + 1
<1>1. /\ call < 4 /\ text \in Seq(Character) /\ text # NULL /\ step = "copy" /\ count = 0
      /\ at \in 1..Len(text)+1 /\ result \in Seq(Character) /\ Len(text) \in Nat
      /\ text' = result \o SubSeq(text, at, Len(text))
  BY DEF Fill!TypeOK, Fill!CopyTail, Fill!Copying, Fill!Return
<1>2. new \in Seq(Character)
  BY <1>1, CallStrings
<1>3. Reads(f, text, old, new) /\ Fill!Replaced(text, old, new) = f[1]
  BY <1>1, <1>2, ReplacedReads
<1>4. result \o f[at] = f[1]
  BY <1>1, <1>3 DEF ReplaceInv
<1>5. Fill!NoHit(text, old, at)
  <2>1. Cardinality(Hits(text, Fill!Old, at)) = 0
    BY <1>1 DEF CountInv
  <2> QED BY <1>1, <2>1, NoHits
<1> HIDE DEF old, new, f
<1>6. b \in 1..Len(text)+1 /\ b \in at..Len(text)+1 /\ b - 1 = Len(text)
  BY <1>1
<1>7. \A i \in at..b-1 : ~Fill!HitAt(text, old, i)
  BY <1>5, <1>6 DEF Fill!NoHit
<1>8. f[at] = SubSeq(text, at, Len(text)) \o f[b]
  <2>1. Copies(f, text, at, b)
    <3> HIDE DEF b
    <3> QED BY <1>1, <1>2, <1>3, <1>6, <1>7, Stretch
  <2> HIDE DEF b
  <2> QED BY <1>6, <2>1 DEF Copies
<1>9. SubSeq(text, at, Len(text)) \o f[b] = SubSeq(text, at, Len(text))
  <2>1. f[b] = <<>>
    BY <1>3 DEF Reads
  <2>2. SubSeq(text, at, Len(text)) \in Seq(Character)
    BY <1>1, Slices
  <2> QED BY <2>1, <2>2, ConcatEmptySeq
<1>10. text' = f[1]
  BY <1>1, <1>4, <1>8, <1>9
<1> QED BY <1>3, <1>10 DEF old, new

LEMMA ReplaceKeeps ==
  ASSUME Fill!TypeOK, CountInv, ReplaceInv, Fill!Next \/ UNCHANGED filling
  PROVE  ReplaceInv'
<1>1. CASE Fill!NullOrig \/ Fill!CountTurn \/ Fill!AllocateFails \/ Fill!CopyTail
  <2>1. step' = "count"
    BY <1>1 DEF Fill!NullOrig, Fill!CountTurn, Fill!Counting, Fill!AllocateFails, Fill!CopyTail, Fill!Return
  <2> QED BY <2>1 DEF ReplaceInv
<1>2. CASE Fill!Allocate
  BY <1>2, AllocateReplaces
<1>3. CASE Fill!CopyTurn
  BY <1>3, CopyTurnReplaces
<1>4. CASE UNCHANGED filling
  <2>1. UNCHANGED <<address, call, step, text, at, result>>
    BY <1>4 DEF filling
  <2>2. Fill!Old' = Fill!Old /\ Fill!New' = Fill!New
    BY <2>1 DEF Fill!Old, Fill!New
  <2>3. /\ ReplacedFrom(text, Fill!Old, Fill!New)' = ReplacedFrom(text, Fill!Old, Fill!New)
        /\ Fill!Replaced(text, Fill!Old, Fill!New)' = Fill!Replaced(text, Fill!Old, Fill!New)
    BY <2>1, <2>2 DEF ReplacedFrom, Fill!Replaced, Fill!HitAt
  <2> QED BY <2>1, <2>3 DEF ReplaceInv
<1> QED BY <1>1, <1>2, <1>3, <1>4 DEF Fill!Next

\* The steps of a search as steps of its templates.
LEMMA FillingSteps ==
  ASSUME [Next]_vars, ~FilterReady
  PROVE  Fill!Next \/ UNCHANGED filling
BY DEF Next, vars, ReplacePlaceholders, DecomposeNoMemory, BaseReady,
  SearchFails, Searched, CreateArray, CreateNoMemory, FirstAttribute, GetValues,
  GetValuesFails, PushValue, FreeValues, NextEntry, Collect, Return

LEMMA ReplaceInvAlways == Spec => []ReplaceInv
<1>1. Init => ReplaceInv
  BY DEF Init, ReplaceInv
<1>2. BufferInv /\ ReplaceInv /\ [Next]_vars => ReplaceInv'
  <2> SUFFICES ASSUME BufferInv, ReplaceInv, [Next]_vars PROVE ReplaceInv'
    OBVIOUS
  <2>1. CASE FilterReady
    BY <2>1 DEF FilterReady, Fill!Call, ReplaceInv
  <2>2. CASE ~FilterReady
    BY <2>2, FillingSteps, ReplaceKeeps DEF BufferInv
  <2> QED BY <2>1, <2>2
<1> QED BY <1>1, <1>2, BufferInvAlways, PTL DEF Spec

\* For texts and replacements of every length, a call of str_replace that
\* returns a string returns the text with every occurrence replaced.
THEOREM ReplacesEvery == Spec => ReplacesAll
<1>1. BufferInv /\ ReplaceInv /\ [Next]_vars =>
        [call' # call /\ call' # 1 /\ text' # NULL =>
           text' = Fill!Replaced(text, Fill!Old, Fill!New)]_(Fill!vars)
  <2> SUFFICES ASSUME BufferInv, ReplaceInv, [Next]_vars,
                      call' # call, call' # 1, text' # NULL
               PROVE  text' = Fill!Replaced(text, Fill!Old, Fill!New)
    OBVIOUS
  <2>1. Fill!Next
    <3>1. ~FilterReady
      BY DEF FilterReady, Fill!Call
    <3>2. ~(UNCHANGED filling)
      BY DEF filling
    <3> QED BY <3>1, <3>2, FillingSteps
  <2>2. Fill!CopyTail
    BY <2>1 DEF Fill!Next, Fill!NullOrig, Fill!CountTurn, Fill!Allocate, Fill!AllocateFails,
                Fill!CopyTurn, Fill!Return
  <2> QED BY <2>2, TailReplaces DEF BufferInv
<1> QED BY <1>1, BufferInvAlways, ReplaceInvAlways, PTL DEF Spec, ReplacesAll, Fill!ReplacesAll

-----------------------------------------------------------------------------
(* The templates are filled.                                               *)

\* What the calls before call c make of a template.
Stage(t, addr, c) ==
  LET one == Fill!Replaced(t, Pct("u"), addr)
      two == Fill!Replaced(one, Pct("d"), Fill!DomainPart(addr))
  IN  IF c = 1 THEN t ELSE IF c = 2 THEN one ELSE IF c = 3 THEN two ELSE Rest(one, addr)

FilledTo(t, c, s) == s # NULL => t # NULL /\ s = Stage(t, query.address, c)

FillInv ==
  /\ address = query.address
  /\ pc = "filter" => FilledTo(query.filter, call, text)
  /\ pc = "base" => FilledTo(query.base, call, text)
  /\ FilledTo(query.filter, 4, filter)
  /\ FilledTo(query.base, 4, base)

LEMMA FillingFills ==
  ASSUME BufferInv, ReplaceInv, Fill!Next, address = query.address, NEW t, FilledTo(t, call, text)
  PROVE  text' # NULL => t # NULL /\ text' = Stage(t, query.address, call')
<1>1. CASE Fill!NullOrig \/ Fill!AllocateFails
  BY <1>1 DEF Fill!NullOrig, Fill!AllocateFails, Fill!Return
<1>2. CASE Fill!CountTurn \/ Fill!Allocate \/ Fill!CopyTurn
  BY <1>2 DEF Fill!CountTurn, Fill!Allocate, Fill!CopyTurn, FilledTo
<1>3. CASE Fill!CopyTail
  <2>1. text' = Fill!Replaced(text, Fill!Old, Fill!New)
    BY <1>3, TailReplaces DEF BufferInv
  <2>2. text # NULL /\ call' = call + 1 /\ (call = 1 \/ call = 2 \/ call = 3)
    BY <1>3 DEF Fill!CopyTail, Fill!Copying, Fill!Return, BufferInv, Fill!TypeOK
  <2>3. t # NULL /\ text = Stage(t, query.address, call)
    BY <2>2 DEF FilledTo
  <2>4. CASE call = 1
    BY <2>1, <2>2, <2>3, <2>4 DEF Stage, Fill!Old, Fill!New, Pct
  <2>5. CASE call = 2
    BY <2>1, <2>2, <2>3, <2>5 DEF Stage, Fill!Old, Fill!New, Pct
  <2>6. CASE call = 3
    BY <2>1, <2>2, <2>3, <2>6 DEF Stage, Rest, Fill!Old, Fill!New, Pct
  <2> QED BY <2>2, <2>4, <2>5, <2>6
<1> QED BY <1>1, <1>2, <1>3 DEF Fill!Next

LEMMA FillInvAlways == Spec => []FillInv
<1>1. Init => FillInv
  BY DEF Init, FillInv, FilledTo, Stage
<1>2. BufferInv /\ ReplaceInv /\ FillInv /\ [Next]_vars => FillInv'
  <2> SUFFICES ASSUME BufferInv, ReplaceInv, FillInv, [Next]_vars PROVE FillInv'
    OBVIOUS
  <2>1. CASE ReplacePlaceholders
    <3>1. UNCHANGED <<query, pc, filter, base>> /\ Fill!Next
      BY <2>1 DEF ReplacePlaceholders
    <3>2. address' = address
      BY <3>1 DEF Fill!Next, Fill!NullOrig, Fill!CountTurn, Fill!Allocate, Fill!AllocateFails,
                  Fill!CopyTurn, Fill!CopyTail, Fill!Return
    <3>3. pc = "filter" =>
            (text' # NULL => query.filter # NULL /\ text' = Stage(query.filter, query.address, call'))
      BY <3>1, FillingFills DEF FillInv
    <3>4. pc = "base" =>
            (text' # NULL => query.base # NULL /\ text' = Stage(query.base, query.address, call'))
      BY <3>1, FillingFills DEF FillInv
    <3> QED BY <3>1, <3>2, <3>3, <3>4 DEF FillInv, FilledTo
  <2>2. CASE FilterReady
    BY <2>2 DEF FilterReady, Fill!Call, FillInv, FilledTo, Stage
  <2>3. CASE BaseReady
    BY <2>3 DEF BaseReady, filling, FillInv, FilledTo
  <2>4. CASE ~ReplacePlaceholders /\ ~FilterReady /\ ~BaseReady
    <3>1. UNCHANGED <<query, address, text, call, filter, base>> /\ pc' \in {pc} \cup {
            "create", "entry", "attribute", "value", "return", "returned", "crashed"}
      BY <2>4 DEF Next, vars, filling, DecomposeNoMemory,
        SearchFails, Searched, CreateArray, CreateNoMemory, FirstAttribute, GetValues,
        GetValuesFails, PushValue, FreeValues, NextEntry, Collect, Return
    <3> QED BY <3>1 DEF FillInv, FilledTo
  <2> QED BY <2>1, <2>2, <2>3, <2>4
<1> QED BY <1>1, <1>2, BufferInvAlways, ReplaceInvAlways, PTL DEF Spec

\* For templates and addresses of every length: where the order of the three
\* replacements cannot matter, filter and base are the templates with all
\* placeholders filled at once, as the comment on replace_placeholders says.
THEOREM TemplatesFilled == Spec => []FillsTemplates
<1>1. BufferInv /\ FillInv => FillsTemplates
  <2> SUFFICES ASSUME BufferInv, FillInv PROVE FillsTemplates
    OBVIOUS
  <2> DEFINE addr == query.address
  <2>1. /\ query.filter \in {NULL} \cup Seq(Character) /\ query.base \in {NULL} \cup Seq(Character)
        /\ addr \in Seq(Character)
    BY QueriesAssumption DEF BufferInv
  <2>2. ASSUME NEW t \in Seq(Character), Plain(t, addr)
        PROVE  Stage(t, addr, 4) = Filled(t, addr)
    <3>1. Rest(Fill!Replaced(t, Pct("u"), addr), addr) = Filled(t, addr)
      <4> HIDE DEF addr
      <4> QED BY <2>1, <2>2, OneByOne
    <3> QED BY <3>1 DEF Stage
  <2>3. /\ filter # NULL => query.filter # NULL /\ filter = Stage(query.filter, addr, 4)
        /\ base # NULL => query.base # NULL /\ base = Stage(query.base, addr, 4)
    BY DEF FillInv, FilledTo
  <2>4. filter # NULL /\ Plain(query.filter, addr) => filter = Filled(query.filter, addr)
    BY <2>1, <2>2, <2>3
  <2>5. base # NULL /\ Plain(query.base, addr) => base = Filled(query.base, addr)
    BY <2>1, <2>2, <2>3
  <2> QED BY <2>4, <2>5 DEF FillsTemplates
<1> QED BY <1>1, BufferInvAlways, FillInvAlways, PTL
=============================================================================
