------------------------------ MODULE CStrings ------------------------------
(***************************************************************************)
(* Strings of C as sequences of characters, their final 0 left out: the    *)
(* functions of the C library on them that src/extldap.c and               *)
(* src/extstring.c use, and what those two are to compute.                 *)
(***************************************************************************)
EXTENDS Integers, Sequences

CONSTANTS Character,       \* the characters of templates and addresses
          NULL             \* the null pointer

ASSUME CharacterAssumption ==
  {"%", "u", "d", "n", "@"} \subseteq Character /\ NULL \notin Seq(Character)

-----------------------------------------------------------------------------
(* decompose_mail_address                                                  *)

\* strchrnul( addr, '@' )
AtSign(addr) ==
  CHOOSE k \in 1..Len(addr)+1 :
    /\ k <= Len(addr) => addr[k] = "@"
    /\ \A j \in 1..k-1 : addr[j] # "@"

LocalPart(addr) == SubSeq(addr, 1, AtSign(addr) - 1)
DomainPart(addr) == SubSeq(addr, AtSign(addr) + 1, Len(addr))

-----------------------------------------------------------------------------
(* strstr                                                                  *)

\* strstr( s + k, old ) for a string old of two characters.
HitAt(s, old, j) == j \in 1..Len(s)-1 /\ s[j] = old[1] /\ s[j+1] = old[2]
IsNextHit(s, old, k, j) ==
  j >= k /\ HitAt(s, old, j) /\ \A i \in k..j-1 : ~HitAt(s, old, i)
NoHit(s, old, k) == \A j \in k..Len(s) : ~HitAt(s, old, j)

-----------------------------------------------------------------------------
(* References.                                                             *)

\* The reference: what is written for s, read once from left to right.
Replaced(s, old, new) ==
  LET from[k \in 1..Len(s)+1] ==
        IF k > Len(s) THEN <<>>
        ELSE IF HitAt(s, old, k) THEN new \o from[k + 2]
        ELSE <<s[k]>> \o from[k + 1]
  IN  from[1]

\* The reference of the comment on replace_placeholders: all placeholders at once.
Filled(t, addr) ==
  LET from[k \in 1..Len(t)+1] ==
        IF k > Len(t) THEN <<>>
        ELSE IF HitAt(t, <<"%", "u">>, k) THEN addr \o from[k + 2]
        ELSE IF HitAt(t, <<"%", "d">>, k) THEN DomainPart(addr) \o from[k + 2]
        ELSE IF HitAt(t, <<"%", "n">>, k) THEN LocalPart(addr) \o from[k + 2]
        ELSE <<t[k]>> \o from[k + 1]
  IN  from[1]

\* What the order of the three calls cannot disturb.
Plain(t, addr) ==
  /\ \A k \in DOMAIN addr : addr[k] # "%"
  /\ \A k \in DOMAIN t : t[k] = "%" => k < Len(t) /\ t[k+1] \in {"u", "d", "n"}
=============================================================================
