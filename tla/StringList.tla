----------------------------- MODULE StringList -----------------------------
(***************************************************************************)
(* What string_array.h promises of a string array, without its memory: a   *)
(* list that grows by one string per successful push and can be sorted.    *)
(***************************************************************************)
EXTENDS Sequences, Integers, Functions

CONSTANTS Strings,       \* ranks of the strings in the order of strcmp
          NULL,          \* the null pointer
          CopyMayFail    \* TRUE when malloc may fail to copy the string

VARIABLES list,          \* the entries, in order
          returned       \* what the last push returned

vars == <<list, returned>>

Init == list = <<>> /\ returned = NULL

Push(s) == list' = Append(list, s) /\ returned' = s

\* The array had room but not the copy: an entry without a string remains.
PushHole == CopyMayFail /\ list' = Append(list, NULL) /\ returned' = NULL

PushFailed == UNCHANGED list /\ returned' = NULL

Sort ==
  /\ \E f \in Bijection(DOMAIN list, DOMAIN list) :
       list' = [k \in DOMAIN list |-> list[f[k]]]
  /\ \A k, l \in DOMAIN list : k < l => list'[k] <= list'[l]
  /\ UNCHANGED returned

Next == (\E s \in Strings : Push(s)) \/ PushHole \/ PushFailed \/ Sort

Spec == Init /\ [][Next]_vars
=============================================================================
