------------------------ MODULE SubstractStringArray ------------------------
(***************************************************************************)
(* substract_string_array (src/string_array.c): the in-place merge that    *)
(* removes from a sorted array every string of a second sorted array and   *)
(* every duplicate.  It decides which recipients the milter adds.          *)
(*                                                                         *)
(* A string is its rank in the order of strcmp.  Each string of the array  *)
(* is an allocation of its own, named by the position it had on entry, so  *)
(* that equal strings at different addresses stay apart: values[] holds    *)
(* allocations, text[] the string each allocation contains, and freed the  *)
(* allocations given to free().  One action is one turn of a loop.         *)
(***************************************************************************)
EXTENDS Integers

CONSTANTS Strings,      \* ranks of the strings in the order of strcmp
          MaxSize,      \* bound: longest array
          MaxDiffSize   \* bound: longest array to be subtracted

ASSUME StringsAssumption == Strings \subseteq Int
ASSUME BoundsAssumption  == MaxSize \in Nat /\ MaxDiffSize \in Nat

VARIABLES text,      \* allocation -> the string in it (never written)
          count,     \* array->size on entry
          diff,      \* diff->values (never written)
          diffSize,  \* diff->size
          values,    \* array->values: position -> allocation or NULL
          size,      \* array->size
          freed,     \* allocations that have been passed to free()
          i1, i2, j, \* the positions of the code
          pc         \* "loop" until the list is terminated, then "done"

vars == <<text, count, diff, diffSize, values, size, freed, i1, i2, j, pc>>

NULL == -1

Init ==
  /\ count \in 0..MaxSize
  /\ text \in [0..count-1 -> Strings]
  /\ diffSize \in 0..MaxDiffSize
  /\ diff \in [0..diffSize-1 -> Strings]
  /\ values = [p \in 0..count |-> IF p < count THEN p ELSE NULL]
  /\ size = count
  /\ freed = {}
  /\ i1 = 0 /\ i2 = 0 /\ j = 0
  /\ pc = "loop"

-----------------------------------------------------------------------------
(* The turns of the two loops.                                             *)

Inspected == text[values[i2]]

\* Mutant: does not look at what was kept last.
AlreadyKept_Never == FALSE
AlreadyKept == i1 > 0 /\ text[values[i1 - 1]] = Inspected

\* Mutant: forgets to free the string it drops.
Discard_Leak ==
  /\ i2' = i2 + 1
  /\ UNCHANGED <<freed, values, i1>>
Discard ==
  /\ freed' = freed \cup {values[i2]}
  /\ i2' = i2 + 1
  /\ UNCHANGED <<values, i1>>

Keep ==
  /\ values' = [values EXCEPT ![i1] = values[i2]]
  /\ i1' = i1 + 1
  /\ i2' = i2 + 1
  /\ UNCHANGED freed

KeepOnce == (AlreadyKept /\ Discard) \/ (~AlreadyKept /\ Keep)

Merging == pc = "loop" /\ i2 # size /\ j # diffSize

MergeDiscard ==
  /\ Merging
  /\ Inspected = diff[j]
  /\ Discard
  /\ UNCHANGED <<text, count, diff, diffSize, size, j, pc>>

MergeKeep ==
  /\ Merging
  /\ Inspected < diff[j]
  /\ KeepOnce
  /\ UNCHANGED <<text, count, diff, diffSize, size, j, pc>>

\* Mutant: the turn that passes a string of diff forgets to advance.
MergeAdvance_Stuck ==
  /\ Merging
  /\ Inspected > diff[j]
  /\ UNCHANGED vars
MergeAdvance ==
  /\ Merging
  /\ Inspected > diff[j]
  /\ j' = j + 1
  /\ UNCHANGED <<text, count, diff, diffSize, values, size, freed, i1, i2, pc>>

TailKeep ==
  /\ pc = "loop" /\ i2 # size /\ j = diffSize
  /\ KeepOnce
  /\ UNCHANGED <<text, count, diff, diffSize, size, j, pc>>

\* array->values[i1] = NULL; array->size = i1
Finish ==
  /\ pc = "loop" /\ i2 = size
  /\ values' = [values EXCEPT ![i1] = NULL]
  /\ size' = i1
  /\ pc' = "done"
  /\ UNCHANGED <<text, count, diff, diffSize, freed, i1, i2, j>>

Next == MergeDiscard \/ MergeKeep \/ MergeAdvance \/ TailKeep \/ Finish

Spec == Init /\ [][Next]_vars

\* The function runs in one thread and never blocks.
FairSpec == Spec /\ WF_vars(Next)

-----------------------------------------------------------------------------
(* Properties.                                                             *)

Allocations == 0..count-1

TypeOK ==
  /\ count \in Nat
  /\ text \in [0..count-1 -> Strings]
  /\ diffSize \in Nat
  /\ diff \in [0..diffSize-1 -> Strings]
  /\ values \in [0..count -> Allocations \cup {NULL}]
  /\ size \in 0..count
  /\ freed \subseteq Allocations
  /\ i1 \in 0..count /\ i2 \in 0..count /\ j \in 0..diffSize
  /\ pc \in {"loop", "done"}

\* Positions of values[] whose strings the array still owns: those kept and
\* those not inspected yet.
Held == (0..i1-1) \cup (IF pc = "loop" THEN i2..size-1 ELSE {})

\* Whatever the inputs, sorted or not, every string of the array is at every
\* moment either freed or held at exactly one position: the merge loses no
\* allocation, frees none twice and never keeps one it has freed.
EveryStringOwnedOnce ==
  /\ \A p \in Held : values[p] \in Allocations \ freed
  /\ \A p, q \in Held : values[p] = values[q] => p = q
  /\ \A a \in Allocations \ freed : \E p \in Held : values[p] = a

Sorted(f, n) == \A p, q \in 0..n-1 : p < q => f[p] <= f[q]

Contents(f, n) == {f[p] : p \in 0..n-1}

\* With sorted arguments the array finally holds, strictly ascending and hence
\* without duplicates, exactly its strings that do not occur in diff, and it is
\* terminated by NULL at its new size (the contract of string_array.h).
DifferenceComputed ==
  pc = "done" /\ Sorted(text, count) /\ Sorted(diff, diffSize) =>
    /\ \A p, q \in 0..size-1 : p < q => text[values[p]] < text[values[q]]
    /\ {text[values[p]] : p \in 0..size-1}
         = Contents(text, count) \ Contents(diff, diffSize)
    /\ values[size] = NULL

\* Both loops end, whatever the inputs.
Termination == <>(pc = "done")
=============================================================================
