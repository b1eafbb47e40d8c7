----------------------------- MODULE StringArray ----------------------------
(***************************************************************************)
(* The dynamic array of src/string_array.c: creation, push with doubling,  *)
(* sorting.  A slot of the block holds a string, NULL, or what realloc     *)
(* left there.  Slots written outside the block are collected in wild:     *)
(* from then on the behaviour is undefined, so the model stops there.      *)
(***************************************************************************)
EXTENDS Integers, Functions

CONSTANTS Strings,          \* ranks of the strings in the order of strcmp
          NULL,             \* the null pointer
          Uninitialised,    \* content of a slot that was never written
          Capacities,       \* capacities passed to create_string_array
          ReallocMayFail,   \* TRUE when realloc may return NULL
          CopyMayFail,      \* TRUE when malloc may fail to copy the string
          MaxSize           \* bound: no push beyond this size

ASSUME StringsAssumption ==
  Strings \subseteq Int /\ NULL \notin Strings /\ Uninitialised \notin Strings
  /\ NULL # Uninitialised
ASSUME SizesAssumption == Capacities \subseteq Nat /\ MaxSize \in Nat
ASSUME FailuresAssumption == ReallocMayFail \in BOOLEAN /\ CopyMayFail \in BOOLEAN

VARIABLES capacity,   \* array->capacity
          size,       \* array->size
          room,       \* slots of the block array->values points to
          values,     \* the block
          returned,   \* what the last push returned
          wild        \* slots outside the block that have been written

vars == <<capacity, size, room, values, returned, wild>>

Init ==
  /\ capacity \in Capacities
  /\ size = 0
  /\ room = capacity + 1
  /\ values = [q \in 0..room-1 |-> IF q = 0 THEN NULL ELSE Uninitialised]
  /\ returned = NULL
  /\ wild = {}

-----------------------------------------------------------------------------

Full == size = capacity

NewCapacity == IF Full THEN 2 * capacity ELSE capacity

\* Mutant: the slot of the terminating NULL is forgotten.
NewRoom_NoTerminator == IF Full THEN NewCapacity ELSE room
NewRoom == IF Full THEN NewCapacity + 1 ELSE room

\* The block after realloc, with the copy and the NULL behind it written.
\* Mutants: a fresh block instead of a reallocated one; no NULL behind the copy.
Written_Unterminated(copy) ==
  [q \in 0..NewRoom-1 |-> IF q = size THEN copy ELSE IF q < room THEN values[q] ELSE Uninitialised]
Written_Lost(copy) ==
  [q \in 0..NewRoom-1 |-> CASE q = size     -> copy
                            [] q = size + 1 -> NULL
                            [] OTHER        -> IF Full THEN Uninitialised ELSE values[q]]
Written(copy) ==
  [q \in 0..NewRoom-1 |-> CASE q = size     -> copy
                            [] q = size + 1 -> NULL
                            [] OTHER        -> IF q < room THEN values[q] ELSE Uninitialised]

Push(s) ==
  /\ wild = {} /\ size < MaxSize
  /\ \E copy \in {s} \cup (IF CopyMayFail THEN {NULL} ELSE {}) :
       values' = Written(copy) /\ returned' = copy
  /\ capacity' = NewCapacity
  /\ room' = NewRoom
  /\ wild' = {size, size + 1} \ (0..NewRoom-1)
  /\ size' = size + 1

\* realloc fails: the new capacity has been stored already.
PushNoMemory ==
  /\ wild = {} /\ size < MaxSize
  /\ Full /\ ReallocMayFail
  /\ capacity' = 2 * capacity
  /\ returned' = NULL
  /\ UNCHANGED <<size, room, values, wild>>

\* qsort with strcmp, which must not meet a NULL.
Sort ==
  /\ wild = {}
  /\ \A q \in 0..size-1 : values[q] \in Strings
  /\ \E f \in Bijection(0..size-1, 0..size-1) :
       values' = [q \in 0..room-1 |-> IF q < size THEN values[f[q]] ELSE values[q]]
  /\ \A p, q \in 0..size-1 : p < q => values'[p] <= values'[q]
  /\ UNCHANGED <<capacity, size, room, returned, wild>>

Next == (\E s \in Strings : Push(s)) \/ PushNoMemory \/ Sort

Spec == Init /\ [][Next]_vars

-----------------------------------------------------------------------------
(* Properties.                                                             *)

Slot == Strings \cup {NULL, Uninitialised}

TypeOK ==
  /\ capacity \in Nat /\ size \in Nat /\ room \in Nat \ {0}
  /\ values \in [0..room-1 -> Slot]
  /\ returned \in Strings \cup {NULL}
  /\ wild \subseteq Nat

\* capacity is what its comment says, the number of strings the block holds
\* besides the NULL that ends them.
CapacityIsRoom == room = capacity + 1

\* However often the array has grown: as long as its capacity is what the
\* comment says, and not 0 (which doubling does not increase), a push writes
\* inside the block, the NULL behind the last string included.
WritesInBlock == [][capacity # 0 /\ CapacityIsRoom => wild' = {}]_vars

\* The entries are followed by NULL: readers of values[] find the end.
Terminated == wild = {} => size < room /\ values[size] = NULL

\* The array is the list of its header: every string that was pushed, in
\* order, kept across reallocations, a hole where a copy failed.
Implements ==
  INSTANCE StringList WITH list <- [k \in 1..size |-> values[k-1]]
ImplementsStringList == Implements!Spec
=============================================================================
