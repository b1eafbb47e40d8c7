-------------------------- MODULE StringArrayProofs --------------------------
(***************************************************************************)
(* Proofs about the dynamic array, for strings, capacities and sizes       *)
(* without bound.                                                          *)
(***************************************************************************)
EXTENDS StringArray, Sequences, TLAPS

\* What the program relies on: it creates arrays of 3 * entries > 0 strings, and
\* realloc does not fail.
Ample == Capacities \subseteq Nat \ {0} /\ ~ReallocMayFail

\* Until the first write outside it, the block holds the entries and the NULL.
Bounded == wild = {} => size < room /\ room <= capacity + 1

\* With ample capacity the block always has room for capacity strings and NULL.
Roomy == capacity >= 1 /\ size <= capacity /\ room = capacity + 1 /\ wild = {}

-----------------------------------------------------------------------------

\* The state keeps its type whatever fails.
LEMMA TypeInductive == TypeOK /\ [Next]_vars => TypeOK'
<1> SUFFICES ASSUME TypeOK, [Next]_vars PROVE TypeOK'
  OBVIOUS
<1> USE DEF TypeOK, Slot
<1>1. ASSUME NEW s \in Strings, Push(s) PROVE TypeOK'
  <2>1. NewCapacity \in Nat /\ NewRoom \in Nat \ {0}
    BY DEF NewCapacity, NewRoom
  <2>2. PICK copy \in Strings \cup {NULL} : values' = Written(copy) /\ returned' = copy
    BY <1>1 DEF Push
  <2>3. Written(copy) \in [0..NewRoom-1 -> Slot]
    BY <2>1 DEF Written
  <2> QED
    BY <1>1, <2>1, <2>2, <2>3 DEF Push
<1>2. CASE PushNoMemory
  BY <1>2 DEF PushNoMemory
<1>3. CASE Sort
  <2>1. PICK f \in [0..size-1 -> 0..size-1] :
          values' = [q \in 0..room-1 |-> IF q < size THEN values[f[q]] ELSE values[q]]
    BY <1>3 DEF Sort, Bijection, Injection
  <2>2. \A q \in 0..size-1 : values[q] \in Strings
    BY <1>3 DEF Sort
  <2>3. values' \in [0..room-1 -> Slot]
    BY <2>1, <2>2
  <2> QED
    BY <1>3, <2>3 DEF Sort
<1>4. CASE UNCHANGED vars
  BY <1>4 DEF vars
<1> QED
  BY <1>1, <1>2, <1>3, <1>4 DEF Next

\* The state has its type in every execution, whatever fails.
THEOREM TypeCorrect == Spec => []TypeOK
<1>1. Init => TypeOK
  BY SizesAssumption DEF Init, TypeOK, Slot
<1> QED
  BY <1>1, TypeInductive, PTL DEF Spec

\* Bounded is preserved, whatever fails.
LEMMA BoundedInductive == TypeOK /\ Bounded /\ [Next]_vars => Bounded'
<1> SUFFICES ASSUME TypeOK, Bounded, [Next]_vars PROVE Bounded'
  OBVIOUS
<1> USE DEF TypeOK, Bounded
<1>1. ASSUME NEW s \in Strings, Push(s) PROVE Bounded'
  <2>1. CASE Full
    BY <1>1, <2>1 DEF Push, NewRoom, NewCapacity
  <2>2. CASE ~Full
    BY <1>1, <2>2 DEF Push, NewRoom, NewCapacity
  <2> QED
    BY <2>1, <2>2
<1>2. CASE PushNoMemory
  BY <1>2 DEF PushNoMemory
<1>3. CASE Sort
  BY <1>3 DEF Sort
<1>4. CASE UNCHANGED vars
  BY <1>4 DEF vars
<1> QED
  BY <1>1, <1>2, <1>3, <1>4 DEF Next

\* Roomy is preserved when realloc does not fail.
LEMMA RoomyInductive ==
  ASSUME Ample PROVE TypeOK /\ Roomy /\ [Next]_vars => Roomy'
<1> SUFFICES ASSUME TypeOK, Roomy, [Next]_vars PROVE Roomy'
  OBVIOUS
<1> USE DEF TypeOK, Roomy
<1>1. ASSUME NEW s \in Strings, Push(s) PROVE Roomy'
  <2>1. CASE Full
    BY <1>1, <2>1 DEF Push, NewRoom, NewCapacity, Full
  <2>2. CASE ~Full
    BY <1>1, <2>2 DEF Push, NewRoom, NewCapacity, Full
  <2> QED
    BY <2>1, <2>2
<1>2. CASE PushNoMemory
  BY <1>2 DEF PushNoMemory, Ample
<1>3. CASE Sort
  BY <1>3 DEF Sort
<1>4. CASE UNCHANGED vars
  BY <1>4 DEF vars
<1> QED
  BY <1>1, <1>2, <1>3, <1>4 DEF Next

\* As the program uses it, an array of any size never writes outside its block.
THEOREM NoOverrun == ASSUME Ample PROVE Spec => [](wild = {})
<1>1. Init => Roomy
  BY SizesAssumption DEF Init, Roomy, Ample
<1>2. Roomy => wild = {}
  BY DEF Roomy
<1> QED
  BY <1>1, <1>2, RoomyInductive, TypeCorrect, PTL DEF Spec

\* Whatever has failed before, a push onto an array whose block is as large as
\* its capacity says writes inside the block.
THEOREM PushesFit == Spec => WritesInBlock
<1>1. Init => Bounded
  BY SizesAssumption DEF Init, Bounded
<1>2. TypeOK /\ Bounded /\ [Next]_vars
        => [capacity # 0 /\ CapacityIsRoom => wild' = {}]_vars
  <2> SUFFICES ASSUME TypeOK, Bounded, Next, capacity # 0, CapacityIsRoom
               PROVE  wild' = {}
    OBVIOUS
  <2>1. ASSUME NEW s \in Strings, Push(s) PROVE wild' = {}
    <3>1. size \in Nat /\ NewRoom \in Nat /\ size + 1 < NewRoom
      BY <2>1 DEF Push, TypeOK, Bounded, CapacityIsRoom, NewRoom, NewCapacity, Full
    <3> QED
      BY <2>1, <3>1 DEF Push
  <2>2. CASE PushNoMemory
    BY <2>2 DEF PushNoMemory
  <2>3. CASE Sort
    BY <2>3 DEF Sort
  <2> QED
    BY <2>1, <2>2, <2>3 DEF Next
<1> QED
  BY <1>1, <1>2, TypeCorrect, BoundedInductive, PTL DEF Spec, WritesInBlock

\* Whatever has failed before, as long as every write was inside the block readers
\* of the values find the NULL that ends them there.
THEOREM EndFound == Spec => []Terminated
<1>1. Init => Terminated
  BY SizesAssumption DEF Init, Terminated
<1>2. TypeOK /\ Terminated /\ [Next]_vars => Terminated'
  <2> SUFFICES ASSUME TypeOK, Terminated, [Next]_vars, wild' = {}
               PROVE  size' < room' /\ values'[size'] = NULL
    BY DEF Terminated
  <2> USE DEF TypeOK, Terminated
  <2>1. ASSUME NEW s \in Strings, Push(s) PROVE size' < room' /\ values'[size'] = NULL
    <3>1. NewRoom \in Nat /\ room' = NewRoom /\ size' = size + 1
      BY <2>1 DEF Push, NewRoom, NewCapacity
    <3>2. size + 1 \in 0..NewRoom-1
      BY <2>1, <3>1 DEF Push
    <3>3. PICK copy : values' = Written(copy)
      BY <2>1 DEF Push
    <3> QED
      BY <3>1, <3>2, <3>3 DEF Written
  <2>2. CASE PushNoMemory
    BY <2>2 DEF PushNoMemory
  <2>3. CASE Sort
    BY <2>3 DEF Sort
  <2>4. CASE UNCHANGED vars
    BY <2>4 DEF vars
  <2> QED
    BY <2>1, <2>2, <2>3, <2>4 DEF Next
<1> QED
  BY <1>1, <1>2, TypeCorrect, PTL DEF Spec

-----------------------------------------------------------------------------
(* The array implements the list.                                          *)

Entries == [k \in 1..size |-> values[k-1]]

\* A push appends the copy, or the hole, to the list.
LEMMA PushAppends ==
  ASSUME TypeOK, Bounded, NEW s \in Strings, Push(s)
  PROVE  Implements!Push(s) \/ Implements!PushHole
<1>1. /\ size \in Nat /\ room \in Nat /\ size < room /\ size' = size + 1
      /\ NewRoom \in Nat /\ room <= NewRoom
  <2>1. CASE Full
    BY <2>1 DEF TypeOK, Bounded, Push, NewRoom, NewCapacity
  <2>2. CASE ~Full
    BY <2>2 DEF TypeOK, Bounded, Push, NewRoom, NewCapacity
  <2> QED
    BY <2>1, <2>2
<1>2. PICK copy \in {s} \cup (IF CopyMayFail THEN {NULL} ELSE {}) :
        values' = Written(copy) /\ returned' = copy
  BY DEF Push
<1>3. values'[size] = copy /\ \A q \in 0..size-1 : values'[q] = values[q]
  BY <1>1, <1>2 DEF Written
<1>4. Entries' = Append(Entries, copy)
  <2>1. Entries' = [k \in 1..size+1 |-> values'[k-1]]
    BY <1>1 DEF Entries
  <2>2. Append(Entries, copy) = [k \in 1..size+1 |-> IF k = size+1 THEN copy ELSE Entries[k]]
    BY <1>1 DEF Entries
  <2>3. \A k \in 1..size+1 : values'[k-1] = IF k = size+1 THEN copy ELSE Entries[k]
    BY <1>1, <1>3 DEF Entries
  <2> QED
    BY <2>1, <2>2, <2>3
<1>5. CASE copy = s
  BY <1>2, <1>4, <1>5 DEF Implements!Push, Entries
<1>6. CASE copy = NULL /\ CopyMayFail
  BY <1>2, <1>4, <1>6 DEF Implements!PushHole, Entries
<1> QED
  BY <1>5, <1>6

\* Sorting the slots sorts the list.
LEMMA SortSorts ==
  ASSUME TypeOK, Bounded, Sort
  PROVE  Implements!Sort
<1>1. size \in Nat /\ size < room /\ room \in Nat /\ size' = size
  BY DEF TypeOK, Bounded, Sort
<1>2. PICK f \in Bijection(0..size-1, 0..size-1) :
        values' = [q \in 0..room-1 |-> IF q < size THEN values[f[q]] ELSE values[q]]
  BY DEF Sort
<1>3. /\ f \in [0..size-1 -> 0..size-1]
      /\ \A a, b \in 0..size-1 : f[a] = f[b] => a = b
      /\ \A t \in 0..size-1 : \E a \in 0..size-1 : f[a] = t
  BY DEF Bijection, Injection, Surjection, IsInjective
<1> DEFINE g == [k \in 1..size |-> f[k-1] + 1]
<1>4. DOMAIN Entries = 1..size /\ Entries' = [k \in 1..size |-> values'[k-1]]
  BY <1>1 DEF Entries
<1>5. g \in Bijection(1..size, 1..size)
  <2>1. g \in [1..size -> 1..size]
    <3>1. ASSUME NEW k \in 1..size PROVE f[k-1] + 1 \in 1..size
      <4>1. k-1 \in 0..size-1
        BY <1>1
      <4>2. f[k-1] \in 0..size-1
        BY <1>3, <4>1
      <4> QED
        BY <1>1, <4>2
    <3> QED
      BY <3>1
  <2>2. ASSUME NEW a \in 1..size, NEW b \in 1..size, g[a] = g[b]
        PROVE  a = b
    <3>1. a-1 \in 0..size-1 /\ b-1 \in 0..size-1 /\ f[a-1] \in Int /\ f[b-1] \in Int
      BY <1>1, <1>3
    <3>2. f[a-1] = f[b-1]
      BY <2>2, <3>1
    <3> QED
      BY <1>3, <3>1, <3>2
  <2>3. ASSUME NEW t \in 1..size
        PROVE  \E a \in 1..size : g[a] = t
    <3>1. t-1 \in 0..size-1
      BY <1>1
    <3>2. PICK a \in 0..size-1 : f[a] = t-1
      BY <1>3, <3>1
    <3>3. a+1 \in 1..size /\ g[a+1] = t
      BY <1>1, <3>2
    <3> QED
      BY <3>3
  <2> QED
    BY <2>1, <2>2, <2>3 DEF Bijection, Injection, Surjection, IsInjective
<1>6. Entries' = [k \in 1..size |-> Entries[g[k]]]
  <2>1. ASSUME NEW k \in 1..size
        PROVE  values'[k-1] = Entries[g[k]]
    <3>1. k-1 \in 0..size-1 /\ k-1 \in 0..room-1 /\ f[k-1] \in 0..size-1
      BY <1>1, <1>3
    <3>2. values'[k-1] = values[f[k-1]]
      BY <1>1, <1>2, <3>1
    <3>3. g[k] = f[k-1] + 1 /\ g[k] \in 1..size
      BY <1>1, <3>1
    <3>4. Entries[g[k]] = values[f[k-1]]
      BY <3>1, <3>3 DEF Entries
    <3> QED
      BY <3>2, <3>4
  <2> QED
    BY <1>4, <2>1
<1>7. \A k, l \in 1..size : k < l => Entries'[k] <= Entries'[l]
  <2>1. \A p, q \in 0..size-1 : p < q => values'[p] <= values'[q]
    BY DEF Sort
  <2> SUFFICES ASSUME NEW k \in 1..size, NEW l \in 1..size, k < l
               PROVE  values'[k-1] <= values'[l-1]
    BY <1>4
  <2> QED
    BY <1>1, <2>1
<1>8. UNCHANGED returned
  BY DEF Sort
<1> QED
  <2> HIDE DEF g
  <2>1. \E h \in Bijection(DOMAIN Entries, DOMAIN Entries) :
          Entries' = [k \in DOMAIN Entries |-> Entries[h[k]]]
    BY <1>4, <1>5, <1>6
  <2>2. \A k, l \in DOMAIN Entries : k < l => Entries'[k] <= Entries'[l]
    BY <1>4, <1>7
  <2>3. \A S : Implements!Bijection(S, S) = Bijection(S, S)
    BY DEF Implements!Bijection, Implements!Injection, Implements!Surjection,
       Implements!IsInjective, Bijection, Injection, Surjection, IsInjective
  <2>4. UNCHANGED returned
    BY <1>8
  <2>5. Implements!Sort <=>
          /\ \E h \in Implements!Bijection(DOMAIN Entries, DOMAIN Entries) :
               Entries' = [k \in DOMAIN Entries |-> Entries[h[k]]]
          /\ \A k, l \in DOMAIN Entries : k < l => Entries'[k] <= Entries'[l]
          /\ UNCHANGED returned
    BY Zenon DEF Implements!Sort, Entries
  <2> QED
    BY <2>1, <2>2, <2>3, <2>4, <2>5

\* Whatever fails, an array of any size behaves like the list of its header.
THEOREM ImplementsList == Spec => ImplementsStringList
<1>1. Init => Bounded /\ Implements!Init
  <2> SUFFICES ASSUME Init PROVE Bounded /\ Implements!Init
    OBVIOUS
  <2>1. Bounded
    BY SizesAssumption DEF Init, Bounded
  <2>2. [k \in 1..size |-> values[k-1]] = <<>>
    BY DEF Init
  <2> QED
    BY <2>1, <2>2 DEF Init, Implements!Init
<1>2. TypeOK /\ Bounded /\ [Next]_vars
        => [Implements!Next]_(Implements!vars)
  <2> SUFFICES ASSUME TypeOK, Bounded, [Next]_vars
               PROVE  [Implements!Next]_(Implements!vars)
    OBVIOUS
  <2>1. ASSUME NEW s \in Strings, Push(s) PROVE Implements!Next
    BY <2>1, PushAppends DEF Implements!Next
  <2>2. CASE PushNoMemory
    BY <2>2 DEF PushNoMemory, Implements!Next, Implements!PushFailed
  <2>3. CASE Sort
    BY <2>3, SortSorts DEF Implements!Next
  <2>4. CASE UNCHANGED vars
    BY <2>4 DEF vars, Implements!vars
  <2> QED
    BY <2>1, <2>2, <2>3, <2>4 DEF Next
<1> QED
  BY <1>1, <1>2, TypeCorrect, BoundedInductive, PTL
  DEF Spec, ImplementsStringList, Implements!Spec
=============================================================================
