--------------------- MODULE SubstractStringArrayProofs ---------------------
(***************************************************************************)
(* Proofs about substract_string_array, for arrays of every length.        *)
(*                                                                         *)
(* The inductive invariant has two parts.  Layout says which allocation is *)
(* where; it holds whatever the inputs and gives the memory property.      *)
(* Order adds what the merge has established about the strings when both   *)
(* arrays are sorted, and gives the result.                                *)
(***************************************************************************)
EXTENDS SubstractStringArray, TLAPS

\* The kept strings lie in 0..i1-1, in the order they came; nothing from i2 on
\* has been touched; freed is what lies before i2 and was not kept.
Layout ==
  /\ i1 <= i2
  /\ pc = "loop" => size = count
  /\ pc = "loop" => \A p \in i2..count-1 : values[p] = p
  /\ pc = "done" => size = i1 /\ i2 = count /\ values[i1] = NULL
  /\ \A p \in 0..i1-1 : values[p] \in 0..i2-1
  /\ \A p, q \in 0..i1-1 : p < q => values[p] < values[q]
  /\ \A a \in 0..count-1 :
       a \in freed <=> a < i2 /\ \A p \in 0..i1-1 : values[p] # a

\* The strings kept ascend strictly and none is in diff; every string inspected
\* is kept or in diff; what diff has passed is below everything to come.
Ascending  == \A p, q \in 0..i1-1 : p < q => text[values[p]] < text[values[q]]
KeptNotInDiff == \A p \in 0..i1-1, d \in 0..diffSize-1 : text[values[p]] # diff[d]
InspectedAccounted ==
  \A a \in 0..i2-1 : \/ \E p \in 0..i1-1 : text[values[p]] = text[a]
                     \/ \E d \in 0..diffSize-1 : diff[d] = text[a]
PassedBelow == \A d \in 0..j-1, a \in i2..count-1 : diff[d] < text[a]

BothSorted == Sorted(text, count) /\ Sorted(diff, diffSize)

Order == BothSorted => Ascending /\ KeptNotInDiff /\ InspectedAccounted /\ PassedBelow

IInv == TypeOK /\ Layout /\ Order

-----------------------------------------------------------------------------

\* The initial state satisfies the inductive invariant.
LEMMA InitIInv == Init => IInv
<1> SUFFICES ASSUME Init PROVE IInv
  OBVIOUS
<1> USE BoundsAssumption, StringsAssumption DEF Init, NULL
<1>1. TypeOK
  BY DEF TypeOK, Allocations
<1>2. Layout
  BY DEF Layout
<1>3. Order
  BY DEF Order, Ascending, KeptNotInDiff, InspectedAccounted, PassedBelow
<1> QED
  BY <1>1, <1>2, <1>3 DEF IInv

\* In a turn of a loop the string inspected is the allocation at its original
\* position.
LEMMA InspectedInPlace ==
  ASSUME IInv, pc = "loop", i2 # size
  PROVE  /\ i2 \in 0..count-1
         /\ values[i2] = i2
         /\ Inspected = text[i2]
         /\ text[i2] \in Int
         /\ i1 \in 0..count-1
<1> USE DEF IInv, TypeOK, Layout, Allocations, NULL
<1>1. size = count /\ i2 \in 0..count-1
  OBVIOUS
<1>2. values[i2] = i2
  BY <1>1
<1>3. text[i2] \in Int
  BY <1>1, StringsAssumption
<1>4. i1 \in 0..count-1
  BY <1>1
<1> QED
  BY <1>1, <1>2, <1>3, <1>4 DEF Inspected

\* Dropping the inspected string keeps types and layout.
LEMMA DiscardLayout ==
  ASSUME IInv, pc = "loop", i2 # size, Discard,
         UNCHANGED <<text, count, diff, diffSize, size, pc>>,
         j' \in 0..diffSize
  PROVE  TypeOK' /\ Layout'
<1>1. /\ i2 \in 0..count-1 /\ values[i2] = i2 /\ i1 \in 0..count-1
      /\ size = count /\ i1 <= i2 /\ count \in Nat
  BY InspectedInPlace DEF IInv, TypeOK, Layout
<1>2. /\ freed' = freed \cup {i2} /\ i2' = i2 + 1
      /\ values' = values /\ i1' = i1 /\ text' = text /\ count' = count
      /\ diff' = diff /\ diffSize' = diffSize /\ size' = size /\ pc' = "loop"
  BY <1>1 DEF Discard
<1>3. TypeOK'
  BY <1>1, <1>2 DEF IInv, TypeOK, Allocations
<1>4. /\ \A p \in i2..count-1 : values[p] = p
      /\ \A p \in 0..i1-1 : values[p] \in 0..i2-1
      /\ \A p, q \in 0..i1-1 : p < q => values[p] < values[q]
      /\ \A a \in 0..count-1 :
           a \in freed <=> a < i2 /\ \A p \in 0..i1-1 : values[p] # a
  BY DEF IInv, Layout
<1>5. \A a \in 0..count-1 :
        a \in freed' <=> a < i2 + 1 /\ \A p \in 0..i1-1 : values[p] # a
  <2> SUFFICES ASSUME NEW a \in 0..count-1
               PROVE  a \in freed' <=> a < i2 + 1 /\ \A p \in 0..i1-1 : values[p] # a
    OBVIOUS
  <2>1. CASE a = i2
    BY <2>1, <1>1, <1>2, <1>4
  <2>2. CASE a # i2
    BY <2>2, <1>1, <1>2, <1>4
  <2> QED
    BY <2>1, <2>2
<1>6. Layout'
  BY <1>1, <1>2, <1>4, <1>5 DEF Layout
<1> QED
  BY <1>3, <1>6

\* Keeping the inspected string keeps types and layout.
LEMMA KeepLayout ==
  ASSUME IInv, pc = "loop", i2 # size, Keep,
         UNCHANGED <<text, count, diff, diffSize, size, j, pc>>
  PROVE  /\ TypeOK' /\ Layout'
         /\ values'[i1] = i2
         /\ \A p \in 0..i1-1 : values'[p] = values[p]
<1>1. /\ i2 \in 0..count-1 /\ values[i2] = i2 /\ i1 \in 0..count-1
      /\ size = count /\ i1 <= i2 /\ count \in Nat
      /\ values \in [0..count -> Allocations \cup {NULL}]
  BY InspectedInPlace DEF IInv, TypeOK, Layout
<1>2. /\ values' = [values EXCEPT ![i1] = i2] /\ i1' = i1 + 1 /\ i2' = i2 + 1
      /\ freed' = freed /\ text' = text /\ count' = count
      /\ diff' = diff /\ diffSize' = diffSize /\ size' = size /\ j' = j /\ pc' = "loop"
  BY <1>1 DEF Keep
<1>3. TypeOK'
  BY <1>1, <1>2 DEF IInv, TypeOK, Allocations
<1>4. /\ \A p \in i2..count-1 : values[p] = p
      /\ \A p \in 0..i1-1 : values[p] \in 0..i2-1
      /\ \A p, q \in 0..i1-1 : p < q => values[p] < values[q]
      /\ \A a \in 0..count-1 :
           a \in freed <=> a < i2 /\ \A p \in 0..i1-1 : values[p] # a
  BY DEF IInv, Layout
<1>5. /\ values'[i1] = i2
      /\ \A p \in 0..count : p # i1 => values'[p] = values[p]
  BY <1>1, <1>2
<1>6. \A p \in 0..i1-1 : values'[p] = values[p]
  BY <1>1, <1>5
<1>7. /\ \A p \in (i2+1)..count-1 : values'[p] = p
      /\ \A p \in 0..i1 : values'[p] \in 0..i2
      /\ \A p, q \in 0..i1 : p < q => values'[p] < values'[q]
  <2>1. \A p \in (i2+1)..count-1 : values'[p] = p
    BY <1>1, <1>4, <1>5
  <2>2. \A p \in 0..i1 : values'[p] \in 0..i2
    BY <1>1, <1>4, <1>5, <1>6
  <2>3. \A p, q \in 0..i1 : p < q => values'[p] < values'[q]
    BY <1>1, <1>4, <1>5, <1>6
  <2> QED
    BY <2>1, <2>2, <2>3
<1>8. \A a \in 0..count-1 :
        a \in freed <=> a < i2 + 1 /\ \A p \in 0..i1 : values'[p] # a
  <2> SUFFICES ASSUME NEW a \in 0..count-1
               PROVE  a \in freed <=> a < i2 + 1 /\ \A p \in 0..i1 : values'[p] # a
    OBVIOUS
  <2>1. CASE a = i2
    BY <2>1, <1>1, <1>4, <1>5
  <2>2. CASE a # i2
    BY <2>2, <1>1, <1>4, <1>5, <1>6
  <2> QED
    BY <2>1, <2>2
<1>9. Layout'
  BY <1>1, <1>2, <1>7, <1>8 DEF Layout
<1> QED
  BY <1>3, <1>5, <1>6, <1>9

\* The last action keeps types and layout.
LEMMA FinishLayout ==
  ASSUME IInv, Finish
  PROVE  TypeOK' /\ Layout' /\ \A p \in 0..i1-1 : values'[p] = values[p]
<1>1. /\ i2 = count /\ i1 \in 0..count /\ count \in Nat /\ i1 <= i2
      /\ values \in [0..count -> Allocations \cup {NULL}]
  BY DEF IInv, TypeOK, Layout, Finish
<1>2. /\ values' = [values EXCEPT ![i1] = NULL] /\ size' = i1 /\ pc' = "done"
      /\ UNCHANGED <<text, count, diff, diffSize, freed, i1, i2, j>>
  BY DEF Finish
<1>3. TypeOK'
  BY <1>1, <1>2 DEF IInv, TypeOK, Allocations
<1>4. values'[i1] = NULL /\ \A p \in 0..i1-1 : values'[p] = values[p]
  BY <1>1, <1>2
<1>5. Layout'
  BY <1>1, <1>2, <1>4 DEF IInv, Layout
<1> QED
  BY <1>3, <1>4, <1>5

\* Dropping the inspected string keeps Order when it is kept already or in diff.
LEMMA DiscardOrder ==
  ASSUME IInv, pc = "loop", i2 # size, Discard,
         UNCHANGED <<text, count, diff, diffSize, size, j, pc>>,
         \/ \E p \in 0..i1-1 : text[values[p]] = text[i2]
         \/ \E d \in 0..diffSize-1 : diff[d] = text[i2]
  PROVE  Order'
<1>1. /\ i2 \in 0..count-1 /\ count \in Nat /\ i1 <= i2
      /\ UNCHANGED <<values, i1, j, text, diff, count, diffSize>> /\ i2' = i2 + 1
  BY InspectedInPlace DEF IInv, TypeOK, Layout, Discard
<1> SUFFICES ASSUME BothSorted
             PROVE  Ascending' /\ KeptNotInDiff' /\ InspectedAccounted' /\ PassedBelow'
  BY <1>1 DEF Order, BothSorted, Sorted
<1>2. Ascending /\ KeptNotInDiff /\ InspectedAccounted /\ PassedBelow
  BY DEF IInv, Order
<1>3. Ascending' /\ KeptNotInDiff'
  BY <1>1, <1>2 DEF Ascending, KeptNotInDiff
<1>4. InspectedAccounted'
  <2> SUFFICES ASSUME NEW a \in 0..i2
               PROVE  \/ \E p \in 0..i1-1 : text[values[p]] = text[a]
                      \/ \E d \in 0..diffSize-1 : diff[d] = text[a]
    BY <1>1 DEF InspectedAccounted
  <2>1. CASE a = i2
    BY <2>1
  <2>2. CASE a \in 0..i2-1
    BY <2>2, <1>2 DEF InspectedAccounted
  <2> QED
    BY <1>1, <2>1, <2>2
<1>5. PassedBelow'
  BY <1>1, <1>2 DEF PassedBelow
<1> QED
  BY <1>3, <1>4, <1>5

\* Keeping the inspected string keeps Order when it is new and not in diff.
LEMMA KeepOrder ==
  ASSUME IInv, pc = "loop", i2 # size, Keep, ~AlreadyKept,
         UNCHANGED <<text, count, diff, diffSize, size, j, pc>>,
         BothSorted => \A d \in 0..diffSize-1 : text[i2] # diff[d]
  PROVE  Order'
<1>1. /\ i2 \in 0..count-1 /\ values[i2] = i2 /\ text[i2] \in Int
      /\ count \in Nat /\ i1 \in 0..count-1 /\ i1 <= i2
      /\ UNCHANGED <<text, diff, count, diffSize, j>> /\ i2' = i2 + 1 /\ i1' = i1 + 1
  BY InspectedInPlace DEF IInv, TypeOK, Layout, Keep
<1>2. values'[i1] = i2 /\ \A p \in 0..i1-1 : values'[p] = values[p]
  BY KeepLayout
<1> SUFFICES ASSUME BothSorted
             PROVE  Ascending' /\ KeptNotInDiff' /\ InspectedAccounted' /\ PassedBelow'
  BY <1>1 DEF Order, BothSorted, Sorted
<1>3. Ascending /\ KeptNotInDiff /\ InspectedAccounted /\ PassedBelow
  BY DEF IInv, Order
<1>4. \A p \in 0..i1-1 : text[values[p]] < text[i2]
  <2> SUFFICES ASSUME NEW p \in 0..i1-1
               PROVE  text[values[p]] < text[i2]
    OBVIOUS
  <2>1. values[p] \in 0..i2-1 /\ values[i1-1] \in 0..i2-1 /\ i1 - 1 \in 0..i1-1
    BY <1>1 DEF IInv, Layout
  <2>2. text[values[p]] \in Int /\ text[values[i1-1]] \in Int
    <3>1. text \in [0..count-1 -> Strings]
      BY DEF IInv, TypeOK
    <3>2. values[p] \in 0..count-1 /\ values[i1-1] \in 0..count-1
      BY <1>1, <2>1
    <3> QED
      BY <3>1, <3>2, StringsAssumption
  <2>3. text[values[i1-1]] <= text[i2]
    BY <1>1, <2>1 DEF BothSorted, Sorted
  <2>4. text[values[i1-1]] < text[i2]
    BY <1>1, <2>2, <2>3, InspectedInPlace DEF AlreadyKept
  <2>5. CASE p = i1 - 1
    BY <2>4, <2>5
  <2>6. CASE p < i1 - 1
    <3>1. text[values[p]] < text[values[i1-1]]
      BY <1>3, <2>1, <2>6 DEF Ascending
    <3> QED
      BY <1>1, <2>2, <2>4, <3>1
  <2> QED
    BY <1>1, <2>5, <2>6
<1>5. Ascending'
  <2> SUFFICES ASSUME NEW p \in 0..i1, NEW q \in 0..i1, p < q
               PROVE  text[values'[p]] < text[values'[q]]
    BY <1>1 DEF Ascending
  <2>1. p \in 0..i1-1 /\ values'[p] = values[p]
    BY <1>1, <1>2
  <2>2. CASE q = i1
    BY <1>2, <1>4, <2>1, <2>2
  <2>3. CASE q \in 0..i1-1
    BY <1>2, <1>3, <2>1, <2>3 DEF Ascending
  <2> QED
    BY <1>1, <2>2, <2>3
<1>6. KeptNotInDiff'
  <2> SUFFICES ASSUME NEW p \in 0..i1, NEW d \in 0..diffSize-1
               PROVE  text[values'[p]] # diff[d]
    BY <1>1 DEF KeptNotInDiff
  <2>1. CASE p = i1
    BY <1>2, <2>1
  <2>2. CASE p \in 0..i1-1
    BY <1>2, <1>3, <2>2 DEF KeptNotInDiff
  <2> QED
    BY <1>1, <2>1, <2>2
<1>7. InspectedAccounted'
  <2> SUFFICES ASSUME NEW a \in 0..i2
               PROVE  \/ \E p \in 0..i1 : text[values'[p]] = text[a]
                      \/ \E d \in 0..diffSize-1 : diff[d] = text[a]
    BY <1>1 DEF InspectedAccounted
  <2>1. CASE a = i2
    BY <1>1, <1>2, <2>1
  <2>2. CASE a \in 0..i2-1
    <3>1. CASE \E p \in 0..i1-1 : text[values[p]] = text[a]
      <4> PICK p \in 0..i1-1 : text[values[p]] = text[a]
        BY <3>1
      <4>1. p \in 0..i1 /\ values'[p] = values[p]
        BY <1>1, <1>2
      <4> QED
        BY <4>1
    <3>2. CASE \E d \in 0..diffSize-1 : diff[d] = text[a]
      BY <3>2
    <3> QED
      BY <1>3, <2>2, <3>1, <3>2 DEF InspectedAccounted
  <2> QED
    BY <1>1, <2>1, <2>2
<1>8. PassedBelow'
  BY <1>1, <1>3 DEF PassedBelow
<1> QED
  BY <1>5, <1>6, <1>7, <1>8

-----------------------------------------------------------------------------

\* Every step preserves the inductive invariant.
LEMMA NextIInv == IInv /\ [Next]_vars => IInv'
<1> SUFFICES ASSUME IInv, [Next]_vars PROVE IInv'
  OBVIOUS
<1>t. /\ i2 \in 0..count /\ count \in Nat /\ i1 \in 0..count
      /\ j \in 0..diffSize /\ diffSize \in Nat /\ diff \in [0..diffSize-1 -> Strings]
  BY DEF IInv, TypeOK
<1>1. CASE MergeDiscard
  <2>1. /\ pc = "loop" /\ i2 # size /\ Discard /\ j \in 0..diffSize-1
        /\ UNCHANGED <<text, count, diff, diffSize, size, j, pc>>
    BY <1>1, <1>t DEF MergeDiscard, Merging
  <2>2. text[i2] = diff[j]
    BY <1>1, <2>1, InspectedInPlace DEF MergeDiscard
  <2>3. TypeOK' /\ Layout'
    BY <1>t, <2>1, DiscardLayout
  <2>4. Order'
    BY <2>1, <2>2, DiscardOrder
  <2> QED
    BY <2>3, <2>4 DEF IInv
<1>2. ASSUME KeepOnce, pc = "loop", i2 # size,
             UNCHANGED <<text, count, diff, diffSize, size, j, pc>>,
             BothSorted => \A d \in 0..diffSize-1 : text[i2] # diff[d]
      PROVE  IInv'
  <2>1. CASE AlreadyKept /\ Discard
    <3>1. i1 - 1 \in 0..i1-1 /\ text[values[i1-1]] = text[i2]
      BY <1>t, <1>2, <2>1, InspectedInPlace DEF AlreadyKept
    <3>2. Order'
      BY <1>2, <2>1, <3>1, DiscardOrder
    <3>3. TypeOK' /\ Layout'
      BY <1>t, <1>2, <2>1, DiscardLayout
    <3> QED
      BY <3>2, <3>3 DEF IInv
  <2>2. CASE ~AlreadyKept /\ Keep
    BY <1>2, <2>2, KeepLayout, KeepOrder DEF IInv
  <2> QED
    BY <1>2, <2>1, <2>2 DEF KeepOnce
<1>3. CASE MergeKeep
  <2>1. /\ pc = "loop" /\ i2 # size /\ KeepOnce /\ j \in 0..diffSize-1
        /\ UNCHANGED <<text, count, diff, diffSize, size, j, pc>>
    BY <1>3, <1>t DEF MergeKeep, Merging
  <2>2. text[i2] < diff[j] /\ text[i2] \in Int /\ i2 \in 0..count-1
    BY <1>3, <2>1, InspectedInPlace DEF MergeKeep
  <2>3. ASSUME BothSorted, NEW d \in 0..diffSize-1
        PROVE  text[i2] # diff[d]
    <3>1. diff[d] \in Int /\ diff[j] \in Int
      BY <1>t, <2>1, StringsAssumption
    <3>2. CASE d < j
      <4>1. d \in 0..j-1 /\ i2 \in i2..count-1
        BY <1>t, <2>2, <3>2
      <4> QED
        BY <2>2, <2>3, <3>1, <4>1 DEF IInv, Order, PassedBelow
    <3>3. CASE d = j
      BY <2>2, <3>1, <3>3
    <3>4. CASE j < d
      <4>1. diff[j] <= diff[d]
        BY <2>1, <2>3, <3>4 DEF BothSorted, Sorted
      <4> QED
        BY <2>2, <3>1, <4>1
    <3> QED
      BY <1>t, <2>1, <3>2, <3>3, <3>4
  <2> QED
    BY <1>2, <2>1, <2>3
<1>4. CASE MergeAdvance
  <2>1. /\ pc = "loop" /\ i2 # size /\ j \in 0..diffSize-1 /\ j' = j + 1
        /\ UNCHANGED <<text, count, diff, diffSize, values, size, freed, i1, i2, pc>>
    BY <1>4, <1>t DEF MergeAdvance, Merging
  <2>2. diff[j] < text[i2] /\ text[i2] \in Int /\ i2 \in 0..count-1
    BY <1>4, <2>1, InspectedInPlace DEF MergeAdvance
  <2>3. TypeOK' /\ Layout'
    BY <1>t, <2>1 DEF IInv, TypeOK, Layout, Allocations
  <2>4. Order'
    <3> SUFFICES ASSUME BothSorted
                 PROVE  Ascending' /\ KeptNotInDiff' /\ InspectedAccounted' /\ PassedBelow'
      BY <2>1 DEF Order, BothSorted, Sorted
    <3>1. Ascending /\ KeptNotInDiff /\ InspectedAccounted /\ PassedBelow
      BY DEF IInv, Order
    <3>2. Ascending' /\ KeptNotInDiff' /\ InspectedAccounted'
      BY <2>1, <3>1 DEF Ascending, KeptNotInDiff, InspectedAccounted
    <3>3. ASSUME NEW d \in 0..j, NEW a \in i2..count-1
          PROVE  diff[d] < text[a]
      <4>1. CASE d < j
        <5>1. d \in 0..j-1
          BY <2>1, <4>1
        <5> QED
          BY <3>1, <5>1 DEF PassedBelow
      <4>2. CASE d = j
        <5>1. text[a] \in Int /\ diff[j] \in Int /\ a \in 0..count-1
          <6>1. text \in [0..count-1 -> Strings] /\ a \in 0..count-1
            BY <1>t DEF IInv, TypeOK
          <6> QED
            BY <1>t, <2>1, <6>1, StringsAssumption
        <5>2. text[i2] <= text[a]
          BY <1>t, <2>2, <5>1 DEF BothSorted, Sorted
        <5> QED
          BY <2>2, <4>2, <5>1, <5>2
      <4> QED
        BY <2>1, <4>1, <4>2
    <3>4. PassedBelow'
      BY <2>1, <3>3 DEF PassedBelow
    <3> QED
      BY <3>2, <3>4
  <2> QED
    BY <2>3, <2>4 DEF IInv
<1>5. CASE TailKeep
  <2>1. /\ pc = "loop" /\ i2 # size /\ KeepOnce /\ j = diffSize
        /\ UNCHANGED <<text, count, diff, diffSize, size, j, pc>>
    BY <1>5 DEF TailKeep
  <2>2. i2 \in i2..count-1 /\ text[i2] \in Int
    BY <1>t, <2>1, InspectedInPlace
  <2>3. ASSUME BothSorted, NEW d \in 0..diffSize-1
        PROVE  text[i2] # diff[d]
    <3>1. diff[d] < text[i2] /\ diff[d] \in Int
      BY <1>t, <2>1, <2>2, <2>3, StringsAssumption DEF IInv, Order, PassedBelow
    <3> QED
      BY <2>2, <3>1
  <2> QED
    BY <1>2, <2>1, <2>3
<1>6. CASE Finish
  <2>1. UNCHANGED <<text, count, diff, diffSize, i1, i2, j>>
    BY <1>6 DEF Finish
  <2>2. TypeOK' /\ Layout' /\ \A p \in 0..i1-1 : values'[p] = values[p]
    BY <1>6, FinishLayout
  <2>3. Order'
    <3> SUFFICES ASSUME BothSorted
                 PROVE  Ascending' /\ KeptNotInDiff' /\ InspectedAccounted' /\ PassedBelow'
      BY <2>1 DEF Order, BothSorted, Sorted
    <3>1. Ascending /\ KeptNotInDiff /\ InspectedAccounted /\ PassedBelow
      BY DEF IInv, Order
    <3>2. Ascending' /\ KeptNotInDiff' /\ PassedBelow'
      BY <2>1, <2>2, <3>1 DEF Ascending, KeptNotInDiff, PassedBelow
    <3>3. InspectedAccounted'
      BY <2>1, <2>2, <3>1 DEF InspectedAccounted
    <3> QED
      BY <3>2, <3>3
  <2> QED
    BY <2>2, <2>3 DEF IInv
<1>7. CASE UNCHANGED vars
  BY <1>7 DEF vars, IInv, TypeOK, Layout, Order, BothSorted, Sorted, Ascending,
     KeptNotInDiff, InspectedAccounted, PassedBelow, Allocations
<1> QED
  BY <1>1, <1>3, <1>4, <1>5, <1>6, <1>7 DEF Next

\* The invariant of every execution, from which the theorems below follow.
LEMMA IInvAlways == Spec => []IInv
BY InitIInv, NextIInv, PTL DEF Spec

\* The indices stay in their arrays and the state keeps its type, for arrays of
\* any length: no turn of either loop reads or writes outside values[].
THEOREM TypeCorrect == Spec => []TypeOK
<1>1. IInv => TypeOK
  BY DEF IInv
<1> QED
  BY <1>1, IInvAlways, PTL

\* For inputs of any length, sorted or not, each string is freed or held at
\* one position, never both, never neither, never twice.
THEOREM OwnedOnce == Spec => []EveryStringOwnedOnce
<1>1. ASSUME IInv PROVE EveryStringOwnedOnce
  <2>1. /\ i1 \in 0..count /\ i2 \in 0..count /\ count \in Nat /\ i1 <= i2
        /\ pc \in {"loop", "done"} /\ freed \subseteq Allocations
        /\ pc = "loop" => size = count
        /\ pc = "loop" => \A p \in i2..count-1 : values[p] = p
        /\ pc = "done" => i2 = count
        /\ \A p \in 0..i1-1 : values[p] \in 0..i2-1
        /\ \A p, q \in 0..i1-1 : p < q => values[p] < values[q]
        /\ \A a \in 0..count-1 :
             a \in freed <=> a < i2 /\ \A p \in 0..i1-1 : values[p] # a
    BY <1>1 DEF IInv, TypeOK, Layout
  <2>2. \A p \in Held : p \in 0..i1-1 \/ (pc = "loop" /\ p \in i2..count-1 /\ values[p] = p)
    BY <2>1 DEF Held
  <2>3. \A p \in Held : values[p] \in Allocations \ freed
    BY <2>1, <2>2 DEF Allocations
  <2>4. ASSUME NEW p \in Held, NEW q \in Held, values[p] = values[q]
        PROVE  p = q
    <3>1. CASE p \in 0..i1-1 /\ q \in 0..i1-1
      <4>1. values[p] \in Int /\ values[q] \in Int /\ p \in Int /\ q \in Int
        BY <2>1, <3>1
      <4> QED
        BY <2>1, <2>4, <3>1, <4>1
    <3>2. CASE ~(p \in 0..i1-1 /\ q \in 0..i1-1)
      BY <2>1, <2>2, <2>4, <3>2
    <3> QED
      BY <3>1, <3>2
  <2>5. ASSUME NEW a \in Allocations \ freed
        PROVE  \E p \in Held : values[p] = a
    <3>1. CASE a < i2
      <4>1. PICK p \in 0..i1-1 : values[p] = a
        BY <2>1, <3>1 DEF Allocations
      <4> QED
        BY <4>1 DEF Held
    <3>2. CASE a >= i2
      <4>1. pc = "loop" /\ a \in i2..size-1 /\ values[a] = a
        BY <2>1, <3>2 DEF Allocations
      <4> QED
        BY <4>1 DEF Held
    <3> QED
      BY <2>1, <3>1, <3>2 DEF Allocations
  <2> QED
    BY <2>3, <2>4, <2>5 DEF EveryStringOwnedOnce
<1> QED
  BY <1>1, IInvAlways, PTL

\* For sorted inputs of any length the function computes what its header
\* promises: the strictly ascending array of what is in array and not in diff.
THEOREM DifferenceCorrect == Spec => []DifferenceComputed
<1>1. ASSUME IInv PROVE DifferenceComputed
  <2> SUFFICES ASSUME pc = "done", BothSorted
               PROVE  /\ \A p, q \in 0..size-1 : p < q => text[values[p]] < text[values[q]]
                      /\ {text[values[p]] : p \in 0..size-1}
                           = Contents(text, count) \ Contents(diff, diffSize)
                      /\ values[size] = NULL
    BY DEF DifferenceComputed, BothSorted
  <2>1. /\ size = i1 /\ i2 = count /\ values[i1] = NULL /\ count \in Nat /\ i1 \in 0..count
        /\ \A p \in 0..i1-1 : values[p] \in 0..count-1
    BY <1>1 DEF IInv, TypeOK, Layout
  <2>2. Ascending /\ KeptNotInDiff /\ InspectedAccounted
    BY <1>1 DEF IInv, Order
  <2>3. ASSUME NEW p \in 0..i1-1
        PROVE  text[values[p]] \in Contents(text, count) \ Contents(diff, diffSize)
    BY <2>1, <2>2 DEF KeptNotInDiff, Contents
  <2>4. ASSUME NEW x \in Contents(text, count) \ Contents(diff, diffSize)
        PROVE  \E p \in 0..i1-1 : text[values[p]] = x
    <3>1. PICK a \in 0..count-1 : text[a] = x
      BY DEF Contents
    <3>2. ~ \E d \in 0..diffSize-1 : diff[d] = text[a]
      BY <3>1 DEF Contents
    <3> QED
      BY <2>1, <2>2, <3>1, <3>2 DEF InspectedAccounted
  <2>5. {text[values[p]] : p \in 0..i1-1}
          = Contents(text, count) \ Contents(diff, diffSize)
    BY <2>3, <2>4
  <2> QED
    BY <2>1, <2>2, <2>5 DEF Ascending
<1> QED
  BY <1>1, IInvAlways, PTL
=============================================================================
