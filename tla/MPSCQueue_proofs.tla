-------------------------- MODULE MPSCQueue_proofs --------------------------
(***************************************************************************)
(* Safety of the ring buffer for every set of producers, every number of   *)
(* pushes and every capacity above one, with exact and with stale loads,   *)
(* and that it implements the reservation queue BoundedQueue.              *)
(***************************************************************************)
EXTENDS MPSCQueue, DataLemmas, SequenceTheorems, TLAPS

-----------------------------------------------------------------------------
(* Arithmetic of Slot: the cell index is the position modulo Capacity.      *)

\* A position has a cell.
LEMMA SlotType == \A n \in Nat : Slot(n) \in Slots
BY CapacityAssumption DEF Slot, Slots

\* Positions less than Capacity apart have different cells.
LEMMA SlotDistinct ==
    \A m, n \in Nat :
        m # n /\ m - n < Capacity /\ n - m < Capacity => Slot(m) # Slot(n)
<1> TAKE m, n \in Nat
<1>1. m \in Int /\ n \in Int
  OBVIOUS
<1> QED BY <1>1, ModDistinct, CapacityAssumption DEF Slot

\* One round later the position is back at the same cell.
LEMMA SlotRound == \A n \in Nat : Slot(n + Capacity) = Slot(n)
<1> TAKE n \in Nat
<1> DEFINE m == n + Capacity
<1>1. m = n + Capacity * 1 /\ m \in Int /\ n \in Int /\ 1 \in Int
  BY CapacityAssumption
<1> HIDE DEF m
<1>2. m % Capacity = n % Capacity
  BY <1>1, ModShift, CapacityAssumption
<1> QED BY <1>2 DEF Slot, m

\* In the first round, a cell is its own position.
LEMMA SlotFirstRound == \A s \in Slots : Slot(s) = s
BY CapacityAssumption DEF Slot, Slots
-----------------------------------------------------------------------------
(* Type correctness.                                                        *)

\* What the steps do to the types of the variables.
LEMMA TypeStep == TypeOK /\ AttemptInv /\ [Next]_vars => TypeOK' /\ AttemptInv'
<1> SUFFICES ASSUME TypeOK, AttemptInv, [Next]_vars
             PROVE  TypeOK' /\ AttemptInv'
  OBVIOUS
<1> USE DEF TypeOK, AttemptInv
<1>a. \A v \in VisibleEnqueuePos : v \in Nat
  BY DEF VisibleEnqueuePos
<1>b. \A p \in Producers :
         /\ pos[p] \in Nat /\ pos[p] + 1 \in Nat /\ Slot(pos[p]) \in Slots
         /\ attempts[p] >= 1 => Item(p) \in Items
  <2> TAKE p \in Producers
  <2>1. pos[p] \in Nat /\ attempts[p] \in 0 .. MaxPushes
    OBVIOUS
  <2> HIDE DEF TypeOK, AttemptInv
  <2>2. pos[p] + 1 \in Nat
    BY <2>1
  <2>3. Slot(pos[p]) \in Slots
    BY <2>1, SlotType
  <2>4. attempts[p] >= 1 => Item(p) \in Items
    BY <2>1, BoundAssumption DEF Item, Items
  <2> QED BY <2>1, <2>2, <2>3, <2>4
<1>c. Slot(dequeuePos) \in Slots
  BY SlotType
<1>1. ASSUME NEW p \in Producers, Push(p) PROVE TypeOK' /\ AttemptInv'
  <2>1. attempts[p] + 1 \in 0 .. MaxPushes /\ attempts[p] + 1 >= 1
    BY <1>1, BoundAssumption DEF Push
  <2>2. attempts' \in [Producers -> 0 .. MaxPushes] /\ attempts'[p] >= 1
    BY <1>1, <2>1 DEF Push
  <2> QED BY <1>1, <2>2 DEF Push, consumerVars
<1>2. ASSUME NEW p \in Producers, LoadEnqueuePos(p) PROVE TypeOK' /\ AttemptInv'
  BY <1>2, <1>a DEF LoadEnqueuePos, consumerVars
<1>3. ASSUME NEW p \in Producers, LoadSequence(p) PROVE TypeOK' /\ AttemptInv'
  BY <1>3 DEF LoadSequence, AfterDiff, consumerVars
<1>4. ASSUME NEW p \in Producers, ClaimSlot(p) PROVE TypeOK' /\ AttemptInv'
  <2>1. Item(p) \in Items
    BY <1>4, <1>b DEF ClaimSlot
  <2> QED BY <1>4, <2>1, <1>b DEF ClaimSlot, consumerVars
<1>5. ASSUME NEW p \in Producers, ClaimFails(p) PROVE TypeOK' /\ AttemptInv'
  BY <1>5, <1>a DEF ClaimFails, consumerVars
<1>6. ASSUME NEW p \in Producers, WriteData(p) PROVE TypeOK' /\ AttemptInv'
  BY <1>6, <1>b DEF WriteData, consumerVars
<1>7. ASSUME NEW p \in Producers, Publish(p) PROVE TypeOK' /\ AttemptInv'
  BY <1>7, <1>b DEF Publish, PublishedSequence, consumerVars
<1>8. ASSUME NEW p \in Producers, ReturnFull(p) PROVE TypeOK' /\ AttemptInv'
  BY <1>8 DEF ReturnFull, consumerVars
<1>9. CASE PopLoadSequence
  BY <1>9 DEF PopLoadSequence, producerVars
<1>10. CASE ReturnEmpty
  BY <1>10 DEF ReturnEmpty, producerVars
<1>11. CASE MoveData
  <2>1. popped' \in Seq(Items \cup {Hollow})
    BY <1>11, <1>c DEF MoveData
  <2> QED BY <1>11, <1>c, <2>1 DEF MoveData, producerVars
<1>12. CASE ReleaseCell
  BY <1>12, <1>c, CapacityAssumption DEF ReleaseCell, ReleasedSequence, producerVars
<1>13. CASE AdvanceDequeuePos
  BY <1>13 DEF AdvanceDequeuePos, producerVars
<1>14. CASE UNCHANGED vars
  BY <1>14 DEF vars
<1> QED
  BY <1>1, <1>2, <1>3, <1>4, <1>5, <1>6, <1>7, <1>8, <1>9, <1>10, <1>11,
     <1>12, <1>13, <1>14 DEF Next, PushStep, PopStep

\* Initially the variables have their types.
LEMMA TypeInit == Init => TypeOK /\ AttemptInv
BY CapacityAssumption, BoundAssumption
   DEF Init, TypeOK, AttemptInv, Slots, Items

\* Type correctness of the ring buffer, for every capacity, 1 included.
THEOREM TypeCorrect == Spec => []TypeOK
BY TypeInit, TypeStep, PTL DEF Spec
-----------------------------------------------------------------------------
(* The inductive invariant.                                                 *)

\* The part of IInv that is about positions and cells rather than types.
QueueInv ==
    /\ HistoryInv /\ FifoDelivery /\ NeverOverfull
    /\ CellInv /\ WriterInv /\ ClaimerInv /\ TakerInv

\* A window of Capacity positions has one cell per position.
LEMMA WindowDistinct ==
    ASSUME NEW r \in Nat, NEW m \in r .. r + Capacity - 1,
           NEW n \in r .. r + Capacity - 1, m # n
    PROVE  Slot(m) # Slot(n)
BY SlotDistinct, CapacityAssumption

\* A step of a producer that leaves the shared memory alone, starts no write
\* and comes to try a claim only after it saw a released cell.
LEMMA QuietStep ==
    ASSUME QueueInv, UNCHANGED <<enqueuePos, sequence, data, claimed, consumerVars>>,
           \A q \in Producers :
               Writing(q)' => /\ Writing(q) /\ pc'[q] = pc[q]
                              /\ pos'[q] = pos[q] /\ attempts'[q] = attempts[q],
           \A q \in Producers :
               pc'[q] = "claim" => sequence[Slot(pos'[q])] >= pos'[q]
    PROVE  QueueInv'
<1>1. Released' = Released
  BY DEF Released, consumerVars
<1>2. HistoryInv' /\ FifoDelivery' /\ NeverOverfull' /\ CellInv' /\ TakerInv'
  BY <1>1 DEF QueueInv, HistoryInv, FifoDelivery, NeverOverfull, CellInv,
              TakerInv, consumerVars
<1>3. WriterInv'
  BY <1>1 DEF QueueInv, WriterInv, Item, consumerVars
<1>4. ClaimerInv'
  BY DEF ClaimerInv
<1> QED BY <1>2, <1>3, <1>4 DEF QueueInv

\* The types of what the positions are made of.
LEMMA Naturals ==
    ASSUME TypeOK, NeverOverfull
    PROVE  /\ enqueuePos \in Nat /\ dequeuePos \in Nat /\ Released \in Nat
           /\ Released <= enqueuePos /\ enqueuePos <= Released + Capacity
           /\ \A p \in Producers : pos[p] \in Nat
           /\ \A slot \in Slots : sequence[slot] \in Nat
<1>1. Released \in Nat
  BY DEF TypeOK, Released
<1> QED BY <1>1, CapacityAssumption DEF TypeOK, NeverOverfull

\* A successful CAS claims a free cell: the release the producer saw is of
\* this round, because a claimed cell's sequence is behind enqueuePos.
LEMMA ClaimStep ==
    ASSUME Capacity > 1, TypeOK, QueueInv, NEW p \in Producers, ClaimSlot(p)
    PROVE  QueueInv'
<1> DEFINE E == enqueuePos
<1>a. /\ pc[p] = "claim" /\ pos[p] = E /\ E' = E + 1
      /\ claimed' = Append(claimed, Item(p))
      /\ UNCHANGED <<pos, attempts, sequence, data, dequeuePos, cpc, popped>>
  BY DEF ClaimSlot, consumerVars
<1>b. \A q \in Producers : pc'[q] = IF q = p THEN "write" ELSE pc[q]
  BY DEF ClaimSlot, TypeOK
<1>c. Released' = Released
  BY <1>a DEF Released
<1>n. /\ E \in Nat /\ dequeuePos \in Nat /\ Released \in Nat
      /\ Released <= E /\ E <= Released + Capacity
      /\ \A q \in Producers : pos[q] \in Nat
      /\ \A slot \in Slots : sequence[slot] \in Nat
  BY Naturals DEF QueueInv
<1>1. E < Released + Capacity
  <2> SUFFICES ASSUME E = Released + Capacity PROVE FALSE
    BY <1>n, CapacityAssumption
  <2>1. Slot(E) = Slot(Released)
    BY <1>n, SlotRound
  <2>2. sequence[Slot(Released)] \in {Released, Released + 1}
    BY <1>n, CapacityAssumption DEF QueueInv, CellInv
  <2>3. sequence[Slot(E)] >= E
    BY <1>a DEF QueueInv, ClaimerInv
  <2> QED BY <1>n, <2>1, <2>2, <2>3, CapacityAssumption
<1>2. sequence[Slot(E)] = E
  BY <1>1, <1>n, CapacityAssumption DEF QueueInv, CellInv
<1>3. Len(claimed) = E /\ claimed \in Seq(Items)
  BY DEF QueueInv, HistoryInv, TypeOK
<1>4. /\ Len(claimed') = E + 1 /\ claimed'[E + 1] = Item(p)
      /\ \A i \in 1 .. E : claimed'[i] = claimed[i]
  BY <1>a, <1>3, <1>n
<1>5. HistoryInv'
  BY <1>a, <1>4 DEF QueueInv, HistoryInv
<1>6. FifoDelivery'
  BY <1>a, <1>3, <1>4, <1>n DEF QueueInv, FifoDelivery, TypeOK
<1>7. NeverOverfull'
  BY <1>a, <1>c, <1>1, <1>n, CapacityAssumption DEF NeverOverfull
<1>8. CellInv'
  <2>1. ASSUME NEW n \in E + 1 .. Released + Capacity - 1
        PROVE  sequence[Slot(n)] = n
    BY <1>n, CapacityAssumption DEF QueueInv, CellInv
  <2>2. ASSUME NEW n \in Released .. E
        PROVE  /\ sequence[Slot(n)] \in {n, n + 1}
               /\ (sequence[Slot(n)] = n + 1 /\ ~(cpc = "release" /\ n = dequeuePos))
                     => data[Slot(n)] = claimed'[n + 1]
    <3>1. CASE n = E
      BY <3>1, <1>2, <1>n
    <3>2. CASE n # E
      <4>1. n \in Released .. E - 1 /\ n + 1 \in 1 .. E
        BY <3>2, <1>n
      <4> QED BY <4>1, <1>4 DEF QueueInv, CellInv
    <3> QED BY <3>1, <3>2
  <2>3. E' - 1 = E
    BY <1>a, <1>n
  <2> QED BY <1>a, <1>c, <2>1, <2>2, <2>3 DEF CellInv
<1>9. WriterInv'
  <2>1. ASSUME NEW q \in Producers, q # p, Writing(q)'
        PROVE  /\ Writing(q) /\ pc'[q] = pc[q]
               /\ pos[q] \in Released .. E - 1
               /\ sequence[Slot(pos[q])] = pos[q]
               /\ claimed'[pos[q] + 1] = Item(q)
               /\ pc[q] = "publish" => data[Slot(pos[q])] = Item(q)
    <3>1. Writing(q) /\ pc'[q] = pc[q]
      BY <1>b, <2>1 DEF Writing
    <3>2. pos[q] \in Released .. E - 1 /\ pos[q] + 1 \in 1 .. E
      BY <3>1, <1>n DEF QueueInv, WriterInv
    <3> QED BY <3>1, <3>2, <1>4 DEF QueueInv, WriterInv
  <2>2. Writing(p)' /\ pc'[p] # "publish"
    BY <1>b DEF Writing
  <2>3. \A q \in Producers : Item(q)' = Item(q)
    BY <1>a DEF Item
  <2>4. ASSUME NEW q \in Producers, NEW x \in Producers, q # x,
               Writing(q)', Writing(x)'
        PROVE  pos[x] # pos[q]
    <3>1. CASE q = p \/ x = p
      BY <3>1, <2>1, <2>4, <1>a, <1>n
    <3>2. CASE q # p /\ x # p
      BY <3>2, <2>1, <2>4 DEF QueueInv, WriterInv
    <3> QED BY <3>1, <3>2
  <2> SUFFICES ASSUME NEW q \in Producers, Writing(q)'
               PROVE  /\ pos'[q] \in Released' .. E' - 1
                      /\ sequence'[Slot(pos'[q])] = pos'[q]
                      /\ claimed'[pos'[q] + 1] = Item(q)'
                      /\ pc'[q] = "publish" => data'[Slot(pos'[q])] = Item(q)'
                      /\ \A x \in Producers \ {q} :
                             Writing(x)' => pos'[x] # pos'[q]
    BY DEF WriterInv
  <2>5. \A x \in Producers \ {q} : Writing(x)' => pos'[x] # pos'[q]
    BY <2>4, <1>a
  <2>6. CASE q = p
    BY <2>6, <2>2, <2>3, <2>5, <1>a, <1>c, <1>2, <1>4, <1>n
  <2>7. CASE q # p
    <3>1. pos[q] \in Released .. E - 1 => pos[q] \in Released .. E
      BY <1>n
    <3>2. E' - 1 = E
      BY <1>a, <1>n
    <3> QED BY <3>1, <3>2, <2>7, <2>1, <2>3, <2>5, <1>a, <1>c
  <2> QED BY <2>6, <2>7
<1>10. ClaimerInv'
  BY <1>a, <1>b DEF QueueInv, ClaimerInv
<1>11. TakerInv'
  BY <1>a, <1>n DEF QueueInv, TakerInv
<1> QED BY <1>5, <1>6, <1>7, <1>8, <1>9, <1>10, <1>11 DEF QueueInv

\* Writing the data touches one cell, which its writer owns.
LEMMA WriteStep ==
    ASSUME TypeOK, QueueInv, NEW p \in Producers, WriteData(p)
    PROVE  QueueInv'
<1> DEFINE E == enqueuePos
<1>a. /\ pc[p] = "write" /\ data' = [data EXCEPT ![Slot(pos[p])] = Item(p)]
      /\ UNCHANGED <<enqueuePos, pos, attempts, sequence, claimed, dequeuePos,
                     cpc, popped>>
  BY DEF WriteData, consumerVars
<1>b. \A q \in Producers : pc'[q] = IF q = p THEN "publish" ELSE pc[q]
  BY DEF WriteData, TypeOK
<1>c. Released' = Released /\ \A q \in Producers : Item(q)' = Item(q)
  BY <1>a DEF Released, Item
<1>d. Writing(p) /\ \A q \in Producers : Writing(q)' <=> Writing(q)
  BY <1>a, <1>b DEF Writing
<1>n. /\ E \in Nat /\ dequeuePos \in Nat /\ Released \in Nat
      /\ Released <= E /\ E <= Released + Capacity
      /\ \A q \in Producers : pos[q] \in Nat
  BY Naturals DEF QueueInv
<1>o. /\ pos[p] \in Released .. E - 1 /\ sequence[Slot(pos[p])] = pos[p]
      /\ claimed[pos[p] + 1] = Item(p)
  BY <1>d DEF QueueInv, WriterInv
<1>1. ASSUME NEW n \in Released .. E - 1, n # pos[p]
      PROVE  Slot(n) # Slot(pos[p]) /\ data'[Slot(n)] = data[Slot(n)]
  <2>1. n \in Nat /\ Slot(n) # Slot(pos[p]) /\ Slot(n) \in Slots
    BY <1>1, <1>n, <1>o, WindowDistinct, SlotType, CapacityAssumption
  <2> QED BY <2>1, <1>a DEF TypeOK
<1>2. data'[Slot(pos[p])] = Item(p)
  BY <1>a, <1>n, SlotType DEF TypeOK
<1>3. HistoryInv' /\ FifoDelivery' /\ NeverOverfull'
  BY <1>a, <1>c DEF QueueInv, HistoryInv, FifoDelivery, NeverOverfull
<1>4. CellInv'
  <2>1. ASSUME NEW n \in Released .. E - 1,
               sequence[Slot(n)] = n + 1, ~(cpc = "release" /\ n = dequeuePos)
        PROVE  data'[Slot(n)] = claimed[n + 1]
    <3>1. n # pos[p]
      BY <2>1, <1>o, <1>n
    <3> QED BY <3>1, <2>1, <1>1 DEF QueueInv, CellInv
  <2> QED BY <2>1, <1>a, <1>c DEF QueueInv, CellInv
<1>5. WriterInv'
  <2>1. ASSUME NEW q \in Producers, Writing(q), pc'[q] = "publish"
        PROVE  data'[Slot(pos[q])] = Item(q)
    <3>1. CASE q = p
      BY <3>1, <1>2
    <3>2. CASE q # p
      <4>1. /\ pos[q] \in Released .. E - 1 /\ pos[q] # pos[p]
            /\ data[Slot(pos[q])] = Item(q)
        BY <3>2, <2>1, <1>b, <1>d DEF QueueInv, WriterInv
      <4> QED BY <4>1, <1>1
    <3> QED BY <3>1, <3>2
  <2> QED BY <2>1, <1>a, <1>c, <1>d DEF QueueInv, WriterInv
<1>6. ClaimerInv' /\ TakerInv'
  BY <1>a, <1>b DEF QueueInv, ClaimerInv, TakerInv
<1> QED BY <1>3, <1>4, <1>5, <1>6 DEF QueueInv

\* Publishing touches one sequence, raises it, and ends the ownership.
LEMMA PublishStep ==
    ASSUME TypeOK, QueueInv, NEW p \in Producers, Publish(p)
    PROVE  QueueInv'
<1> DEFINE E == enqueuePos
<1>a. /\ pc[p] = "publish"
      /\ sequence' = [sequence EXCEPT ![Slot(pos[p])] = pos[p] + 1]
      /\ UNCHANGED <<enqueuePos, pos, attempts, data, claimed, dequeuePos,
                     cpc, popped>>
  BY DEF Publish, PublishedSequence, consumerVars
<1>b. \A q \in Producers : pc'[q] = IF q = p THEN "idle" ELSE pc[q]
  BY DEF Publish, TypeOK
<1>c. Released' = Released /\ \A q \in Producers : Item(q)' = Item(q)
  BY <1>a DEF Released, Item
<1>d. Writing(p) /\ \A q \in Producers : Writing(q)' <=> (Writing(q) /\ q # p)
  BY <1>a, <1>b DEF Writing
<1>n. /\ E \in Nat /\ dequeuePos \in Nat /\ Released \in Nat
      /\ Released <= E /\ E <= Released + Capacity
      /\ \A q \in Producers : pos[q] \in Nat
      /\ \A slot \in Slots : sequence[slot] \in Nat
  BY Naturals DEF QueueInv
<1>o. /\ pos[p] \in Released .. E - 1 /\ sequence[Slot(pos[p])] = pos[p]
      /\ claimed[pos[p] + 1] = Item(p) /\ data[Slot(pos[p])] = Item(p)
  BY <1>a, <1>d DEF QueueInv, WriterInv
<1>1. ASSUME NEW n \in Released .. Released + Capacity - 1, n # pos[p]
      PROVE  sequence'[Slot(n)] = sequence[Slot(n)]
  <2>1. n \in Nat /\ Slot(n) # Slot(pos[p]) /\ Slot(n) \in Slots
    BY <1>1, <1>n, <1>o, WindowDistinct, SlotType, CapacityAssumption
  <2> QED BY <2>1, <1>a DEF TypeOK
<1>2. sequence'[Slot(pos[p])] = pos[p] + 1
  BY <1>a, <1>n, SlotType DEF TypeOK
<1>3. \A slot \in Slots : sequence'[slot] >= sequence[slot]
  <2>1. Slot(pos[p]) \in Slots
    BY <1>n, SlotType
  <2> QED BY <1>a, <1>n, <1>o, <2>1 DEF TypeOK
<1>4. HistoryInv' /\ FifoDelivery' /\ NeverOverfull'
  BY <1>a, <1>c DEF QueueInv, HistoryInv, FifoDelivery, NeverOverfull
<1>5. CellInv'
  <2>1. ASSUME NEW n \in E .. Released + Capacity - 1
        PROVE  sequence'[Slot(n)] = n
    <3>1. n \in Released .. Released + Capacity - 1 /\ n # pos[p]
      BY <1>n, <1>o, CapacityAssumption
    <3> QED BY <3>1, <1>1 DEF QueueInv, CellInv
  <2>2. ASSUME NEW n \in Released .. E - 1
        PROVE  /\ sequence'[Slot(n)] \in {n, n + 1}
               /\ (sequence'[Slot(n)] = n + 1 /\ ~(cpc = "release" /\ n = dequeuePos))
                     => data[Slot(n)] = claimed[n + 1]
    <3>1. CASE n = pos[p]
      BY <3>1, <1>2, <1>o
    <3>2. CASE n # pos[p]
      <4>1. n \in Released .. Released + Capacity - 1
        BY <1>n, CapacityAssumption
      <4> QED BY <3>2, <4>1, <1>1 DEF QueueInv, CellInv
    <3> QED BY <3>1, <3>2
  <2> QED BY <2>1, <2>2, <1>a, <1>c DEF CellInv
<1>6. WriterInv'
  <2>1. ASSUME NEW q \in Producers, Writing(q), q # p
        PROVE  sequence'[Slot(pos[q])] = pos[q]
    <3>1. /\ pos[q] \in Released .. E - 1 /\ pos[q] # pos[p]
          /\ sequence[Slot(pos[q])] = pos[q]
      BY <2>1, <1>d DEF QueueInv, WriterInv
    <3>2. pos[q] \in Released .. Released + Capacity - 1
      BY <3>1, <1>n, CapacityAssumption
    <3> QED BY <3>1, <3>2, <1>1
  <2> QED BY <2>1, <1>a, <1>b, <1>c, <1>d DEF QueueInv, WriterInv
<1>7. ClaimerInv'
  <2> SUFFICES ASSUME NEW q \in Producers, pc'[q] = "claim"
               PROVE  sequence'[Slot(pos[q])] >= pos[q]
    BY <1>a DEF ClaimerInv
  <2>1. sequence[Slot(pos[q])] >= pos[q] /\ Slot(pos[q]) \in Slots
    BY <1>b, <1>n, SlotType DEF QueueInv, ClaimerInv
  <2>2. sequence'[Slot(pos[q])] \in Nat
    BY <2>1, <1>a, <1>n, <1>o DEF TypeOK
  <2> QED BY <2>1, <2>2, <1>3, <1>n
<1>8. TakerInv'
  <2> SUFFICES ASSUME cpc \in {"move", "release"}
               PROVE  /\ dequeuePos < E
                      /\ sequence'[Slot(dequeuePos)] = dequeuePos + 1
    BY <1>a DEF TakerInv
  <2>1. dequeuePos < E /\ sequence[Slot(dequeuePos)] = dequeuePos + 1
    BY DEF QueueInv, TakerInv
  <2>2. dequeuePos # pos[p]
    BY <2>1, <1>o, <1>n
  <2>3. dequeuePos \in Released .. Released + Capacity - 1
    BY <1>n, CapacityAssumption DEF Released
  <2> QED BY <2>1, <2>2, <2>3, <1>1
<1> QED BY <1>4, <1>5, <1>6, <1>7, <1>8 DEF QueueInv

\* Pop goes on to the data only if the cell at dequeuePos is published.
LEMMA PopLoadStep ==
    ASSUME TypeOK, QueueInv, PopLoadSequence
    PROVE  QueueInv'
<1>a. /\ cpc = "idle" /\ cpc' \in {"move", "empty"}
      /\ UNCHANGED <<enqueuePos, pc, pos, attempts, claimed, sequence, data,
                     dequeuePos, popped>>
  BY DEF PopLoadSequence, producerVars
<1>b. Released = dequeuePos /\ Released' = Released
  BY <1>a DEF Released
<1>n. /\ enqueuePos \in Nat /\ dequeuePos \in Nat
      /\ Released <= enqueuePos /\ enqueuePos <= Released + Capacity
      /\ \A slot \in Slots : sequence[slot] \in Nat
  BY Naturals DEF QueueInv
<1>1. Slot(dequeuePos) \in Slots
  BY <1>n, SlotType
<1>2. \A v \in VisibleSequence(Slot(dequeuePos)) :
          v \in Int /\ v <= sequence[Slot(dequeuePos)]
  BY <1>1, <1>n DEF VisibleSequence, Slots
<1>3. CASE cpc' = "move"
  <2>1. PICK v \in VisibleSequence(Slot(dequeuePos)) : v = dequeuePos + 1
    BY <1>2, <1>3, <1>n DEF PopLoadSequence, PopReady
  <2>2. sequence[Slot(dequeuePos)] >= dequeuePos + 1
    BY <2>1, <1>1, <1>2, <1>n
  <2>3. dequeuePos < enqueuePos
    <3> SUFFICES ASSUME enqueuePos = dequeuePos PROVE FALSE
      BY <1>b, <1>n
    <3>1. sequence[Slot(dequeuePos)] = dequeuePos
      BY <1>b, <1>n, CapacityAssumption DEF QueueInv, CellInv
    <3> QED BY <3>1, <2>2, <1>n
  <2>4. sequence[Slot(dequeuePos)] \in {dequeuePos, dequeuePos + 1}
    BY <2>3, <1>b, <1>n DEF QueueInv, CellInv
  <2>5. TakerInv'
    BY <2>2, <2>3, <2>4, <1>a, <1>n DEF TakerInv
  <2> QED BY <2>5, <1>a, <1>b, <1>3
          DEF QueueInv, HistoryInv, FifoDelivery, NeverOverfull, CellInv,
              WriterInv, Writing, Item, ClaimerInv
<1>4. CASE cpc' = "empty"
  BY <1>a, <1>b, <1>4
     DEF QueueInv, HistoryInv, FifoDelivery, NeverOverfull, CellInv,
         WriterInv, Writing, Item, ClaimerInv, TakerInv
<1> QED BY <1>a, <1>3, <1>4

\* Returning nullopt changes nothing that is shared.
LEMMA ReturnEmptyStep ==
    ASSUME QueueInv, ReturnEmpty
    PROVE  QueueInv'
BY DEF ReturnEmpty, producerVars, Released, QueueInv, HistoryInv, FifoDelivery,
       NeverOverfull, CellInv, WriterInv, Writing, Item, ClaimerInv, TakerInv

\* Moving the data out returns the next claimed item and empties a cell that
\* no producer owns.
LEMMA MoveStep ==
    ASSUME TypeOK, QueueInv, MoveData
    PROVE  QueueInv'
<1> DEFINE D == dequeuePos
<1>a. /\ cpc = "move" /\ cpc' = "release"
      /\ popped' = Append(popped, data[Slot(D)])
      /\ data' = [data EXCEPT ![Slot(D)] = Hollow]
      /\ UNCHANGED <<enqueuePos, pc, pos, attempts, claimed, sequence, dequeuePos>>
  BY DEF MoveData, producerVars
<1>b. Released = D /\ Released' = D
  BY <1>a DEF Released
<1>n. /\ enqueuePos \in Nat /\ D \in Nat
      /\ D <= enqueuePos /\ enqueuePos <= D + Capacity
  BY <1>b, Naturals DEF QueueInv
<1>o. D < enqueuePos /\ sequence[Slot(D)] = D + 1
  BY <1>a DEF QueueInv, TakerInv
<1>1. Len(popped) = D /\ popped \in Seq(Items \cup {Hollow})
  BY <1>a DEF QueueInv, HistoryInv, TypeOK
<1>2. data[Slot(D)] = claimed[D + 1]
  BY <1>a, <1>b, <1>n, <1>o DEF QueueInv, CellInv
<1>3. /\ Len(popped') = D + 1 /\ popped'[D + 1] = claimed[D + 1]
      /\ \A i \in 1 .. D : popped'[i] = popped[i]
  BY <1>a, <1>1, <1>2, <1>n
<1>4. ASSUME NEW n \in D .. enqueuePos - 1, n # D
      PROVE  data'[Slot(n)] = data[Slot(n)]
  <2>1. n \in Nat /\ Slot(n) # Slot(D) /\ Slot(n) \in Slots
    BY <1>4, <1>n, <1>o, WindowDistinct, SlotType, CapacityAssumption
  <2> QED BY <2>1, <1>a DEF TypeOK
<1>5. HistoryInv' /\ NeverOverfull'
  BY <1>a, <1>b, <1>3 DEF QueueInv, HistoryInv, NeverOverfull
<1>6. FifoDelivery'
  <2>1. Len(claimed) = enqueuePos /\ \A i \in 1 .. D : popped[i] = claimed[i]
    BY <1>1 DEF QueueInv, HistoryInv, FifoDelivery
  <2> QED BY <2>1, <1>a, <1>3, <1>n, <1>o DEF FifoDelivery
<1>7. CellInv'
  <2>1. ASSUME NEW n \in D .. enqueuePos - 1, sequence[Slot(n)] = n + 1, n # D
        PROVE  data'[Slot(n)] = claimed[n + 1]
    BY <2>1, <1>4, <1>a, <1>b DEF QueueInv, CellInv
  <2> QED BY <2>1, <1>a, <1>b DEF QueueInv, CellInv
<1>8. WriterInv'
  <2>1. ASSUME NEW p \in Producers, Writing(p), pc[p] = "publish"
        PROVE  data'[Slot(pos[p])] = Item(p)
    <3>1. /\ pos[p] \in D .. enqueuePos - 1 /\ sequence[Slot(pos[p])] = pos[p]
          /\ data[Slot(pos[p])] = Item(p)
      BY <2>1, <1>b DEF QueueInv, WriterInv
    <3>2. pos[p] # D
      BY <3>1, <1>o, <1>n
    <3> QED BY <3>1, <3>2, <1>4
  <2> QED BY <2>1, <1>a, <1>b DEF QueueInv, WriterInv, Writing, Item
<1>9. ClaimerInv' /\ TakerInv'
  BY <1>a DEF QueueInv, ClaimerInv, TakerInv
<1> QED BY <1>5, <1>6, <1>7, <1>8, <1>9 DEF QueueInv

\* Releasing a cell turns position dequeuePos into dequeuePos + Capacity.
LEMMA ReleaseStep ==
    ASSUME TypeOK, QueueInv, ReleaseCell
    PROVE  QueueInv'
<1> DEFINE D == dequeuePos
<1>a. /\ cpc = "release" /\ cpc' = "advance"
      /\ sequence' = [sequence EXCEPT ![Slot(D)] = D + Capacity]
      /\ UNCHANGED <<enqueuePos, pc, pos, attempts, claimed, data, dequeuePos,
                     popped>>
  BY DEF ReleaseCell, ReleasedSequence, producerVars
<1>b. Released = D /\ Released' = D + 1
  BY <1>a DEF Released
<1>n. /\ enqueuePos \in Nat /\ D \in Nat
      /\ D <= enqueuePos /\ enqueuePos <= D + Capacity
      /\ \A p \in Producers : pos[p] \in Nat
      /\ \A slot \in Slots : sequence[slot] \in Nat
  BY <1>b, Naturals DEF QueueInv
<1>o. D < enqueuePos /\ sequence[Slot(D)] = D + 1
  BY <1>a DEF QueueInv, TakerInv
<1>1. ASSUME NEW n \in D + 1 .. D + Capacity - 1
      PROVE  sequence'[Slot(n)] = sequence[Slot(n)]
  <2>1. n \in Nat /\ Slot(n) # Slot(D) /\ Slot(n) \in Slots
    BY <1>1, <1>n, WindowDistinct, SlotType, CapacityAssumption
  <2> QED BY <2>1, <1>a DEF TypeOK
<1>2. sequence'[Slot(D + Capacity)] = D + Capacity
  <2>1. Slot(D + Capacity) = Slot(D) /\ Slot(D) \in Slots
    BY <1>n, SlotRound, SlotType
  <2> QED BY <2>1, <1>a DEF TypeOK
<1>3. \A slot \in Slots : /\ sequence'[slot] >= sequence[slot]
                          /\ sequence'[slot] \in Nat
  <2>1. D + Capacity \in Nat /\ D + Capacity >= D + 1
    BY <1>n, CapacityAssumption
  <2>2. TAKE slot \in Slots
  <2>3. CASE slot = Slot(D)
    <3>1. sequence'[slot] = D + Capacity
      BY <2>3, <1>a DEF TypeOK
    <3>2. sequence[slot] = D + 1
      BY <2>3, <1>o
    <3> QED BY <3>1, <3>2, <2>1
  <2>4. CASE slot # Slot(D)
    <3>1. sequence'[slot] = sequence[slot]
      BY <2>4, <1>a DEF TypeOK
    <3> QED BY <3>1, <1>n
  <2> QED BY <2>3, <2>4
<1>4. HistoryInv' /\ FifoDelivery' /\ TakerInv'
  BY <1>a DEF QueueInv, HistoryInv, FifoDelivery, TakerInv
<1>5. NeverOverfull'
  BY <1>a, <1>b, <1>n, <1>o, CapacityAssumption DEF NeverOverfull
<1>6. CellInv'
  <2>1. ASSUME NEW n \in enqueuePos .. D + Capacity
        PROVE  sequence'[Slot(n)] = n
    <3>1. CASE n = D + Capacity
      BY <3>1, <1>2
    <3>2. CASE n # D + Capacity
      <4>1. n \in D + 1 .. D + Capacity - 1 /\ n \in enqueuePos .. D + Capacity - 1
        BY <3>2, <1>n, <1>o, CapacityAssumption
      <4> QED BY <4>1, <1>1, <1>b DEF QueueInv, CellInv
    <3> QED BY <3>1, <3>2
  <2>2. ASSUME NEW n \in D + 1 .. enqueuePos - 1
        PROVE  /\ sequence'[Slot(n)] \in {n, n + 1}
               /\ sequence'[Slot(n)] = n + 1 => data[Slot(n)] = claimed[n + 1]
    <3>1. /\ n \in D + 1 .. D + Capacity - 1 /\ n \in D .. enqueuePos - 1
          /\ n # D
      BY <1>n, CapacityAssumption
    <3> QED BY <3>1, <1>1, <1>b DEF QueueInv, CellInv
  <2>3. D + 1 + Capacity - 1 = D + Capacity
    BY <1>n, CapacityAssumption
  <2> QED BY <2>1, <2>2, <2>3, <1>a, <1>b DEF CellInv
<1>7. WriterInv'
  <2>1. ASSUME NEW p \in Producers, Writing(p)
        PROVE  /\ pos[p] \in D + 1 .. enqueuePos - 1
               /\ sequence'[Slot(pos[p])] = pos[p]
    <3>1. pos[p] \in D .. enqueuePos - 1 /\ sequence[Slot(pos[p])] = pos[p]
      BY <2>1, <1>b DEF QueueInv, WriterInv
    <3>2. pos[p] # D
      BY <3>1, <1>o, <1>n
    <3>3. pos[p] \in D + 1 .. enqueuePos - 1 /\ pos[p] \in D + 1 .. D + Capacity - 1
      BY <3>1, <3>2, <1>n, CapacityAssumption
    <3> QED BY <3>1, <3>3, <1>1
  <2> QED BY <2>1, <1>a, <1>b DEF QueueInv, WriterInv, Writing, Item
<1>8. ClaimerInv'
  <2> SUFFICES ASSUME NEW p \in Producers, pc[p] = "claim"
               PROVE  sequence'[Slot(pos[p])] >= pos[p]
    BY <1>a DEF ClaimerInv
  <2>1. sequence[Slot(pos[p])] >= pos[p] /\ Slot(pos[p]) \in Slots
    BY <1>n, SlotType DEF QueueInv, ClaimerInv
  <2> QED BY <2>1, <1>3, <1>n
<1> QED BY <1>4, <1>5, <1>6, <1>7, <1>8 DEF QueueInv

\* Storing dequeuePos changes no cell: the release has already been counted.
LEMMA AdvanceStep ==
    ASSUME TypeOK, QueueInv, AdvanceDequeuePos
    PROVE  QueueInv'
<1>a. /\ cpc = "advance" /\ cpc' = "idle" /\ dequeuePos' = dequeuePos + 1
      /\ UNCHANGED <<enqueuePos, pc, pos, attempts, claimed, sequence, data, popped>>
  BY DEF AdvanceDequeuePos, producerVars
<1>b. Released' = Released
  BY <1>a DEF Released
<1> QED
  BY <1>a, <1>b DEF QueueInv, HistoryInv, FifoDelivery, NeverOverfull, CellInv,
                    WriterInv, Writing, Item, ClaimerInv, TakerInv
-----------------------------------------------------------------------------
(* The inductive invariant holds: initially, and after every step.          *)

\* An empty buffer: cell s is free for position s.
LEMMA QueueInit == Init => QueueInv
<1> SUFFICES ASSUME Init PROVE QueueInv
  OBVIOUS
<1>1. Released = 0
  BY DEF Init, Released
<1>2. \A p \in Producers : pc[p] = "idle"
  BY DEF Init
<1>3. HistoryInv /\ FifoDelivery /\ NeverOverfull /\ TakerInv
  BY <1>1, CapacityAssumption
     DEF Init, HistoryInv, FifoDelivery, NeverOverfull, TakerInv
<1>4. CellInv
  <2>1. ASSUME NEW n \in 0 .. Capacity - 1 PROVE sequence[Slot(n)] = n
    <3>1. n \in Slots /\ Slot(n) = n
      BY SlotFirstRound DEF Slots
    <3> QED BY <3>1 DEF Init
  <2>2. \A n \in 0 .. 0 - 1 : FALSE
    OBVIOUS
  <2>3. enqueuePos = 0
    BY DEF Init
  <2>4. \A n \in enqueuePos .. Released + Capacity - 1 : sequence[Slot(n)] = n
    BY <1>1, <2>1, <2>3, CapacityAssumption
  <2>5. \A n \in Released .. enqueuePos - 1 : FALSE
    BY <1>1, <2>2, <2>3
  <2> QED BY <2>4, <2>5 DEF CellInv
<1>5. WriterInv /\ ClaimerInv
  BY <1>2 DEF WriterInv, ClaimerInv, Writing
<1> QED BY <1>3, <1>4, <1>5 DEF QueueInv

\* A load of sequence that returned pos saw a value the cell has reached.
LEMMA LoadSequenceStep ==
    ASSUME TypeOK, QueueInv, NEW p \in Producers, LoadSequence(p)
    PROVE  QueueInv'
<1>a. PICK seq \in VisibleSequence(Slot(pos[p])) :
          pc' = [pc EXCEPT ![p] = AfterDiff(seq - pos[p])]
  BY DEF LoadSequence
<1>b. UNCHANGED <<enqueuePos, pos, attempts, sequence, data, claimed, consumerVars>>
  BY DEF LoadSequence
<1>n. pos[p] \in Nat /\ Slot(pos[p]) \in Slots /\ sequence[Slot(pos[p])] \in Nat
  BY Naturals, SlotType DEF QueueInv
<1>1. seq \in Int /\ seq <= sequence[Slot(pos[p])]
  BY <1>a, <1>n DEF VisibleSequence, Slots
<1>2. AfterDiff(seq - pos[p]) = "claim" => sequence[Slot(pos[p])] >= pos[p]
  BY <1>1, <1>n DEF AfterDiff
<1>3. AfterDiff(seq - pos[p]) \in {"claim", "full", "load"}
  BY DEF AfterDiff
<1>4. \A q \in Producers :
          pc'[q] = IF q = p THEN AfterDiff(seq - pos[p]) ELSE pc[q]
  BY <1>a DEF TypeOK
<1>5. \A q \in Producers :
          Writing(q)' => /\ Writing(q) /\ pc'[q] = pc[q]
                         /\ pos'[q] = pos[q] /\ attempts'[q] = attempts[q]
  BY <1>3, <1>4, <1>b DEF Writing
<1>6. \A q \in Producers : pc'[q] = "claim" => sequence[Slot(pos'[q])] >= pos'[q]
  BY <1>2, <1>4, <1>b DEF QueueInv, ClaimerInv
<1> QED BY <1>5, <1>6, <1>b, QuietStep

\* The other steps of a producer that touch none of the shared memory.
LEMMA LocalStep ==
    ASSUME TypeOK, QueueInv, NEW p \in Producers,
           Push(p) \/ LoadEnqueuePos(p) \/ ClaimFails(p) \/ ReturnFull(p)
    PROVE  QueueInv'
<1>1. UNCHANGED <<enqueuePos, sequence, data, claimed, consumerVars>>
  BY DEF Push, LoadEnqueuePos, ClaimFails, ReturnFull
<1>2. /\ ~Writing(p)
      /\ \A q \in Producers : q = p => pc'[q] \in {"load", "sequence", "idle"}
      /\ \A q \in Producers : q # p => /\ pc'[q] = pc[q] /\ pos'[q] = pos[q]
                                       /\ attempts'[q] = attempts[q]
  <2>1. CASE Push(p)
    BY <2>1 DEF Push, TypeOK, Writing
  <2>2. CASE LoadEnqueuePos(p)
    BY <2>2 DEF LoadEnqueuePos, TypeOK, Writing
  <2>3. CASE ClaimFails(p)
    BY <2>3 DEF ClaimFails, TypeOK, Writing
  <2>4. CASE ReturnFull(p)
    BY <2>4 DEF ReturnFull, TypeOK, Writing
  <2> QED BY <2>1, <2>2, <2>3, <2>4
<1>3. \A q \in Producers :
          Writing(q)' => /\ Writing(q) /\ pc'[q] = pc[q]
                         /\ pos'[q] = pos[q] /\ attempts'[q] = attempts[q]
  BY <1>2 DEF Writing
<1>4. \A q \in Producers : pc'[q] = "claim" => sequence[Slot(pos'[q])] >= pos'[q]
  BY <1>2 DEF QueueInv, ClaimerInv
<1> QED BY <1>1, <1>3, <1>4, QuietStep

\* IInv is inductive for every capacity above one.
LEMMA QueueStep ==
    ASSUME Capacity > 1, TypeOK, QueueInv, [Next]_vars
    PROVE  QueueInv'
<1>1. ASSUME NEW p \in Producers, Push(p) \/ PushStep(p) PROVE QueueInv'
  BY <1>1, LocalStep, LoadSequenceStep, ClaimStep, WriteStep, PublishStep
     DEF PushStep
<1>2. CASE PopStep
  BY <1>2, PopLoadStep, ReturnEmptyStep, MoveStep, ReleaseStep, AdvanceStep
     DEF PopStep
<1>3. CASE UNCHANGED vars
  BY <1>3 DEF vars, QueueInv, HistoryInv, FifoDelivery, NeverOverfull, CellInv,
              WriterInv, ClaimerInv, TakerInv, Released, Writing, Item
<1> QED BY <1>1, <1>2, <1>3 DEF Next

\* The inductive invariant of the ring buffer.  It fails for Capacity = 1,
\* which the static_assert admits: see the run of NeverOverfull there.
THEOREM InductiveInvariant ==
    ASSUME Capacity > 1
    PROVE  Spec => []IInv
<1>1. Init => IInv
  BY TypeInit, QueueInit DEF IInv, QueueInv
<1>2. IInv /\ [Next]_vars => IInv'
  BY TypeStep, QueueStep DEF IInv, QueueInv
<1> QED BY <1>1, <1>2, PTL DEF Spec

\* Pop delivers exactly the claimed items, in the order of the claims,
\* however stale the loads of producers and consumer are.
THEOREM FifoCorrect ==
    ASSUME Capacity > 1
    PROVE  Spec => []FifoDelivery
<1>1. IInv => FifoDelivery
  BY DEF IInv
<1> QED BY <1>1, InductiveInvariant, PTL

\* A claim never overtakes the consumer by more than Capacity.
THEOREM NeverOverfullCorrect ==
    ASSUME Capacity > 1
    PROVE  Spec => []NeverOverfull
<1>1. IInv => NeverOverfull
  BY DEF IInv
<1> QED BY <1>1, InductiveInvariant, PTL

\* No two threads touch the data of one cell at the same time: producers own
\* different positions of one window of Capacity, and the consumer only takes
\* a published one.
THEOREM DataRaceFree ==
    ASSUME Capacity > 1
    PROVE  Spec => []ExclusiveCell
<1>1. IInv => ExclusiveCell
  <2> SUFFICES ASSUME IInv, NEW p \in Producers, Writing(p)
               PROVE  /\ \A q \in Producers \ {p} :
                             Writing(q) => Slot(pos[q]) # Slot(pos[p])
                      /\ cpc \in {"move", "release"} =>
                             Slot(dequeuePos) # Slot(pos[p])
    BY DEF ExclusiveCell
  <2>n. /\ enqueuePos \in Nat /\ Released \in Nat
        /\ Released <= enqueuePos /\ enqueuePos <= Released + Capacity
    BY Naturals DEF IInv
  <2>1. \A q \in Producers : Writing(q) =>
            /\ pos[q] \in Released .. Released + Capacity - 1
            /\ sequence[Slot(pos[q])] = pos[q]
    BY <2>n, CapacityAssumption DEF IInv, WriterInv
  <2>2. ASSUME NEW q \in Producers \ {p}, Writing(q)
        PROVE  Slot(pos[q]) # Slot(pos[p])
    <3>1. pos[q] # pos[p]
      BY <2>2 DEF IInv, WriterInv
    <3> QED BY <2>1, <2>2, <2>n, <3>1, WindowDistinct
  <2>3. ASSUME cpc \in {"move", "release"}
        PROVE  Slot(dequeuePos) # Slot(pos[p])
    <3>1. /\ Released = dequeuePos
          /\ sequence[Slot(dequeuePos)] = dequeuePos + 1
      BY <2>3 DEF IInv, TakerInv, Released
    <3>2. pos[p] # dequeuePos
      BY <2>1, <2>n, <3>1
    <3>3. dequeuePos \in Released .. Released + Capacity - 1
      BY <3>1, <2>n, CapacityAssumption
    <3> QED BY <2>1, <2>n, <3>2, <3>3, WindowDistinct
  <2> QED BY <2>2, <2>3
<1> QED BY <1>1, InductiveInvariant, PTL

-----------------------------------------------------------------------------
(* A full queue.                                                            *)

\* No producer is ahead of enqueuePos.
PosBounded == \A p \in Producers : pos[p] <= enqueuePos

\* A load of enqueuePos, old or new, returns at most its value.
LEMMA PosStep ==
    IInv /\ PosBounded /\ [Next]_vars => PosBounded'
<1> SUFFICES ASSUME IInv, PosBounded, [Next]_vars PROVE PosBounded'
  OBVIOUS
<1>1. enqueuePos \in Nat /\ pos \in [Producers -> Nat]
  BY DEF IInv, TypeOK
<1>2. ASSUME UNCHANGED <<enqueuePos, pos>> PROVE PosBounded'
  BY <1>2 DEF PosBounded
<1>3. ASSUME NEW p \in Producers, LoadEnqueuePos(p) \/ ClaimFails(p) PROVE PosBounded'
  <2>1. PICK v \in VisibleEnqueuePos : pos' = [pos EXCEPT ![p] = v]
    BY <1>3 DEF LoadEnqueuePos, ClaimFails
  <2>2. v <= enqueuePos /\ enqueuePos' = enqueuePos
    BY <1>1, <1>3, <2>1 DEF LoadEnqueuePos, ClaimFails, VisibleEnqueuePos
  <2> QED BY <1>1, <2>1, <2>2 DEF PosBounded
<1>4. ASSUME NEW p \in Producers, ClaimSlot(p) PROVE PosBounded'
  BY <1>1, <1>4 DEF ClaimSlot, PosBounded
<1>5. ASSUME NEW p \in Producers,
             Push(p) \/ LoadSequence(p) \/ WriteData(p) \/ Publish(p) \/ ReturnFull(p)
      PROVE  PosBounded'
  BY <1>2, <1>5 DEF Push, LoadSequence, WriteData, Publish, ReturnFull
<1>6. CASE PopStep
  BY <1>2, <1>6 DEF PopStep, PopLoadSequence, ReturnEmpty, MoveData, ReleaseCell,
                    AdvanceDequeuePos, producerVars
<1>7. CASE UNCHANGED vars
  BY <1>2, <1>7 DEF vars
<1> QED BY <1>3, <1>4, <1>5, <1>6, <1>7 DEF Next, PushStep

\* While a cell is free, no cell a producer may look at is behind it: the
\* cell of pos is that of a position of the window, at pos or after it.
LEMMA NotBehind ==
    ASSUME IInv, PosBounded, enqueuePos - Released # Capacity, NEW p \in Producers
    PROVE  sequence[Slot(pos[p])] >= pos[p]
<1>1. /\ enqueuePos \in Nat /\ Released \in Nat /\ pos[p] \in Nat
      /\ Released <= enqueuePos /\ enqueuePos < Released + Capacity
      /\ pos[p] <= enqueuePos
  BY Naturals, CapacityAssumption DEF IInv, PosBounded
<1>2. \A n \in Released .. Released + Capacity - 1 : sequence[Slot(n)] >= n
  <2> SUFFICES ASSUME NEW n \in Released .. Released + Capacity - 1
               PROVE  sequence[Slot(n)] >= n
    OBVIOUS
  <2>1. CASE n < enqueuePos
    <3>1. n \in Released .. enqueuePos - 1
      BY <1>1, <2>1, CapacityAssumption
    <3> QED BY <1>1, <3>1 DEF IInv, CellInv
  <2>2. CASE n >= enqueuePos
    <3>1. n \in enqueuePos .. Released + Capacity - 1
      BY <1>1, <2>2, CapacityAssumption
    <3> QED BY <1>1, <3>1 DEF IInv, CellInv
  <2> QED BY <1>1, <2>1, <2>2, CapacityAssumption
<1>3. CASE pos[p] >= Released
  BY <1>1, <1>2, <1>3, CapacityAssumption
<1>4. CASE pos[p] < Released
  <2> DEFINE a == pos[p] - Released
  <2>1. a \in Int
    BY <1>1
  <2> HIDE DEF a
  <2>2. PICK d \in Int, r \in 0 .. Capacity - 1 : a % Capacity = r /\ a = Capacity * d + r
    BY <2>1, DivMod, CapacityAssumption
  <2> DEFINE n == Released + r
  <2>3. n \in Released .. Released + Capacity - 1 /\ n \in Int /\ n > pos[p]
    BY <1>1, <1>4, <2>2, CapacityAssumption
  <2>4. pos[p] = n + Capacity * d
    <3> DEFINE m == Capacity * d
    <3>1. m \in Int /\ pos[p] - Released = m + r
      BY <2>2, CapacityAssumption DEF a
    <3> HIDE DEF m
    <3>2. pos[p] = n + m
      BY <1>1, <2>2, <3>1
    <3> QED BY <3>2 DEF m
  <2> HIDE DEF n
  <2>5. pos[p] % Capacity = n % Capacity
    <3>1. pos[p] \in Int
      BY <1>1
    <3> QED BY <2>2, <2>3, <2>4, <3>1, ModShift, CapacityAssumption
  <2>6. Slot(pos[p]) = Slot(n)
    BY <2>5 DEF Slot
  <2>7. sequence[Slot(n)] >= n /\ sequence[Slot(n)] \in Nat
    <3>1. Slot(n) \in Slots
      BY <1>1, <2>3, SlotType
    <3> QED BY <1>2, <2>3, <3>1 DEF IInv, TypeOK
  <2> QED BY <1>1, <2>3, <2>6, <2>7
<1> QED BY <1>1, <1>3, <1>4

\* With exact loads, Push reports a full queue only while every cell is in
\* use, though the position it looks at may have been overtaken meanwhile.
THEOREM FullCorrect ==
    ASSUME Capacity > 1, StaleReads = FALSE
    PROVE  Spec => FullMeansFull
<1> DEFINE Full == \A p \in Producers : (pc[p] = "sequence" /\ pc'[p] = "full") =>
                      enqueuePos - Released = Capacity
<1>1. IInv /\ PosBounded /\ [Next]_vars => [Full]_vars
  <2> SUFFICES ASSUME IInv, PosBounded, Next, NEW p \in Producers,
                      pc[p] = "sequence", pc'[p] = "full",
                      enqueuePos - Released # Capacity
               PROVE  FALSE
    BY Zenon
  <2>1. ~PopStep
    BY DEF PopStep, PopLoadSequence, ReturnEmpty, MoveData, ReleaseCell, AdvanceDequeuePos,
           producerVars
  <2>2. \A q \in Producers : q # p => ~(Push(q) \/ PushStep(q))
    BY DEF PushStep, Push, LoadEnqueuePos, LoadSequence, ClaimSlot, ClaimFails, WriteData,
           Publish, ReturnFull, IInv, TypeOK
  <2>3. LoadSequence(p)
    BY <2>1, <2>2 DEF Next, PushStep, Push, LoadEnqueuePos, ClaimSlot, ClaimFails, WriteData,
           Publish, ReturnFull
  <2>4. PICK seq \in VisibleSequence(Slot(pos[p])) :
            pc' = [pc EXCEPT ![p] = AfterDiff(seq - pos[p])]
    BY <2>3 DEF LoadSequence
  <2>5. AfterDiff(seq - pos[p]) = "full" /\ seq = sequence[Slot(pos[p])]
    BY <2>4 DEF VisibleSequence, IInv, TypeOK
  <2>6. seq \in Nat /\ pos[p] \in Nat
    BY <2>5, SlotType DEF IInv, TypeOK
  <2>7. seq < pos[p]
    BY <2>5, <2>6 DEF AfterDiff
  <2> QED BY <2>5, <2>6, <2>7, NotBehind
<1>2. Init => PosBounded
  BY DEF Init, PosBounded
<1>3. FullMeansFull <=> [][Full]_vars
  BY DEF FullMeansFull
<1> QED BY <1>1, <1>2, <1>3, PosStep, InductiveInvariant, PTL DEF Spec

-----------------------------------------------------------------------------
(* Claimed places and their producers.                                     *)

\* No claim is orphaned: the cell of a claimed position looks free only while
\* the producer of the claim is still on its way to publish it.
EveryClaimOwned ==
    \A n \in Released .. enqueuePos - 1 : sequence[Slot(n)] = n =>
        \E p \in Producers : Writing(p) /\ pos[p] = n

\* A step that leaves the cells and the counters, and the claims of the
\* producers that are writing.
LEMMA OwnersStay ==
    ASSUME EveryClaimOwned, UNCHANGED <<enqueuePos, sequence>>, Released' = Released,
           \A q \in Producers : Writing(q) => Writing(q)' /\ pos'[q] = pos[q]
    PROVE  EveryClaimOwned'
BY DEF EveryClaimOwned

LEMMA OwnedStep == IInv /\ EveryClaimOwned /\ [Next]_vars => EveryClaimOwned'
<1> SUFFICES ASSUME IInv, EveryClaimOwned, [Next]_vars PROVE EveryClaimOwned'
  OBVIOUS
<1>a. /\ enqueuePos \in Nat /\ dequeuePos \in Nat /\ Released \in Nat
      /\ Released <= enqueuePos /\ enqueuePos <= Released + Capacity
      /\ \A p \in Producers : pos[p] \in Nat
  BY Naturals DEF IInv
<1>b. /\ sequence \in [Slots -> Nat] /\ pos \in [Producers -> Nat]
      /\ pc \in [Producers -> {"idle", "load", "sequence", "claim", "full",
                               "write", "publish"}]
  BY DEF IInv, TypeOK
<1>c. \A m, n \in Released .. enqueuePos - 1 : m # n => Slot(m) # Slot(n)
  BY <1>a, WindowDistinct, CapacityAssumption
<1>d. \A n \in Released .. enqueuePos - 1 : n \in Nat /\ Slot(n) \in Slots
  BY <1>a, SlotType
<1>1. ASSUME NEW p \in Producers,
             Push(p) \/ LoadEnqueuePos(p) \/ LoadSequence(p) \/ ClaimFails(p)
                 \/ WriteData(p) \/ ReturnFull(p)
      PROVE  EveryClaimOwned'
  <2>1. UNCHANGED <<enqueuePos, sequence, consumerVars>>
    BY <1>1 DEF Push, LoadEnqueuePos, LoadSequence, ClaimFails, WriteData, ReturnFull
  <2>2. Released' = Released
    BY <2>1 DEF Released, consumerVars
  <2>3. ASSUME NEW q \in Producers, Writing(q) PROVE Writing(q)' /\ pos'[q] = pos[q]
    BY <1>1, <1>b, <2>3 DEF Writing, Push, LoadEnqueuePos, LoadSequence, ClaimFails,
           WriteData, ReturnFull
  <2> QED BY <2>1, <2>2, <2>3, OwnersStay
<1>2. ASSUME NEW p \in Producers, ClaimSlot(p) PROVE EveryClaimOwned'
  <2>1. /\ pc[p] = "claim" /\ pos[p] = enqueuePos /\ enqueuePos' = enqueuePos + 1
        /\ pc' = [pc EXCEPT ![p] = "write"]
        /\ UNCHANGED <<pos, sequence, dequeuePos, cpc>>
    BY <1>2 DEF ClaimSlot, consumerVars
  <2>2. Released' = Released
    BY <2>1 DEF Released
  <2>3. Writing(p)' /\ \A q \in Producers : Writing(q) => Writing(q)'
    BY <1>b, <2>1 DEF Writing
  <2> SUFFICES ASSUME NEW n \in Released .. enqueuePos, sequence[Slot(n)] = n
               PROVE  \E q \in Producers : Writing(q)' /\ pos[q] = n
    BY <1>a, <2>1, <2>2 DEF EveryClaimOwned
  <2>4. CASE n = enqueuePos
    BY <2>1, <2>3, <2>4
  <2>5. CASE n # enqueuePos
    <3>1. n \in Released .. enqueuePos - 1
      BY <1>a, <2>5
    <3>2. PICK q \in Producers : Writing(q) /\ pos[q] = n
      BY <3>1 DEF EveryClaimOwned
    <3> QED BY <2>3, <3>2
  <2> QED BY <2>4, <2>5
<1>3. ASSUME NEW p \in Producers, Publish(p) PROVE EveryClaimOwned'
  <2>1. /\ pc[p] = "publish" /\ sequence' = [sequence EXCEPT ![Slot(pos[p])] = pos[p] + 1]
        /\ pc' = [pc EXCEPT ![p] = "idle"]
        /\ UNCHANGED <<pos, enqueuePos, dequeuePos, cpc>>
    BY <1>3 DEF Publish, PublishedSequence, consumerVars
  <2>2. Released' = Released
    BY <2>1 DEF Released
  <2>3. pos[p] \in Released .. enqueuePos - 1
    BY <2>1 DEF IInv, WriterInv, Writing
  <2>4. \A q \in Producers : q # p /\ Writing(q) => Writing(q)'
    BY <1>b, <2>1 DEF Writing
  <2> SUFFICES ASSUME NEW n \in Released .. enqueuePos - 1, sequence'[Slot(n)] = n
               PROVE  \E q \in Producers : Writing(q)' /\ pos[q] = n
    BY <2>1, <2>2 DEF EveryClaimOwned
  <2>5. n # pos[p]
    <3>1. sequence'[Slot(pos[p])] = pos[p] + 1
      BY <1>b, <1>d, <2>1, <2>3
    <3> QED BY <1>a, <3>1
  <2>6. sequence[Slot(n)] = n
    <3>1. Slot(n) # Slot(pos[p])
      BY <1>c, <2>3, <2>5
    <3> QED BY <1>b, <1>d, <2>1, <3>1
  <2>7. PICK q \in Producers : Writing(q) /\ pos[q] = n
    BY <2>6 DEF EveryClaimOwned
  <2> QED BY <2>4, <2>5, <2>7
<1>4. CASE PopLoadSequence \/ ReturnEmpty \/ MoveData \/ AdvanceDequeuePos
  <2>1. UNCHANGED <<enqueuePos, pc, pos, sequence>>
    BY <1>4 DEF PopLoadSequence, ReturnEmpty, MoveData, AdvanceDequeuePos, producerVars
  <2>2. Released' = Released
    BY <1>4 DEF PopLoadSequence, ReturnEmpty, MoveData, AdvanceDequeuePos, Released
  <2>3. ASSUME NEW q \in Producers, Writing(q) PROVE Writing(q)' /\ pos'[q] = pos[q]
    BY <2>1, <2>3 DEF Writing
  <2> QED BY <2>1, <2>2, <2>3, OwnersStay
<1>5. CASE ReleaseCell
  <2>1. /\ cpc = "release" /\ cpc' = "advance"
        /\ sequence' = [sequence EXCEPT ![Slot(dequeuePos)] = ReleasedSequence]
        /\ UNCHANGED <<enqueuePos, pc, pos, dequeuePos>>
    BY <1>5 DEF ReleaseCell, producerVars
  <2>2. Released = dequeuePos /\ Released' = dequeuePos + 1
    BY <2>1 DEF Released
  <2>3. dequeuePos < enqueuePos
    BY <2>1 DEF IInv, TakerInv
  <2> SUFFICES ASSUME NEW n \in dequeuePos + 1 .. enqueuePos - 1, sequence'[Slot(n)] = n
               PROVE  \E q \in Producers : Writing(q)' /\ pos[q] = n
    BY <2>1, <2>2 DEF EveryClaimOwned
  <2>4. /\ n \in Released .. enqueuePos - 1 /\ dequeuePos \in Released .. enqueuePos - 1
        /\ n # dequeuePos
    BY <1>a, <2>2, <2>3
  <2>5. sequence[Slot(n)] = n
    BY <1>b, <1>c, <1>d, <2>1, <2>4
  <2>6. PICK q \in Producers : Writing(q) /\ pos[q] = n
    BY <2>4, <2>5 DEF EveryClaimOwned
  <2> QED BY <2>1, <2>6 DEF Writing
<1>6. CASE UNCHANGED vars
  <2>1. UNCHANGED <<enqueuePos, pc, pos, sequence, dequeuePos, cpc>>
    BY <1>6 DEF vars
  <2>2. Released' = Released
    BY <2>1 DEF Released
  <2>3. ASSUME NEW q \in Producers, Writing(q) PROVE Writing(q)' /\ pos'[q] = pos[q]
    BY <2>1, <2>3 DEF Writing
  <2> QED BY <2>1, <2>2, <2>3, OwnersStay
<1> QED BY <1>1, <1>2, <1>3, <1>4, <1>5, <1>6 DEF Next, PushStep, PopStep

\* A claimed position whose cell still looks free has its producer on the way:
\* no failed CAS, no full queue and no stale load loses a claim.
THEOREM OwnedCorrect ==
    ASSUME Capacity > 1
    PROVE  Spec => []EveryClaimOwned
<1>1. Init => EveryClaimOwned
  <2> SUFFICES ASSUME Init PROVE EveryClaimOwned
    OBVIOUS
  <2>1. Released = 0 /\ enqueuePos = 0
    BY DEF Init, Released
  <2> QED BY <2>1 DEF EveryClaimOwned
<1> QED BY <1>1, OwnedStep, InductiveInvariant, PTL DEF Spec

\* With exact loads, Pop returns nothing only when nothing is claimed, or while
\* the producer of the next item is between its CAS and its publishing store.
THEOREM EmptyCorrect ==
    ASSUME Capacity > 1, StaleReads = FALSE
    PROVE  Spec => EmptyMeansEmpty
<1> DEFINE Empty == (cpc = "idle" /\ cpc' = "empty") =>
                        \/ dequeuePos = enqueuePos
                        \/ \E p \in Producers : Writing(p) /\ pos[p] = dequeuePos
<1>1. IInv /\ EveryClaimOwned /\ [Next]_vars => [Empty]_vars
  <2> SUFFICES ASSUME IInv, EveryClaimOwned, Next, cpc = "idle", cpc' = "empty",
                      dequeuePos # enqueuePos
               PROVE  \E p \in Producers : Writing(p) /\ pos[p] = dequeuePos
    BY Zenon
  <2>1. PopLoadSequence
    <3>1. \A p \in Producers : ~(Push(p) \/ PushStep(p))
      BY DEF PushStep, Push, LoadEnqueuePos, LoadSequence, ClaimSlot, ClaimFails, WriteData,
             Publish, ReturnFull, consumerVars
    <3> QED BY <3>1 DEF Next, PopStep, ReturnEmpty, MoveData, ReleaseCell, AdvanceDequeuePos
  <2>2. Released = dequeuePos
    BY DEF Released
  <2>3. dequeuePos \in Nat /\ enqueuePos \in Nat /\ dequeuePos <= enqueuePos
    BY <2>2, Naturals DEF IInv
  <2>4. dequeuePos \in Released .. enqueuePos - 1
    BY <2>2, <2>3
  <2>5. sequence[Slot(dequeuePos)] \in {dequeuePos, dequeuePos + 1}
    BY <2>4 DEF IInv, CellInv
  <2>6. ~PopReady(sequence[Slot(dequeuePos)])
    BY <2>1 DEF PopLoadSequence, VisibleSequence
  <2>7. sequence[Slot(dequeuePos)] = dequeuePos
    BY <2>3, <2>5, <2>6 DEF PopReady
  <2> QED BY <2>4, <2>7 DEF EveryClaimOwned
<1>2. EmptyMeansEmpty <=> [][Empty]_vars
  BY DEF EmptyMeansEmpty
<1> QED BY <1>1, <1>2, InductiveInvariant, OwnedCorrect, PTL DEF Spec

-----------------------------------------------------------------------------
(***************************************************************************)
(* The refinement: the CAS of push_impl is the Reserve of BoundedQueue,    *)
(* the publishing store its Commit, the move in Pop its Deliver, and no    *)
(* other step is seen.                                                     *)
(***************************************************************************)

\* The queue of the refinement mapping, and its parts.
Waiting == Len(claimed) - Len(popped)
Ready(i) == sequence[Slot(Len(popped) + i - 1)] = Len(popped) + i
Entry(i) == [item |-> claimed[Len(popped) + i], ready |-> Ready(i)]
Queue == [i \in 1 .. Waiting |-> Entry(i)]
Entries == [item : Items, ready : BOOLEAN]

-----------------------------------------------------------------------------
(* The queue is a sequence of entries.                                     *)

\* The lengths of the histories are those of the invariant.
LEMMA Lengths ==
    ASSUME IInv
    PROVE  /\ Len(claimed) = enqueuePos /\ Len(claimed) \in Nat
           /\ Len(popped) \in Nat /\ Len(popped) <= Len(claimed)
           /\ Len(popped) = IF cpc \in {"release", "advance"} THEN dequeuePos + 1
                                                             ELSE dequeuePos
           /\ Waiting \in Nat
           /\ Released <= Len(popped) /\ Waiting <= Capacity
           /\ enqueuePos \in Nat /\ dequeuePos \in Nat /\ Released \in Nat
<1>1. /\ enqueuePos \in Nat /\ dequeuePos \in Nat /\ Released \in Nat
      /\ enqueuePos <= Released + Capacity
  BY Naturals DEF IInv
<1>2. Len(claimed) \in Nat /\ Len(popped) \in Nat
  BY LenProperties DEF IInv, TypeOK
<1>3. /\ Len(claimed) = enqueuePos /\ Len(popped) <= Len(claimed)
      /\ Len(popped) = IF cpc \in {"release", "advance"} THEN dequeuePos + 1
                                                        ELSE dequeuePos
  BY DEF IInv, HistoryInv, FifoDelivery
<1>4. Released <= Len(popped)
  BY <1>1, <1>3 DEF Released
<1> QED BY <1>1, <1>2, <1>3, <1>4, CapacityAssumption DEF Waiting

QueueFacts ==
    /\ Queue \in Seq(Entries) /\ Len(Queue) = Waiting
    /\ \A i \in 1 .. Waiting : Queue[i] = Entry(i)

\* Its entries are the claimed items that have not been moved out.
LEMMA QueueType == IInv => QueueFacts
<1> SUFFICES ASSUME IInv PROVE QueueFacts
  OBVIOUS
<1>1. ASSUME NEW i \in 1 .. Waiting PROVE Entry(i) \in Entries
  <2>1. Len(popped) + i \in 1 .. Len(claimed)
    BY Lengths DEF Waiting
  <2>2. claimed[Len(popped) + i] \in Items
    BY <2>1, ElementOfSeq DEF IInv, TypeOK
  <2>3. Ready(i) \in BOOLEAN
    BY DEF Ready
  <2> QED BY <2>2, <2>3 DEF Entry, Entries
<1>2. Waiting \in Nat
  BY Lengths
<1>3. Queue \in [1 .. Waiting -> Entries]
  BY <1>1 DEF Queue
<1>4. Queue \in Seq(Entries) /\ Len(Queue) = Waiting
  BY <1>2, <1>3
<1> QED BY <1>4 DEF Queue, QueueFacts

\* What leaves the histories and the cells of the waiting items alone is not
\* seen in the queue.
LEMMA QueueStays ==
    ASSUME IInv, UNCHANGED <<claimed, popped>>,
           \A i \in 1 .. Waiting : Ready(i)' <=> Ready(i)
    PROVE  UNCHANGED <<Queue, popped>>
<1>1. Waiting' = Waiting
  BY DEF Waiting
<1>2. ASSUME NEW i \in 1 .. Waiting PROVE Entry(i)' = Entry(i)
  <2>1. Ready(i)' = Ready(i)
    BY DEF Ready
  <2> QED BY <2>1 DEF Entry
<1> QED BY <1>1, <1>2 DEF Queue

\* The same of the state after a step that keeps the invariant.
LEMMA QueueTypeNext == IInv' => QueueFacts'
BY QueueType, PTL

-----------------------------------------------------------------------------
(* The steps.                                                              *)

\* A claim appends an entry that is not ready, to a queue that has a place.
LEMMA ClaimReserves ==
    ASSUME IInv, IInv', NEW p \in Producers, ClaimSlot(p)
    PROVE  Abstract!Next
<1>1. /\ enqueuePos = pos[p] /\ enqueuePos' = enqueuePos + 1
      /\ claimed' = Append(claimed, Item(p)) /\ popped' = popped /\ sequence' = sequence
      /\ dequeuePos' = dequeuePos /\ cpc' = cpc /\ pos' = pos /\ attempts' = attempts
      /\ pc' = [pc EXCEPT ![p] = "write"] /\ pc[p] = "claim"
  BY DEF ClaimSlot, consumerVars
<1>2. Item(p) \in Items
  BY <1>1 DEF IInv, AttemptInv, TypeOK, Item, Items
<1>3. claimed \in Seq(Items)
  BY DEF IInv, TypeOK
<1>4. Waiting' = Waiting + 1 /\ Waiting \in Nat
  BY <1>1, <1>2, <1>3, Lengths, AppendProperties DEF Waiting
<1>5. Waiting < Capacity
  <2>1. enqueuePos' - Released' <= Capacity /\ Released' = Released
    BY <1>1 DEF IInv, NeverOverfull, Released
  <2> QED BY <1>1, <2>1, Lengths, CapacityAssumption DEF Waiting
<1>6. PICK n : n = Waiting + 1
  OBVIOUS
<1>7. Entry(n)' = [item |-> Item(p), ready |-> FALSE]
  <2>1. Writing(p)'
    BY <1>1 DEF Writing, IInv, TypeOK
  <2>2. sequence[Slot(enqueuePos)] = enqueuePos
    BY <1>1, <2>1 DEF IInv, WriterInv
  <2>3. Len(popped) + n - 1 = enqueuePos /\ Len(popped) + n = enqueuePos + 1
    BY <1>6, Lengths DEF Waiting
  <2>4. ~Ready(n)'
    BY <1>1, <2>2, <2>3, Lengths DEF Ready
  <2>5. claimed'[enqueuePos + 1] = Item(p)
    BY <1>1, <1>2, <1>3, Lengths, AppendProperties
  <2>6. Ready(n)' = FALSE
    BY <2>4 DEF Ready
  <2> HIDE DEF Ready
  <2> QED BY <1>1, <2>3, <2>5, <2>6 DEF Entry
<1>8. ASSUME NEW i \in 1 .. Waiting PROVE Entry(i)' = Entry(i)
  <2>1. Len(popped) + i \in 1 .. Len(claimed)
    BY Lengths DEF Waiting
  <2>2. claimed'[Len(popped) + i] = claimed[Len(popped) + i]
    BY <1>1, <1>2, <1>3, <2>1, AppendProperties
  <2>3. Ready(i)' = Ready(i)
    BY <1>1 DEF Ready
  <2> QED BY <1>1, <2>2, <2>3 DEF Entry
<1>9. QueueFacts /\ QueueFacts'
  BY QueueType, QueueTypeNext
<1>10. Queue' = Append(Queue, [item |-> Item(p), ready |-> FALSE])
  <2> DEFINE e == [item |-> Item(p), ready |-> FALSE]
             q == Append(Queue, e)
  <2>1. e \in Entries
    BY <1>2 DEF Entries
  <2>2. Entry(n)' = e
    BY <1>7
  <2> HIDE DEF e
  <2>3. /\ q \in Seq(Entries) /\ Len(q) = n /\ q[n] = e
        /\ \A i \in 1 .. Waiting : q[i] = Queue[i]
    BY <1>6, <1>9, <2>1, AppendProperties DEF QueueFacts
  <2> HIDE DEF q
  <2>4. /\ Queue' \in Seq(Entries) /\ Len(Queue') = n
        /\ \A i \in 1 .. n : Queue'[i] = Entry(i)'
    BY <1>4, <1>6, <1>9 DEF QueueFacts
  <2>5. \A i \in 1 .. Waiting : Queue'[i] = q[i]
    BY <1>4, <1>6, <1>8, <1>9, <2>3, <2>4 DEF QueueFacts
  <2>6. \A i \in 1 .. n : Queue'[i] = q[i]
    BY <1>4, <1>6, <2>2, <2>3, <2>4, <2>5
  <2>7. Queue' = q
    BY <2>3, <2>4, <2>6, SeqEqual
  <2> QED BY <2>7 DEF q, e
<1>11. PICK e \in Items : e = Item(p)
  BY <1>2
<1>12. Abstract!Reserve(e)
  BY <1>1, <1>5, <1>9, <1>10, <1>11 DEF Abstract!Reserve, QueueFacts, Queue, Entry, Ready, Waiting
<1> QED BY <1>12 DEF Abstract!Next

\* Publishing makes the entry of the position ready: the one entry in the
\* cell, for the waiting positions have a cell each.
LEMMA PublishCommits ==
    ASSUME IInv, IInv', NEW p \in Producers, Publish(p)
    PROVE  Abstract!Next
<1>1. /\ sequence' = [sequence EXCEPT ![Slot(pos[p])] = pos[p] + 1]
      /\ claimed' = claimed /\ popped' = popped /\ Writing(p)
  BY DEF Publish, PublishedSequence, consumerVars, Writing
<1>2. /\ pos[p] \in Released .. enqueuePos - 1 /\ pos[p] \in Nat
      /\ sequence[Slot(pos[p])] = pos[p]
  BY <1>1 DEF IInv, WriterInv, TypeOK
<1>3. Slot(pos[p]) \in Slots /\ sequence \in [Slots -> Nat]
  BY <1>2, SlotType DEF IInv, TypeOK
<1>4. Len(popped) <= pos[p]
  BY <1>2, Lengths DEF IInv, TakerInv, Released
<1>5. PICK i : i = pos[p] - Len(popped) + 1
  OBVIOUS
<1>6. i \in 1 .. Waiting /\ Len(popped) + i - 1 = pos[p] /\ Len(popped) + i = pos[p] + 1
  <2>1. Len(claimed) = enqueuePos /\ enqueuePos \in Nat /\ Len(popped) \in Nat
    BY Lengths
  <2>2. pos[p] < enqueuePos
    BY <1>2, <2>1
  <2> QED BY <1>2, <1>4, <1>5, <2>1, <2>2 DEF Waiting
<1>7. Ready(i) = FALSE
  <2>1. ~Ready(i)
    BY <1>2, <1>6 DEF Ready
  <2> QED BY <2>1 DEF Ready
<1>8. Ready(i)' = TRUE
  <2>1. Ready(i)'
    BY <1>1, <1>3, <1>6 DEF Ready
  <2> QED BY <2>1 DEF Ready
<1>9. ASSUME NEW j \in 1 .. Waiting, j # i PROVE Ready(j)' = Ready(j)
  <2> DEFINE n == Len(popped) + j - 1
  <2>1. /\ n \in Released .. Released + Capacity - 1 /\ n # pos[p]
        /\ pos[p] \in Released .. Released + Capacity - 1 /\ n \in Nat /\ Released \in Nat
    <3>1. /\ Released \in Nat /\ enqueuePos \in Nat /\ Len(popped) \in Nat
          /\ Released <= Len(popped) /\ Waiting = enqueuePos - Len(popped)
          /\ enqueuePos <= Released + Capacity
      BY Lengths, Naturals DEF Waiting, IInv
    <3>2. n < enqueuePos /\ Released <= n /\ n \in Nat
      BY <1>9, <3>1
    <3>3. n # pos[p]
      BY <1>2, <1>6, <1>9, <3>1
    <3> HIDE DEF n
    <3> QED BY <1>2, <3>1, <3>2, <3>3, CapacityAssumption
  <2> HIDE DEF n
  <2>2. Slot(n) # Slot(pos[p]) /\ Slot(n) \in Slots
    BY <2>1, WindowDistinct, SlotType
  <2>3. sequence'[Slot(n)] = sequence[Slot(n)]
    BY <1>1, <1>3, <2>2
  <2> QED BY <1>1, <2>3 DEF Ready, n
<1>10. QueueFacts /\ QueueFacts' /\ Waiting' = Waiting
  BY <1>1, QueueType, QueueTypeNext DEF Waiting
<1>11. Queue' = [Queue EXCEPT ![i].ready = TRUE]
  <2> DEFINE q == [Queue EXCEPT ![i].ready = TRUE]
  <2>1. DOMAIN Queue = 1 .. Waiting /\ Queue \in [1 .. Waiting -> Entries]
    BY <1>10 DEF QueueFacts
  <2>2. q = [j \in 1 .. Waiting |-> q[j]]
    BY <2>1
  <2>3. Queue' \in [1 .. Waiting -> Entries]
    BY <1>10 DEF QueueFacts
  <2>4. Queue' = [j \in 1 .. Waiting |-> Queue'[j]]
    BY <2>3
  <2>5. ASSUME NEW j \in 1 .. Waiting PROVE Queue'[j] = q[j]
    <3>1. Queue'[j] = Entry(j)' /\ Queue[j] = Entry(j)
      BY <1>10 DEF QueueFacts
    <3>2. CASE j = i
      <4>1. q[j] = [item |-> Queue[i].item, ready |-> TRUE]
        BY <1>6, <2>1, <3>2 DEF Entries
      <4>2. Queue[i].item = claimed[Len(popped) + i]
        BY <3>1, <3>2 DEF Entry
      <4>3. q[j] = [item |-> claimed[Len(popped) + i], ready |-> TRUE]
        <5> HIDE DEF q
        <5> QED BY <4>1, <4>2
      <4>4. Entry(i)' = [item |-> claimed[Len(popped) + i], ready |-> TRUE]
        BY <1>1, <1>8 DEF Entry
      <4>5. Queue'[j] = Entry(i)'
        BY <3>1, <3>2
      <4> QED BY <4>3, <4>4, <4>5
    <3>3. CASE j # i
      <4>1. q[j] = Queue[j]
        BY <1>6, <2>1, <3>3
      <4>2. Entry(j)' = Entry(j)
        BY <1>1, <1>9, <3>3 DEF Entry
      <4> QED BY <3>1, <4>1, <4>2
    <3> QED BY <3>2, <3>3
  <2> HIDE DEF q
  <2>6. Queue' = q
    BY <2>2, <2>4, <2>5
  <2> QED BY <2>6 DEF q
<1>12. ~Queue[i].ready /\ i \in DOMAIN Queue
  BY <1>6, <1>7, <1>10 DEF QueueFacts, Entry
<1>13. Abstract!Commit(i)
  BY <1>1, <1>11, <1>12 DEF Abstract!Commit, Queue, Entry, Ready, Waiting
<1> QED BY <1>12, <1>13 DEF Abstract!Next, Queue, Entry, Ready, Waiting

\* Pop moves the first entry out, which its load of the sequence found ready.
LEMMA MoveDelivers ==
    ASSUME IInv, IInv', MoveData
    PROVE  Abstract!Deliver
<1>1. /\ cpc = "move" /\ cpc' = "release" /\ sequence' = sequence /\ claimed' = claimed
      /\ popped' = Append(popped, data[Slot(dequeuePos)])
      /\ dequeuePos' = dequeuePos
  BY DEF MoveData, producerVars
<1>2. /\ Len(popped) = dequeuePos /\ dequeuePos < enqueuePos
      /\ sequence[Slot(dequeuePos)] = dequeuePos + 1
      /\ Len(popped') = dequeuePos + 1 /\ Released = dequeuePos
  <2>1. Len(popped) = dequeuePos /\ Released = dequeuePos
    BY <1>1, Lengths DEF Released
  <2>2. Len(popped') = dequeuePos + 1
    BY <1>1 DEF IInv, HistoryInv
  <2> QED BY <1>1, <2>1, <2>2 DEF IInv, TakerInv
<1>3. Waiting \in Nat /\ Waiting >= 1 /\ Waiting' = Waiting - 1 /\ 1 \in 1 .. Waiting
      /\ dequeuePos \in Nat
  BY <1>1, <1>2, Lengths DEF Waiting
<1>4. data[Slot(dequeuePos)] = claimed[dequeuePos + 1]
  BY <1>1, <1>2, Lengths DEF IInv, CellInv
<1>5. QueueFacts /\ QueueFacts'
  BY QueueType, QueueTypeNext
<1>6. Entry(1) = [item |-> claimed[dequeuePos + 1], ready |-> TRUE]
  <2>1. Ready(1)
    BY <1>2, <1>3 DEF Ready
  <2>2. Ready(1) = TRUE
    BY <2>1 DEF Ready
  <2> QED BY <1>2, <2>2 DEF Entry
<1>7. ASSUME NEW i \in 1 .. Waiting - 1 PROVE Entry(i)' = Entry(i + 1)
  <2>1. /\ Len(popped') + i = Len(popped) + (i + 1)
        /\ Len(popped') + i - 1 = Len(popped) + (i + 1) - 1
    BY <1>2, <1>3
  <2>2. Ready(i)' = Ready(i + 1)
    BY <1>1, <2>1 DEF Ready
  <2> QED BY <1>1, <2>1, <2>2 DEF Entry
<1>8. Head(Queue) = Queue[1] /\ Queue # << >>
  BY <1>3, <1>5 DEF QueueFacts
<1>9. Queue' = Tail(Queue)
  <2> DEFINE q == Tail(Queue)
  <2>1. /\ q \in Seq(Entries) /\ Len(q) = Waiting - 1
        /\ \A i \in 1 .. Waiting - 1 : q[i] = Queue[i + 1]
    BY <1>3, <1>5, <1>8 DEF QueueFacts
  <2> HIDE DEF q
  <2>2. \A i \in 1 .. Waiting - 1 : Queue'[i] = q[i]
    BY <1>3, <1>5, <1>7, <2>1 DEF QueueFacts
  <2>3. Queue' \in Seq(Entries) /\ Len(Queue') = Waiting - 1
    BY <1>3, <1>5 DEF QueueFacts
  <2>4. Queue' = q
    BY <2>1, <2>2, <2>3, SeqEqual
  <2> QED BY <2>4 DEF q
<1>10. Head(Queue).ready /\ Head(Queue).item = data[Slot(dequeuePos)]
  BY <1>3, <1>4, <1>5, <1>6, <1>8 DEF QueueFacts
<1> QED BY <1>1, <1>8, <1>9, <1>10 DEF Abstract!Deliver, Queue, Entry, Ready, Waiting

\* Releasing the cell of the item just moved out touches no waiting one.
LEMMA ReleaseUnseen ==
    ASSUME IInv, ReleaseCell
    PROVE  UNCHANGED <<Queue, popped>>
<1>1. /\ cpc = "release" /\ claimed' = claimed /\ popped' = popped
      /\ sequence' = [sequence EXCEPT ![Slot(dequeuePos)] = dequeuePos + Capacity]
  BY DEF ReleaseCell, ReleasedSequence, producerVars
<1>2. Len(popped) = dequeuePos + 1 /\ Released = dequeuePos /\ dequeuePos \in Nat
  BY <1>1, Lengths DEF Released
<1>3. sequence \in [Slots -> Nat] /\ Slot(dequeuePos) \in Slots
  BY <1>2, SlotType DEF IInv, TypeOK
<1>4. ASSUME NEW j \in 1 .. Waiting PROVE Ready(j)' = Ready(j)
  <2> DEFINE n == Len(popped) + j - 1
  <2>1. /\ n \in dequeuePos .. dequeuePos + Capacity - 1 /\ n # dequeuePos /\ n \in Nat
        /\ dequeuePos \in dequeuePos .. dequeuePos + Capacity - 1
    BY <1>2, Lengths, CapacityAssumption DEF Waiting, IInv, NeverOverfull
  <2> HIDE DEF n
  <2>2. Slot(n) # Slot(dequeuePos) /\ Slot(n) \in Slots
    BY <1>2, <2>1, WindowDistinct, SlotType
  <2>3. sequence'[Slot(n)] = sequence[Slot(n)]
    BY <1>1, <1>3, <2>2
  <2> QED BY <1>1, <2>3 DEF Ready, n
<1> QED BY <1>1, <1>4, QueueStays

-----------------------------------------------------------------------------
(* The refinement.                                                         *)

\* Nothing waits at first.
LEMMA InitAbstract == Init => Abstract!Init
<1> SUFFICES ASSUME Init PROVE Abstract!Init
  OBVIOUS
<1>1. claimed = << >> /\ popped = << >> /\ Len(<< >>) = 0
  BY DEF Init
<1>2. Queue = << >>
  BY <1>1 DEF Queue, Waiting
<1> QED BY <1>1, <1>2 DEF Abstract!Init, Queue, Entry, Ready, Waiting

\* Every step of the threads is one of the abstract queue, or is not seen.
LEMMA NextAbstract ==
    IInv /\ IInv' /\ [Next]_vars => [Abstract!Next]_<<Queue, popped>>
<1> SUFFICES ASSUME IInv, IInv', [Next]_vars
             PROVE  Abstract!Next \/ UNCHANGED <<Queue, popped>>
  OBVIOUS
<1>1. ASSUME NEW p \in Producers, ClaimSlot(p) PROVE Abstract!Next
  BY <1>1, ClaimReserves
<1>2. ASSUME NEW p \in Producers, Publish(p) PROVE Abstract!Next
  BY <1>2, PublishCommits
<1>3. CASE MoveData
  BY <1>3, MoveDelivers DEF Abstract!Next
<1>4. CASE ReleaseCell
  BY <1>4, ReleaseUnseen
<1>5. ASSUME UNCHANGED <<claimed, popped, sequence>>
      PROVE  UNCHANGED <<Queue, popped>>
  BY <1>5, QueueStays DEF Ready
<1>6. ASSUME NEW p \in Producers,
             \/ Push(p) \/ LoadEnqueuePos(p) \/ LoadSequence(p)
             \/ ClaimFails(p) \/ WriteData(p) \/ ReturnFull(p)
      PROVE  UNCHANGED <<Queue, popped>>
  BY <1>5, <1>6 DEF Push, LoadEnqueuePos, LoadSequence, ClaimFails, WriteData, ReturnFull,
                    consumerVars
<1>7. ASSUME PopLoadSequence \/ ReturnEmpty \/ AdvanceDequeuePos
      PROVE  UNCHANGED <<Queue, popped>>
  BY <1>5, <1>7 DEF PopLoadSequence, ReturnEmpty, AdvanceDequeuePos, producerVars
<1>8. CASE UNCHANGED vars
  BY <1>5, <1>8 DEF vars
<1> QED BY <1>1, <1>2, <1>3, <1>4, <1>6, <1>7, <1>8 DEF Next, PushStep, PopStep

\* The ring buffer is a FIFO queue of at most Capacity entries, reserved and
\* then committed, whatever its threads read and however they interleave.
THEOREM QueueImplements ==
    ASSUME Capacity > 1
    PROVE  Spec => ImplementsBoundedQueue
<1>1. IInv /\ [Next]_vars => IInv'
  BY TypeStep, QueueStep DEF IInv, QueueInv
<1>2. IInv /\ IInv' /\ [Next]_vars => [Abstract!Next]_<<Queue, popped>>
  BY NextAbstract
<1>3. Init => Abstract!Init
  BY InitAbstract
<1>4. ImplementsBoundedQueue <=> Abstract!Init /\ [][Abstract!Next]_<<Queue, popped>>
  BY DEF ImplementsBoundedQueue, Abstract!Spec, Queue, Entry, Ready, Waiting
<1> QED BY <1>1, <1>2, <1>3, <1>4, InductiveInvariant, PTL DEF Spec
=============================================================================
