------------------------------ MODULE MPSCQueue ------------------------------
(***************************************************************************)
(* The bounded multi-producer single-consumer ring buffer of               *)
(* server/consolidate_candle_manager/message_queue.h.                      *)
(*                                                                         *)
(* One step is one access to shared memory: a load, store or CAS of        *)
(* enqueuePos, dequeuePos or a cell's sequence, or the plain access to a   *)
(* cell's data.  An item is <<p, k>>, the value of producer p's k-th call  *)
(* of Push.  size_t does not wrap in any run of the program (2^64 pushes), *)
(* so positions are naturals.                                              *)
(*                                                                         *)
(* With StaleReads a load returns any value the location has held so far:  *)
(* this includes everything the relaxed and acquire loads of the code may  *)
(* return on a weakly ordered machine.  Without it, loads are exact.       *)
(***************************************************************************)
EXTENDS Integers, Sequences, FiniteSets

CONSTANTS
    Producers,    \* threads that call Push
    Capacity,     \* template parameter Capacity
    MaxPushes,    \* bound: calls of Push each producer makes
    StaleReads    \* whether loads may return overwritten values

\* The static_assert: a power of two (std::array of 0 cells has no slot).
ASSUME CapacityAssumption == Capacity \in Nat \ {0}
ASSUME PowerOfTwoAssumption == \E k \in 0 .. 63 : Capacity = 2^k

ASSUME BoundAssumption == MaxPushes \in Nat /\ StaleReads \in BOOLEAN

VARIABLES
    enqueuePos, dequeuePos,  \* the two atomic counters
    sequence, data,          \* the two fields of each Cell of buffer
    pc, pos,                 \* per producer: step of push_impl, local pos
    attempts,                \* per producer: calls of Push so far
    cpc,                     \* step of the consumer in Pop
    claimed,                 \* history: items in the order of their CAS
    popped                   \* history: items returned by Pop

producerVars == <<enqueuePos, pc, pos, attempts, claimed>>
consumerVars == <<dequeuePos, cpc, popped>>
vars == <<enqueuePos, dequeuePos, sequence, data, pc, pos, attempts, cpc,
          claimed, popped>>

Slots == 0 .. Capacity - 1

\* pos & (Capacity - 1), for a Capacity that is a power of two.
Slot(position) == position % Capacity

Item(p) == <<p, attempts[p]>>
Items == Producers \X (1 .. MaxPushes)

\* What std::move leaves in a cell, and what a cell holds before any write.
Hollow == <<>>

\* The values a load of enqueuePos, or of a cell's sequence, may return.
\* A sequence takes the values slot, slot + 1, slot + Capacity, ...
VisibleEnqueuePos ==
    IF StaleReads THEN 0 .. enqueuePos ELSE {enqueuePos}
VisibleSequence(slot) ==
    IF StaleReads
    THEN {v \in slot .. sequence[slot] : (v - slot) % Capacity \in {0, 1}}
    ELSE {sequence[slot]}

-----------------------------------------------------------------------------
Init ==
    /\ enqueuePos = 0
    /\ dequeuePos = 0
    /\ sequence = [s \in Slots |-> s]
    /\ data = [s \in Slots |-> Hollow]
    /\ pc = [p \in Producers |-> "idle"]
    /\ pos = [p \in Producers |-> 0]
    /\ attempts = [p \in Producers |-> 0]
    /\ cpc = "idle"
    /\ claimed = <<>>
    /\ popped = <<>>

-----------------------------------------------------------------------------
(* Push, by any of the producers.                                          *)

Push(p) ==
    /\ pc[p] = "idle"
    /\ attempts[p] < MaxPushes
    /\ attempts' = [attempts EXCEPT ![p] = @ + 1]
    /\ pc' = [pc EXCEPT ![p] = "load"]
    /\ UNCHANGED <<enqueuePos, pos, sequence, data, claimed, consumerVars>>

\* The first load of enqueuePos, and the reload after diff > 0.
LoadEnqueuePos(p) ==
    /\ pc[p] = "load"
    /\ \E v \in VisibleEnqueuePos : pos' = [pos EXCEPT ![p] = v]
    /\ pc' = [pc EXCEPT ![p] = "sequence"]
    /\ UNCHANGED <<enqueuePos, attempts, sequence, data, claimed, consumerVars>>

\* Mutants of the branch on diff: the full test dropped; a slot taken by
\* another producer reported as full; pos not reloaded.
AfterDiffNoFullTest(diff) == IF diff > 0 THEN "load" ELSE "claim"
AfterDiffTakenIsFull(diff) == IF diff = 0 THEN "claim" ELSE "full"
AfterDiffNoReload(diff) ==
    IF diff = 0 THEN "claim" ELSE IF diff < 0 THEN "full" ELSE "sequence"

\* diff = 0: try to claim; diff < 0: full, return false; diff > 0: reload.
AfterDiff(diff) ==
    IF diff = 0 THEN "claim" ELSE IF diff < 0 THEN "full" ELSE "load"

LoadSequence(p) ==
    /\ pc[p] = "sequence"
    /\ \E seq \in VisibleSequence(Slot(pos[p])) :
           pc' = [pc EXCEPT ![p] = AfterDiff(seq - pos[p])]
    /\ UNCHANGED <<enqueuePos, pos, attempts, sequence, data, claimed,
                   consumerVars>>

\* Mutant: enqueuePos.store(pos + 1) in place of the CAS.
ClaimByStore(p) ==
    /\ pc[p] = "claim"
    /\ enqueuePos' = pos[p] + 1
    /\ claimed' = Append(claimed, Item(p))
    /\ pc' = [pc EXCEPT ![p] = "write"]
    /\ UNCHANGED <<pos, attempts, sequence, data, consumerVars>>

\* compare_exchange_weak succeeds: an RMW, so it compares the latest value.
ClaimSlot(p) ==
    /\ pc[p] = "claim"
    /\ enqueuePos = pos[p]
    /\ enqueuePos' = pos[p] + 1
    /\ claimed' = Append(claimed, Item(p))
    /\ pc' = [pc EXCEPT ![p] = "write"]
    /\ UNCHANGED <<pos, attempts, sequence, data, consumerVars>>

\* compare_exchange_weak fails, spuriously or not, and reloads pos.
ClaimFails(p) ==
    /\ pc[p] = "claim"
    /\ \E v \in VisibleEnqueuePos : pos' = [pos EXCEPT ![p] = v]
    /\ pc' = [pc EXCEPT ![p] = "sequence"]
    /\ UNCHANGED <<enqueuePos, attempts, sequence, data, claimed, consumerVars>>

WriteData(p) ==
    /\ pc[p] = "write"
    /\ data' = [data EXCEPT ![Slot(pos[p])] = Item(p)]
    /\ pc' = [pc EXCEPT ![p] = "publish"]
    /\ UNCHANGED <<enqueuePos, pos, attempts, sequence, claimed, consumerVars>>

\* Mutant: the published sequence is pos, so the cell still looks free.
PublishedPos(p) == pos[p]

\* The sequence of a cell whose item may be popped.
PublishedSequence(p) == pos[p] + 1

\* The release store that publishes the item; Push returns true.
Publish(p) ==
    /\ pc[p] = "publish"
    /\ sequence' = [sequence EXCEPT ![Slot(pos[p])] = PublishedSequence(p)]
    /\ pc' = [pc EXCEPT ![p] = "idle"]
    /\ UNCHANGED <<enqueuePos, pos, attempts, data, claimed, consumerVars>>

ReturnFull(p) ==
    /\ pc[p] = "full"
    /\ pc' = [pc EXCEPT ![p] = "idle"]
    /\ UNCHANGED <<enqueuePos, pos, attempts, sequence, data, claimed,
                   consumerVars>>

-----------------------------------------------------------------------------
(* Pop, by the one consumer, which alone writes dequeuePos.                *)

\* Mutant: the claimed but unpublished cell passes the test.
PopReadyOnClaim(seq) == seq \in {dequeuePos, dequeuePos + 1}

\* Mutant: the comparison of Push, which looks for a free cell.
PopReadyWhenFree(seq) == seq - dequeuePos = 0

\* diff = 0.
PopReady(seq) == seq - (dequeuePos + 1) = 0

PopLoadSequence ==
    /\ cpc = "idle"
    /\ \E seq \in VisibleSequence(Slot(dequeuePos)) :
           cpc' = IF PopReady(seq) THEN "move" ELSE "empty"
    /\ UNCHANGED <<producerVars, sequence, data, dequeuePos, popped>>

ReturnEmpty ==
    /\ cpc = "empty"
    /\ cpc' = "idle"
    /\ UNCHANGED <<producerVars, sequence, data, dequeuePos, popped>>

MoveData ==
    /\ cpc = "move"
    /\ popped' = Append(popped, data[Slot(dequeuePos)])
    /\ data' = [data EXCEPT ![Slot(dequeuePos)] = Hollow]
    /\ cpc' = "release"
    /\ UNCHANGED <<producerVars, sequence, dequeuePos>>

\* Mutant: the sequence of a released cell off by one.
ReleasedOffByOne == dequeuePos + Capacity + 1

\* The sequence the producer one round later waits for.
ReleasedSequence == dequeuePos + Capacity

ReleaseCell ==
    /\ cpc = "release"
    /\ sequence' = [sequence EXCEPT ![Slot(dequeuePos)] = ReleasedSequence]
    /\ cpc' = "advance"
    /\ UNCHANGED <<producerVars, data, dequeuePos, popped>>

AdvanceDequeuePos ==
    /\ cpc = "advance"
    /\ dequeuePos' = dequeuePos + 1
    /\ cpc' = "idle"
    /\ UNCHANGED <<producerVars, sequence, data, popped>>

-----------------------------------------------------------------------------
PushStep(p) ==
    \/ LoadEnqueuePos(p) \/ LoadSequence(p)
    \/ ClaimSlot(p) \/ ClaimFails(p)
    \/ WriteData(p) \/ Publish(p) \/ ReturnFull(p)

PopStep ==
    PopLoadSequence \/ ReturnEmpty \/ MoveData \/ ReleaseCell
    \/ AdvanceDequeuePos

Next ==
    \/ \E p \in Producers : Push(p) \/ PushStep(p)
    \/ PopStep

Spec == Init /\ [][Next]_vars

(***************************************************************************)
(* The scheduler runs every thread, so a call of push_impl goes on and the *)
(* consumer polls; nobody has to call Push.  A weak CAS may fail           *)
(* spuriously, but a processor does not let it fail for ever: strong       *)
(* fairness of its success.                                                *)
(***************************************************************************)
Fairness ==
    /\ WF_vars(PopStep)
    /\ \A p \in Producers :
           /\ WF_vars(PushStep(p))
           /\ SF_vars(ClaimSlot(p))

-----------------------------------------------------------------------------
(* Properties.                                                             *)

\* Every variable keeps its type: in particular cells only ever hold items
\* or the hollow value a move leaves, and counters are naturals.
TypeOK ==
    /\ enqueuePos \in Nat /\ dequeuePos \in Nat
    /\ sequence \in [Slots -> Nat]
    /\ data \in [Slots -> Items \cup {Hollow}]
    /\ pc \in [Producers -> {"idle", "load", "sequence", "claim", "full",
                             "write", "publish"}]
    /\ pos \in [Producers -> Nat]
    /\ attempts \in [Producers -> 0 .. MaxPushes]
    /\ cpc \in {"idle", "empty", "move", "release", "advance"}
    /\ claimed \in Seq(Items)
    /\ popped \in Seq(Items \cup {Hollow})

\* Cells the consumer has handed back to the producers.
Released == IF cpc = "advance" THEN dequeuePos + 1 ELSE dequeuePos

Writing(p) == pc[p] \in {"write", "publish"}

\* Pop returns the items in the order in which producers claimed their
\* slots, each once, none lost, and never an unwritten or moved-from cell.
FifoDelivery ==
    /\ Len(popped) <= Len(claimed)
    /\ \A i \in 1 .. Len(popped) : popped[i] = claimed[i]

\* No data race on Cell::data: a cell a producer is writing is written by
\* no other producer and not read by the consumer.
ExclusiveCell ==
    \A p \in Producers : Writing(p) =>
        /\ \A q \in Producers \ {p} : Writing(q) => Slot(pos[q]) # Slot(pos[p])
        /\ cpc \in {"move", "release"} => Slot(dequeuePos) # Slot(pos[p])

\* A full queue refuses: never more claimed, unreleased cells than Capacity.
NeverOverfull == enqueuePos - Released \in 0 .. Capacity

\* Push returns false only at a moment when all cells are in use.
FullMeansFull ==
    [][\A p \in Producers : (pc[p] = "sequence" /\ pc'[p] = "full") =>
          enqueuePos - Released = Capacity]_vars

\* Pop returns nothing only when the queue is empty, or when the next item is
\* being written: it never waits for what nobody is going to publish.
EmptyMeansEmpty ==
    [][(cpc = "idle" /\ cpc' = "empty") =>
          \/ dequeuePos = enqueuePos
          \/ \E p \in Producers : Writing(p) /\ pos[p] = dequeuePos]_vars

\* Every item that got a slot reaches the consumer, however the producers and
\* the consumer interleave: as long as there is one, Pop moves items out, and it
\* does so in their order.
ClaimedIsDelivered == []<>(Len(popped) = Len(claimed)) \/ []<><<MoveData>>_vars

\* Push is lock-free: a call returns, true or false, unless other producers
\* claim slots for ever, each time between its loads and its CAS.
OthersClaim(p) == \E q \in Producers \ {p} : ClaimSlot(q)
PushReturns ==
    \A p \in Producers :
        []<><<OthersClaim(p)>>_vars \/ (pc[p] # "idle" ~> pc[p] = "idle")

-----------------------------------------------------------------------------
(* The inductive invariant behind the safety properties.                   *)

AttemptInv == \A p \in Producers : pc[p] # "idle" => attempts[p] >= 1

\* The histories have one entry per claim and one per moved-out item.
HistoryInv ==
    /\ Len(claimed) = enqueuePos
    /\ Len(popped) = IF cpc \in {"release", "advance"} THEN dequeuePos + 1
                                                      ELSE dequeuePos

\* The cells stand for the positions Released .. Released + Capacity - 1.
\* From enqueuePos on they are free; before it they are claimed, and once
\* published they hold the item of their claim until it is moved out.
CellInv ==
    /\ \A n \in enqueuePos .. Released + Capacity - 1 : sequence[Slot(n)] = n
    /\ \A n \in Released .. enqueuePos - 1 :
           /\ sequence[Slot(n)] \in {n, n + 1}
           /\ (sequence[Slot(n)] = n + 1 /\ ~(cpc = "release" /\ n = dequeuePos))
                  => data[Slot(n)] = claimed[n + 1]

\* A producer past its CAS owns the position it claimed, alone.
WriterInv ==
    \A p \in Producers : Writing(p) =>
        /\ pos[p] \in Released .. enqueuePos - 1
        /\ sequence[Slot(pos[p])] = pos[p]
        /\ claimed[pos[p] + 1] = Item(p)
        /\ pc[p] = "publish" => data[Slot(pos[p])] = Item(p)
        /\ \A q \in Producers \ {p} : Writing(q) => pos[q] # pos[p]

\* What a producer learnt from its load of sequence stays true: the cell
\* has been released for position pos or for a later one.
ClaimerInv ==
    \A p \in Producers :
        pc[p] = "claim" => sequence[Slot(pos[p])] >= pos[p]

\* The consumer only takes a published cell.
TakerInv ==
    cpc \in {"move", "release"} =>
        /\ dequeuePos < enqueuePos
        /\ sequence[Slot(dequeuePos)] = dequeuePos + 1

\* The inductive invariant: all the parts above hold in every state.
IInv ==
    /\ TypeOK /\ AttemptInv /\ HistoryInv /\ FifoDelivery /\ NeverOverfull
    /\ CellInv /\ WriterInv /\ ClaimerInv /\ TakerInv

(***************************************************************************)
(* The queue implements the reservation queue BoundedQueue: a slot is      *)
(* reserved by the CAS, committed by the publishing store, and delivered   *)
(* when Pop moves the item out.                                            *)
(***************************************************************************)
Abstract == INSTANCE BoundedQueue WITH
    queue <- [i \in 1 .. Len(claimed) - Len(popped) |->
                [item |-> claimed[Len(popped) + i],
                 ready |-> sequence[Slot(Len(popped) + i - 1)] = Len(popped) + i]],
    delivered <- popped

\* Every behaviour of the ring buffer is one of the abstract queue.
ImplementsBoundedQueue == Abstract!Spec
=============================================================================
