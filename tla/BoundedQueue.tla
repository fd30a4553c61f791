---------------------------- MODULE BoundedQueue ----------------------------
(***************************************************************************)
(* What MPSCQueue promises: a FIFO queue of at most Capacity entries in    *)
(* which an entry is first reserved and later committed.  Entries leave in *)
(* the order of reservation, and only when committed: a reserved head      *)
(* holds back the committed entries behind it.                             *)
(***************************************************************************)
EXTENDS Integers, Sequences

CONSTANTS Items, Capacity

VARIABLES queue, delivered

Init == queue = <<>> /\ delivered = <<>>

Reserve(item) ==
    /\ Len(queue) < Capacity
    /\ queue' = Append(queue, [item |-> item, ready |-> FALSE])
    /\ UNCHANGED delivered

Commit(i) ==
    /\ ~queue[i].ready
    /\ queue' = [queue EXCEPT ![i].ready = TRUE]
    /\ UNCHANGED delivered

Deliver ==
    /\ queue # <<>>
    /\ Head(queue).ready
    /\ delivered' = Append(delivered, Head(queue).item)
    /\ queue' = Tail(queue)

Next ==
    \/ \E item \in Items : Reserve(item)
    \/ \E i \in DOMAIN queue : Commit(i)
    \/ Deliver

Spec == Init /\ [][Next]_<<queue, delivered>>
=============================================================================
