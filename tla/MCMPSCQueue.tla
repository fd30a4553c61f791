----------------------------- MODULE MCMPSCQueue -----------------------------
(***************************************************************************)
(* Model values for the runs of MPSCQueue, and a form of it in which the   *)
(* producers push without end.  Its steps depend on the differences of     *)
(* positions only: once the ring has gone round twice, all positions are   *)
(* counted from one round later, and the state space stays finite.         *)
(***************************************************************************)
EXTENDS MPSCQueue, TLC

ProducerSymmetry == Permutations(Producers)

WentRound == dequeuePos >= 2 * Capacity

\* A position a producer still holds from the rounds before is left where it
\* is, in its slot, and behind every sequence as it was.
CountAnew ==
    LET earlier(n) == IF n < Capacity THEN n ELSE n - Capacity
    IN /\ WentRound
       /\ enqueuePos' = earlier(enqueuePos) /\ dequeuePos' = earlier(dequeuePos)
       /\ sequence' = [s \in Slots |-> earlier(sequence[s])]
       /\ pos' = [p \in Producers |-> earlier(pos[p])]
       /\ claimed' = SubSeq(claimed, Capacity + 1, Len(claimed))
       /\ popped' = SubSeq(popped, Capacity + 1, Len(popped))
       /\ UNCHANGED <<data, pc, attempts, cpc>>

\* The number of a call is only there to tell items apart.
CallAgain(p) ==
    /\ pc[p] = "idle" /\ attempts[p] = MaxPushes
    /\ attempts' = [attempts EXCEPT ![p] = 0]
    /\ UNCHANGED <<enqueuePos, pc, pos, claimed, sequence, data, consumerVars>>

EndlessNext ==
    \/ CountAnew
    \/ ~WentRound /\ (Next \/ \E p \in Producers : CallAgain(p))

EndlessSpec == Init /\ [][EndlessNext]_vars /\ Fairness /\ WF_vars(CountAnew)
=============================================================================
