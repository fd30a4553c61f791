---------------------- MODULE ConsolidateCandleManager ----------------------
(***************************************************************************)
(* ConsolidateCandleManager of server/consolidate_candle_manager: a worker *)
(* thread pops the trades of all providers from the pipe and feeds the     *)
(* candle builder of each instrument; the owner calls Start, Stop and the  *)
(* destructor.                                                             *)
(*                                                                         *)
(* MessagePipeManager and CandleBuilder are not in the repository.  The    *)
(* pipe is an MPSCQueue, seen as the BoundedQueue it implements: a push    *)
(* first reserves its place, then publishes the trade.  A builder holds    *)
(* the trades of its current candle; a trade either joins them or          *)
(* completes the candle and opens the next one.                            *)
(*                                                                         *)
(* A trade is <<instrument, n>>, n counting the trades of the pipe.        *)
(***************************************************************************)
EXTENDS Integers, Sequences, FiniteSets

CONSTANTS
    Instruments,
    PipeCapacity,
    MaxTrades,     \* bound: trades the pipe accepts
    MaxStarts      \* bound: calls of Start

ASSUME ManagerAssumption ==
    PipeCapacity \in Nat \ {0} /\ MaxTrades \in Nat /\ MaxStarts \in Nat

VARIABLES
    running, joinable,
    wpc, trade,         \* step of the worker, and the trade it has popped
    opc, unemitted,     \* step of the owner, and the rest of the loop in Stop
    destroying, starts, terminated,
    pipe,               \* entries [item, ready]: trades reserved, and published
    builders,
    accepted,           \* number of trades that have got a place in the pipe
    processed,          \* history: the trades given to a builder
    emitted             \* history: the arguments of candle_callback

workerVars == <<trade, builders, processed>>
ownerVars == <<joinable, opc, unemitted, destroying, starts>>
vars == <<workerVars, ownerVars, running, wpc, terminated, pipe, accepted, emitted>>

NoTrade == <<>>
Candle(i, trades) == [instrument |-> i, trades |-> trades]

Init ==
    /\ running = FALSE /\ joinable = FALSE
    /\ wpc = "none" /\ trade = NoTrade
    /\ opc = "idle" /\ unemitted = {}
    /\ destroying = FALSE /\ starts = 0 /\ terminated = FALSE
    /\ pipe = <<>>
    /\ builders = [i \in Instruments |-> <<>>]
    /\ accepted = 0
    /\ processed = <<>> /\ emitted = <<>>

-----------------------------------------------------------------------------
(* The providers.                                                          *)

PushTrade(i) ==
    /\ accepted < MaxTrades
    /\ Len(pipe) < PipeCapacity
    /\ accepted' = accepted + 1
    /\ pipe' = Append(pipe, [item |-> <<i, accepted + 1>>, ready |-> FALSE])
    /\ UNCHANGED <<workerVars, ownerVars, running, wpc, terminated, emitted>>

\* The end of a push: the trade in the k-th place is published.
PublishTrade(k) ==
    /\ ~pipe[k].ready
    /\ pipe' = [pipe EXCEPT ![k].ready = TRUE]
    /\ UNCHANGED <<workerVars, ownerVars, running, wpc, terminated, accepted, emitted>>

-----------------------------------------------------------------------------
(* The owner.                                                              *)

Start ==
    /\ opc = "idle" /\ ~destroying /\ starts < MaxStarts
    /\ starts' = starts + 1
    /\ running' = TRUE
    /\ opc' = IF running THEN "idle" ELSE "spawn"
    /\ UNCHANGED <<workerVars, joinable, unemitted, destroying, wpc,
                   terminated, pipe, accepted, emitted>>

\* Assigning to a joinable std::thread terminates.
SpawnWorker ==
    /\ opc = "spawn"
    /\ opc' = "idle"
    /\ terminated' = joinable
    /\ joinable' = TRUE
    /\ wpc' = IF joinable THEN wpc ELSE "check"
    /\ UNCHANGED <<workerVars, unemitted, destroying, starts, running,
                   pipe, accepted, emitted>>

\* Stop, called by itself or by the destructor.
Stop(byDestructor) ==
    /\ opc = "idle" /\ ~destroying
    /\ destroying' = byDestructor
    /\ running' = FALSE
    /\ opc' = IF running THEN "join" ELSE "idle"
    /\ UNCHANGED <<workerVars, joinable, unemitted, starts, wpc, terminated, pipe,
                   accepted, emitted>>

\* Mutant: the thread is not waited for.
JoinNothing ==
    /\ opc = "join"
    /\ opc' = "emit"
    /\ unemitted' = Instruments
    /\ UNCHANGED <<workerVars, joinable, destroying, starts, running,
                   wpc, terminated, pipe, accepted, emitted>>

JoinWorker ==
    /\ opc = "join"
    /\ joinable => wpc = "done"
    /\ joinable' = FALSE
    /\ wpc' = IF joinable THEN "none" ELSE wpc
    /\ opc' = "emit"
    /\ unemitted' = Instruments
    /\ UNCHANGED <<workerVars, destroying, starts, running, terminated,
                   pipe, accepted, emitted>>

\* GetCurrentCandle of one more builder; the builder keeps its candle.
EmitFinal(i) ==
    /\ opc = "emit" /\ i \in unemitted
    /\ unemitted' = unemitted \ {i}
    /\ emitted' = IF builders[i] = <<>> THEN emitted
                                        ELSE Append(emitted, Candle(i, builders[i]))
    /\ UNCHANGED <<workerVars, joinable, opc, destroying, starts,
                   running, wpc, terminated, pipe, accepted>>

StopReturns ==
    /\ opc = "emit" /\ unemitted = {}
    /\ opc' = "idle"
    /\ UNCHANGED <<workerVars, joinable, unemitted, destroying, starts,
                   running, wpc, terminated, pipe, accepted, emitted>>

DestroyMembers ==
    /\ destroying /\ opc = "idle"
    /\ opc' = "destroyed"
    /\ terminated' = joinable
    /\ UNCHANGED <<workerVars, joinable, unemitted, destroying, starts,
                   running, wpc, pipe, accepted, emitted>>

-----------------------------------------------------------------------------
(* The worker: Run.                                                        *)

\* Mutant: while (true).
CheckNothing ==
    /\ wpc = "check"
    /\ wpc' = "pop"
    /\ UNCHANGED <<workerVars, ownerVars, running, terminated, pipe, accepted, emitted>>

CheckRunning ==
    /\ wpc = "check"
    /\ wpc' = IF running THEN "pop" ELSE "done"
    /\ UNCHANGED <<workerVars, ownerVars, running, terminated, pipe, accepted, emitted>>

\* Mutant: the sequence of the head is not tested.
PipeIsEmpty == pipe = <<>>

\* PopTrade returns nothing if the head is reserved but not yet published.
NothingToPop == pipe = <<>> \/ ~pipe[1].ready

\* Mutant: running is looked at once more, and the popped trade is given up.
PopAndRecheck ==
    /\ wpc = "pop"
    /\ IF NothingToPop
       THEN wpc' = "check" /\ UNCHANGED <<trade, pipe>>
       ELSE /\ trade' = IF running THEN pipe[1].item ELSE NoTrade
            /\ pipe' = Tail(pipe)
            /\ wpc' = IF running THEN "process" ELSE "check"
    /\ UNCHANGED <<builders, processed, ownerVars, running, terminated, accepted, emitted>>

\* Mutant: the optional is not tested.
PopUnchecked ==
    /\ wpc = "pop"
    /\ trade' = IF NothingToPop THEN NoTrade ELSE pipe[1].item
    /\ pipe' = IF NothingToPop THEN pipe ELSE Tail(pipe)
    /\ wpc' = "process"
    /\ UNCHANGED <<builders, processed, ownerVars, running, terminated, accepted, emitted>>

\* Mutant: the newest trade is taken.
PopNewest ==
    /\ wpc = "pop"
    /\ IF NothingToPop
       THEN wpc' = "check" /\ UNCHANGED <<trade, pipe>>
       ELSE /\ trade' = pipe[Len(pipe)].item
            /\ pipe' = SubSeq(pipe, 1, Len(pipe) - 1)
            /\ wpc' = "process"
    /\ UNCHANGED <<builders, processed, ownerVars, running, terminated, accepted, emitted>>

\* With nothing to pop the worker sleeps for 100 microseconds.
PopTrade ==
    /\ wpc = "pop"
    /\ IF NothingToPop
       THEN wpc' = "check" /\ UNCHANGED <<trade, pipe>>
       ELSE /\ trade' = pipe[1].item
            /\ pipe' = Tail(pipe)
            /\ wpc' = "process"
    /\ UNCHANGED <<builders, processed, ownerVars, running, terminated, accepted, emitted>>

\* The candle a trade opens.
Opened(n) == <<n>>

\* The builder of the trade's instrument, created if need be, takes the
\* trade; a candle it completes is given to the callback.
ProcessTrade ==
    /\ wpc = "process"
    /\ LET i == trade[1]
           n == trade[2]
       IN \/ /\ builders' = [builders EXCEPT ![i] = Append(@, n)]
             /\ UNCHANGED emitted
          \/ /\ builders[i] # <<>>
             /\ emitted' = Append(emitted, Candle(i, builders[i]))
             /\ builders' = [builders EXCEPT ![i] = Opened(n)]
    /\ processed' = Append(processed, trade)
    /\ trade' = NoTrade
    /\ wpc' = "check"
    /\ UNCHANGED <<ownerVars, running, terminated, pipe, accepted>>

-----------------------------------------------------------------------------
OwnerCall == Start \/ Stop(FALSE) \/ Stop(TRUE)

OwnerStep ==
    \/ SpawnWorker \/ JoinWorker \/ StopReturns \/ DestroyMembers
    \/ \E i \in Instruments : EmitFinal(i)

WorkerStep == CheckRunning \/ PopTrade \/ ProcessTrade

Next ==
    /\ ~terminated
    /\ \/ OwnerCall \/ OwnerStep \/ WorkerStep
       \/ \E i \in Instruments : PushTrade(i)
       \/ \E k \in DOMAIN pipe : PublishTrade(k)

Spec == Init /\ [][Next]_vars

\* Both threads run; nobody has to call Start or Stop, or to push.
FairSpec ==
    /\ Spec
    /\ WF_vars(~terminated /\ OwnerStep)
    /\ WF_vars(~terminated /\ WorkerStep)

-----------------------------------------------------------------------------
(* Properties.                                                             *)

\* Every variable keeps its type.
TypeOK ==
    /\ {running, joinable, destroying, terminated} \subseteq BOOLEAN
    /\ wpc \in {"none", "check", "pop", "process", "done"}
    /\ opc \in {"idle", "spawn", "join", "emit", "destroyed"}
    /\ trade = NoTrade \/ trade \in Instruments \X (1 .. MaxTrades)
    /\ wpc = "process" => trade # NoTrade
    /\ unemitted \subseteq Instruments
    /\ starts \in 0 .. MaxStarts
    /\ accepted \in 0 .. MaxTrades
    /\ pipe \in Seq([item : Instruments \X (1 .. MaxTrades), ready : BOOLEAN])
    /\ Len(pipe) <= PipeCapacity
    /\ builders \in [Instruments -> Seq(1 .. MaxTrades)]

InFlight == IF trade = NoTrade THEN <<>> ELSE <<trade>>

\* From the pipe to the builders no trade is lost, doubled or overtaken, over
\* any number of restarts: the processed trades, the one in hand and those in
\* the pipe are all that were accepted, in their order.
NoTradeLost ==
    LET all == processed \o InFlight \o [k \in DOMAIN pipe |-> pipe[k].item]
    IN Len(all) = accepted /\ \A n \in DOMAIN all : all[n][2] = n

\* Stop reads the builders and calls the callback only when no worker does.
CallbackNotConcurrent == opc = "emit" => wpc = "none"

\* With one owner, no sequence of calls terminates the process.
NeverTerminates == ~terminated

Appears(n) == {k \in DOMAIN emitted : \E j \in DOMAIN emitted[k].trades :
                                          emitted[k].trades[j] = n}

\* When Stop has emitted, each processed trade is in a candle of its
\* instrument.
ProcessedIsEmitted ==
    opc = "emit" /\ unemitted = {} =>
        \A m \in DOMAIN processed :
            \E k \in Appears(processed[m][2]) :
                emitted[k].instrument = processed[m][1]

\* A candle goes on where an earlier one stopped, or begins behind its end.
Continues(later, earlier) ==
    \/ \A j \in DOMAIN earlier : j \in DOMAIN later /\ later[j] = earlier[j]
    \/ earlier[Len(earlier)] < later[1]

Ascending(trades) == \A j, k \in DOMAIN trades : j < k => trades[j] < trades[k]

\* Whichever thread calls the callback, and over any number of restarts, the
\* candles of an instrument come in the order of their trades: the trades of a
\* candle are in pipe order, and a candle given out by Stop is given out again
\* only as it was or longer, never behind a newer one.
CandlesInOrder ==
    \A k \in DOMAIN emitted :
        /\ Ascending(emitted[k].trades)
        /\ \A j \in 1 .. k - 1 :
               emitted[j].instrument = emitted[k].instrument =>
                   Continues(emitted[k].trades, emitted[j].trades)

\* A call of Stop comes to its end: the worker polls, and sees the flag.
StopEnds == (opc \in {"join", "emit"}) ~> (opc \in {"idle", "destroyed"})

\* Providers and worker use the pipe as the queue that MPSCQueue implements.
Pipe == INSTANCE BoundedQueue WITH
    Items <- Instruments \X (1 .. MaxTrades), Capacity <- PipeCapacity,
    queue <- pipe, delivered <- processed \o InFlight
PipeIsQueue == Pipe!Spec
=============================================================================
