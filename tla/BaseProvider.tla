---------------------------- MODULE BaseProvider ----------------------------
(***************************************************************************)
(* BaseProvider of md_provider/provider/base_provider.{h,cpp}: one thread  *)
(* (the owner) calls Start, Stop and the destructor, the worker thread     *)
(* runs a WebSocket session after another on the provider's io_context.    *)
(*                                                                         *)
(* One step is one access to what the two threads share: running, the      *)
(* io_context, ws_session and the session's flag.  The io_context and      *)
(* std::thread are modelled from their use:  run() returns when it is      *)
(* stopped or has no work; stop() leaves pending operations where they     *)
(* are; restart() only clears the stopped state; assigning to, or          *)
(* destroying, a joinable std::thread calls std::terminate.                *)
(***************************************************************************)
EXTENDS Integers, FiniteSets

CONSTANTS
    Sessions,              \* session objects; enough for those alive at once
    None,
    MaxReconnectAttempts,  \* MAX_RECONNECT_ATTEMPTS
    MaxStarts              \* bound: times the owner calls Start

ASSUME ProviderAssumption ==
    /\ None \notin Sessions
    /\ MaxReconnectAttempts \in Nat /\ MaxStarts \in Nat

VARIABLES
    op, stopped, callback,  \* the sessions, see WebSocketSession
    running,                \* the atomic flag
    ioStopped,              \* whether ioc is in its stopped state
    wsSession,              \* the shared_ptr ws_session; None is null
    reconnectCount,
    wpc,                    \* step of the worker; "none": no such thread
    joinable,               \* worker_thread.joinable()
    opc,                    \* step of the owner
    target,                 \* the session Stop has read from ws_session
    destroying,             \* the destructor of the derived class has run
    starts,                 \* calls of Start so far
    fate                    \* "alive", or how the process died

WS == INSTANCE WebSocketSession

sessionVars == <<op, stopped, callback>>
workerVars == <<ioStopped, wsSession, reconnectCount>>
ownerVars == <<joinable, opc, target, destroying, starts>>
vars == <<sessionVars, workerVars, ownerVars, running, wpc, fate>>

Init ==
    /\ WS!SessionInit
    /\ running = FALSE
    /\ ioStopped = FALSE
    /\ wsSession = None
    /\ reconnectCount = 0
    /\ wpc = "none"
    /\ joinable = FALSE
    /\ opc = "idle"
    /\ target = None
    /\ destroying = FALSE
    /\ starts = 0
    /\ fate = "alive"

\* A session object exists while ws_session or a pending handler refers to it.
Exists(s) == s = wsSession \/ op[s] # "none" \/ callback = s

\* stopped is a plain bool: until the owner has joined the worker, a store of
\* the owner need not be seen by the worker.
SeenStopped(s) == IF opc = "idle" THEN {stopped[s]} ELSE {stopped[s], FALSE}

-----------------------------------------------------------------------------
(* The owner.                                                              *)

Start ==
    /\ opc = "idle" /\ ~destroying /\ starts < MaxStarts
    /\ starts' = starts + 1
    /\ running' = TRUE
    /\ opc' = IF running THEN "idle" ELSE "spawn"
    /\ UNCHANGED <<sessionVars, workerVars, joinable, target, destroying, wpc, fate>>

\* worker_thread = std::thread(...).
SpawnWorker ==
    /\ opc = "spawn"
    /\ opc' = "idle"
    /\ IF joinable
       THEN /\ fate' = "terminated"
            /\ UNCHANGED <<joinable, wpc>>
       ELSE /\ joinable' = TRUE
            /\ wpc' = "check"
            /\ UNCHANGED fate
    /\ UNCHANGED <<sessionVars, workerVars, running, target, destroying, starts>>

\* The exchange on running; the rest of Stop only runs if it was true.
BeginStop ==
    /\ opc = "idle"
    /\ running' = FALSE
    /\ opc' = IF running THEN "load_session" ELSE "idle"

Stop ==
    /\ ~destroying
    /\ BeginStop
    /\ UNCHANGED <<sessionVars, workerVars, joinable, target, destroying, starts,
                   wpc, fate>>

\* ~BinanceProvider and its siblings are defaulted: the derived object, and
\* its overrides, are gone before ~BaseProvider calls Stop.
Destroy ==
    /\ ~destroying
    /\ destroying' = TRUE
    /\ BeginStop
    /\ UNCHANGED <<sessionVars, workerVars, joinable, target, starts, wpc, fate>>

\* if (ws_session) ws_session->...: the pointer is read, no reference is held.
LoadSession ==
    /\ opc = "load_session"
    /\ target' = wsSession
    /\ opc' = "stop_session"
    /\ UNCHANGED <<sessionVars, workerVars, joinable, destroying, starts, running,
                   wpc, fate>>

\* ->Stop() on that object, which the worker may have replaced and freed.
StopTarget ==
    /\ opc = "stop_session"
    /\ opc' = "stop_ioc"
    /\ target' = None
    /\ IF target = None \/ ~Exists(target)
       THEN /\ fate' \in IF target = None THEN {fate} ELSE {fate, "use_after_free"}
            /\ UNCHANGED sessionVars
       ELSE /\ WS!StopSession(target)
            /\ UNCHANGED fate
    /\ UNCHANGED <<workerVars, joinable, destroying, starts, running, wpc>>

StopIoContext ==
    /\ opc = "stop_ioc"
    /\ ioStopped' = TRUE
    /\ opc' = "join"
    /\ UNCHANGED <<sessionVars, wsSession, reconnectCount, joinable, target,
                   destroying, starts, running, wpc, fate>>

\* Mutants: Stop leaves the thread unjoined; it detaches the thread.
JoinNothing ==
    /\ opc = "join"
    /\ opc' = "idle"
    /\ UNCHANGED <<sessionVars, workerVars, joinable, target, destroying, starts,
                   running, wpc, fate>>
DetachWorker ==
    /\ opc = "join"
    /\ opc' = "idle"
    /\ joinable' = FALSE
    /\ UNCHANGED <<sessionVars, workerVars, target, destroying, starts, running,
                   wpc, fate>>

\* worker_thread.join(), if joinable.
JoinWorker ==
    /\ opc = "join"
    /\ joinable => wpc = "done"
    /\ opc' = "idle"
    /\ joinable' = FALSE
    /\ wpc' = IF joinable THEN "none" ELSE wpc
    /\ UNCHANGED <<sessionVars, workerVars, target, destroying, starts, running, fate>>

\* The members go: a joinable worker_thread terminates the process.
DestroyMembers ==
    /\ destroying /\ opc = "idle"
    /\ opc' = "destroyed"
    /\ IF joinable
       THEN fate' = "terminated" /\ UNCHANGED sessionVars
       ELSE UNCHANGED <<fate, stopped, callback>> /\ op' = [s \in Sessions |-> "none"]
    /\ UNCHANGED <<workerVars, joinable, target, destroying, starts, running, wpc>>

-----------------------------------------------------------------------------
(* The worker: Run.                                                        *)

\* Mutant: while (true).
CheckNothing ==
    /\ wpc = "check"
    /\ wpc' = "restart"
    /\ UNCHANGED <<sessionVars, workerVars, ownerVars, running, fate>>

\* while (running).
CheckRunning ==
    /\ wpc = "check"
    /\ wpc' = IF running THEN "restart" ELSE "done"
    /\ UNCHANGED <<sessionVars, workerVars, ownerVars, running, fate>>

RestartIoContext ==
    /\ wpc = "restart"
    /\ ioStopped' = FALSE
    /\ wpc' = "create"
    /\ UNCHANGED <<sessionVars, wsSession, reconnectCount, ownerVars, running, fate>>

\* A new session object replaces the one ws_session held.
CreateSession ==
    /\ wpc = "create"
    /\ \E s \in Sessions \ {target} :
           /\ ~Exists(s)
           /\ WS!Construct(s)
           /\ wsSession' = s
    /\ wpc' = "launch"
    /\ UNCHANGED <<ioStopped, reconnectCount, ownerVars, running, fate>>

\* make_shared throws: the catch clause.
CreateFails ==
    /\ wpc = "create"
    /\ wpc' = "ended"
    /\ UNCHANGED <<sessionVars, workerVars, ownerVars, running, fate>>

\* GetHost() and the other overrides are called here: pure virtual calls once
\* the derived object is gone.
LaunchSession ==
    /\ wpc = "launch"
    /\ IF destroying
       THEN fate' = "terminated" /\ UNCHANGED <<sessionVars, wpc>>
       ELSE /\ \E seen \in SeenStopped(wsSession) : WS!RunSession(wsSession, seen)
            /\ wpc' = "run"
            /\ UNCHANGED fate
    /\ UNCHANGED <<workerVars, ownerVars, running>>

\* ioc.run() takes up a handler.
InRun == wpc = "run" /\ ~ioStopped

HandleProgress(s) ==
    /\ InRun
    /\ \E seen \in SeenStopped(s) : WS!OnProgress(s, seen)
    /\ UNCHANGED <<workerVars, ownerVars, running, wpc, fate>>

HandleError(s) ==
    /\ InRun
    /\ WS!OnError(s)
    /\ UNCHANGED <<workerVars, ownerVars, running, wpc, fate>>

\* OnMessage is an override too.
HandleRead(s) ==
    /\ InRun
    /\ \E seen \in SeenStopped(s) :
           /\ WS!OnRead(s, seen)
           /\ fate' = IF ~seen /\ destroying THEN "terminated" ELSE fate
    /\ UNCHANGED <<workerVars, ownerVars, running, wpc>>

CallbackReturns ==
    /\ WS!ReadOn
    /\ UNCHANGED <<workerVars, ownerVars, running, wpc, fate>>

\* The exception leaves ioc.run() and is caught in Run.
CallbackFails ==
    /\ WS!CallbackThrows
    /\ wpc' = "ended"
    /\ UNCHANGED <<workerVars, ownerVars, running, fate>>

RunReturns ==
    /\ wpc = "run" /\ callback = None
    /\ ioStopped \/ WS!NothingPending
    /\ ioStopped' = TRUE
    /\ wpc' = "ended"
    /\ UNCHANGED <<sessionVars, wsSession, reconnectCount, ownerVars,
                   running, fate>>

\* if (running) after ioc.run(), and in the catch clause.
AfterRun ==
    /\ wpc = "ended"
    /\ wpc' = IF running THEN "reconnect" ELSE "check"
    /\ UNCHANGED <<sessionVars, workerVars, ownerVars, running, fate>>

\* Mutant: the attempt is not counted.
CountNothing == reconnectCount

\* reconnect_count++.
Counted == reconnectCount + 1

\* Mutants of the test: one attempt less; no limit.
OverBudgetEarly(count) == count >= MaxReconnectAttempts
NeverOverBudget(count) == FALSE

OverBudget(count) == count > MaxReconnectAttempts

\* HandleReconnection looks at running again, and counts.
HandleReconnection ==
    /\ wpc = "reconnect"
    /\ IF ~running
       THEN wpc' = "check" /\ UNCHANGED reconnectCount
       ELSE /\ reconnectCount' = Counted
            /\ wpc' = IF OverBudget(Counted) THEN "give_up" ELSE "sleep"
    /\ UNCHANGED <<sessionVars, ioStopped, wsSession, ownerVars, running, fate>>

\* "Max reconnect attempts reached. Stopping."
GiveUp ==
    /\ wpc = "give_up"
    /\ running' = FALSE
    /\ wpc' = "check"
    /\ UNCHANGED <<sessionVars, workerVars, ownerVars, fate>>

\* The back-off of up to 60 s, which nothing interrupts, is over.
SleepEnds ==
    /\ wpc = "sleep"
    /\ wpc' = "check"
    /\ UNCHANGED <<sessionVars, workerVars, ownerVars, running, fate>>

-----------------------------------------------------------------------------
OwnerCall == Start \/ Stop \/ Destroy

OwnerStep ==
    \/ SpawnWorker \/ LoadSession \/ StopTarget \/ StopIoContext \/ JoinWorker
    \/ DestroyMembers

Handler(s) == HandleProgress(s) \/ HandleError(s) \/ HandleRead(s)

WorkerStep ==
    \/ CheckRunning \/ RestartIoContext \/ CreateSession \/ CreateFails
    \/ LaunchSession \/ CallbackReturns \/ CallbackFails \/ RunReturns
    \/ AfterRun \/ HandleReconnection \/ GiveUp \/ SleepEnds

Alive == fate = "alive"

Next ==
    /\ Alive
    /\ OwnerCall \/ OwnerStep \/ WorkerStep \/ \E s \in Sessions : Handler(s)

Spec == Init /\ [][Next]_vars

(***************************************************************************)
(* Both threads run, so a call of Stop and the worker's loop go on.  A     *)
(* connect or handshake is answered or runs into its 30 s timer.  Nothing  *)
(* in the code bounds a name resolution or a read, and nobody has to call  *)
(* Start, Stop or the destructor.  The synchronous ws.close in Stop is     *)
(* taken to return: its peer answers the close frame or is lost.           *)
(***************************************************************************)
Timed(s) == op[s] \in {"connect", "ssl_handshake", "handshake"}

Fairness ==
    /\ WF_vars(Alive /\ OwnerStep)
    /\ WF_vars(Alive /\ WorkerStep)
    /\ \A s \in Sessions : WF_vars(Alive /\ Timed(s) /\ Handler(s))

FairSpec == Spec /\ Fairness

\* A network in which, besides, no resolution or connection lasts for ever,
\* however many messages it brings in between.
DropSpec == FairSpec /\ \A s \in Sessions : SF_vars(Alive /\ HandleError(s))

-----------------------------------------------------------------------------
(* Properties.                                                             *)

\* Every variable keeps its type.
TypeOK ==
    /\ op \in [Sessions -> WS!Ops]
    /\ stopped \in [Sessions -> BOOLEAN]
    /\ callback \in Sessions \cup {None}
    /\ running \in BOOLEAN /\ ioStopped \in BOOLEAN /\ joinable \in BOOLEAN
    /\ destroying \in BOOLEAN
    /\ wsSession \in Sessions \cup {None} /\ target \in Sessions \cup {None}
    /\ reconnectCount \in 0 .. MaxReconnectAttempts + MaxStarts
    /\ wpc \in {"none", "check", "restart", "create", "launch", "run", "ended",
                "reconnect", "give_up", "sleep", "done"}
    /\ opc \in {"idle", "spawn", "load_session", "stop_session", "stop_ioc",
                "join", "destroyed"}
    /\ starts \in 0 .. MaxStarts
    /\ fate \in {"alive", "terminated", "use_after_free"}

GaveUp == reconnectCount > MaxReconnectAttempts

Stopping == opc \in {"load_session", "stop_session", "stop_ioc", "join"}

\* Once Stop has returned, or the worker has given up, no message reaches
\* OnMessage any more, from any session.
QuietAfterStop ==
    [][callback = None /\ callback' # None => running \/ Stopping]_vars

\* std::terminate is only reached after the worker gave up, or when the
\* destructor has to stop a running provider by itself.
TerminateExplained ==
    fate = "terminated" => GaveUp \/ (destroying /\ opc # "destroyed")

\* A lost connection is followed by a new session, as long as the budget of
\* attempts lasts and nobody stops or destroys the provider.
ReconnectsWithinBudget ==
    (wpc = "ended" /\ running /\ reconnectCount < MaxReconnectAttempts)
        ~> (wpc = "create" \/ opc # "idle" \/ destroying \/ ~Alive)

\* "Stop the provider": Stop, and so the join in it, returns.
StopReturns == Stopping ~> (~Stopping \/ ~Alive)

\* In a network that loses every connection some time the worker ends by
\* itself: the attempts are counted over its whole life.
WorkerEnds == (wpc = "check") ~> (wpc \in {"done", "none"} \/ ~Alive)

\* "Already stopped": where Stop would return at once, no thread is left.
StoppedHasNoThread == opc = "idle" /\ ~running => ~joinable

\* "Reset io_context for a new run": no handler of an earlier run is left in
\* it, so the messages all come from the session just created.
CleanContext == callback # None => callback = wsSession
=============================================================================
