------------------------ MODULE BaseProvider_proofs ------------------------
(***************************************************************************)
(* For any number of sessions, attempts and calls: no message reaches the  *)
(* callback once Stop has returned, and std::terminate is reached only     *)
(* after the worker gave up or by a destructor that has to stop it.        *)
(*                                                                         *)
(* Neither property is inductive: both rest on who may have a thread when. *)
(* ThreadOwned says that, AttemptsCounted bounds the count.                *)
(***************************************************************************)
EXTENDS BaseProvider, TLAPS

\* Where the worker may be while nobody runs it or waits for it.
Idle == wpc \in {"none", "check", "done"}

\* A worker belongs to worker_thread.  With running reset it is on its way
\* out, and left unjoined only if it reset running itself.
ThreadOwned ==
    /\ wpc # "none" => joinable
    /\ callback # None => wpc = "run"
    /\ running \/ Stopping \/ Idle
    /\ Stopping => ~running
    /\ destroying => ~running /\ opc # "spawn"
    /\ wpc = "give_up" => GaveUp
    /\ joinable /\ ~running /\ ~Stopping => GaveUp
    /\ opc = "spawn" => IF joinable THEN GaveUp ELSE running
    /\ opc = "destroyed" /\ Alive => ~joinable

\* The limit is passed at most once for every call of Start.
AttemptsCounted ==
    /\ reconnectCount <= MaxReconnectAttempts + starts
    /\ running /\ wpc # "give_up" =>
           starts > 0 /\ reconnectCount < MaxReconnectAttempts + starts

\* The inductive invariant.
ProviderInv == TypeOK /\ ThreadOwned /\ AttemptsCounted /\ TerminateExplained

-----------------------------------------------------------------------------
(* The sessions keep their types, whatever the handler.                    *)

SessionTypes ==
    /\ op \in [Sessions -> WS!Ops]
    /\ stopped \in [Sessions -> BOOLEAN]
    /\ callback \in Sessions \cup {None}

\* The operations of the chain lead to operations.
LEMMA ChainOps ==
    /\ \A o \in DOMAIN WS!Chain : WS!Chain[o] \in WS!Ops
    /\ "none" \in WS!Ops /\ "read" \in WS!Ops /\ "resolve" \in WS!Ops
BY DEF WS!Chain, WS!Ops

\* Every operation on a session keeps the types.
LEMMA SessionStep ==
    ASSUME SessionTypes, NEW s \in Sessions, NEW seenStopped \in BOOLEAN,
           \/ WS!Construct(s) \/ WS!RunSession(s, seenStopped)
           \/ WS!OnProgress(s, seenStopped) \/ WS!OnError(s)
           \/ WS!OnRead(s, seenStopped) \/ WS!ReadOn \/ WS!CallbackThrows
           \/ WS!StopSession(s)
    PROVE  SessionTypes'
<1> USE ChainOps DEF SessionTypes
<1>1. CASE WS!Construct(s)
  BY <1>1 DEF WS!Construct
<1>2. CASE WS!RunSession(s, seenStopped)
  BY <1>2 DEF WS!RunSession
<1>3. CASE WS!OnProgress(s, seenStopped)
  BY <1>3 DEF WS!OnProgress
<1>4. CASE WS!OnError(s)
  BY <1>4 DEF WS!OnError
<1>5. CASE WS!OnRead(s, seenStopped)
  BY <1>5 DEF WS!OnRead
<1>6. CASE WS!ReadOn
  BY <1>6 DEF WS!ReadOn
<1>7. CASE WS!CallbackThrows
  BY <1>7 DEF WS!CallbackThrows
<1>8. CASE WS!StopSession(s)
  BY <1>8 DEF WS!StopSession
<1> QED BY <1>1, <1>2, <1>3, <1>4, <1>5, <1>6, <1>7, <1>8

\* What a thread has seen of the flag is a value of it.
LEMMA SeenType ==
    ASSUME SessionTypes, NEW s \in Sessions
    PROVE  SeenStopped(s) \subseteq BOOLEAN
BY DEF SessionTypes, SeenStopped

-----------------------------------------------------------------------------
(* The steps.                                                              *)

\* What TypeOK says beside the sessions.
ControlTypes ==
    /\ running \in BOOLEAN /\ ioStopped \in BOOLEAN /\ joinable \in BOOLEAN
    /\ destroying \in BOOLEAN
    /\ wsSession \in Sessions \cup {None} /\ target \in Sessions \cup {None}
    /\ reconnectCount \in Nat
    /\ wpc \in {"none", "check", "restart", "create", "launch", "run", "ended",
                "reconnect", "give_up", "sleep", "done"}
    /\ opc \in {"idle", "spawn", "load_session", "stop_session", "stop_ioc",
                "join", "destroyed"}
    /\ starts \in 0 .. MaxStarts
    /\ fate \in {"alive", "terminated", "use_after_free"}

\* Everything but the sessions.
ControlInv == ControlTypes /\ ThreadOwned /\ AttemptsCounted /\ TerminateExplained

\* The two together are the invariant.
LEMMA InvParts == ProviderInv <=> SessionTypes /\ ControlInv
<1>1. ASSUME ControlInv PROVE reconnectCount \in 0 .. MaxReconnectAttempts + MaxStarts
  BY <1>1, ProviderAssumption DEF ControlInv, ControlTypes, AttemptsCounted
<1>2. ASSUME TypeOK PROVE reconnectCount \in Nat
  BY <1>2, ProviderAssumption DEF TypeOK
<1> QED BY <1>1, <1>2 DEF ProviderInv, ControlInv, ControlTypes, SessionTypes, TypeOK

\* The owner resets running before it waits for the worker, and sets it only
\* when no worker is left or the one left has given up.
LEMMA OwnerKeeps ==
    ASSUME ProviderInv, Alive, OwnerCall \/ OwnerStep
    PROVE  SessionTypes' /\ ControlInv'
<1>1. SessionTypes /\ ControlInv
  BY InvParts
<1> USE ProviderAssumption
    DEF ControlInv, ControlTypes, ThreadOwned, AttemptsCounted, TerminateExplained,
        Alive, GaveUp, Stopping, Idle, sessionVars, workerVars, ownerVars, SessionTypes
<1>2. CASE Start
  BY <1>1, <1>2 DEF Start
<1>3. CASE SpawnWorker
  BY <1>1, <1>3 DEF SpawnWorker
<1>4. CASE Stop
  BY <1>1, <1>4 DEF Stop, BeginStop
<1>5. CASE Destroy
  BY <1>1, <1>5 DEF Destroy, BeginStop
<1>6. CASE LoadSession
  BY <1>1, <1>6 DEF LoadSession
<1>7. CASE StopTarget
  BY <1>1, <1>7 DEF StopTarget, WS!StopSession
<1>8. CASE StopIoContext
  BY <1>1, <1>8 DEF StopIoContext
<1>9. CASE JoinWorker
  BY <1>1, <1>9 DEF JoinWorker
<1>10. CASE DestroyMembers
  BY <1>1, <1>10, ChainOps DEF DestroyMembers
<1> QED BY <1>2, <1>3, <1>4, <1>5, <1>6, <1>7, <1>8, <1>9, <1>10 DEF OwnerCall, OwnerStep

\* The worker goes on only while running, and counts before it gives up.
LEMMA WorkerKeeps ==
    ASSUME ProviderInv, Alive, WorkerStep
    PROVE  SessionTypes' /\ ControlInv'
<1>1. SessionTypes /\ ControlInv
  BY InvParts
<1> USE ProviderAssumption
    DEF ControlInv, ControlTypes, ThreadOwned, AttemptsCounted, TerminateExplained,
        Alive, GaveUp, Stopping, Idle, sessionVars, workerVars, ownerVars, SessionTypes
<1>2. CASE CheckRunning
  BY <1>1, <1>2 DEF CheckRunning
<1>3. CASE RestartIoContext
  BY <1>1, <1>3 DEF RestartIoContext
<1>4. CASE CreateSession
  BY <1>1, <1>4 DEF CreateSession, WS!Construct
<1>5. CASE CreateFails
  BY <1>1, <1>5 DEF CreateFails
<1>6. CASE LaunchSession
  BY <1>1, <1>6, ChainOps DEF LaunchSession, WS!RunSession
<1>7. CASE CallbackReturns
  BY <1>1, <1>7, ChainOps DEF CallbackReturns, WS!ReadOn
<1>8. CASE CallbackFails
  BY <1>1, <1>8 DEF CallbackFails, WS!CallbackThrows
<1>9. CASE RunReturns
  BY <1>1, <1>9 DEF RunReturns
<1>10. CASE AfterRun
  BY <1>1, <1>10 DEF AfterRun
<1>11. CASE HandleReconnection
  BY <1>1, <1>11 DEF HandleReconnection, Counted, OverBudget
<1>12. CASE GiveUp
  BY <1>1, <1>12 DEF GiveUp
<1>13. CASE SleepEnds
  BY <1>1, <1>13 DEF SleepEnds
<1> QED BY <1>2, <1>3, <1>4, <1>5, <1>6, <1>7, <1>8, <1>9, <1>10, <1>11, <1>12, <1>13
        DEF WorkerStep

\* A handler runs on the worker; what it does to the process is the
\* destructor's doing.
LEMMA HandlerKeeps ==
    ASSUME ProviderInv, Alive, NEW s \in Sessions, Handler(s)
    PROVE  SessionTypes' /\ ControlInv'
<1>1. SessionTypes /\ ControlInv
  BY InvParts
<1>2. SessionTypes'
  <2>1. SeenStopped(s) \subseteq BOOLEAN
    BY <1>1, SeenType
  <2>2. \E seen \in BOOLEAN : WS!OnProgress(s, seen) \/ WS!OnError(s) \/ WS!OnRead(s, seen)
    BY <2>1 DEF Handler, HandleProgress, HandleError, HandleRead
  <2> QED BY <1>1, <2>2, SessionStep
<1>3. ControlInv'
  BY <1>1 DEF ControlInv, ControlTypes, ThreadOwned, AttemptsCounted, TerminateExplained,
        Alive, GaveUp, Stopping, Idle, workerVars, ownerVars, InRun,
        Handler, HandleProgress, HandleError, HandleRead,
        WS!OnProgress, WS!OnError, WS!OnRead
<1> QED BY <1>2, <1>3

-----------------------------------------------------------------------------
(* The theorems.                                                           *)

\* Before the first call there is no thread.
LEMMA InitInv == Init => ProviderInv
<1> SUFFICES ASSUME Init PROVE SessionTypes /\ ControlInv
  BY InvParts
<1>1. SessionTypes
  BY ChainOps DEF Init, WS!SessionInit, SessionTypes
<1>2. ControlTypes
  <2>1. 0 \in Nat /\ 0 \in 0 .. MaxStarts
    BY ProviderAssumption
  <2> QED BY <2>1 DEF Init, ControlTypes
<1>3. ThreadOwned /\ TerminateExplained
  BY DEF Init, WS!SessionInit, ThreadOwned, TerminateExplained, Alive, Stopping, Idle
<1>4. AttemptsCounted
  BY ProviderAssumption DEF Init, AttemptsCounted
<1> QED BY <1>1, <1>2, <1>3, <1>4 DEF ControlInv

\* Every step of the two threads keeps the invariant.
LEMMA NextInv == ProviderInv /\ [Next]_vars => ProviderInv'
<1> SUFFICES ASSUME ProviderInv, [Next]_vars PROVE ProviderInv'
  OBVIOUS
<1>1. CASE UNCHANGED vars
  BY <1>1 DEF vars, sessionVars, workerVars, ownerVars, ProviderInv, TypeOK, ThreadOwned,
        AttemptsCounted, TerminateExplained, Alive, GaveUp, Stopping, Idle
<1>2. CASE Next
  <2>1. SessionTypes' /\ ControlInv'
    BY <1>2, OwnerKeeps, WorkerKeeps, HandlerKeeps DEF Next
  <2> QED BY <2>1, InvParts, PTL
<1> QED BY <1>1, <1>2

\* The invariant holds throughout.
LEMMA InvHolds == Spec => []ProviderInv
BY InitInv, NextInv, PTL DEF Spec

\* Every variable keeps its type; in particular the attempts stay within what
\* the calls of Start allow.
THEOREM ProviderTypes == Spec => []TypeOK
<1>1. ProviderInv => TypeOK
  BY DEF ProviderInv
<1> QED BY <1>1, InvHolds, PTL

\* Whoever stops the provider before destroying it, and does so before the
\* worker gives up, never sees std::terminate.
THEOREM TerminateCorrect == Spec => []TerminateExplained
<1>1. ProviderInv => TerminateExplained
  BY DEF ProviderInv
<1> QED BY <1>1, InvHolds, PTL

\* After Stop, and after giving up, OnMessage gets no message, from whichever
\* session and however the two threads interleave.
THEOREM QuietCorrect == Spec => QuietAfterStop
<1> DEFINE Quiet == callback = None /\ callback' # None => running \/ Stopping
<1>1. ProviderInv /\ [Next]_vars => [Quiet]_vars
  <2> SUFFICES ASSUME ProviderInv, Next, callback = None, callback' # None
               PROVE  running \/ Stopping
    OBVIOUS
  <2>1. ~(OwnerCall \/ OwnerStep)
    BY DEF OwnerCall, OwnerStep, Start, SpawnWorker, Stop, Destroy, LoadSession, StopTarget,
           WS!StopSession, StopIoContext, JoinWorker, DestroyMembers, sessionVars
  <2>2. ~WorkerStep
    BY DEF WorkerStep, CheckRunning, RestartIoContext, CreateSession, WS!Construct,
           CreateFails, LaunchSession, WS!RunSession, CallbackReturns, WS!ReadOn,
           CallbackFails, WS!CallbackThrows, RunReturns, AfterRun, HandleReconnection,
           GiveUp, SleepEnds, sessionVars
  <2>3. wpc = "run"
    BY <2>1, <2>2 DEF Next, Handler, HandleProgress, HandleError, HandleRead, InRun
  <2> QED BY <2>3 DEF ProviderInv, ThreadOwned, Idle
<1>2. QuietAfterStop <=> [][Quiet]_vars
  BY DEF QuietAfterStop
<1> QED BY <1>1, <1>2, InvHolds, PTL DEF Spec
=============================================================================
