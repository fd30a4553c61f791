-------------------------- MODULE WebSocketSession --------------------------
(***************************************************************************)
(* WebSocketSessionSSL of md_provider/ws/ws.{h,cpp}: a chain of            *)
(* asynchronous operations.  Each handler of the chain starts the next     *)
(* operation, or ends the chain by returning without starting one.         *)
(*                                                                         *)
(* A session is a member of Sessions.  Its pending operation keeps it      *)
(* alive (shared_from_this); the io_context that holds the operations of   *)
(* all sessions is modelled by the module that instantiates this one.      *)
(***************************************************************************)
CONSTANTS Sessions, None

VARIABLES
    op,        \* per session: the operation pending in the io_context
    stopped,   \* per session: the flag stopped, a plain bool
    callback   \* the session whose onMessageCallback is running, or None

sessionVars == <<op, stopped, callback>>

\* The operations in the order of the chain; "none" when nothing is pending.
Chain == [resolve |-> "connect", connect |-> "ssl_handshake",
          ssl_handshake |-> "handshake", handshake |-> "read"]
Ops == DOMAIN Chain \cup {"read", "none"}

Pending(s) == op[s] # "none"
NothingPending == \A s \in Sessions : ~Pending(s)

\* The one thread that runs handlers is not inside a message callback.
HandlerMayRun == callback = None

SessionInit ==
    /\ op = [s \in Sessions |-> "none"]
    /\ stopped = [s \in Sessions |-> FALSE]
    /\ callback = None

\* The constructor, for a session object that does not exist yet.
Construct(s) ==
    /\ ~Pending(s)
    /\ stopped' = [stopped EXCEPT ![s] = FALSE]
    /\ UNCHANGED <<op, callback>>

\* Run: nothing is started once stopped.  A value the thread has seen for
\* stopped is an argument, as the flag is read without synchronisation.
RunSession(s, seenStopped) ==
    /\ op' = IF seenStopped THEN op ELSE [op EXCEPT ![s] = "resolve"]
    /\ UNCHANGED <<stopped, callback>>

\* OnResolve, OnConnect, OnSslHandshake, OnHandshake without an error.
OnProgress(s, seenStopped) ==
    /\ HandlerMayRun
    /\ op[s] \in DOMAIN Chain
    /\ op' = [op EXCEPT ![s] = IF seenStopped THEN "none" ELSE Chain[op[s]]]
    /\ UNCHANGED <<stopped, callback>>

\* Any handler with an error (the 30 s timer of WS_TIMER_RATE, a refused
\* connection, a closed stream): it returns and starts nothing.
OnError(s) ==
    /\ HandlerMayRun
    /\ Pending(s)
    /\ op' = [op EXCEPT ![s] = "none"]
    /\ UNCHANGED <<stopped, callback>>

\* OnRead with a message: into the callback, unless stopped.
OnRead(s, seenStopped) ==
    /\ HandlerMayRun
    /\ op[s] = "read"
    /\ op' = [op EXCEPT ![s] = "none"]
    /\ callback' = IF seenStopped THEN None ELSE s
    /\ UNCHANGED stopped

\* The callback returns, and OnRead reads on without looking at stopped.
ReadOn ==
    /\ callback # None
    /\ op' = [op EXCEPT ![callback] = "read"]
    /\ callback' = None
    /\ UNCHANGED stopped

\* The callback, or the copy of the message made for it, throws: the handler
\* is left without a pending operation.
CallbackThrows ==
    /\ callback # None
    /\ callback' = None
    /\ UNCHANGED <<op, stopped>>

\* Stop, on the caller's thread.  The synchronous ws.close may make the
\* pending operation complete with an error, which OnError allows anyway.
StopSession(s) ==
    /\ stopped' = [stopped EXCEPT ![s] = TRUE]
    /\ UNCHANGED <<op, callback>>
=============================================================================
