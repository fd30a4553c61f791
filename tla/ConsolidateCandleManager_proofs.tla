------------------- MODULE ConsolidateCandleManager_proofs -------------------
(***************************************************************************)
(* For every set of instruments, pipe, and number of trades and starts:    *)
(* types; how the owner and the worker's thread hold together; that no     *)
(* trade is lost, that the pipe is used as the queue it is, and that the   *)
(* candles given out are complete and in order.                            *)
(***************************************************************************)
EXTENDS ConsolidateCandleManager, SequenceTheorems, TLAPS

TradeType == Instruments \X (1 .. MaxTrades)
Entry == [item : TradeType, ready : BOOLEAN]
CandleType == [instrument : Instruments, trades : Seq(1 .. MaxTrades)]

\* The places of the thread and of its owner: between two calls the flag says
\* whether there is a thread, and there is none while Stop emits.
Threads ==
    /\ ~terminated
    /\ joinable <=> wpc # "none"
    /\ opc = "idle" => (running <=> joinable)
    /\ opc = "spawn" => running /\ ~joinable
    /\ opc = "join" => ~running /\ joinable
    /\ opc \in {"emit", "destroyed"} => ~running /\ ~joinable
    /\ destroying => ~running

\* What TypeOK leaves open.
Types ==
    /\ TypeOK
    /\ processed \in Seq(TradeType)
    /\ emitted \in Seq([instrument : Instruments, trades : Seq(1 .. MaxTrades)])
    /\ wpc # "process" => trade = NoTrade

\* A popped trade is a pair, unlike no trade.
LEMMA TradeIsNotNoTrade == NoTrade \notin TradeType
  BY DEF NoTrade, TradeType

LEMMA InitTypes == Init => Types /\ Threads
<1> SUFFICES ASSUME Init PROVE Types /\ Threads
  OBVIOUS
<1> USE ManagerAssumption
<1>1. << >> \in Seq(TradeType) /\ << >> \in Seq(1 .. MaxTrades)
      /\ << >> \in Seq([item : TradeType, ready : BOOLEAN])
      /\ << >> \in Seq([instrument : Instruments, trades : Seq(1 .. MaxTrades)])
      /\ Len(<< >>) = 0
  OBVIOUS
<1>2. TypeOK
  <2>1. {running, joinable, destroying, terminated} \subseteq BOOLEAN
    BY DEF Init
  <2>2. builders \in [Instruments -> Seq(1 .. MaxTrades)]
    BY <1>1 DEF Init
  <2>3. pipe \in Seq([item : Instruments \X (1 .. MaxTrades), ready : BOOLEAN])
    BY <1>1 DEF Init, TradeType
  <2>4. Len(pipe) <= PipeCapacity
    BY <1>1 DEF Init
  <2> QED BY <2>1, <2>2, <2>3, <2>4 DEF Init, TypeOK
<1> QED BY <1>1, <1>2 DEF Init, Types, Threads

\* One step after another, the owner and the worker keep their places.
LEMMA NextThreads == Types /\ Threads /\ [Next]_vars => Threads'
<1> SUFFICES ASSUME Types, Threads, [Next]_vars PROVE Threads'
  OBVIOUS
<1> USE DEF Threads
<1>1. ASSUME OwnerCall PROVE Threads'
  BY <1>1 DEF OwnerCall, Start, Stop
<1>2. ASSUME OwnerStep PROVE Threads'
  BY <1>2 DEF OwnerStep, SpawnWorker, JoinWorker, StopReturns, DestroyMembers, EmitFinal
<1>3. ASSUME WorkerStep PROVE Threads'
  BY <1>3 DEF WorkerStep, CheckRunning, PopTrade, ProcessTrade, ownerVars
<1>4. ASSUME NEW i \in Instruments, PushTrade(i) PROVE Threads'
  BY <1>4 DEF PushTrade, ownerVars
<1>5. ASSUME NEW k \in DOMAIN pipe, PublishTrade(k) PROVE Threads'
  BY <1>5 DEF PublishTrade, ownerVars
<1>6. CASE UNCHANGED vars
  BY <1>6 DEF vars, ownerVars
<1> QED BY <1>1, <1>2, <1>3, <1>4, <1>5, <1>6 DEF Next

-----------------------------------------------------------------------------
(* What the steps do to the pipe.                                          *)

LEMMA PushedTypes ==
  ASSUME Types, NEW i \in Instruments, PushTrade(i)
  PROVE  /\ pipe' \in Seq(Entry)
         /\ Len(pipe') = Len(pipe) + 1
         /\ \A k \in 1 .. Len(pipe) : pipe'[k] = pipe[k]
         /\ pipe'[Len(pipe) + 1].item = <<i, accepted + 1>>
         /\ Len(pipe') <= PipeCapacity
         /\ accepted' \in 0 .. MaxTrades
<1> USE ManagerAssumption
<1>1. accepted \in 0 .. MaxTrades /\ accepted < MaxTrades /\ pipe \in Seq(Entry)
  BY DEF Types, TypeOK, PushTrade, Entry, TradeType
<1>2. <<i, accepted + 1>> \in TradeType
  BY <1>1 DEF TradeType
<1> DEFINE e == [item |-> <<i, accepted + 1>>, ready |-> FALSE]
<1>3. e \in Entry
  BY <1>2 DEF Entry
<1>4. pipe' = Append(pipe, e) /\ Len(pipe) < PipeCapacity /\ accepted' = accepted + 1
  BY DEF PushTrade
<1>5. e.item = <<i, accepted + 1>>
  OBVIOUS
<1> HIDE DEF e
<1>6. Len(pipe) \in Nat
  BY <1>1, LenProperties
<1>7. /\ pipe' \in Seq(Entry) /\ Len(pipe') = Len(pipe) + 1
      /\ \A k \in 1 .. Len(pipe) : pipe'[k] = pipe[k]
      /\ pipe'[Len(pipe) + 1] = e
  BY <1>1, <1>3, <1>4, AppendProperties
<1> QED BY <1>1, <1>4, <1>5, <1>6, <1>7

LEMMA PublishedTypes ==
  ASSUME Types, NEW k \in DOMAIN pipe, PublishTrade(k)
  PROVE  /\ pipe' \in Seq(Entry)
         /\ Len(pipe') = Len(pipe)
         /\ \A j \in 1 .. Len(pipe) : pipe'[j].item = pipe[j].item
<1>1. pipe \in Seq(Entry) /\ k \in 1 .. Len(pipe)
  BY LenProperties DEF Types, TypeOK, Entry, TradeType
<1>2. pipe[k] \in Entry
  BY <1>1, ElementOfSeq
<1> DEFINE e == [pipe[k] EXCEPT !.ready = TRUE]
<1>3. e \in Entry /\ e.item = pipe[k].item
  BY <1>2 DEF Entry
<1>4. pipe' = [pipe EXCEPT ![k] = e]
  BY DEF PublishTrade
<1> HIDE DEF e
<1>5. /\ pipe' \in Seq(Entry) /\ Len(pipe') = Len(pipe)
      /\ \A j \in 1 .. Len(pipe) : pipe'[j] = IF j = k THEN e ELSE pipe[j]
  BY <1>1, <1>3, <1>4, ExceptSeq
<1> QED BY <1>3, <1>5

LEMMA PoppedTypes ==
  ASSUME Types, PopTrade, ~NothingToPop
  PROVE  /\ pipe # << >> /\ pipe[1].ready /\ pipe' = Tail(pipe)
         /\ trade = NoTrade
         /\ trade' = pipe[1].item /\ trade' \in TradeType /\ trade' # NoTrade
         /\ pipe' \in Seq(Entry)
         /\ Len(pipe') = Len(pipe) - 1
         /\ \A k \in 1 .. Len(pipe') : pipe'[k] = pipe[k + 1]
<1>1. pipe \in Seq(Entry) /\ pipe # << >> /\ pipe[1].ready /\ trade = NoTrade
  BY DEF Types, TypeOK, Entry, TradeType, NothingToPop, PopTrade
<1>2. trade' = pipe[1].item /\ pipe' = Tail(pipe)
  BY DEF PopTrade
<1>3. Len(pipe) \in Nat \ {0}
  BY <1>1, EmptySeq
<1>4. pipe[1] \in Entry
  BY <1>1, <1>3, ElementOfSeq
<1>5. trade' \in TradeType /\ trade' # NoTrade
  BY <1>2, <1>4, TradeIsNotNoTrade DEF Entry
<1> QED BY <1>1, <1>2, <1>5, HeadTailProperties

LEMMA ProcessedTypes ==
  ASSUME Types, ProcessTrade
  PROVE  /\ trade \in TradeType
         /\ processed' = Append(processed, trade)
         /\ processed' \in Seq(TradeType)
         /\ Len(processed') = Len(processed) + 1
         /\ \A k \in 1 .. Len(processed) : processed'[k] = processed[k]
         /\ processed'[Len(processed) + 1] = trade
         /\ builders' \in [Instruments -> Seq(1 .. MaxTrades)]
         /\ emitted' \in Seq(CandleType)
<1>1. trade \in TradeType
  BY DEF Types, TypeOK, TradeType, ProcessTrade
<1>2. processed \in Seq(TradeType) /\ processed' = Append(processed, trade)
  BY DEF Types, ProcessTrade
<1>3. trade[1] \in Instruments /\ trade[2] \in 1 .. MaxTrades
  BY <1>1 DEF TradeType
<1>4. builders[trade[1]] \in Seq(1 .. MaxTrades)
  BY <1>3 DEF Types, TypeOK
<1>5. Append(builders[trade[1]], trade[2]) \in Seq(1 .. MaxTrades)
      /\ << trade[2] >> \in Seq(1 .. MaxTrades)
  BY <1>3, <1>4
<1>6. builders' \in [Instruments -> Seq(1 .. MaxTrades)]
  BY <1>3, <1>5 DEF Types, TypeOK, ProcessTrade, Opened
<1>7. Candle(trade[1], builders[trade[1]]) \in CandleType
  BY <1>3, <1>4 DEF Candle, CandleType
<1>8. emitted' \in Seq(CandleType)
  <2>1. emitted \in Seq(CandleType)
    BY DEF Types, CandleType
  <2>2. emitted' = emitted \/ emitted' = Append(emitted, Candle(trade[1], builders[trade[1]]))
    BY DEF ProcessTrade
  <2> QED BY <1>7, <2>1, <2>2, AppendProperties
<1> QED BY <1>1, <1>2, <1>6, <1>8, AppendProperties

LEMMA NextTypes == Types /\ Threads /\ [Next]_vars => Types'
<1> SUFFICES ASSUME Types, Threads, [Next]_vars PROVE Types'
  OBVIOUS
<1> USE ManagerAssumption
<1>1. ASSUME OwnerCall PROVE Types'
  <2>1. CASE Start
    <3>1. starts' \in 0 .. MaxStarts
      BY <2>1 DEF Start, Types, TypeOK
    <3> QED BY <2>1, <3>1 DEF Start, Types, TypeOK, workerVars
  <2>2. CASE \E b \in BOOLEAN : Stop(b)
    BY <2>2 DEF Stop, Types, TypeOK, workerVars
  <2> QED BY <1>1, <2>1, <2>2 DEF OwnerCall
<1>2. ASSUME OwnerStep PROVE Types'
  <2>1. CASE \E i \in Instruments : EmitFinal(i)
    <3> PICK i \in Instruments : EmitFinal(i)
      BY <2>1
    <3>1. Candle(i, builders[i]) \in CandleType /\ emitted \in Seq(CandleType)
      BY DEF Candle, CandleType, Types, TypeOK
    <3>2. emitted' \in Seq(CandleType)
      BY <3>1, AppendProperties DEF EmitFinal
    <3> QED BY <3>2 DEF EmitFinal, Types, TypeOK, CandleType, workerVars
  <2>2. CASE JoinWorker
    <3>1. trade = NoTrade
      BY <2>2 DEF JoinWorker, Types, Threads
    <3> QED BY <2>2, <3>1 DEF JoinWorker, Types, TypeOK, workerVars
  <2>3. CASE SpawnWorker \/ StopReturns \/ DestroyMembers
    BY <2>3 DEF SpawnWorker, StopReturns, DestroyMembers, Types, TypeOK, Threads, workerVars
  <2> QED BY <1>2, <2>1, <2>2, <2>3 DEF OwnerStep
<1>3. ASSUME WorkerStep PROVE Types'
  <2>1. CASE CheckRunning
    BY <2>1 DEF CheckRunning, Types, TypeOK, workerVars, ownerVars
  <2>2. CASE PopTrade /\ NothingToPop
    BY <2>2 DEF PopTrade, Types, TypeOK, ownerVars
  <2>3. CASE PopTrade /\ ~NothingToPop
    <3>1. Len(pipe') <= PipeCapacity
      <4> Len(pipe) \in Nat
        BY LenProperties DEF Types, TypeOK
      <4> QED BY <2>3, PoppedTypes DEF Types, TypeOK
    <3>2. /\ trade' \in Instruments \X (1 .. MaxTrades) /\ trade' # NoTrade
          /\ pipe' \in Seq([item : Instruments \X (1 .. MaxTrades), ready : BOOLEAN])
      BY <2>3, PoppedTypes DEF Entry, TradeType
    <3>3. wpc' = "process" /\ UNCHANGED <<builders, processed, ownerVars, running, terminated, accepted, emitted>>
      BY <2>3 DEF PopTrade
    <3>4. TypeOK'
      BY <3>1, <3>2, <3>3 DEF Types, TypeOK, ownerVars
    <3> QED BY <3>3, <3>4 DEF Types
  <2>4. CASE ProcessTrade
    <3>1. wpc' = "check" /\ trade' = NoTrade
          /\ UNCHANGED <<ownerVars, running, terminated, pipe, accepted>>
      BY <2>4 DEF ProcessTrade
    <3>2. TypeOK'
      BY <2>4, <3>1, ProcessedTypes DEF Types, TypeOK, ownerVars
    <3> QED BY <2>4, <3>1, <3>2, ProcessedTypes DEF Types, CandleType
  <2> QED BY <1>3, <2>1, <2>2, <2>3, <2>4 DEF WorkerStep
<1>4. ASSUME NEW i \in Instruments, PushTrade(i) PROVE Types'
  BY <1>4, PushedTypes DEF PushTrade, Types, TypeOK, workerVars, ownerVars, Entry, TradeType
<1>5. ASSUME NEW k \in DOMAIN pipe, PublishTrade(k) PROVE Types'
  BY <1>5, PublishedTypes DEF PublishTrade, Types, TypeOK, workerVars, ownerVars, Entry, TradeType
<1>6. CASE UNCHANGED vars
  BY <1>6 DEF vars, workerVars, ownerVars, Types, TypeOK
<1> QED BY <1>1, <1>2, <1>3, <1>4, <1>5, <1>6 DEF Next

\* Every variable keeps its type; in particular the pipe never holds more than
\* its capacity.
THEOREM ManagerTypes == Spec => []TypeOK
<1>1. Types /\ Threads /\ [Next]_vars => Types' /\ Threads'
  BY NextTypes, NextThreads
<1>2. Types => TypeOK
  BY DEF Types
<1> QED BY InitTypes, <1>1, <1>2, PTL DEF Spec

LEMMA TypesAlways == Spec => [](Types /\ Threads)
<1>1. Types /\ Threads /\ [Next]_vars => Types' /\ Threads'
  BY NextTypes, NextThreads
<1> QED BY InitTypes, <1>1, PTL DEF Spec

\* No sequence of calls of one owner terminates the process: Start never
\* finds a thread joinable.
THEOREM NeverTerminatesCorrect == Spec => []NeverTerminates
<1>1. Types /\ Threads => NeverTerminates
  BY DEF Threads, NeverTerminates
<1> QED BY <1>1, TypesAlways, PTL

\* While Stop emits there is no worker that could call the callback as well.
THEOREM CallbackCorrect == Spec => []CallbackNotConcurrent
<1>1. Types /\ Threads => CallbackNotConcurrent
  BY DEF Threads, CallbackNotConcurrent
<1> QED BY <1>1, TypesAlways, PTL

-----------------------------------------------------------------------------
(* No trade is lost: the numbers of the trades, place by place.            *)

InHand == IF trade = NoTrade THEN 0 ELSE 1

Numbered ==
    /\ Len(processed) + InHand + Len(pipe) = accepted
    /\ \A n \in 1 .. Len(processed) : processed[n][2] = n
    /\ trade # NoTrade => trade[2] = Len(processed) + 1
    /\ \A k \in 1 .. Len(pipe) : pipe[k].item[2] = accepted - Len(pipe) + k

LEMMA Singleton ==
  ASSUME NEW t, t = NoTrade \/ t \in TradeType
  PROVE  LET q == IF t = NoTrade THEN << >> ELSE << t >>
         IN /\ q \in Seq(TradeType)
            /\ Len(q) = IF t = NoTrade THEN 0 ELSE 1
            /\ t # NoTrade => q[1] = t
<1>1. CASE t = NoTrade
  BY <1>1
<1>2. CASE t \in TradeType /\ t # NoTrade
  <2>1. << t >> \in Seq(TradeType) /\ Len(<< t >>) = 1 /\ << t >>[1] = t
    BY <1>2
  <2> QED BY <1>2, <2>1
<1> QED BY <1>1, <1>2

LEMMA InFlightType ==
  ASSUME Types
  PROVE  /\ InFlight \in Seq(TradeType)
         /\ Len(InFlight) = InHand
         /\ trade # NoTrade => InFlight[1] = trade
<1> trade = NoTrade \/ trade \in TradeType
  BY DEF Types, TypeOK, TradeType
<1> QED BY Singleton DEF InFlight, InHand

LEMMA Lengths ==
  ASSUME Types
  PROVE  accepted \in Nat /\ Len(pipe) \in Nat /\ Len(processed) \in Nat
  BY LenProperties, ManagerAssumption DEF Types, TypeOK

LEMMA NextNumbered == Types /\ Threads /\ Numbered /\ [Next]_vars => Numbered'
<1> SUFFICES ASSUME Types, Threads, Numbered, [Next]_vars PROVE Numbered'
  OBVIOUS
<1>n. accepted \in Nat /\ Len(pipe) \in Nat /\ Len(processed) \in Nat
  BY Lengths
<1> USE DEF InHand
<1>1. ASSUME UNCHANGED <<processed, trade, pipe, accepted>> PROVE Numbered'
  BY <1>1 DEF Numbered
<1>2. ASSUME OwnerCall \/ OwnerStep \/ CheckRunning \/ (PopTrade /\ NothingToPop) \/ UNCHANGED vars
      PROVE  Numbered'
  <2> UNCHANGED <<processed, trade, pipe, accepted>>
    BY <1>2 DEF OwnerCall, Start, Stop, OwnerStep, SpawnWorker, JoinWorker, StopReturns, DestroyMembers,
                EmitFinal, CheckRunning, PopTrade, workerVars, vars
  <2> QED BY <1>1
<1>3. ASSUME PopTrade, ~NothingToPop PROVE Numbered'
  <2>1. /\ trade = NoTrade /\ trade' # NoTrade /\ trade' = pipe[1].item
        /\ Len(pipe') = Len(pipe) - 1
        /\ \A k \in 1 .. Len(pipe') : pipe'[k] = pipe[k + 1]
        /\ pipe # << >> /\ pipe' \in Seq(Entry)
    BY <1>3, PoppedTypes
  <2>2. UNCHANGED <<processed, accepted>>
    BY <1>3 DEF PopTrade
  <2>3. Len(pipe') \in Nat
    BY <2>1, LenProperties
  <2>4. trade'[2] = Len(processed) + 1
    BY <1>n, <2>1, <2>3 DEF Numbered
  <2>5. ASSUME NEW k \in 1 .. Len(pipe') PROVE pipe'[k].item[2] = accepted - Len(pipe') + k
    <3>1. k + 1 \in 1 .. Len(pipe) /\ pipe'[k] = pipe[k + 1]
      BY <1>n, <2>1, <2>3
    <3>2. pipe[k + 1].item[2] = accepted - Len(pipe) + (k + 1)
      BY <3>1 DEF Numbered
    <3> QED BY <1>n, <2>1, <2>3, <3>1, <3>2
  <2> QED BY <1>n, <2>1, <2>2, <2>4, <2>5 DEF Numbered
<1>4. ASSUME ProcessTrade PROVE Numbered'
  <2>1. /\ trade # NoTrade /\ trade' = NoTrade
        /\ UNCHANGED <<pipe, accepted>>
    BY <1>4 DEF ProcessTrade, Types, TypeOK
  <2>2. /\ Len(processed') = Len(processed) + 1
        /\ \A k \in 1 .. Len(processed) : processed'[k] = processed[k]
        /\ processed'[Len(processed) + 1] = trade
    BY <1>4, ProcessedTypes
  <2> QED BY <1>n, <2>1, <2>2 DEF Numbered
<1>5. ASSUME NEW i \in Instruments, PushTrade(i) PROVE Numbered'
  <2>1. UNCHANGED <<processed, trade>> /\ accepted' = accepted + 1
    BY <1>5 DEF PushTrade, workerVars
  <2>2. /\ Len(pipe') = Len(pipe) + 1
        /\ \A k \in 1 .. Len(pipe) : pipe'[k] = pipe[k]
        /\ pipe'[Len(pipe) + 1].item = <<i, accepted + 1>>
    BY <1>5, PushedTypes
  <2>3. \A k \in 1 .. Len(pipe') : pipe'[k].item[2] = accepted' - Len(pipe') + k
    <3> SUFFICES ASSUME NEW k \in 1 .. Len(pipe') PROVE pipe'[k].item[2] = accepted' - Len(pipe') + k
      OBVIOUS
    <3>1. CASE k \in 1 .. Len(pipe)
      BY <1>n, <2>1, <2>2, <3>1 DEF Numbered
    <3>2. CASE k = Len(pipe) + 1
      <4>1. pipe'[k].item[2] = accepted + 1
        BY <2>2, <3>2
      <4> QED BY <1>n, <2>1, <2>2, <3>2, <4>1
    <3> QED BY <1>n, <2>2, <3>1, <3>2
  <2>4. Len(processed') + InHand' + Len(pipe') = accepted'
    <3>1. InHand' = InHand /\ InHand \in Nat /\ Len(processed') = Len(processed)
      BY <2>1
    <3>2. Len(processed) + InHand + Len(pipe) = accepted
      BY DEF Numbered
    <3>3. Len(pipe') = Len(pipe) + 1
      BY <2>2
    <3> HIDE DEF InHand
    <3> QED BY <1>n, <2>1, <3>1, <3>2, <3>3
  <2>5. \A n \in 1 .. Len(processed') : processed'[n][2] = n
    BY <2>1 DEF Numbered
  <2>6. trade' # NoTrade => trade'[2] = Len(processed') + 1
    BY <2>1 DEF Numbered
  <2> QED BY <2>3, <2>4, <2>5, <2>6 DEF Numbered
<1>6. ASSUME NEW k \in DOMAIN pipe, PublishTrade(k) PROVE Numbered'
  <2>1. UNCHANGED <<processed, trade, accepted>>
    BY <1>6 DEF PublishTrade, workerVars
  <2>2. Len(pipe') = Len(pipe) /\ \A j \in 1 .. Len(pipe) : pipe'[j].item = pipe[j].item
    BY <1>6, PublishedTypes
  <2> QED BY <1>n, <2>1, <2>2 DEF Numbered
<1> QED BY <1>2, <1>3, <1>4, <1>5, <1>6 DEF Next, WorkerStep

LEMMA InitNumbered == Init => Numbered
  BY EmptySeq DEF Init, Numbered, InHand

LEMMA TwoParts ==
  ASSUME NEW S, NEW p \in Seq(S), NEW q \in Seq(S)
  PROVE  /\ p \o q \in Seq(S)
         /\ DOMAIN (p \o q) = 1 .. Len(p) + Len(q)
         /\ Len(p \o q) = Len(p) + Len(q)
         /\ \A n \in 1 .. Len(p) : (p \o q)[n] = p[n]
         /\ \A n \in 1 .. Len(q) : (p \o q)[Len(p) + n] = q[n]
<1>1. Len(p) \in Nat /\ Len(q) \in Nat
  BY LenProperties
<1>2. /\ p \o q \in Seq(S)
      /\ Len(p \o q) = Len(p) + Len(q)
      /\ \A n \in 1 .. Len(p) + Len(q) : (p \o q)[n] = IF n <= Len(p) THEN p[n] ELSE q[n - Len(p)]
  BY ConcatProperties
<1>3. DOMAIN (p \o q) = 1 .. Len(p) + Len(q)
  BY <1>2, LenProperties
<1>4. ASSUME NEW n \in 1 .. Len(q) PROVE (p \o q)[Len(p) + n] = q[n]
  <2>1. Len(p) + n \in 1 .. Len(p) + Len(q) /\ ~(Len(p) + n <= Len(p)) /\ Len(p) + n - Len(p) = n
    BY <1>1
  <2> QED BY <1>2, <2>1
<1>5. ASSUME NEW n \in 1 .. Len(p) PROVE (p \o q)[n] = p[n]
  <2>1. n \in 1 .. Len(p) + Len(q) /\ n <= Len(p)
    BY <1>1
  <2> QED BY <1>2, <2>1
<1> QED BY <1>2, <1>3, <1>4, <1>5

LEMMA NumberedIsNoTradeLost == Types /\ Numbered => NoTradeLost
<1> SUFFICES ASSUME Types, Numbered PROVE NoTradeLost
  OBVIOUS
<1> DEFINE items == [k \in DOMAIN pipe |-> pipe[k].item]
           taken == processed \o InFlight
           all == taken \o items
<1>1. pipe \in Seq(Entry) /\ DOMAIN pipe = 1 .. Len(pipe) /\ Len(pipe) \in Nat
  BY LenProperties DEF Types, TypeOK, Entry, TradeType
<1>2. ASSUME NEW k \in 1 .. Len(pipe) PROVE pipe[k].item \in TradeType
  <2> pipe[k] \in Entry
    BY <1>1, ElementOfSeq
  <2> QED BY DEF Entry
<1>3. items \in Seq(TradeType) /\ Len(items) = Len(pipe)
      /\ \A k \in 1 .. Len(pipe) : items[k] = pipe[k].item
  BY <1>1, <1>2
<1>4. /\ processed \in Seq(TradeType) /\ InFlight \in Seq(TradeType)
      /\ accepted \in Nat /\ Len(processed) \in Nat
      /\ Len(InFlight) = IF trade = NoTrade THEN 0 ELSE 1
      /\ trade # NoTrade => InFlight[1] = trade
  BY Lengths, InFlightType DEF Types, InHand
<1>5. /\ taken \in Seq(TradeType)
      /\ Len(taken) = Len(processed) + Len(InFlight)
      /\ \A n \in 1 .. Len(processed) : taken[n] = processed[n]
      /\ \A n \in 1 .. Len(InFlight) : taken[Len(processed) + n] = InFlight[n]
  BY <1>4, TwoParts
<1>6. Len(taken) + Len(pipe) = accepted /\ Len(taken) \in Nat
  BY <1>1, <1>4, <1>5 DEF Numbered, InHand
<1>7. ASSUME NEW n \in 1 .. Len(taken) PROVE taken[n][2] = n
  <2>1. CASE n <= Len(processed)
    BY <1>4, <1>5, <2>1 DEF Numbered
  <2>2. CASE n > Len(processed)
    <3>1. trade # NoTrade /\ n = Len(processed) + 1 /\ taken[n] = trade
      BY <1>4, <1>5, <2>2
    <3> QED BY <3>1 DEF Numbered
  <2> QED BY <1>4, <2>1, <2>2
<1> HIDE DEF items, taken
<1>8. /\ DOMAIN (taken \o items) = 1 .. Len(taken) + Len(items)
      /\ Len(taken \o items) = Len(taken) + Len(items)
      /\ \A n \in 1 .. Len(taken) : (taken \o items)[n] = taken[n]
      /\ \A n \in 1 .. Len(items) : (taken \o items)[Len(taken) + n] = items[n]
  <2>1. taken \in Seq(TradeType) /\ items \in Seq(TradeType)
    BY <1>3, <1>5
  <2>2. \A p, q \in Seq(TradeType) :
           /\ DOMAIN (p \o q) = 1 .. Len(p) + Len(q)
           /\ Len(p \o q) = Len(p) + Len(q)
           /\ \A n \in 1 .. Len(p) : (p \o q)[n] = p[n]
           /\ \A n \in 1 .. Len(q) : (p \o q)[Len(p) + n] = q[n]
    BY TwoParts
  <2> QED BY <2>1, <2>2, Zenon
<1> HIDE DEF all
<1>9. DOMAIN all = 1 .. accepted /\ Len(all) = accepted
  BY <1>3, <1>6, <1>8 DEF all
<1>10. ASSUME NEW n \in DOMAIN all PROVE all[n][2] = n
  <2>1. CASE n \in 1 .. Len(taken)
    BY <1>7, <1>8, <2>1 DEF all
  <2>2. CASE n - Len(taken) \in 1 .. Len(pipe)
    <3> DEFINE k == n - Len(taken)
    <3>1. k \in 1 .. Len(pipe) /\ n = Len(taken) + k
      BY <1>6, <1>9, <2>2
    <3>2. all[n] = pipe[k].item
      BY <1>3, <1>8, <3>1 DEF all
    <3>3. pipe[k].item[2] = accepted - Len(pipe) + k
      BY <3>1 DEF Numbered
    <3> QED BY <1>1, <1>6, <3>1, <3>2, <3>3
  <2> QED BY <1>1, <1>6, <1>9, <2>1, <2>2
<1> QED BY <1>9, <1>10 DEF NoTradeLost, all, taken, items

\* From the pipe to the builders no trade is lost, doubled or overtaken, over
\* any number of calls of Start and Stop.
THEOREM NoTradeLostCorrect == Spec => []NoTradeLost
<1>1. Types /\ Threads /\ Numbered /\ [Next]_vars => Types' /\ Threads' /\ Numbered'
  BY NextTypes, NextThreads, NextNumbered
<1>2. Init => Types /\ Threads /\ Numbered
  BY InitTypes, InitNumbered
<1> QED BY <1>1, <1>2, NumberedIsNoTradeLost, PTL DEF Spec

-----------------------------------------------------------------------------
(* The pipe is used as the queue it is.                                    *)

LEMMA InitRefines == Init => Pipe!Init
<1> SUFFICES ASSUME Init PROVE Pipe!Init
  OBVIOUS
<1>1. processed = << >> /\ InFlight = << >> /\ pipe = << >>
  BY DEF Init, InFlight
<1>2. processed \o InFlight = << >>
  BY <1>1
<1> QED BY <1>1, <1>2 DEF Pipe!Init

LEMMA NextRefines ==
  Types /\ Types' /\ [Next]_vars => [Pipe!Next]_<<pipe, processed \o InFlight>>
<1> SUFFICES ASSUME Types, Types', [Next]_vars
             PROVE  [Pipe!Next]_<<pipe, processed \o InFlight>>
  OBVIOUS
<1>1. ASSUME UNCHANGED <<processed, trade>>
      PROVE  UNCHANGED (processed \o InFlight)
  BY <1>1 DEF InFlight
<1>2. CASE OwnerCall \/ OwnerStep \/ CheckRunning \/ (PopTrade /\ NothingToPop) \/ UNCHANGED vars
  <2> UNCHANGED <<processed, trade, pipe>>
    BY <1>2 DEF OwnerCall, Start, Stop, OwnerStep, SpawnWorker, JoinWorker, StopReturns, DestroyMembers,
                EmitFinal, CheckRunning, PopTrade, workerVars, vars
  <2> QED BY <1>1
<1>3. CASE PopTrade /\ ~NothingToPop
  <2>1. /\ pipe # << >> /\ pipe[1].ready /\ pipe' = Tail(pipe)
        /\ trade = NoTrade /\ trade' = pipe[1].item /\ trade' \in TradeType /\ trade' # NoTrade
        /\ processed' = processed /\ processed \in Seq(TradeType)
    BY <1>3, PoppedTypes DEF PopTrade, Types
  <2>2. Head(pipe) = pipe[1]
    OBVIOUS
  <2>3. processed \o InFlight = processed
    BY <2>1, ConcatEmptySeq DEF InFlight
  <2>4. (processed \o InFlight)' = Append(processed, trade')
    BY <2>1, AppendIsConcat DEF InFlight
  <2>5. Pipe!Deliver
    BY <2>1, <2>2, <2>3, <2>4 DEF Pipe!Deliver
  <2> QED BY <2>5 DEF Pipe!Next
<1>4. CASE ProcessTrade
  <2>1. /\ trade \in TradeType /\ processed' = Append(processed, trade) /\ trade' = NoTrade
        /\ processed \in Seq(TradeType) /\ processed' \in Seq(TradeType) /\ pipe' = pipe
    BY <1>4, ProcessedTypes DEF ProcessTrade, Types
  <2>2. processed \o InFlight = Append(processed, trade)
    BY <2>1, AppendIsConcat, TradeIsNotNoTrade DEF InFlight
  <2>3. (processed \o InFlight)' = processed'
    BY <2>1, ConcatEmptySeq DEF InFlight
  <2> QED BY <2>1, <2>2, <2>3
<1>5. ASSUME NEW i \in Instruments, PushTrade(i)
      PROVE  Pipe!Next
  <2>1. UNCHANGED <<processed, trade>>
    BY <1>5 DEF PushTrade, workerVars
  <2>2. <<i, accepted + 1>> \in Instruments \X (1 .. MaxTrades)
    BY <1>5, ManagerAssumption DEF PushTrade, Types, TypeOK
  <2>3. Pipe!Reserve(<<i, accepted + 1>>)
    BY <1>1, <1>5, <2>1 DEF PushTrade, Pipe!Reserve
  <2> QED BY <2>2, <2>3 DEF Pipe!Next
<1>6. ASSUME NEW k \in DOMAIN pipe, PublishTrade(k)
      PROVE  Pipe!Next
  <2>1. UNCHANGED <<processed, trade>>
    BY <1>6 DEF PublishTrade, workerVars
  <2>2. Pipe!Commit(k)
    BY <1>1, <1>6, <2>1 DEF PublishTrade, Pipe!Commit
  <2> QED BY <2>2 DEF Pipe!Next
<1> QED BY <1>2, <1>3, <1>4, <1>5, <1>6 DEF Next, WorkerStep

\* The providers and the worker use the pipe as the queue of BoundedQueue:
\* every step is one of its reservations, commits and deliveries, or none.
THEOREM PipeCorrect == Spec => PipeIsQueue
<1>1. Types /\ Threads /\ [Next]_vars => Types'
  BY NextTypes
<1> QED BY InitRefines, NextRefines, TypesAlways, <1>1, PTL DEF Spec, PipeIsQueue, Pipe!Spec

-----------------------------------------------------------------------------
(* Stop has emitted what was processed: until then, a processed trade is in *)
(* the builder of its instrument or in a candle that was emitted.           *)

InBuilder(t) == \E j \in 1 .. Len(builders[t[1]]) : builders[t[1]][j] = t[2]

InCandle(t) ==
    \E k \in 1 .. Len(emitted) :
        /\ emitted[k].instrument = t[1]
        /\ \E j \in 1 .. Len(emitted[k].trades) : emitted[k].trades[j] = t[2]

Kept ==
    /\ \A m \in 1 .. Len(processed) : InBuilder(processed[m]) \/ InCandle(processed[m])
    /\ opc = "emit" =>
           \A t \in TradeType : t[1] \notin unemitted /\ InBuilder(t) => InCandle(t)

LEMMA EmittedGrows ==
  ASSUME Types, NEW c \in CandleType, emitted' = Append(emitted, c), NEW t, InCandle(t)
  PROVE  InCandle(t)'
<1>1. emitted \in Seq(CandleType) /\ Len(emitted) \in Nat
  BY LenProperties DEF Types, CandleType
<1>2. Len(emitted') = Len(emitted) + 1 /\ \A k \in 1 .. Len(emitted) : emitted'[k] = emitted[k]
  BY <1>1, AppendProperties
<1> QED BY <1>1, <1>2 DEF InCandle

LEMMA BuilderEmitted ==
  ASSUME Types, NEW i \in Instruments, emitted' = Append(emitted, Candle(i, builders[i])),
         NEW t \in TradeType, t[1] = i, InBuilder(t)
  PROVE  InCandle(t)'
<1>1. emitted \in Seq(CandleType) /\ Len(emitted) \in Nat
  BY LenProperties DEF Types, CandleType
<1> DEFINE c == Candle(i, builders[i])
<1>2. c \in CandleType /\ c.instrument = i /\ c.trades = builders[i]
  BY DEF Candle, CandleType, Types, TypeOK
<1>3. Len(emitted') = Len(emitted) + 1 /\ emitted'[Len(emitted) + 1] = c
  <2> HIDE DEF c
  <2> QED BY <1>1, <1>2, AppendProperties DEF c
<1> HIDE DEF c
<1>4. /\ Len(emitted) + 1 \in 1 .. Len(emitted')
      /\ emitted'[Len(emitted) + 1].instrument = t[1]
      /\ emitted'[Len(emitted) + 1].trades = builders[t[1]]
  BY <1>1, <1>2, <1>3
<1> QED BY <1>4 DEF InBuilder, InCandle

LEMMA InitKept == Init => Kept
  BY EmptySeq DEF Init, Kept

LEMMA NextKept == Types /\ Threads /\ Kept /\ [Next]_vars => Kept'
<1> SUFFICES ASSUME Types, Threads, Kept, [Next]_vars PROVE Kept'
  OBVIOUS
<1>p. processed \in Seq(TradeType) /\ Len(processed) \in Nat
      /\ \A m \in 1 .. Len(processed) : processed[m] \in TradeType
  BY LenProperties, ElementOfSeq DEF Types
<1>1. ASSUME UNCHANGED <<processed, builders, emitted>>, opc' = "emit" => UNCHANGED <<opc, unemitted>>
      PROVE  Kept'
  BY <1>1 DEF Kept, InBuilder, InCandle
<1>2. CASE OwnerCall \/ CheckRunning \/ PopTrade \/ UNCHANGED vars
  BY <1>1, <1>2 DEF OwnerCall, Start, Stop, CheckRunning, PopTrade, workerVars, ownerVars, vars
<1>3. CASE SpawnWorker \/ StopReturns \/ DestroyMembers
  BY <1>1, <1>3 DEF SpawnWorker, StopReturns, DestroyMembers, workerVars
<1>4. CASE JoinWorker
  <2>1. UNCHANGED <<processed, builders, emitted>> /\ unemitted' = Instruments
    BY <1>4 DEF JoinWorker, workerVars
  <2> QED BY <2>1 DEF Kept, InBuilder, InCandle, TradeType
<1>5. ASSUME NEW i \in Instruments, EmitFinal(i) PROVE Kept'
  <2>1. UNCHANGED <<processed, builders, opc>> /\ unemitted' = unemitted \ {i} /\ opc = "emit"
    BY <1>5 DEF EmitFinal, workerVars
  <2>2. CASE builders[i] = << >>
    <3>1. emitted' = emitted
      BY <1>5, <2>2 DEF EmitFinal
    <3>2. ASSUME NEW t \in TradeType, t[1] = i PROVE ~InBuilder(t)
      BY <2>2, <3>2, EmptySeq DEF InBuilder
    <3> QED BY <2>1, <3>1, <3>2 DEF Kept, InBuilder, InCandle
  <2>3. CASE builders[i] # << >>
    <3>1. emitted' = Append(emitted, Candle(i, builders[i]))
      BY <1>5, <2>3 DEF EmitFinal
    <3>2. Candle(i, builders[i]) \in CandleType
      BY DEF Candle, CandleType, Types, TypeOK
    <3>3. \A t \in TradeType : InCandle(t) => InCandle(t)'
      BY <3>1, <3>2, EmittedGrows
    <3>4. \A t \in TradeType : t[1] = i /\ InBuilder(t) => InCandle(t)'
      BY <3>1, BuilderEmitted
    <3>5. \A t \in TradeType : InBuilder(t)' <=> InBuilder(t)
      BY <2>1 DEF InBuilder
    <3>6. \A m \in 1 .. Len(processed) : InBuilder(processed[m])' \/ InCandle(processed[m])'
      BY <1>p, <2>1, <3>3, <3>5 DEF Kept
    <3>7. \A t \in TradeType : t[1] \notin unemitted' /\ InBuilder(t)' => InCandle(t)'
      BY <2>1, <3>3, <3>4, <3>5 DEF Kept
    <3> QED BY <2>1, <3>6, <3>7 DEF Kept
  <2> QED BY <2>2, <2>3
<1>6. CASE ProcessTrade
  <2>1. /\ trade \in TradeType
        /\ Len(processed') = Len(processed) + 1
        /\ \A m \in 1 .. Len(processed) : processed'[m] = processed[m]
        /\ processed'[Len(processed) + 1] = trade
    BY <1>6, ProcessedTypes
  <2> PICK p \in TradeType : p = trade
    BY <2>1
  <2>2. opc' # "emit"
    BY <1>6 DEF ProcessTrade, ownerVars, Threads
  <2>3. trade[1] \in Instruments /\ trade[2] \in 1 .. MaxTrades
        /\ builders \in [Instruments -> Seq(1 .. MaxTrades)]
    BY <2>1 DEF Types, TypeOK, TradeType
  <2> DEFINE old == builders[trade[1]]
  <2>4. old \in Seq(1 .. MaxTrades) /\ Len(old) \in Nat
    BY <2>3, LenProperties
  <2>5. ASSUME builders' = [builders EXCEPT ![trade[1]] = Append(old, trade[2])], emitted' = emitted
        PROVE  /\ InBuilder(p)'
               /\ \A t \in TradeType : InBuilder(t) => InBuilder(t)'
               /\ \A t \in TradeType : InCandle(t) => InCandle(t)'
    <3>1. /\ Len(Append(old, trade[2])) = Len(old) + 1
          /\ \A j \in 1 .. Len(old) : Append(old, trade[2])[j] = old[j]
          /\ Append(old, trade[2])[Len(old) + 1] = trade[2]
      BY <2>3, <2>4, AppendProperties
    <3>2. builders'[trade[1]] = Append(old, trade[2])
          /\ \A i \in Instruments : i # trade[1] => builders'[i] = builders[i]
      BY <2>3, <2>5
    <3> HIDE DEF old
    <3>3. InBuilder(p)'
      BY <2>4, <3>1, <3>2 DEF InBuilder
    <3>4. ASSUME NEW t \in TradeType, InBuilder(t) PROVE InBuilder(t)'
      <4>1. CASE t[1] = trade[1]
        <5>1. PICK j \in 1 .. Len(old) : old[j] = t[2]
          BY <3>4, <4>1 DEF InBuilder, old
        <5>2. j \in 1 .. Len(builders'[t[1]]) /\ builders'[t[1]][j] = t[2]
          BY <2>4, <3>1, <3>2, <4>1, <5>1
        <5> QED BY <5>2 DEF InBuilder
      <4>2. CASE t[1] # trade[1]
        BY <3>2, <3>4, <4>2 DEF InBuilder, TradeType
      <4> QED BY <4>1, <4>2
    <3> QED BY <2>5, <3>3, <3>4 DEF InCandle
  <2>6. ASSUME builders' = [builders EXCEPT ![trade[1]] = << trade[2] >>],
               emitted' = Append(emitted, Candle(trade[1], builders[trade[1]]))
        PROVE  /\ InBuilder(p)'
               /\ \A t \in TradeType : InBuilder(t) => InBuilder(t)' \/ InCandle(t)'
               /\ \A t \in TradeType : InCandle(t) => InCandle(t)'
    <3>1. Len(<< trade[2] >>) = 1 /\ << trade[2] >>[1] = trade[2]
      OBVIOUS
    <3>2. builders'[trade[1]] = << trade[2] >>
          /\ \A i \in Instruments : i # trade[1] => builders'[i] = builders[i]
      BY <2>3, <2>6
    <3>3. InBuilder(p)'
      BY <3>1, <3>2 DEF InBuilder
    <3>4. Candle(trade[1], builders[trade[1]]) \in CandleType
      BY <2>3, <2>4 DEF Candle, CandleType
    <3>5. \A t \in TradeType : InCandle(t) => InCandle(t)'
      BY <2>6, <3>4, EmittedGrows
    <3>6. ASSUME NEW t \in TradeType, InBuilder(t) PROVE InBuilder(t)' \/ InCandle(t)'
      <4>1. CASE t[1] = trade[1]
        BY <2>3, <2>6, <3>6, <4>1, BuilderEmitted
      <4>2. CASE t[1] # trade[1]
        BY <3>2, <3>6, <4>2 DEF InBuilder, TradeType
      <4> QED BY <4>1, <4>2
    <3> QED BY <3>3, <3>5, <3>6
  <2>7. /\ InBuilder(p)'
        /\ \A t \in TradeType : InBuilder(t) => InBuilder(t)' \/ InCandle(t)'
        /\ \A t \in TradeType : InCandle(t) => InCandle(t)'
    BY <1>6, <2>5, <2>6 DEF ProcessTrade, Opened
  <2>8. ASSUME NEW m \in 1 .. Len(processed')
        PROVE  (InBuilder(processed[m]) \/ InCandle(processed[m]))'
    <3>1. CASE m \in 1 .. Len(processed)
      <4>1. PICK t \in TradeType : t = processed[m] /\ t = processed'[m]
        BY <1>p, <2>1, <3>1
      <4>2. InBuilder(t) \/ InCandle(t)
        BY <3>1, <4>1 DEF Kept
      <4>3. InBuilder(t)' \/ InCandle(t)'
        BY <2>7, <4>2
      <4> QED BY <4>1, <4>3 DEF InBuilder, InCandle
    <3>2. CASE m = Len(processed) + 1
      BY <2>1, <2>7, <3>2 DEF InBuilder
    <3> QED BY <1>p, <2>1, <3>1, <3>2
  <2> QED BY <2>2, <2>8 DEF Kept
<1>7. ASSUME NEW i \in Instruments, PushTrade(i) PROVE Kept'
  BY <1>1, <1>7 DEF PushTrade, workerVars, ownerVars
<1>8. ASSUME NEW k \in DOMAIN pipe, PublishTrade(k) PROVE Kept'
  BY <1>1, <1>8 DEF PublishTrade, workerVars, ownerVars
<1> QED BY <1>2, <1>3, <1>4, <1>5, <1>6, <1>7, <1>8 DEF Next, OwnerStep, WorkerStep

LEMMA KeptIsEmitted == Types /\ Kept => ProcessedIsEmitted
<1> SUFFICES ASSUME Types, Kept, opc = "emit", unemitted = {}, NEW m \in DOMAIN processed
             PROVE  \E k \in Appears(processed[m][2]) : emitted[k].instrument = processed[m][1]
  BY DEF ProcessedIsEmitted
<1>1. m \in 1 .. Len(processed) /\ processed[m] \in TradeType
  BY LenProperties, ElementOfSeq DEF Types
<1>2. InCandle(processed[m])
  BY <1>1 DEF Kept
<1>3. PICK k \in 1 .. Len(emitted) :
          /\ emitted[k].instrument = processed[m][1]
          /\ \E j \in 1 .. Len(emitted[k].trades) : emitted[k].trades[j] = processed[m][2]
  BY <1>2 DEF InCandle
<1>4. /\ DOMAIN emitted = 1 .. Len(emitted)
      /\ emitted[k] \in CandleType
  BY <1>3, LenProperties, ElementOfSeq DEF Types, CandleType
<1>5. DOMAIN emitted[k].trades = 1 .. Len(emitted[k].trades)
  BY <1>4, LenProperties DEF CandleType
<1> QED BY <1>3, <1>4, <1>5 DEF Appears

\* Whatever the builders do with their candles: when Stop has gone through
\* them, each trade that was processed has been given to the callback.
THEOREM EmittedCorrect == Spec => []ProcessedIsEmitted
<1>1. Init => Types /\ Threads /\ Kept
  BY InitTypes, InitKept
<1>2. Types /\ Threads /\ Kept /\ [Next]_vars => Types' /\ Threads' /\ Kept'
  BY NextTypes, NextThreads, NextKept
<1> QED BY <1>1, <1>2, KeptIsEmitted, PTL DEF Spec

-----------------------------------------------------------------------------
(* The candles of an instrument come in the order of their trades: an       *)
(* emitted candle is continued by what the builder holds now, so that it    *)
(* will be continued by what the builder emits next.                        *)

\* The first m trades, in order, and no others.
UpTo(trades, m) == Ascending(trades) /\ \A j \in DOMAIN trades : trades[j] <= m

Built(held, m) == \A i \in Instruments : UpTo(held[i], m)

GivenOut(candles, held, m) ==
    \A k \in DOMAIN candles :
        /\ candles[k].trades # <<>> /\ UpTo(candles[k].trades, m)
        /\ held[candles[k].instrument] # <<>>
        /\ Continues(held[candles[k].instrument], candles[k].trades)
        /\ \A j \in 1 .. k - 1 :
               candles[j].instrument = candles[k].instrument =>
                   Continues(candles[k].trades, candles[j].trades)

Sorted ==
    /\ Built(builders, Len(processed))
    /\ GivenOut(emitted, builders, Len(processed))

\* A candle with one more trade.
LEMMA JoinedCandle ==
  ASSUME NEW s \in Seq(Int), NEW m \in Nat, UpTo(s, m)
  PROVE  /\ UpTo(Append(s, m + 1), m + 1)
         /\ \A t \in Seq(Int) : s # << >> /\ t # << >> /\ Continues(s, t)
                                 => Continues(Append(s, m + 1), t)
<1>1. /\ Len(s) \in Nat /\ DOMAIN s = 1 .. Len(s)
      /\ \A j \in 1 .. Len(s) : s[j] \in Int
  BY LenProperties, ElementOfSeq
<1>2. /\ Append(s, m + 1) \in Seq(Int)
      /\ Len(Append(s, m + 1)) = Len(s) + 1
      /\ DOMAIN Append(s, m + 1) = 1 .. Len(s) + 1
      /\ \A j \in 1 .. Len(s) : Append(s, m + 1)[j] = s[j]
      /\ Append(s, m + 1)[Len(s) + 1] = m + 1
  BY AppendProperties, LenProperties
<1>3. UpTo(Append(s, m + 1), m + 1)
  <2>1. ASSUME NEW j \in 1 .. Len(s) + 1 PROVE Append(s, m + 1)[j] <= m + 1
    BY <1>1, <1>2 DEF UpTo
  <2>2. ASSUME NEW j \in 1 .. Len(s) + 1, NEW k \in 1 .. Len(s) + 1, j < k
        PROVE  Append(s, m + 1)[j] < Append(s, m + 1)[k]
    <3>1. j \in 1 .. Len(s) /\ s[j] \in Int /\ s[j] <= m
      BY <1>1, <2>2 DEF UpTo
    <3>2. CASE k = Len(s) + 1
      BY <1>2, <3>1, <3>2
    <3>3. CASE k \in 1 .. Len(s)
      BY <1>1, <1>2, <2>2, <3>1, <3>3 DEF UpTo, Ascending
    <3> QED BY <1>1, <3>2, <3>3
  <2> QED BY <1>2, <2>1, <2>2 DEF UpTo, Ascending
<1>4. ASSUME NEW t \in Seq(Int), s # << >>, t # << >>, Continues(s, t)
      PROVE  Continues(Append(s, m + 1), t)
  <2>0. Len(t) \in Nat /\ DOMAIN t = 1 .. Len(t) /\ Len(t) # 0 /\ t[Len(t)] \in Int
    BY <1>4, LenProperties, ElementOfSeq, EmptySeq
  <2>1. CASE \A j \in DOMAIN t : j \in DOMAIN s /\ s[j] = t[j]
    BY <1>1, <1>2, <2>1 DEF Continues
  <2>2. CASE t[Len(t)] < s[1]
    <3>1. 1 \in 1 .. Len(s)
      BY <1>1, <1>4, EmptySeq
    <3> QED BY <1>2, <2>2, <3>1 DEF Continues
  <2> QED BY <1>4, <2>1, <2>2 DEF Continues
<1> QED BY <1>3, <1>4

\* The candle that the next trade opens is behind all there were.
LEMMA OpenedCandle ==
  ASSUME NEW m \in Nat
  PROVE  /\ UpTo(<< m + 1 >>, m + 1)
         /\ \A t \in Seq(Int) : t # << >> /\ UpTo(t, m) => Continues(<< m + 1 >>, t)
<1>1. << m + 1 >>[1] = m + 1 /\ DOMAIN << m + 1 >> = {1}
  OBVIOUS
<1>2. ASSUME NEW t \in Seq(Int), t # << >>, UpTo(t, m)
      PROVE  Continues(<< m + 1 >>, t)
  <2>1. Len(t) \in DOMAIN t /\ t[Len(t)] \in Int
    BY <1>2, LenProperties, ElementOfSeq, EmptySeq
  <2>2. t[Len(t)] <= m
    BY <1>2, <2>1 DEF UpTo
  <2> QED BY <1>1, <2>1, <2>2 DEF Continues
<1> QED BY <1>1, <1>2 DEF UpTo, Ascending

LEMMA TradesAreNumbers ==
  ASSUME NEW s \in Seq(1 .. MaxTrades)
  PROVE  s \in Seq(Int)
<1>1. Len(s) \in Nat /\ s = [k \in 1 .. Len(s) |-> s[k]]
  OBVIOUS
<1>2. \A k \in 1 .. Len(s) : s[k] \in 1 .. MaxTrades
  BY ElementOfSeq
<1>3. 1 .. MaxTrades \subseteq Int
  OBVIOUS
<1> QED BY ONLY <1>1, <1>2, <1>3

LEMMA CandleTrades ==
  ASSUME NEW e \in Seq(CandleType), NEW k \in DOMAIN e
  PROVE  e[k].instrument \in Instruments /\ e[k].trades \in Seq(Int)
<1>1. e[k] \in CandleType
  BY LenProperties, ElementOfSeq
<1>2. e[k].trades \in Seq(1 .. MaxTrades)
  BY <1>1 DEF CandleType
<1> QED BY <1>1, <1>2, TradesAreNumbers DEF CandleType

\* The next trade changes one builder, to what continues all it has emitted.
LEMMA BuilderSorted ==
  ASSUME NEW held \in [Instruments -> Seq(1 .. MaxTrades)], NEW e \in Seq(CandleType),
         NEW m \in Nat, Built(held, m), GivenOut(e, held, m),
         NEW i \in Instruments, NEW s \in Seq(1 .. MaxTrades), s # << >>, UpTo(s, m + 1),
         \A t \in Seq(Int) :
             t # << >> /\ UpTo(t, m) /\ held[i] # << >> /\ Continues(held[i], t)
                 => Continues(s, t)
  PROVE  /\ Built([held EXCEPT ![i] = s], m + 1)
         /\ GivenOut(e, [held EXCEPT ![i] = s], m + 1)
<1> DEFINE new == [held EXCEPT ![i] = s]
<1>1. new[i] = s /\ \A j \in Instruments : j # i => new[j] = held[j]
  OBVIOUS
<1>2. ASSUME NEW t \in Seq(Int), UpTo(t, m) PROVE UpTo(t, m + 1)
  <2>1. \A j \in DOMAIN t : t[j] \in Int
    BY LenProperties, ElementOfSeq
  <2> QED BY <1>2, <2>1 DEF UpTo
<1> HIDE DEF new
<1>3. ASSUME NEW j \in Instruments PROVE UpTo(new[j], m + 1)
  <2>1. held[j] \in Seq(Int)
    BY TradesAreNumbers
  <2> QED BY <1>1, <1>2, <2>1 DEF Built
<1>4. ASSUME NEW k \in DOMAIN e
      PROVE  /\ e[k].trades # << >> /\ UpTo(e[k].trades, m + 1)
             /\ new[e[k].instrument] # << >>
             /\ Continues(new[e[k].instrument], e[k].trades)
  <2>1. e[k].instrument \in Instruments /\ e[k].trades \in Seq(Int)
    BY CandleTrades
  <2>2. /\ e[k].trades # << >> /\ UpTo(e[k].trades, m)
        /\ held[e[k].instrument] # << >>
        /\ Continues(held[e[k].instrument], e[k].trades)
    BY DEF GivenOut
  <2>3. CASE e[k].instrument = i
    BY <1>1, <1>2, <2>1, <2>2, <2>3
  <2>4. CASE e[k].instrument # i
    BY <1>1, <1>2, <2>1, <2>2, <2>4
  <2> QED BY <2>3, <2>4
<1>5. Built(new, m + 1)
  BY <1>3 DEF Built
<1>6. GivenOut(e, new, m + 1)
  BY <1>4 DEF GivenOut
<1> QED BY <1>5, <1>6 DEF new

\* Emitting what a builder holds.
LEMMA EmittedSorted ==
  ASSUME NEW held \in [Instruments -> Seq(1 .. MaxTrades)], NEW e \in Seq(CandleType),
         NEW m \in Nat, Built(held, m), GivenOut(e, held, m),
         NEW i \in Instruments, held[i] # << >>
  PROVE  GivenOut(Append(e, Candle(i, held[i])), held, m)
<1> DEFINE c == Candle(i, held[i])
           new == Append(e, c)
<1>1. c \in CandleType /\ c.instrument = i /\ c.trades = held[i]
  BY DEF Candle, CandleType
<1> HIDE DEF c
<1>2. /\ Len(e) \in Nat /\ DOMAIN e = 1 .. Len(e)
      /\ DOMAIN new = 1 .. Len(e) + 1
      /\ new[Len(e) + 1] = c /\ \A k \in 1 .. Len(e) : new[k] = e[k]
  BY <1>1, AppendProperties, LenProperties
<1> HIDE DEF new
<1>3. ASSUME NEW k \in 1 .. Len(e) + 1
      PROVE  /\ new[k].trades # << >> /\ UpTo(new[k].trades, m)
             /\ held[new[k].instrument] # << >>
             /\ Continues(held[new[k].instrument], new[k].trades)
             /\ \A j \in 1 .. k - 1 :
                    new[j].instrument = new[k].instrument =>
                        Continues(new[k].trades, new[j].trades)
  <2>1. CASE k \in 1 .. Len(e)
    <3>1. \A j \in 1 .. k - 1 : j \in 1 .. Len(e)
      BY <1>2, <2>1
    <3> QED BY <1>2, <2>1, <3>1 DEF GivenOut
  <2>2. CASE k = Len(e) + 1
    <3>1. new[k].instrument = i /\ new[k].trades = held[i]
      BY <1>1, <1>2, <2>2
    <3>2. UpTo(held[i], m)
      BY DEF Built
    <3>3. Continues(held[i], held[i])
      BY DEF Continues
    <3>4. ASSUME NEW j \in 1 .. k - 1, new[j].instrument = i
          PROVE  Continues(held[i], new[j].trades)
      <4>1. j \in DOMAIN e /\ new[j] = e[j]
        BY <1>2, <2>2
      <4> QED BY <3>4, <4>1 DEF GivenOut
    <3> QED BY <3>1, <3>2, <3>3, <3>4
  <2> QED BY <1>2, <2>1, <2>2
<1>4. GivenOut(new, held, m)
  BY <1>2, <1>3 DEF GivenOut
<1> QED BY <1>4 DEF new, c

LEMMA InitSorted == Init => Sorted
<1> SUFFICES ASSUME Init PROVE Sorted
  OBVIOUS
<1>1. Len(processed) = 0 /\ DOMAIN emitted = {}
      /\ \A i \in Instruments : DOMAIN builders[i] = {}
  BY EmptySeq DEF Init
<1> QED BY <1>1 DEF Sorted, Built, GivenOut, UpTo, Ascending

LEMMA NextSorted == Types /\ Threads /\ Numbered /\ Sorted /\ [Next]_vars => Sorted'
<1> SUFFICES ASSUME Types, Threads, Numbered, Sorted, [Next]_vars PROVE Sorted'
  OBVIOUS
<1>t. /\ Len(processed) \in Nat
      /\ emitted \in Seq(CandleType)
      /\ builders \in [Instruments -> Seq(1 .. MaxTrades)]
  BY Lengths DEF Types, TypeOK, CandleType
<1>s. Built(builders, Len(processed)) /\ GivenOut(emitted, builders, Len(processed))
  BY DEF Sorted
<1>1. ASSUME UNCHANGED <<processed, builders, emitted>> PROVE Sorted'
  BY <1>1 DEF Sorted, Built, GivenOut, Continues, UpTo, Ascending
<1>2. CASE \/ OwnerCall \/ CheckRunning \/ PopTrade \/ SpawnWorker \/ JoinWorker
           \/ StopReturns \/ DestroyMembers \/ UNCHANGED vars
  BY <1>1, <1>2 DEF OwnerCall, Start, Stop, CheckRunning, PopTrade, SpawnWorker, JoinWorker,
                    StopReturns, DestroyMembers, workerVars, ownerVars, vars
<1>3. ASSUME NEW i \in Instruments, EmitFinal(i) PROVE Sorted'
  <2>1. UNCHANGED <<processed, builders>>
    BY <1>3 DEF EmitFinal, workerVars
  <2>2. CASE builders[i] = << >>
    BY <1>1, <1>3, <2>1, <2>2 DEF EmitFinal
  <2>3. CASE builders[i] # << >>
    <3>1. emitted' = Append(emitted, Candle(i, builders[i]))
      BY <1>3, <2>3 DEF EmitFinal
    <3>2. GivenOut(Append(emitted, Candle(i, builders[i])), builders, Len(processed))
      BY <1>t, <1>s, <2>3, EmittedSorted
    <3>3. GivenOut(emitted', builders', Len(processed'))
      BY <2>1, <3>1, <3>2
    <3>4. Built(builders', Len(processed'))
      BY <1>s, <2>1
    <3> QED BY <3>3, <3>4 DEF Sorted, Built, GivenOut, Continues, UpTo, Ascending
  <2> QED BY <2>2, <2>3
<1>4. CASE ProcessTrade
  <2>1. trade \in TradeType /\ Len(processed') = Len(processed) + 1
    BY <1>4, ProcessedTypes
  <2>2. trade[1] \in Instruments /\ trade[2] = Len(processed) + 1 /\ trade[2] \in 1 .. MaxTrades
    BY <2>1, TradeIsNotNoTrade DEF Numbered, TradeType
  <2> PICK i \in Instruments, n \in 1 .. MaxTrades, m \in Nat :
          i = trade[1] /\ n = trade[2] /\ m = Len(processed) /\ n = m + 1
    BY <1>t, <2>2
  <2> PICK held \in [Instruments -> Seq(1 .. MaxTrades)], e \in Seq(CandleType) :
          held = builders /\ e = emitted
    BY <1>t
  <2>3. Built(held, m) /\ GivenOut(e, held, m)
    BY <1>s
  <2>4. held[i] \in Seq(1 .. MaxTrades) /\ held[i] \in Seq(Int) /\ UpTo(held[i], m)
    BY <2>3, TradesAreNumbers DEF Built
  <2>5. CASE builders' = [held EXCEPT ![i] = Append(held[i], n)] /\ emitted' = e
    <3>1. Append(held[i], n) \in Seq(1 .. MaxTrades) /\ Append(held[i], n) # << >>
      <4>1. Append(held[i], n) \in Seq(1 .. MaxTrades)
            /\ Len(Append(held[i], n)) = Len(held[i]) + 1 /\ Len(held[i]) \in Nat
        BY AppendProperties, LenProperties
      <4>2. ASSUME NEW s, Len(s) = Len(held[i]) + 1 PROVE s # << >>
        <5>1. Len(<< >>) = 0 /\ Len(held[i]) + 1 # 0
          BY <4>1
        <5> QED BY ONLY <4>2, <5>1
      <4> QED BY <4>1, <4>2
    <3>2. Built([held EXCEPT ![i] = Append(held[i], n)], m + 1)
          /\ GivenOut(e, [held EXCEPT ![i] = Append(held[i], n)], m + 1)
      BY <2>3, <2>4, <3>1, JoinedCandle, BuilderSorted
    <3>3. Built(builders', Len(processed')) /\ GivenOut(emitted', builders', Len(processed'))
      BY <2>1, <2>5, <3>2
    <3> QED BY <3>3 DEF Sorted, Built, GivenOut, Continues, UpTo, Ascending
  <2>6. CASE /\ held[i] # << >>
             /\ builders' = [held EXCEPT ![i] = << n >>]
             /\ emitted' = Append(e, Candle(i, held[i]))
    <3>1. GivenOut(Append(e, Candle(i, held[i])), held, m)
      BY <2>3, <2>6, EmittedSorted
    <3>2. Candle(i, held[i]) \in CandleType
      BY <2>4 DEF Candle, CandleType
    <3>3. emitted' \in Seq(CandleType)
      BY <2>6, <3>2, AppendProperties
    <3>4. << n >> \in Seq(1 .. MaxTrades) /\ << n >> # << >>
      OBVIOUS
    <3> PICK new \in Seq(CandleType) : new = emitted'
      BY <3>3
    <3>5. GivenOut(new, held, m)
      BY <2>6, <3>1
    <3>6. UpTo(<< n >>, m + 1)
          /\ \A t \in Seq(Int) : t # << >> /\ UpTo(t, m) => Continues(<< n >>, t)
      BY OpenedCandle
    <3>7. Built([held EXCEPT ![i] = << n >>], m + 1)
          /\ GivenOut(new, [held EXCEPT ![i] = << n >>], m + 1)
      BY <2>3, <3>4, <3>5, <3>6, BuilderSorted
    <3>8. Built(builders', Len(processed')) /\ GivenOut(emitted', builders', Len(processed'))
      BY <2>1, <2>6, <3>7
    <3> QED BY <3>8 DEF Sorted, Built, GivenOut, Continues, UpTo, Ascending
  <2> QED BY <1>4, <2>5, <2>6 DEF ProcessTrade, Opened
<1>5. ASSUME NEW i \in Instruments, PushTrade(i) PROVE Sorted'
  BY <1>1, <1>5 DEF PushTrade, workerVars, ownerVars
<1>6. ASSUME NEW k \in DOMAIN pipe, PublishTrade(k) PROVE Sorted'
  BY <1>1, <1>6 DEF PublishTrade, workerVars, ownerVars
<1> QED BY <1>2, <1>3, <1>4, <1>5, <1>6 DEF Next, OwnerStep, WorkerStep

\* Worker and Stop, over any number of restarts, give the callback the candles
\* of an instrument in the order of their trades.
THEOREM InOrderCorrect == Spec => []CandlesInOrder
<1>1. Init => Types /\ Threads /\ Numbered /\ Sorted
  BY InitTypes, InitNumbered, InitSorted
<1>2. Types /\ Threads /\ Numbered /\ Sorted /\ [Next]_vars
          => Types' /\ Threads' /\ Numbered' /\ Sorted'
  BY NextTypes, NextThreads, NextNumbered, NextSorted
<1>3. Sorted => CandlesInOrder
  BY DEF Sorted, GivenOut, UpTo, CandlesInOrder
<1> QED BY <1>1, <1>2, <1>3, PTL DEF Spec
=============================================================================
