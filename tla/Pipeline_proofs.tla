--------------------------- MODULE Pipeline_proofs ---------------------------
(***************************************************************************)
(* For every configuration, message and number of trades: the consumer in  *)
(* the pipeline is the consumer by itself, so that its theorems hold here; *)
(* a place of the pipe that waits for its trade has one provider, that     *)
(* fills it; and the trades of an exchange keep their order.               *)
(***************************************************************************)
EXTENDS Pipeline, ConsolidateCandleManager_proofs

\* The items a provider may go through, and a queue of them.
ItemsOf(e) == FeedItems(e, Configured) \cup {Blank}
Waiting == [serial : Nat, item : UNION {ItemsOf(e) : e \in Exchanges}]
Symbols == UNION {Feed(e, Configured) \cup {Missing} : e \in Exchanges}
SourceType == [exchange : Exchanges, serial : Nat, symbol : Symbols]

ProviderTypes ==
    /\ rest \in [Exchanges -> Seq(Waiting)]
    /\ \A e \in Exchanges : \A k \in 1 .. Len(rest[e]) : rest[e][k].item \in ItemsOf(e)
    /\ received \in [Exchanges -> Nat]
    /\ reserved \in [Exchanges -> Nat]
    /\ \A e \in Exchanges : reserved[e] # 0 => rest[e] # << >>
    /\ source \in Seq(SourceType)
    /\ Len(source) = accepted

Base == Types /\ Threads /\ Numbered

-----------------------------------------------------------------------------
(* What a provider makes of a message.                                     *)

\* Whatever the message says, ParseTrade goes through its items, through
\* nothing, or takes the array for one item without fields.
LEMMA ItemsAreSent ==
  ASSUME NEW e \in Exchanges, NEW msg, NEW items \in Items(e, msg)
  PROVE  items = msg.items \/ items = << >> \/ items = << Blank >>
<1>1. CASE e = "binance"
  BY <1>1 DEF Items, BinanceItems
<1>2. CASE e = "bybit"
  BY <1>2 DEF Items, BybitItems
<1>3. CASE e = "okx"
  BY <1>3 DEF Items, OKXItems
<1> QED BY <1>1, <1>2, <1>3 DEF Exchanges

\* A trade of the feed gets the configured name, in upper case.
LEMMA InstrumentOfFeed ==
  ASSUME NEW e \in Exchanges, NEW item, item.symbol # Missing,
         item.symbol \in Feed(e, Configured)
  PROVE  /\ Instrument(e, item) = InForm(item.symbol, "upper")
         /\ Instrument(e, item) = Symbol(item.symbol.name, "upper")
         /\ Instrument(e, item) \in Instruments
<1>1. PICK s \in Configured : /\ item.symbol = InForm(s, Answered[e])
                              /\ Subscription(e, s).form = Asked[e]
  BY DEF Feed
<1>2. s = Symbol(s.name, s.form) /\ InForm(s, "upper") \in Instruments
  BY NamesAssumption
<1>3. \A f : InForm(s, f) = Symbol(s.name, f)
  BY <1>2 DEF InForm, Symbol
<1>4. item.symbol = Symbol(s.name, Answered[e])
  BY <1>1, <1>3
<1>5. /\ InForm(item.symbol, "upper") = Symbol(s.name, "upper")
      /\ item.symbol.name = s.name /\ item.symbol.form = Answered[e]
  BY <1>4 DEF InForm, Symbol
<1>6. CASE e = "binance"
  BY <1>2, <1>3, <1>5, <1>6 DEF Instrument, BinanceInstrument
<1>7. CASE e = "bybit"
  <2>1. item.symbol = Symbol(s.name, "upper")
    BY <1>4, <1>7 DEF Answered
  <2>2. Instrument(e, item) = item.symbol
    BY <1>7 DEF Instrument, BybitInstrument
  <2> QED BY <1>2, <1>3, <1>5, <2>1, <2>2
<1>8. CASE e = "okx"
  <2>1. item.symbol.form = "hyphen"
    BY <1>5, <1>8 DEF Answered
  <2>2. Instrument(e, item) = InForm(item.symbol, "upper")
    BY <1>8, <2>1 DEF Instrument, OKXInstrument
  <2> QED BY <1>2, <1>3, <1>5, <2>2
<1> QED BY <1>6, <1>7, <1>8 DEF Exchanges

\* A trade without a symbol gets no name; each name has a builder.
LEMMA InstrumentHasBuilder ==
  ASSUME NEW e \in Exchanges, NEW item \in ItemsOf(e)
  PROVE  Instrument(e, item) \in Instruments
<1>1. item.symbol \in Feed(e, Configured) \cup {Missing}
  BY DEF ItemsOf, FeedItems, Blank
<1>2. CASE item.symbol = Missing
  <2>1. Instrument(e, item) = NoName
    BY <1>2 DEF Instrument, BinanceInstrument, BybitInstrument, OKXInstrument, Exchanges
  <2> QED BY <2>1, NamesAssumption
<1> QED BY <1>1, <1>2, InstrumentOfFeed

-----------------------------------------------------------------------------
(* The pipeline makes no step with the consumer that it cannot make by     *)
(* itself.                                                                 *)

LEMMA BaseNext == Base /\ [Next]_vars => Base'
  BY NextTypes, NextThreads, NextNumbered DEF Base

LEMMA HeadOfRest ==
  ASSUME ProviderTypes, NEW e \in Exchanges, rest[e] # << >>
  PROVE  /\ Head(rest[e]) = rest[e][1] /\ Len(rest[e]) \in Nat \ {0}
         /\ Head(rest[e]).item \in ItemsOf(e)
         /\ Head(rest[e]) \in Waiting
         /\ Tail(rest[e]) \in Seq(Waiting) /\ Len(Tail(rest[e])) = Len(rest[e]) - 1
         /\ \A k \in 1 .. Len(Tail(rest[e])) : Tail(rest[e])[k] = rest[e][k + 1]
<1>1. rest[e] \in Seq(Waiting)
  BY DEF ProviderTypes
<1>2. Len(rest[e]) \in Nat \ {0} /\ Head(rest[e]) = rest[e][1]
  BY <1>1, EmptySeq
<1>3. rest[e][1].item \in ItemsOf(e)
  BY <1>2 DEF ProviderTypes
<1> QED BY <1>1, <1>2, <1>3, HeadTailProperties

LEMMA StepOfManager ==
  ProviderTypes /\ [PipelineNext]_pipelineVars => [Next]_vars
<1> SUFFICES ASSUME ProviderTypes, [PipelineNext]_pipelineVars PROVE [Next]_vars
  OBVIOUS
<1>1. CASE UNCHANGED pipelineVars
  BY <1>1 DEF pipelineVars
<1>2. CASE ~terminated /\ ManagerStep
  BY <1>2 DEF ManagerStep, Next
<1>3. ASSUME ~terminated, NEW e \in Exchanges, ProviderStep(e) PROVE [Next]_vars
  <2>1. CASE PushItem(e)
    <3>1. Instrument(e, Head(rest[e]).item) \in Instruments
      BY <2>1, HeadOfRest, InstrumentHasBuilder DEF PushItem, Handling
    <3>2. PushTrade(Instrument(e, Head(rest[e]).item))
      BY <2>1 DEF PushItem
    <3> QED BY <1>3, <3>1, <3>2 DEF Next
  <2>2. CASE PublishItem(e)
    BY <1>3, <2>2 DEF PublishItem, Next
  <2>3. CASE RefuseItem(e) \/ BreakOff(e)
    BY <2>3 DEF RefuseItem, BreakOff
  <2> QED BY <1>3, <2>1, <2>2, <2>3 DEF ProviderStep
<1>4. ASSUME NEW e \in Exchanges, NEW msg \in Messages[e], OnMessage(e, msg) PROVE [Next]_vars
  BY <1>4 DEF OnMessage
<1> QED BY <1>1, <1>2, <1>3, <1>4 DEF PipelineNext

\* The steps of the consumer leave the providers and the count alone.
LEMMA ManagerLeavesProviders ==
  ASSUME ManagerStep
  PROVE  UNCHANGED <<providerVars, accepted>>
  BY DEF ManagerStep, OwnerCall, Start, Stop, OwnerStep, SpawnWorker, JoinWorker, StopReturns,
         DestroyMembers, EmitFinal, WorkerStep, CheckRunning, PopTrade, ProcessTrade

LEMMA InitProviders == PipelineInit => Base /\ ProviderTypes
<1> SUFFICES ASSUME PipelineInit PROVE Base /\ ProviderTypes
  OBVIOUS
<1>1. Base
  BY InitTypes, InitNumbered DEF PipelineInit, Base
<1>2. << >> \in Seq(Waiting) /\ << >> \in Seq(SourceType) /\ Len(<< >>) = 0
  OBVIOUS
<1> QED BY <1>1, <1>2 DEF PipelineInit, Init, ProviderTypes

\* What a message leaves to push.
LEMMA MessageRest ==
  ASSUME ProviderTypes, NEW e \in Exchanges, NEW msg \in Messages[e], NEW items \in Items(e, msg),
         NEW q, q = [k \in DOMAIN items |-> [serial |-> received[e] + k, item |-> items[k]]]
  PROVE  /\ Len(items) \in Nat /\ q \in Seq(Waiting) /\ Len(q) = Len(items)
         /\ \A k \in 1 .. Len(q) : q[k].serial = received[e] + k /\ q[k].item \in ItemsOf(e)
<1>1. items \in Seq(ItemsOf(e))
  <2>1. << >> \in Seq(ItemsOf(e)) /\ << Blank >> \in Seq(ItemsOf(e))
    BY DEF ItemsOf
  <2>2. msg.items \in Seq(FeedItems(e, Configured))
    BY MessagesAssumption
  <2>3. msg.items \in Seq(ItemsOf(e))
    BY <2>2, SeqMonotonic DEF ItemsOf
  <2> QED BY <2>1, <2>3, ItemsAreSent
<1>2. /\ Len(items) \in Nat /\ DOMAIN items = 1 .. Len(items)
      /\ \A k \in 1 .. Len(items) : items[k] \in ItemsOf(e)
  BY <1>1, LenProperties, ElementOfSeq
<1>3. received[e] \in Nat
  BY DEF ProviderTypes
<1>4. \A k \in 1 .. Len(items) : [serial |-> received[e] + k, item |-> items[k]] \in Waiting
  BY <1>2, <1>3 DEF Waiting
<1>5. q \in Seq(Waiting) /\ Len(q) = Len(items)
  BY <1>2, <1>4
<1> QED BY <1>2, <1>5

LEMMA NextProviders ==
  Base /\ ProviderTypes /\ [PipelineNext]_pipelineVars => ProviderTypes'
<1> SUFFICES ASSUME Base, ProviderTypes, [PipelineNext]_pipelineVars PROVE ProviderTypes'
  OBVIOUS
<1>a. accepted \in Nat /\ Len(source) = accepted /\ source \in Seq(SourceType)
  BY Lengths DEF Base, ProviderTypes
<1>1. CASE UNCHANGED pipelineVars \/ ManagerStep
  <2> UNCHANGED <<providerVars, accepted>>
    BY <1>1, ManagerLeavesProviders DEF pipelineVars, vars
  <2> QED BY DEF ProviderTypes, providerVars
<1>2. ASSUME NEW e \in Exchanges, PushItem(e) PROVE ProviderTypes'
  <2>1. /\ accepted' = accepted + 1 /\ UNCHANGED <<rest, received>>
        /\ reserved' = [reserved EXCEPT ![e] = accepted']
        /\ source' = Append(source, [exchange |-> e, serial |-> Head(rest[e]).serial,
                                     symbol |-> Head(rest[e]).item.symbol])
    BY <1>2 DEF PushItem, PushTrade
  <2>2. Head(rest[e]).item \in ItemsOf(e) /\ Head(rest[e]) \in Waiting
    BY <1>2, HeadOfRest DEF PushItem, Handling
  <2>3. [exchange |-> e, serial |-> Head(rest[e]).serial,
         symbol |-> Head(rest[e]).item.symbol] \in SourceType
    <3>1. Head(rest[e]).item.symbol \in Feed(e, Configured) \cup {Missing}
      BY <2>2 DEF ItemsOf, FeedItems, Blank
    <3>2. Head(rest[e]).serial \in Nat
      BY <2>2 DEF Waiting
    <3>3. Feed(e, Configured) \cup {Missing} \subseteq Symbols
      <4> DEFINE Of(f) == Feed(f, Configured) \cup {Missing}
      <4>1. Symbols = UNION {Of(f) : f \in Exchanges}
        BY DEF Symbols
      <4> HIDE DEF Of
      <4>2. Of(e) \subseteq Symbols
        BY <4>1
      <4> QED BY <4>2 DEF Of
    <3> QED BY <3>1, <3>2, <3>3 DEF SourceType
  <2>4. source' \in Seq(SourceType) /\ Len(source') = Len(source) + 1
    BY <1>a, <2>1, <2>3, AppendProperties
  <2>5. rest[e] # << >>
    BY <1>2 DEF PushItem, Handling
  <2> QED BY <1>a, <2>1, <2>4, <2>5 DEF ProviderTypes
<1>3. ASSUME NEW e \in Exchanges, PublishItem(e) \/ RefuseItem(e) PROVE ProviderTypes'
  <2>0. rest[e] # << >>
    BY <1>3 DEF PublishItem, RefuseItem, Handling, ProviderTypes
  <2>1. /\ UNCHANGED <<received, source, accepted>>
        /\ rest' = [rest EXCEPT ![e] = Tail(@)]
        /\ reserved' = [reserved EXCEPT ![e] = 0] \/ reserved' = reserved
    BY <1>3 DEF PublishItem, RefuseItem, PublishTrade, vars
  <2>2. /\ Tail(rest[e]) \in Seq(Waiting) /\ Len(Tail(rest[e])) = Len(rest[e]) - 1
        /\ \A k \in 1 .. Len(Tail(rest[e])) : Tail(rest[e])[k] = rest[e][k + 1]
        /\ Len(rest[e]) \in Nat
    BY <2>0, HeadOfRest
  <2>3. \A k \in 1 .. Len(Tail(rest[e])) : Tail(rest[e])[k].item \in ItemsOf(e)
    <3> SUFFICES ASSUME NEW k \in 1 .. Len(Tail(rest[e])) PROVE Tail(rest[e])[k].item \in ItemsOf(e)
      OBVIOUS
    <3>1. k + 1 \in 1 .. Len(rest[e])
      BY <2>2
    <3>2. rest[e][k + 1].item \in ItemsOf(e)
      BY <3>1 DEF ProviderTypes
    <3> QED BY <2>2, <3>2
  <2>4. /\ reserved'[e] = 0 /\ reserved' \in [Exchanges -> Nat]
        /\ \A f \in Exchanges : f # e => reserved'[f] = reserved[f]
    <3> reserved \in [Exchanges -> Nat]
      BY DEF ProviderTypes
    <3>1. CASE PublishItem(e)
      <4> reserved' = [reserved EXCEPT ![e] = 0]
        BY <3>1 DEF PublishItem
      <4> QED OBVIOUS
    <3>2. CASE RefuseItem(e)
      <4> reserved' = reserved /\ reserved[e] = 0
        BY <3>2 DEF RefuseItem
      <4> QED OBVIOUS
    <3> QED BY <1>3, <3>1, <3>2
  <2> DEFINE t == Tail(rest[e])
  <2>5. t \in Seq(Waiting) /\ \A k \in 1 .. Len(t) : t[k].item \in ItemsOf(e)
    BY <2>2, <2>3
  <2>6. rest' = [rest EXCEPT ![e] = t]
    BY <2>1
  <2> HIDE DEF t
  <2> QED BY <2>1, <2>4, <2>5, <2>6 DEF ProviderTypes
<1>4. ASSUME NEW e \in Exchanges, BreakOff(e) PROVE ProviderTypes'
  <2>1. << >> \in Seq(Waiting) /\ Len(<< >>) = 0
    OBVIOUS
  <2> QED BY <1>4, <2>1 DEF BreakOff, vars, ProviderTypes
<1>5. ASSUME NEW e \in Exchanges, NEW msg \in Messages[e], OnMessage(e, msg) PROVE ProviderTypes'
  <2>1. PICK items, q :
            /\ items \in Items(e, msg)
            /\ q = [k \in DOMAIN items |-> [serial |-> received[e] + k, item |-> items[k]]]
            /\ received' = [received EXCEPT ![e] = @ + Len(items)]
            /\ rest' = [rest EXCEPT ![e] = q]
    BY <1>5 DEF OnMessage
  <2>2. /\ Len(items) \in Nat /\ q \in Seq(Waiting)
        /\ \A k \in 1 .. Len(q) : q[k].item \in ItemsOf(e)
    BY <2>1, MessageRest
  <2>3. UNCHANGED <<reserved, source, accepted>>
    BY <1>5 DEF OnMessage, vars
  <2>4. reserved[e] = 0
    BY <1>5 DEF OnMessage, Handling, ProviderTypes
  <2>5. /\ rest' \in [Exchanges -> Seq(Waiting)]
        /\ rest'[e] = q /\ \A f \in Exchanges : f # e => rest'[f] = rest[f]
    BY <2>1, <2>2 DEF ProviderTypes
  <2>6. \A f \in Exchanges : \A k \in 1 .. Len(rest'[f]) : rest'[f][k].item \in ItemsOf(f)
    BY <2>2, <2>5 DEF ProviderTypes
  <2>7. received' \in [Exchanges -> Nat]
    BY <2>1, <2>2 DEF ProviderTypes
  <2>8. \A f \in Exchanges : reserved'[f] # 0 => rest'[f] # << >>
    BY <2>3, <2>4, <2>5 DEF ProviderTypes
  <2> QED BY <2>3, <2>5, <2>6, <2>7, <2>8 DEF ProviderTypes
<1> QED BY <1>1, <1>2, <1>3, <1>4, <1>5 DEF PipelineNext, ProviderStep

LEMMA ProvidersAlways == PipelineSpec => [](Base /\ ProviderTypes)
<1>1. Base /\ ProviderTypes /\ [PipelineNext]_pipelineVars => Base' /\ ProviderTypes'
  BY StepOfManager, BaseNext, NextProviders
<1> QED BY InitProviders, <1>1, PTL DEF PipelineSpec

\* With the three providers the consumer does nothing that it does not do with
\* pushes from anywhere: every instrument a provider makes of a message of the
\* feed has a builder.
THEOREM PipelineIsManager == PipelineSpec => Spec
<1>1. PipelineInit => Init
  BY DEF PipelineInit
<1>2. Base /\ ProviderTypes /\ [PipelineNext]_pipelineVars => [Next]_vars
  BY StepOfManager
<1> QED BY <1>1, <1>2, ProvidersAlways, PTL DEF PipelineSpec, Spec

\* So what is proved of the consumer holds in the pipeline: no trade is lost,
\* the callback is never called by two threads, nothing terminates, Stop emits
\* every processed trade, and the pipe is used as a queue.
THEOREM ConsumerInPipeline ==
  PipelineSpec => /\ [](TypeOK /\ NoTradeLost /\ CallbackNotConcurrent /\ NeverTerminates
                        /\ ProcessedIsEmitted /\ CandlesInOrder)
                  /\ PipeIsQueue
  BY PipelineIsManager, ManagerTypes, NoTradeLostCorrect, CallbackCorrect,
     NeverTerminatesCorrect, EmittedCorrect, InOrderCorrect, PipeCorrect, PTL

-----------------------------------------------------------------------------
(* The order of an exchange: its items wait in the order they were sent,   *)
(* and what was pushed comes before what waits.                            *)

Serials ==
    \A e \in Exchanges :
        /\ Len(rest[e]) <= received[e]
        /\ \A k \in 1 .. Len(rest[e]) : rest[e][k].serial = received[e] - Len(rest[e]) + k

\* How many items of an exchange are no longer waiting.
Passed(e) == received[e] - Len(rest[e]) + (IF reserved[e] = 0 THEN 0 ELSE 1)

Sources ==
    /\ \A m \in 1 .. accepted : source[m].serial <= Passed(source[m].exchange)
    /\ \A m, n \in 1 .. accepted :
           m < n /\ source[m].exchange = source[n].exchange => source[m].serial < source[n].serial

Ordered == Serials /\ Sources

LEMMA InitOrdered == PipelineInit => Ordered
  BY DEF PipelineInit, Init, Ordered, Serials, Sources

LEMMA SourceTypes ==
  ASSUME ProviderTypes, NEW m \in 1 .. accepted
  PROVE  source[m].exchange \in Exchanges /\ source[m].serial \in Nat
<1> source[m] \in SourceType
  BY ElementOfSeq DEF ProviderTypes
<1> QED BY DEF SourceType

LEMMA NextOrdered ==
  Base /\ ProviderTypes /\ Ordered /\ [PipelineNext]_pipelineVars => Ordered'
<1> SUFFICES ASSUME Base, ProviderTypes, Ordered, [PipelineNext]_pipelineVars PROVE Ordered'
  OBVIOUS
<1>a. accepted \in Nat /\ source \in Seq(SourceType) /\ Len(source) = accepted
  BY Lengths DEF Base, ProviderTypes
<1>b. \A e \in Exchanges : Len(rest[e]) \in Nat /\ received[e] \in Nat /\ reserved[e] \in Nat
  BY LenProperties DEF ProviderTypes
<1>c. \A m \in 1 .. accepted : source[m].exchange \in Exchanges /\ source[m].serial \in Nat
  BY SourceTypes
<1>1. CASE UNCHANGED pipelineVars \/ ManagerStep
  <2> UNCHANGED <<providerVars, accepted>>
    BY <1>1, ManagerLeavesProviders DEF pipelineVars, vars
  <2> QED BY DEF Ordered, Serials, Sources, Passed, providerVars
\* A step that adds no trade, and lets no item pass twice.
<1>2. ASSUME UNCHANGED <<source, accepted>>, Serials',
             \A e \in Exchanges : Passed(e) <= Passed(e)' /\ Passed(e) \in Int /\ Passed(e)' \in Int
      PROVE  Ordered'
  <2>1. ASSUME NEW m \in 1 .. accepted PROVE source[m].serial <= Passed(source[m].exchange)'
    <3> PICK e \in Exchanges : e = source[m].exchange
      BY <1>c
    <3>1. source[m].serial <= Passed(e)
      BY DEF Ordered, Sources
    <3>2. source[m].serial \in Nat /\ Passed(e) <= Passed(e)' /\ Passed(e) \in Int /\ Passed(e)' \in Int
      BY <1>2, <1>c
    <3>3. source[m].serial <= Passed(e)'
      BY <3>1, <3>2
    <3> QED BY <1>2, <3>3
  <2> QED BY <1>2, <2>1 DEF Ordered, Sources
<1>3. ASSUME NEW e \in Exchanges, PushItem(e) PROVE Ordered'
  <2> DEFINE new == [exchange |-> e, serial |-> Head(rest[e]).serial,
                     symbol |-> Head(rest[e]).item.symbol]
  <2>1. /\ accepted' = accepted + 1 /\ UNCHANGED <<rest, received>>
        /\ reserved' = [reserved EXCEPT ![e] = accepted'] /\ reserved[e] = 0 /\ rest[e] # << >>
        /\ source' = Append(source, new)
    BY <1>3 DEF PushItem, PushTrade, Handling
  <2>2. Head(rest[e]) = rest[e][1] /\ Len(rest[e]) \in Nat \ {0}
    BY <2>1, HeadOfRest
  <2>3. Head(rest[e]).serial = received[e] - Len(rest[e]) + 1
    BY <2>2 DEF Ordered, Serials
  <2>4. source'[accepted + 1] = new /\ \A m \in 1 .. accepted : source'[m] = source[m]
    BY <1>a, <2>1
  <2>5. new.exchange = e /\ new.serial = received[e] - Len(rest[e]) + 1
    BY <2>3
  <2> HIDE DEF new
  <2>6. reserved'[e] # 0 /\ \A f \in Exchanges : f # e => reserved'[f] = reserved[f]
    BY <1>a, <2>1 DEF ProviderTypes
  <2>7. /\ Passed(e) = received[e] - Len(rest[e])
        /\ Passed(e)' = received[e] - Len(rest[e]) + 1
        /\ \A f \in Exchanges : f # e => Passed(f)' = Passed(f)
    BY <1>b, <2>1, <2>6 DEF Passed
  <2>8. Serials'
    BY <2>1 DEF Ordered, Serials
  <2>9. ASSUME NEW m \in 1 .. accepted, source[m].exchange = e
        PROVE  source[m].serial < new.serial
    BY <1>b, <1>c, <2>5, <2>7, <2>9 DEF Ordered, Sources
  <2>10. ASSUME NEW m \in 1 .. accepted'
         PROVE  (source[m].serial <= Passed(source[m].exchange))'
    <3>1. CASE m \in 1 .. accepted
      <4> PICK f \in Exchanges : f = source[m].exchange /\ f = source'[m].exchange
        BY <1>c, <2>4, <3>1
      <4>1. source[m].serial <= Passed(f)
        BY <3>1 DEF Ordered, Sources
      <4>2. source[m].serial <= Passed(f)'
        BY <1>b, <1>c, <2>7, <3>1, <4>1
      <4> QED BY <2>4, <3>1, <4>2
    <3>2. CASE m = accepted + 1
      BY <1>b, <2>4, <2>5, <2>7, <3>2
    <3> QED BY <1>a, <2>1, <3>1, <3>2
  <2>11. ASSUME NEW m \in 1 .. accepted', NEW n \in 1 .. accepted', m < n,
                source'[m].exchange = source'[n].exchange
         PROVE  source'[m].serial < source'[n].serial
    <3>1. CASE n \in 1 .. accepted
      BY <1>a, <2>4, <2>11, <3>1 DEF Ordered, Sources
    <3>2. CASE n = accepted + 1
      BY <1>a, <2>4, <2>5, <2>9, <2>11, <3>2
    <3> QED BY <1>a, <2>1, <3>1, <3>2
  <2> QED BY <2>8, <2>10, <2>11 DEF Ordered, Sources
<1>4. ASSUME NEW e \in Exchanges, PublishItem(e) \/ RefuseItem(e) PROVE Ordered'
  <2>1. /\ UNCHANGED <<received, source, accepted>> /\ rest[e] # << >>
        /\ rest' = [rest EXCEPT ![e] = Tail(@)]
    BY <1>4 DEF PublishItem, RefuseItem, PublishTrade, vars, Handling, ProviderTypes
  <2>2. /\ Len(Tail(rest[e])) = Len(rest[e]) - 1 /\ Len(rest[e]) \in Nat \ {0}
        /\ \A k \in 1 .. Len(Tail(rest[e])) : Tail(rest[e])[k] = rest[e][k + 1]
    BY <2>1, HeadOfRest
  <2>3. /\ \A f \in Exchanges : f # e => rest'[f] = rest[f]
        /\ Len(rest'[e]) = Len(rest[e]) - 1
        /\ \A k \in 1 .. Len(rest'[e]) : rest'[e][k] = rest[e][k + 1]
    <3> rest'[e] = Tail(rest[e])
      BY <2>1 DEF ProviderTypes
    <3> QED BY <2>1, <2>2 DEF ProviderTypes
  <2>4. Serials'
    <3>1. ASSUME NEW k \in 1 .. Len(rest'[e])
          PROVE  rest'[e][k].serial = received[e] - Len(rest'[e]) + k
      <4>1. k + 1 \in 1 .. Len(rest[e]) /\ rest'[e][k] = rest[e][k + 1]
        BY <1>b, <2>3
      <4>2. rest[e][k + 1].serial = received[e] - Len(rest[e]) + (k + 1)
        BY <4>1 DEF Ordered, Serials
      <4> QED BY <1>b, <2>3, <4>1, <4>2
    <3>2. Len(rest'[e]) <= received[e]
      BY <1>b, <2>3 DEF Ordered, Serials
    <3> QED BY <2>1, <2>3, <3>1, <3>2 DEF Ordered, Serials
  <2>5. /\ reserved'[e] = 0 /\ \A f \in Exchanges : f # e => reserved'[f] = reserved[f]
    <3>1. reserved' = [reserved EXCEPT ![e] = 0] \/ (reserved' = reserved /\ reserved[e] = 0)
      BY <1>4 DEF PublishItem, RefuseItem
    <3> QED BY <3>1 DEF ProviderTypes
  <2>6. /\ Passed(e) \in Int /\ Passed(e)' \in Int /\ Passed(e) <= Passed(e)'
        /\ \A f \in Exchanges : f # e => Passed(f)' = Passed(f) /\ Passed(f) \in Int
    BY <1>b, <2>1, <2>3, <2>5 DEF Passed
  <2> QED BY <1>2, <2>1, <2>4, <2>6
<1>5. ASSUME NEW e \in Exchanges, BreakOff(e) PROVE Ordered'
  <2>1. /\ UNCHANGED <<received, source, accepted, reserved>> /\ reserved[e] = 0
        /\ rest' = [rest EXCEPT ![e] = << >>]
    BY <1>5 DEF BreakOff, vars
  <2>2. rest'[e] = << >> /\ Len(rest'[e]) = 0 /\ \A f \in Exchanges : f # e => rest'[f] = rest[f]
    BY <2>1 DEF ProviderTypes
  <2>3. Serials'
    BY <1>b, <2>1, <2>2 DEF Ordered, Serials
  <2>4. /\ Passed(e) \in Int /\ Passed(e)' \in Int /\ Passed(e) <= Passed(e)'
        /\ \A f \in Exchanges : f # e => Passed(f)' = Passed(f) /\ Passed(f) \in Int
    BY <1>b, <2>1, <2>2 DEF Passed
  <2> QED BY <1>2, <2>1, <2>3, <2>4
<1>6. ASSUME NEW e \in Exchanges, NEW msg \in Messages[e], OnMessage(e, msg) PROVE Ordered'
  <2>1. PICK items, q :
            /\ items \in Items(e, msg)
            /\ q = [k \in DOMAIN items |-> [serial |-> received[e] + k, item |-> items[k]]]
            /\ received' = [received EXCEPT ![e] = @ + Len(items)]
            /\ rest' = [rest EXCEPT ![e] = q]
    BY <1>6 DEF OnMessage
  <2>2. /\ Len(items) \in Nat /\ Len(q) = Len(items)
        /\ \A k \in 1 .. Len(q) : q[k].serial = received[e] + k
    BY <2>1, MessageRest
  <2>3. UNCHANGED <<reserved, source, accepted>> /\ rest[e] = << >> /\ reserved[e] = 0
    BY <1>6 DEF OnMessage, Handling, vars, ProviderTypes
  <2>4. /\ rest'[e] = q /\ \A f \in Exchanges : f # e => rest'[f] = rest[f]
        /\ received'[e] = received[e] + Len(q)
        /\ \A f \in Exchanges : f # e => received'[f] = received[f]
    BY <2>1, <2>2 DEF ProviderTypes
  <2>5. Serials'
    BY <1>b, <2>2, <2>4 DEF Ordered, Serials
  <2>6. /\ Passed(e) \in Int /\ Passed(e)' \in Int /\ Passed(e) <= Passed(e)'
        /\ \A f \in Exchanges : f # e => Passed(f)' = Passed(f) /\ Passed(f) \in Int
    BY <1>b, <2>2, <2>3, <2>4, EmptySeq DEF Passed
  <2> QED BY <1>2, <2>3, <2>5, <2>6
<1> QED BY <1>1, <1>3, <1>4, <1>5, <1>6 DEF PipelineNext, ProviderStep

LEMMA OrderedIsKept == Base /\ ProviderTypes /\ Ordered => ExchangeOrderKept
<1> SUFFICES ASSUME Base, ProviderTypes, Ordered, NEW j \in DOMAIN processed, NEW k \in DOMAIN processed,
                    Before(processed[j][2], processed[k][2])
             PROVE  j < k
  BY DEF ExchangeOrderKept
<1>1. /\ j \in 1 .. Len(processed) /\ k \in 1 .. Len(processed)
      /\ Len(processed) \in Nat /\ accepted \in Nat /\ Len(pipe) \in Nat
  BY LenProperties, Lengths DEF Base, Types
<1>2. processed[j][2] = j /\ processed[k][2] = k
  BY <1>1 DEF Base, Numbered
<1>3. j \in 1 .. accepted /\ k \in 1 .. accepted
  BY <1>1 DEF Base, Numbered, InHand
<1>4. source[j].exchange = source[k].exchange /\ source[j].serial < source[k].serial
  BY <1>2 DEF Before
<1>5. source[j].serial \in Nat /\ source[k].serial \in Nat
  BY <1>3, SourceTypes
<1>6. k < j => source[k].serial < source[j].serial
  BY <1>3, <1>4 DEF Ordered, Sources
<1>7. k # j
  BY <1>4, <1>5
<1> QED BY <1>1, <1>4, <1>5, <1>6, <1>7

\* The trades of an exchange are processed in the order in which it sent them,
\* however the three providers interleave, and whatever is refused by a full
\* pipe or lost with the rest of a message.
THEOREM OrderCorrect == PipelineSpec => []ExchangeOrderKept
<1>1. PipelineInit => Base /\ ProviderTypes /\ Ordered
  BY InitProviders, InitOrdered
<1>2. Base /\ ProviderTypes /\ Ordered /\ [PipelineNext]_pipelineVars
        => Base' /\ ProviderTypes' /\ Ordered'
  BY StepOfManager, BaseNext, NextProviders, NextOrdered
<1> QED BY <1>1, <1>2, OrderedIsKept, PTL DEF PipelineSpec

-----------------------------------------------------------------------------
(* The places of the pipe that wait for their trade.                       *)

Owned ==
    /\ \A e \in Exchanges : reserved[e] # 0 =>
           /\ reserved[e] \in 1 .. accepted /\ source[reserved[e]].exchange = e
           /\ \E k \in 1 .. Len(pipe) : ~pipe[k].ready /\ pipe[k].item[2] = reserved[e]
    /\ \A k \in 1 .. Len(pipe) : ~pipe[k].ready =>
           \E e \in Exchanges : reserved[e] # 0 /\ reserved[e] = pipe[k].item[2]

LEMMA InitOwned == PipelineInit => Owned
  BY EmptySeq DEF PipelineInit, Init, Owned

\* What a provider's steps do to the pipe.
LEMMA PushedPlace ==
  ASSUME Types, NEW i \in Instruments, PushTrade(i)
  PROVE  ~pipe'[Len(pipe) + 1].ready
<1>1. accepted \in 0 .. MaxTrades /\ accepted < MaxTrades /\ pipe \in Seq(Entry)
  BY DEF Types, TypeOK, PushTrade, Entry, TradeType
<1> DEFINE e == [item |-> <<i, accepted + 1>>, ready |-> FALSE]
<1>2. e \in Entry /\ ~e.ready
  BY <1>1, ManagerAssumption DEF Entry, TradeType
<1>3. pipe' = Append(pipe, e)
  BY DEF PushTrade
<1> HIDE DEF e
<1>4. pipe'[Len(pipe) + 1] = e
  BY <1>1, <1>2, <1>3, AppendProperties
<1> QED BY <1>2, <1>4

LEMMA PublishedPlace ==
  ASSUME Types, NEW k \in DOMAIN pipe, PublishTrade(k)
  PROVE  /\ Len(pipe') = Len(pipe) /\ ~pipe[k].ready /\ k \in 1 .. Len(pipe)
         /\ pipe'[k].ready
         /\ \A j \in 1 .. Len(pipe) : pipe'[j].item = pipe[j].item
         /\ \A j \in 1 .. Len(pipe) : j # k => pipe'[j] = pipe[j]
<1>1. pipe \in Seq(Entry) /\ k \in 1 .. Len(pipe)
  BY LenProperties DEF Types, TypeOK, Entry, TradeType
<1>2. pipe[k] \in Entry
  BY <1>1, ElementOfSeq
<1> DEFINE e == [pipe[k] EXCEPT !.ready = TRUE]
<1>3. e \in Entry /\ e.item = pipe[k].item /\ e.ready
  BY <1>2 DEF Entry
<1>4. pipe' = [pipe EXCEPT ![k] = e] /\ ~pipe[k].ready
  BY DEF PublishTrade
<1> HIDE DEF e
<1>5. /\ Len(pipe') = Len(pipe)
      /\ \A j \in 1 .. Len(pipe) : pipe'[j] = IF j = k THEN e ELSE pipe[j]
  BY <1>1, <1>3, <1>4, ExceptSeq
<1> QED BY <1>1, <1>3, <1>4, <1>5

LEMMA PushedByProvider ==
  ASSUME Types, ProviderTypes, NEW e \in Exchanges, PushItem(e)
  PROVE  /\ accepted' = accepted + 1 /\ reserved[e] = 0
         /\ reserved'[e] = accepted + 1
         /\ \A f \in Exchanges : f # e => reserved'[f] = reserved[f]
         /\ UNCHANGED <<processed, trade>>
         /\ Len(pipe') = Len(pipe) + 1
         /\ \A k \in 1 .. Len(pipe) : pipe'[k] = pipe[k]
         /\ ~pipe'[Len(pipe) + 1].ready
         /\ pipe'[Len(pipe) + 1].item = <<Instrument(e, Head(rest[e]).item), accepted + 1>>
         /\ \A m \in 1 .. accepted : source'[m] = source[m]
         /\ source'[accepted + 1].exchange = e
         /\ source'[accepted + 1].symbol = Head(rest[e]).item.symbol
         /\ Head(rest[e]).item \in ItemsOf(e)
<1>1. /\ rest[e] # << >> /\ reserved[e] = 0
      /\ PushTrade(Instrument(e, Head(rest[e]).item))
      /\ reserved' = [reserved EXCEPT ![e] = accepted']
  BY DEF PushItem, Handling
<1>2. Head(rest[e]).item \in ItemsOf(e)
  BY <1>1, HeadOfRest
<1>3. Instrument(e, Head(rest[e]).item) \in Instruments
  BY <1>2, InstrumentHasBuilder
<1>4. accepted' = accepted + 1 /\ UNCHANGED <<processed, trade>>
  BY <1>1 DEF PushTrade, workerVars
<1>5. accepted \in Nat /\ source \in Seq(SourceType) /\ Len(source) = accepted
  BY Lengths DEF ProviderTypes
<1> DEFINE new == [exchange |-> e, serial |-> Head(rest[e]).serial,
                   symbol |-> Head(rest[e]).item.symbol]
<1>6. source' = Append(source, new)
  BY DEF PushItem
<1>7. source'[accepted + 1] = new /\ \A m \in 1 .. accepted : source'[m] = source[m]
  BY <1>5, <1>6
<1>8. /\ reserved'[e] = accepted + 1
      /\ \A f \in Exchanges : f # e => reserved'[f] = reserved[f]
  BY <1>1, <1>4 DEF ProviderTypes
<1> QED BY <1>1, <1>2, <1>3, <1>4, <1>7, <1>8, PushedTypes, PushedPlace

LEMMA NextOwned ==
  Base /\ ProviderTypes /\ Owned /\ [PipelineNext]_pipelineVars => Owned'
<1> SUFFICES ASSUME Base, ProviderTypes, Owned, [PipelineNext]_pipelineVars PROVE Owned'
  OBVIOUS
<1>a. /\ accepted \in Nat /\ Len(pipe) \in Nat /\ Types
      /\ \A e \in Exchanges : reserved[e] \in Nat
  BY Lengths DEF Base, ProviderTypes
<1>1. ASSUME UNCHANGED <<reserved, source, accepted, pipe>> PROVE Owned'
  BY <1>1 DEF Owned
<1>2. CASE ManagerStep /\ ~(PopTrade /\ ~NothingToPop)
  <2>1. pipe' = pipe
    BY <1>2 DEF ManagerStep, OwnerCall, Start, Stop, OwnerStep, SpawnWorker, JoinWorker, StopReturns,
                DestroyMembers, EmitFinal, WorkerStep, CheckRunning, PopTrade, ProcessTrade
  <2> QED BY <1>1, <1>2, <2>1, ManagerLeavesProviders DEF providerVars
<1>3. CASE ManagerStep /\ PopTrade /\ ~NothingToPop
  <2>1. UNCHANGED <<reserved, source, accepted>>
    BY <1>3, ManagerLeavesProviders DEF providerVars
  <2>2. /\ pipe[1].ready /\ Len(pipe') = Len(pipe) - 1
        /\ \A k \in 1 .. Len(pipe') : pipe'[k] = pipe[k + 1]
    BY <1>a, <1>3, PoppedTypes
  <2>3. ASSUME NEW e \in Exchanges, reserved[e] # 0
        PROVE  \E k \in 1 .. Len(pipe') : ~pipe'[k].ready /\ pipe'[k].item[2] = reserved[e]
    <3>1. PICK k \in 1 .. Len(pipe) : ~pipe[k].ready /\ pipe[k].item[2] = reserved[e]
      BY <2>3 DEF Owned
    <3>2. k # 1
      BY <2>2, <3>1
    <3>3. k - 1 \in 1 .. Len(pipe') /\ (k - 1) + 1 = k
      BY <1>a, <2>2, <3>2
    <3>4. pipe'[k - 1] = pipe[k]
      BY <2>2, <3>3
    <3> QED BY <3>1, <3>3, <3>4
  <2>4. ASSUME NEW k \in 1 .. Len(pipe'), ~pipe'[k].ready
        PROVE  \E e \in Exchanges : reserved[e] # 0 /\ reserved[e] = pipe'[k].item[2]
    <3>1. k + 1 \in 1 .. Len(pipe) /\ pipe'[k] = pipe[k + 1]
      BY <1>a, <2>2
    <3> QED BY <2>4, <3>1 DEF Owned
  <2> QED BY <2>1, <2>3, <2>4 DEF Owned
<1>4. ASSUME NEW e \in Exchanges, PushItem(e) PROVE Owned'
  <2>1. /\ accepted' = accepted + 1 /\ reserved[e] = 0
        /\ reserved'[e] = accepted + 1
        /\ \A f \in Exchanges : f # e => reserved'[f] = reserved[f]
        /\ Len(pipe') = Len(pipe) + 1
        /\ \A k \in 1 .. Len(pipe) : pipe'[k] = pipe[k]
        /\ ~pipe'[Len(pipe) + 1].ready
        /\ pipe'[Len(pipe) + 1].item[2] = accepted + 1
        /\ \A m \in 1 .. accepted : source'[m] = source[m]
        /\ source'[accepted + 1].exchange = e
    BY <1>4, <1>a, PushedByProvider
  <2>2. Len(pipe) + 1 \in 1 .. Len(pipe') /\ accepted + 1 \in 1 .. accepted'
        /\ 1 .. Len(pipe) \subseteq 1 .. Len(pipe')
    BY <1>a, <2>1
  <2>3. ASSUME NEW f \in Exchanges, f # e, reserved'[f] # 0
        PROVE  /\ reserved'[f] \in 1 .. accepted' /\ source'[reserved'[f]].exchange = f
               /\ \E k \in 1 .. Len(pipe') : ~pipe'[k].ready /\ pipe'[k].item[2] = reserved'[f]
    <3>1. reserved'[f] = reserved[f]
      BY <2>1, <2>3
    <3>2. /\ reserved[f] \in 1 .. accepted /\ source[reserved[f]].exchange = f
      BY <2>3, <3>1 DEF Owned
    <3>3. PICK k \in 1 .. Len(pipe) : ~pipe[k].ready /\ pipe[k].item[2] = reserved[f]
      BY <2>3, <3>1 DEF Owned
    <3>4. k \in 1 .. Len(pipe') /\ pipe'[k] = pipe[k]
      BY <2>1, <2>2
    <3>5. reserved[f] \in 1 .. accepted'
      BY <1>a, <2>1, <3>2
    <3> QED BY <2>1, <3>1, <3>2, <3>3, <3>4, <3>5
  <2>4. ASSUME NEW k \in 1 .. Len(pipe'), ~pipe'[k].ready
        PROVE  \E f \in Exchanges : reserved'[f] # 0 /\ reserved'[f] = pipe'[k].item[2]
    <3>1. CASE k \in 1 .. Len(pipe)
      <4>1. pipe'[k] = pipe[k]
        BY <2>1, <3>1
      <4>2. PICK f \in Exchanges : reserved[f] # 0 /\ reserved[f] = pipe[k].item[2]
        BY <2>4, <3>1, <4>1 DEF Owned
      <4> QED BY <2>1, <4>1, <4>2
    <3>2. CASE k = Len(pipe) + 1
      BY <1>a, <2>1, <3>2
    <3> QED BY <1>a, <2>1, <3>1, <3>2
  <2>5. reserved'[e] # 0 /\ reserved'[e] \in 1 .. accepted' /\ source'[reserved'[e]].exchange = e
    BY <1>a, <2>1, <2>2
  <2> QED BY <2>1, <2>2, <2>3, <2>4, <2>5 DEF Owned
<1>5. ASSUME NEW e \in Exchanges, PublishItem(e) PROVE Owned'
  <2>1. PICK k0 \in DOMAIN pipe : pipe[k0].item[2] = reserved[e] /\ PublishTrade(k0)
    BY <1>5 DEF PublishItem
  <2>2. /\ Len(pipe') = Len(pipe) /\ k0 \in 1 .. Len(pipe) /\ pipe'[k0].ready
        /\ \A j \in 1 .. Len(pipe) : j # k0 => pipe'[j] = pipe[j]
    BY <1>a, <2>1, PublishedPlace
  <2>3. UNCHANGED <<source, accepted>> /\ reserved[e] # 0 /\ reserved' = [reserved EXCEPT ![e] = 0]
    BY <1>5, <2>1 DEF PublishItem, PublishTrade
  <2>4. reserved'[e] = 0 /\ \A f \in Exchanges : f # e => reserved'[f] = reserved[f]
    BY <2>3 DEF ProviderTypes
  <2>5. ASSUME NEW f \in Exchanges, reserved'[f] # 0
        PROVE  /\ reserved'[f] \in 1 .. accepted /\ source[reserved'[f]].exchange = f
               /\ \E k \in 1 .. Len(pipe') : ~pipe'[k].ready /\ pipe'[k].item[2] = reserved'[f]
    <3>1. f # e /\ reserved'[f] = reserved[f]
      BY <2>4, <2>5
    <3>2. reserved[f] \in 1 .. accepted /\ source[reserved[f]].exchange = f
      BY <2>5, <3>1 DEF Owned
    <3>3. PICK k \in 1 .. Len(pipe) : ~pipe[k].ready /\ pipe[k].item[2] = reserved[f]
      BY <2>5, <3>1 DEF Owned
    <3>4. source[reserved[e]].exchange = e
      BY <2>3 DEF Owned
    <3>5. k # k0
      BY <2>1, <3>1, <3>2, <3>3, <3>4
    <3> QED BY <2>2, <3>1, <3>2, <3>3, <3>5
  <2>6. ASSUME NEW k \in 1 .. Len(pipe'), ~pipe'[k].ready
        PROVE  \E f \in Exchanges : reserved'[f] # 0 /\ reserved'[f] = pipe'[k].item[2]
    <3>1. k # k0 /\ pipe'[k] = pipe[k] /\ k \in 1 .. Len(pipe)
      BY <2>2, <2>6
    <3>2. PICK f \in Exchanges : reserved[f] # 0 /\ reserved[f] = pipe[k].item[2]
      BY <2>6, <3>1 DEF Owned
    <3>3. pipe[k].item[2] # pipe[k0].item[2]
      BY <1>a, <2>2, <3>1 DEF Base, Numbered
    <3>4. f # e
      BY <2>1, <3>2, <3>3
    <3> QED BY <2>4, <3>1, <3>2, <3>4
  <2> QED BY <2>3, <2>5, <2>6 DEF Owned
<1>6. ASSUME NEW e \in Exchanges, RefuseItem(e) \/ BreakOff(e) \/ \E msg \in Messages[e] : OnMessage(e, msg)
      PROVE  Owned'
  BY <1>1, <1>6 DEF RefuseItem, BreakOff, OnMessage, vars
<1>7. CASE UNCHANGED pipelineVars
  BY <1>1, <1>7 DEF pipelineVars, providerVars, vars
<1> QED BY <1>2, <1>3, <1>4, <1>5, <1>6, <1>7 DEF PipelineNext, ProviderStep

LEMMA OwnedIsReserved == Base /\ ProviderTypes /\ Owned => ReservedIsOwned
<1> SUFFICES ASSUME Base, ProviderTypes, Owned PROVE ReservedIsOwned
  OBVIOUS
<1>1. DOMAIN pipe = 1 .. Len(pipe)
  BY LenProperties DEF Base, Types, TypeOK
<1>2. ASSUME NEW e \in Exchanges, reserved[e] # 0
      PROVE  Handling(e) /\ source[reserved[e]].exchange = e
  BY <1>2 DEF Owned, ProviderTypes, Handling
<1>3. {pipe[k].item[2] : k \in {j \in DOMAIN pipe : ~pipe[j].ready}}
          = {reserved[e] : e \in Exchanges} \ {0}
  <2> DEFINE L == {pipe[k].item[2] : k \in {j \in DOMAIN pipe : ~pipe[j].ready}}
             R == {reserved[e] : e \in Exchanges} \ {0}
  <2>1. ASSUME NEW n \in L PROVE n \in R
    BY <1>1 DEF Owned
  <2>2. ASSUME NEW n \in R PROVE n \in L
    <3>1. PICK e \in Exchanges : n = reserved[e] /\ reserved[e] # 0
      OBVIOUS
    <3>2. PICK k \in 1 .. Len(pipe) : ~pipe[k].ready /\ pipe[k].item[2] = reserved[e]
      BY <3>1 DEF Owned
    <3> QED BY <1>1, <3>1, <3>2
  <2> HIDE DEF L, R
  <2>3. L = R
    BY <2>1, <2>2
  <2> QED BY <2>3 DEF L, R
<1> QED BY <1>2, <1>3 DEF ReservedIsOwned

\* Each place of the pipe that holds back those behind it has a provider that
\* is about to publish it, and no provider waits for a place it does not have.
THEOREM ReservedCorrect == PipelineSpec => []ReservedIsOwned
<1>1. PipelineInit => Base /\ ProviderTypes /\ Owned
  BY InitProviders, InitOwned
<1>2. Base /\ ProviderTypes /\ Owned /\ [PipelineNext]_pipelineVars
        => Base' /\ ProviderTypes' /\ Owned'
  BY StepOfManager, BaseNext, NextProviders, NextOwned
<1> QED BY <1>1, <1>2, OwnedIsReserved, PTL DEF PipelineSpec

-----------------------------------------------------------------------------
(* The names of the trades.                                                *)

\* The n-th trade, if it has a name, has that of its item.
Match(i, n) == source[n].symbol # Missing => i = Symbol(source[n].symbol.name, "upper")

Matched ==
    /\ \A m \in 1 .. Len(processed) : Match(processed[m][1], m)
    /\ trade # NoTrade => Match(trade[1], Len(processed) + 1)
    /\ \A k \in 1 .. Len(pipe) : Match(pipe[k].item[1], accepted - Len(pipe) + k)

LEMMA InitMatched == PipelineInit => Matched
  BY EmptySeq DEF PipelineInit, Init, Matched

LEMMA NextMatched ==
  Base /\ ProviderTypes /\ Matched /\ [PipelineNext]_pipelineVars => Matched'
<1> SUFFICES ASSUME Base, ProviderTypes, Matched, [PipelineNext]_pipelineVars PROVE Matched'
  OBVIOUS
<1>a. /\ accepted \in Nat /\ Len(pipe) \in Nat /\ Len(processed) \in Nat /\ Types
      /\ Len(processed) + InHand + Len(pipe) = accepted /\ InHand \in Nat
      /\ trade # NoTrade => InHand = 1
  BY Lengths DEF Base, Numbered, InHand
<1>1. ASSUME UNCHANGED <<source, accepted, processed, trade, pipe>> PROVE Matched'
  BY <1>1 DEF Matched, Match
<1>2. CASE ManagerStep /\ ~(PopTrade /\ ~NothingToPop) /\ ~ProcessTrade
  <2>1. UNCHANGED <<processed, trade, pipe>>
    BY <1>2 DEF ManagerStep, OwnerCall, Start, Stop, OwnerStep, SpawnWorker, JoinWorker, StopReturns,
                DestroyMembers, EmitFinal, WorkerStep, CheckRunning, PopTrade, workerVars
  <2> QED BY <1>1, <1>2, <2>1, ManagerLeavesProviders DEF providerVars
<1>3. CASE ManagerStep /\ PopTrade /\ ~NothingToPop
  <2>1. UNCHANGED <<source, accepted, processed>>
    BY <1>3, ManagerLeavesProviders DEF providerVars, PopTrade
  <2>2. /\ trade' = pipe[1].item /\ Len(pipe') = Len(pipe) - 1 /\ trade = NoTrade
        /\ \A k \in 1 .. Len(pipe') : pipe'[k] = pipe[k + 1]
        /\ pipe # << >> /\ pipe' \in Seq(Entry)
    BY <1>a, <1>3, PoppedTypes
  <2>3. Len(pipe') \in Nat
    BY <2>2, LenProperties
  <2>4. 1 \in 1 .. Len(pipe) /\ accepted - Len(pipe) + 1 = Len(processed) + 1
    <3>1. InHand = 0
      BY <2>2 DEF InHand
    <3>2. Len(pipe) >= 1
      BY <1>a, <2>2, <2>3
    <3> QED BY <1>a, <3>1, <3>2
  <2>5. Match(pipe[1].item[1], Len(processed) + 1)
    BY <2>4 DEF Matched
  <2>6. ASSUME NEW k \in 1 .. Len(pipe') PROVE Match(pipe'[k].item[1], accepted - Len(pipe') + k)
    <3>1. /\ k + 1 \in 1 .. Len(pipe) /\ pipe'[k] = pipe[k + 1]
          /\ accepted - Len(pipe') + k = accepted - Len(pipe) + (k + 1)
      BY <1>a, <2>2
    <3> QED BY <3>1 DEF Matched
  <2> QED BY <2>1, <2>2, <2>5, <2>6 DEF Matched, Match
<1>4. CASE ManagerStep /\ ProcessTrade
  <2>1. UNCHANGED <<source, accepted, pipe>> /\ trade' = NoTrade /\ trade # NoTrade
    BY <1>a, <1>4, ManagerLeavesProviders DEF providerVars, ProcessTrade, Types, TypeOK
  <2>2. /\ Len(processed') = Len(processed) + 1
        /\ \A k \in 1 .. Len(processed) : processed'[k] = processed[k]
        /\ processed'[Len(processed) + 1] = trade
    BY <1>a, <1>4, ProcessedTypes
  <2>3. ASSUME NEW m \in 1 .. Len(processed') PROVE Match(processed'[m][1], m)
    <3>1. CASE m \in 1 .. Len(processed)
      BY <2>2, <3>1 DEF Matched
    <3>2. CASE m = Len(processed) + 1
      BY <2>1, <2>2, <3>2 DEF Matched
    <3> QED BY <1>a, <2>2, <3>1, <3>2
  <2> QED BY <2>1, <2>3 DEF Matched, Match
<1>5. ASSUME NEW e \in Exchanges, PushItem(e) PROVE Matched'
  <2> DEFINE item == Head(rest[e]).item
  <2>1. /\ accepted' = accepted + 1
        /\ UNCHANGED <<processed, trade>>
        /\ Len(pipe') = Len(pipe) + 1
        /\ \A k \in 1 .. Len(pipe) : pipe'[k] = pipe[k]
        /\ pipe'[Len(pipe) + 1].item[1] = Instrument(e, item)
        /\ \A m \in 1 .. accepted : source'[m] = source[m]
        /\ source'[accepted + 1].symbol = item.symbol
        /\ item \in ItemsOf(e)
    BY <1>5, <1>a, PushedByProvider
  <2>2. item.symbol # Missing => Instrument(e, item) = Symbol(item.symbol.name, "upper")
    BY <2>1, InstrumentOfFeed DEF ItemsOf, FeedItems, Blank
  <2> HIDE DEF item
  <2>3. ASSUME NEW m \in 1 .. Len(processed) PROVE Match(processed[m][1], m)'
    <3>1. m \in 1 .. accepted
      BY <1>a
    <3>2. Match(processed[m][1], m)
      BY DEF Matched
    <3> QED BY <2>1, <3>1, <3>2 DEF Match
  <2>4. ASSUME trade # NoTrade PROVE Match(trade[1], Len(processed) + 1)'
    <3>1. Len(processed) + 1 \in 1 .. accepted
      BY <1>a, <2>4
    <3>2. Match(trade[1], Len(processed) + 1)
      BY <2>4 DEF Matched
    <3> QED BY <2>1, <3>1, <3>2 DEF Match
  <2>5. ASSUME NEW k \in 1 .. Len(pipe') PROVE Match(pipe[k].item[1], accepted - Len(pipe) + k)'
    <3>1. CASE k \in 1 .. Len(pipe)
      <4>1. /\ accepted - Len(pipe) + k \in 1 .. accepted
            /\ accepted' - Len(pipe') + k = accepted - Len(pipe) + k
        BY <1>a, <2>1, <3>1
      <4>2. Match(pipe[k].item[1], accepted - Len(pipe) + k)
        BY <3>1 DEF Matched
      <4> QED BY <2>1, <3>1, <4>1, <4>2 DEF Match
    <3>2. CASE k = Len(pipe) + 1
      <4>1. accepted' - Len(pipe') + k = accepted + 1
        BY <1>a, <2>1, <3>2
      <4> QED BY <2>1, <2>2, <3>2, <4>1 DEF Match
    <3> QED BY <1>a, <2>1, <3>1, <3>2
  <2> QED BY <2>1, <2>3, <2>4, <2>5 DEF Matched
<1>6. ASSUME NEW e \in Exchanges, PublishItem(e) PROVE Matched'
  <2>1. PICK k0 \in DOMAIN pipe : PublishTrade(k0)
    BY <1>6 DEF PublishItem
  <2>2. Len(pipe') = Len(pipe) /\ \A j \in 1 .. Len(pipe) : pipe'[j].item = pipe[j].item
    BY <1>a, <2>1, PublishedPlace
  <2>3. UNCHANGED <<source, accepted, processed, trade>>
    BY <1>6, <2>1 DEF PublishItem, PublishTrade, workerVars
  <2> QED BY <2>2, <2>3 DEF Matched, Match
<1>7. ASSUME NEW e \in Exchanges, RefuseItem(e) \/ BreakOff(e) \/ \E msg \in Messages[e] : OnMessage(e, msg)
      PROVE  Matched'
  BY <1>1, <1>7 DEF RefuseItem, BreakOff, OnMessage, vars, workerVars
<1>8. CASE UNCHANGED pipelineVars
  BY <1>1, <1>8 DEF pipelineVars, providerVars, vars, workerVars
<1> QED BY <1>2, <1>3, <1>4, <1>5, <1>6, <1>7, <1>8 DEF PipelineNext, ProviderStep

LEMMA MatchedIsConsolidated == Base /\ ProviderTypes /\ Matched => Consolidated
<1> SUFFICES ASSUME Base, ProviderTypes, Matched, NEW j \in DOMAIN processed, NEW k \in DOMAIN processed,
                    source[processed[j][2]].symbol # Missing,
                    source[processed[k][2]].symbol # Missing
             PROVE  processed[j][1] = processed[k][1]
                      <=> source[processed[j][2]].symbol.name = source[processed[k][2]].symbol.name
  BY DEF Consolidated
<1>1. j \in 1 .. Len(processed) /\ k \in 1 .. Len(processed)
  BY LenProperties DEF Base, Types
<1>2. processed[j][2] = j /\ processed[k][2] = k
  BY <1>1 DEF Base, Numbered
<1>3. /\ processed[j][1] = Symbol(source[j].symbol.name, "upper")
      /\ processed[k][1] = Symbol(source[k].symbol.name, "upper")
  BY <1>1, <1>2 DEF Matched, Match
<1>4. \A a, b : Symbol(a, "upper") = Symbol(b, "upper") <=> a = b
  BY DEF Symbol
<1> QED BY <1>2, <1>3, <1>4

\* The trades of an instrument meet in one builder, whichever exchange they
\* come from, and the trades of two instruments never do.
THEOREM ConsolidatedCorrect == PipelineSpec => []Consolidated
<1>1. PipelineInit => Base /\ ProviderTypes /\ Matched
  BY InitProviders, InitMatched
<1>2. Base /\ ProviderTypes /\ Matched /\ [PipelineNext]_pipelineVars
        => Base' /\ ProviderTypes' /\ Matched'
  BY StepOfManager, BaseNext, NextProviders, NextMatched
<1> QED BY <1>1, <1>2, MatchedIsConsolidated, PTL DEF PipelineSpec
=============================================================================
