------------------------------ MODULE Pipeline ------------------------------
(***************************************************************************)
(* The service: the three exchange providers, each on the thread of its    *)
(* session, push their trades into one pipe, from which the consumer of    *)
(* ConsolidateCandleManager feeds the candle builders.                     *)
(*                                                                         *)
(* A trade is still <<instrument, n>>; source says where the n-th trade    *)
(* came from.  The items of an exchange are numbered as they come in.      *)
(***************************************************************************)
EXTENDS ConsolidateCandleManager, ExchangeProvider, Functions

CONSTANTS
    Configured,    \* the configured instruments
    Messages,      \* for each exchange: the messages it may send
    MaxReceived    \* bound: items received from all exchanges

ASSUME PipelineAssumption == MaxReceived \in Nat

\* The exchanges send trades of what they were asked for.
ASSUME MessagesAssumption ==
    \A e \in Exchanges : \A msg \in Messages[e] :
        msg.items \in Seq(FeedItems(e, Configured))

\* There is a builder for each name a trade may get.
ASSUME NamesAssumption ==
    /\ NoName \in Instruments
    /\ \A s \in Configured : s = Symbol(s.name, s.form) /\ InForm(s, "upper") \in Instruments

VARIABLES
    rest,        \* of each exchange: the items [serial, item] still to push
    reserved,    \* the number of the trade that is being pushed, 0 for none
    received,    \* of each exchange: how many items have come in
    source       \* history: [exchange, serial, symbol] of each trade

providerVars == <<rest, reserved, received, source>>
pipelineVars == <<vars, providerVars>>

PipelineInit ==
    /\ Init
    /\ rest = [e \in Exchanges |-> <<>>]
    /\ reserved = [e \in Exchanges |-> 0]
    /\ received = [e \in Exchanges |-> 0]
    /\ source = <<>>

Handling(e) == rest[e] # <<>>

\* A message comes in, and OnMessage begins.
OnMessage(e, msg) ==
    /\ ~Handling(e)
    /\ \E items \in Items(e, msg) :
           /\ SumFunction(received) + Len(items) <= MaxReceived
           /\ received' = [received EXCEPT ![e] = @ + Len(items)]
           /\ rest' = [rest EXCEPT ![e] =
                  [k \in DOMAIN items |-> [serial |-> received[e] + k, item |-> items[k]]]]
    /\ UNCHANGED <<vars, reserved, source>>

\* The item at hand is a trade, and its push gets a place in the pipe.
PushItem(e) ==
    /\ Handling(e) /\ reserved[e] = 0
    /\ LET next == Head(rest[e])
       IN /\ ~Throws(e, next.item)
          /\ PushTrade(Instrument(e, next.item))
          /\ source' = Append(source, [exchange |-> e, serial |-> next.serial,
                                       symbol |-> next.item.symbol])
    /\ reserved' = [reserved EXCEPT ![e] = accepted']
    /\ UNCHANGED <<rest, received>>

\* Mutant: the sequence number is stored in the newest place.
PublishNewest(e) ==
    /\ reserved[e] # 0 /\ pipe # <<>>
    /\ PublishTrade(Len(pipe))
    /\ reserved' = [reserved EXCEPT ![e] = 0]
    /\ rest' = [rest EXCEPT ![e] = Tail(@)]
    /\ UNCHANGED <<received, source>>

\* The end of the push.
PublishItem(e) ==
    /\ reserved[e] # 0
    /\ \E k \in DOMAIN pipe : pipe[k].item[2] = reserved[e] /\ PublishTrade(k)
    /\ reserved' = [reserved EXCEPT ![e] = 0]
    /\ rest' = [rest EXCEPT ![e] = Tail(@)]
    /\ UNCHANGED <<received, source>>

\* Mutant: PushTrade tries again when it is refused.
RetryItem(e) ==
    /\ Handling(e) /\ reserved[e] = 0
    /\ accepted >= PipeCapacity
    /\ UNCHANGED pipelineVars

\* Push returns false: the trade is dropped, and the loop goes on.  The pipe is
\* full; or, once every cell has been used, the consumer has moved a trade out
\* and not yet released its cell, or the sequence that was loaded is outdated.
RefuseItem(e) ==
    /\ Handling(e) /\ reserved[e] = 0
    /\ ~Throws(e, Head(rest[e]).item)
    /\ accepted >= PipeCapacity
    /\ rest' = [rest EXCEPT ![e] = Tail(@)]
    /\ UNCHANGED <<vars, reserved, received, source>>

\* An exception leaves the loop, and is caught; the trades before are pushed.
BreakOff(e) ==
    /\ Handling(e) /\ reserved[e] = 0
    /\ Throws(e, Head(rest[e]).item)
    /\ rest' = [rest EXCEPT ![e] = <<>>]
    /\ UNCHANGED <<vars, reserved, received, source>>

-----------------------------------------------------------------------------
ProviderStep(e) == PushItem(e) \/ PublishItem(e) \/ RefuseItem(e) \/ BreakOff(e)

ManagerStep ==
    /\ OwnerCall \/ OwnerStep \/ WorkerStep
    /\ UNCHANGED providerVars

PipelineNext ==
    /\ ~terminated
    /\ \/ ManagerStep
       \/ \E e \in Exchanges : ProviderStep(e) \/ \E msg \in Messages[e] : OnMessage(e, msg)

PipelineSpec == PipelineInit /\ [][PipelineNext]_pipelineVars

\* Every thread runs; no message has to come, and nobody has to call.
PipelineFairSpec ==
    /\ PipelineSpec
    /\ WF_pipelineVars(~terminated /\ OwnerStep /\ UNCHANGED providerVars)
    /\ WF_pipelineVars(~terminated /\ WorkerStep /\ UNCHANGED providerVars)
    /\ \A e \in Exchanges : WF_pipelineVars(~terminated /\ ProviderStep(e))

-----------------------------------------------------------------------------
(* Properties.                                                             *)

\* The places of the pipe that are not yet published are exactly those that
\* the providers are filling, one each.
ReservedIsOwned ==
    /\ {pipe[k].item[2] : k \in {j \in DOMAIN pipe : ~pipe[j].ready}}
          = {reserved[e] : e \in Exchanges} \ {0}
    /\ \A e \in Exchanges : reserved[e] # 0 =>
           Handling(e) /\ source[reserved[e]].exchange = e

Before(m, n) ==
    /\ source[m].exchange = source[n].exchange
    /\ source[m].serial < source[n].serial

\* Whatever the threads do, the trades of an exchange reach the builders in
\* the order in which it sent them, although the trades of several exchanges
\* mix, some are refused and others lost with their message.
ExchangeOrderKept ==
    \A j, k \in DOMAIN processed :
        Before(processed[j][2], processed[k][2]) => j < k

\* Once an instrument is consolidated, its trades of all exchanges meet in one
\* builder: trades of one name are not spread over two, and a builder has the
\* trades of one name only.
Consolidated ==
    \A j, k \in DOMAIN processed :
        LET a == source[processed[j][2]].symbol
            b == source[processed[k][2]].symbol
        IN a # Missing /\ b # Missing =>
               (processed[j][1] = processed[k][1] <=> a.name = b.name)

\* OnMessage comes to its end, with no consumer running and the pipe full.
HandlersReturn == \A e \in Exchanges : Handling(e) ~> ~Handling(e)

\* While the consumer runs, a trade with a place in the pipe comes to a
\* builder: no provider that stops between its claim and its publish holds up
\* the others for ever.
Delivered ==
    \A n \in 1 .. MaxTrades :
        (n <= accepted /\ running) ~>
            (~running \/ \E k \in DOMAIN processed : processed[k][2] = n)
=============================================================================
