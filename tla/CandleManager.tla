---------------------------- MODULE CandleManager ----------------------------
(***************************************************************************)
(* CandleManager of candle_manager/src/candle_manager.cpp: it parses the   *)
(* messages of one exchange and keeps one candle per instrument.  It has   *)
(* no thread and no lock: HandleMessage and HandleTrade run to their end.  *)
(*                                                                         *)
(* Prices and quantities are integers; the sums of doubles are exact here. *)
(***************************************************************************)
EXTENDS SpotParsers, FiniteSets, Functions

CONSTANTS
    Messages,      \* for each Parser, "binance" and "bybit": the messages
    Instruments,
    interval_ms,
    MaxTrades      \* bound: trades handled

ASSUME CandleAssumption ==
    /\ DOMAIN Messages \subseteq {"binance", "bybit"}
    /\ interval_ms \in Nat \ {0}
    /\ MaxTrades \in Nat
    /\ Leftovers \subseteq Int
    /\ \A p \in DOMAIN Messages : \A msg \in Messages[p] :
           /\ msg.ts \in Nat /\ msg.instrument \in Instruments
           /\ Len(msg.items) \in Nat /\ DOMAIN msg.items = 1 .. Len(msg.items)
           /\ \A i \in DOMAIN msg.items :
                  {msg.items[i].price, msg.items[i].qty} \subseteq Int \cup {Unparsable}

ASSUME UnnamedAssumption == "" \in Instruments

VARIABLES
    parser,       \* the template argument Parser
    candles,      \* instrument -> Candle, for the instruments traded so far
    pending,      \* the rest of the loop over the trades of a message
    terminated,   \* an exception has met a noexcept
    handled       \* history: the trades in the order of HandleTrade

vars == <<parser, candles, pending, terminated, handled>>

Init ==
    /\ parser \in DOMAIN Messages
    /\ candles = <<>>
    /\ pending = <<>>
    /\ terminated = FALSE
    /\ handled = <<>>

Parsed(msg) == IF parser = "bybit" THEN ParseBybit(msg) ELSE ParseBinance(msg)

HandleMessage(msg) ==
    /\ pending = <<>>
    /\ Len(handled) + Len(msg.items) <= MaxTrades
    /\ \E result \in Parsed(msg) :
           /\ pending' = result.trades
           /\ terminated' = (result = Terminate)
    /\ UNCHANGED <<parser, candles, handled>>

\* Mutants: the window starts with the trade; the difference turned round.
WindowFromTrade(ts) == ts
WindowTurned(ts) == (ts % interval_ms) - ts

WindowStart(ts) == ts - (ts % interval_ms)

CreateCandle(trade) ==
    [instrument_id |-> ToInstrumentId(trade.instrument), exchange |-> trade.exchange,
     window_start_ms |-> WindowStart(trade.event_ts), window_end_ms |-> 0,
     open |-> trade.price, high |-> trade.price, low |-> trade.price,
     close |-> trade.price,
     base_volume |-> trade.qty, quote_volume |-> trade.price * trade.qty]

Larger(a, b) == IF a < b THEN b ELSE a
Smaller(a, b) == IF b < a THEN b ELSE a

\* Mutants: the volumes only move with the price; a new low is lost.
UpdateCandleOnMove(candle, trade) ==
    IF candle.close = trade.price THEN candle
    ELSE [candle EXCEPT !.high = Larger(@, trade.price), !.low = Smaller(@, trade.price),
                        !.close = trade.price, !.base_volume = @ + trade.qty,
                        !.quote_volume = @ + trade.price * trade.qty]
UpdateCandleNoLow(candle, trade) ==
    [candle EXCEPT !.high = Larger(@, trade.price), !.close = trade.price,
                   !.base_volume = @ + trade.qty,
                   !.quote_volume = @ + trade.price * trade.qty]

\* high and low need no update when the price is that of the last trade.
UpdateCandle(candle, trade) ==
    LET moved == candle.close # trade.price
    IN [candle EXCEPT !.high = IF moved THEN Larger(@, trade.price) ELSE @,
                      !.low = IF moved THEN Smaller(@, trade.price) ELSE @,
                      !.close = IF moved THEN trade.price ELSE @,
                      !.base_volume = @ + trade.qty,
                      !.quote_volume = @ + trade.price * trade.qty]

HandleTrade ==
    /\ pending # <<>>
    /\ LET trade == Head(pending)
           instrument == trade.instrument
           candle == IF instrument \in DOMAIN candles
                     THEN UpdateCandle(candles[instrument], trade)
                     ELSE CreateCandle(trade)
       IN /\ candles' = [i \in DOMAIN candles \cup {instrument} |->
                            IF i = instrument THEN candle ELSE candles[i]]
          /\ handled' = Append(handled, trade)
    /\ pending' = Tail(pending)
    /\ UNCHANGED <<parser, terminated>>

Next ==
    /\ ~terminated
    /\ \/ \E msg \in Messages[parser] : HandleMessage(msg)
       \/ HandleTrade

Spec == Init /\ [][Next]_vars

\* The candles without the keys of the map, in no order.
GetCandlesSnapshot == {candles[i] : i \in DOMAIN candles}

-----------------------------------------------------------------------------
(* Properties.                                                             *)

Trades == [exchange : ExchangeIds, instrument : Instruments, event_ts : Nat,
           price : Int, qty : Int]

Candles == [instrument_id : InstrumentIds, exchange : ExchangeIds,
            window_start_ms : Nat, window_end_ms : {0},
            open : Int, high : Int, low : Int, close : Int,
            base_volume : Int, quote_volume : Int]

\* Every variable keeps its type.
TypeOK ==
    /\ parser \in DOMAIN Messages
    /\ DOMAIN candles \subseteq Instruments
    /\ \A i \in DOMAIN candles : candles[i] \in Candles
    /\ pending \in Seq(Trades)
    /\ terminated \in BOOLEAN
    /\ handled \in Seq(Trades)

\* The indices in handled of the trades of an instrument.
TradedAt(i) == {n \in DOMAIN handled : handled[n].instrument = i}

\* The prices of the candle of i are those of its trades: low the smallest,
\* high the largest, open the first and close the last.
PricesOf(i) ==
    /\ \A n \in TradedAt(i) : /\ candles[i].low <= handled[n].price
                             /\ handled[n].price <= candles[i].high
    /\ \E n \in TradedAt(i) : candles[i].high = handled[n].price
    /\ \E n \in TradedAt(i) : candles[i].low = handled[n].price
    /\ \E n \in TradedAt(i) : /\ \A m \in TradedAt(i) : n <= m
                             /\ candles[i].open = handled[n].price
    /\ \E n \in TradedAt(i) : /\ \A m \in TradedAt(i) : m <= n
                             /\ candles[i].close = handled[n].price

\* Every instrument traded has a candle with the exact prices, although
\* UpdateCandle skips the comparisons when the price has not changed.
PricesExact ==
    \A i \in Instruments :
        /\ i \in DOMAIN candles <=> TradedAt(i) # {}
        /\ i \in DOMAIN candles => PricesOf(i)

\* The volumes of a candle are the sums over its trades.
VolumesOf(i) ==
    LET qty == [n \in DOMAIN handled |-> handled[n].qty]
        value == [n \in DOMAIN handled |-> handled[n].price * handled[n].qty]
    IN /\ candles[i].base_volume = SumFunctionOnSet(qty, TradedAt(i))
       /\ candles[i].quote_volume = SumFunctionOnSet(value, TradedAt(i))

\* The volumes are exact although the candle is updated trade by trade: the
\* reference sums the history afresh.
VolumesExact == \A i \in DOMAIN candles : VolumesOf(i)

\* A window starts at a multiple of the interval, at the window of the trade
\* that opened the candle.
WindowAligned ==
    \A i \in DOMAIN candles :
        /\ candles[i].window_start_ms % interval_ms = 0
        /\ \E n \in TradedAt(i) :
               /\ \A m \in TradedAt(i) : n <= m
               /\ handled[n].event_ts - candles[i].window_start_ms
                     \in 0 .. interval_ms - 1

\* The exchange whose messages the parser reads.
Venue == IF parser = "bybit" THEN "BYBIT" ELSE "BINANCE"

\* Who has only the snapshot finds in it, by its ids, the candle of every
\* instrument the program knows; those it does not know share one id.
SnapshotIdentifies ==
    \A i \in DOMAIN candles \cap DOMAIN InstrumentId :
        {c \in GetCandlesSnapshot : /\ ToInstrumentString(c.instrument_id) = i
                                   /\ ToExchangeString(c.exchange) = Venue}
            = {candles[i]}

\* "noexcept": whatever a message lacks, parsing it ends the call, not the
\* process.
NeverTerminates == ~terminated
=============================================================================
