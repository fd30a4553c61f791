---------------------------- MODULE SpotParsers ----------------------------
(***************************************************************************)
(* BinanceSpotParser and BybitSpotParser of candle_manager/include.  Both  *)
(* are noexcept, and take a field with .value(), which throws when the     *)
(* field is missing: std::terminate.                                       *)
(*                                                                         *)
(* A message is [header, ts, topic, instrument, items]: whether everything *)
(* the parser tests with error() is there, and what it carries; topic says *)
(* whether Bybit's topic has the prefix "publicTrade.".  An item is        *)
(* [shape, price, qty]; its shape is "trade", "not_an_object" or           *)
(* "field_missing".  price and qty are numbers, or Unparsable for a string *)
(* that is no number.                                                      *)
(***************************************************************************)
EXTENDS Sequences, ExchangeConverter

CONSTANTS
    Unparsable,    \* the text of a price or quantity that is not a number
    Leftovers      \* what an uninitialised double may hold

\* ParseDouble: from_chars leaves v uninitialised when there is no number.
ParseDouble(text) == IF text = Unparsable THEN Leftovers ELSE {text}

\* What a call of a parser comes to.
Nullopt == [outcome |-> "nullopt", trades |-> <<>>]
Terminate == [outcome |-> "terminate", trades |-> <<>>]
Optional(trades) == [outcome |-> "trades", trades |-> trades]

\* Bybit's instrument is what follows the prefix of the topic; Binance's is a
\* field of its own.
ExtractSymbol(msg) == IF msg.topic THEN msg.instrument ELSE ""

Symbol(exchange, msg) == IF exchange = "BYBIT" THEN ExtractSymbol(msg) ELSE msg.instrument

\* The trades an item of a message may be parsed to.
TradesOf(exchange, msg, item) ==
    {[exchange |-> Exchange[exchange], instrument |-> Symbol(exchange, msg),
      event_ts |-> msg.ts, price |-> p, qty |-> q] :
        p \in ParseDouble(item.price), q \in ParseDouble(item.qty)}

AllTrades(exchange, msg) ==
    LET items == DOMAIN msg.items
        trades(i) == TradesOf(exchange, msg, msg.items[i])
    IN {Optional(ts) : ts \in {ts \in [items -> UNION {trades(i) : i \in items}] :
                                  \A i \in items : ts[i] \in trades(i)}}

Broken(msg) == {i \in DOMAIN msg.items : msg.items[i].shape # "trade"}

\* The first item that is not a trade decides: Bybit gives up the message,
\* the trades before the item included, if the item is not an object.
ParseBybit(msg) ==
    IF ~msg.header THEN {Nullopt}
    ELSE IF Broken(msg) = {} THEN AllTrades("BYBIT", msg)
    ELSE LET first == CHOOSE i \in Broken(msg) : \A j \in Broken(msg) : i <= j
         IN IF msg.items[first].shape = "not_an_object" THEN {Nullopt} ELSE {Terminate}

\* Binance: "data" is the one item; an object is one of the tests.
ParseBinance(msg) ==
    IF ~msg.header \/ msg.items[1].shape = "not_an_object" THEN {Nullopt}
    ELSE IF msg.items[1].shape = "field_missing" THEN {Terminate}
    ELSE AllTrades("BINANCE", msg)
=============================================================================
