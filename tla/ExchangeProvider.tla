-------------------------- MODULE ExchangeProvider --------------------------
(***************************************************************************)
(* BinanceProvider, BybitProvider and OKXProvider of md_provider/provider: *)
(* what they ask an exchange for, and what OnMessage makes of a message.   *)
(*                                                                         *)
(* A symbol is [name, form]: "BTCUSDT" is "upper", "btcusdt" is "lower",   *)
(* "BTC-USDT" is "hyphen".  A message is [topic, data, items]: its "e",    *)
(* "topic" or "channel" field, whether "data" is an array, and the trades  *)
(* in it, one for Binance.  An item is [symbol, number, ts], what its      *)
(* fields hold; number stands for price and quantity.                      *)
(***************************************************************************)
EXTENDS Integers, Sequences

CONSTANTS
    Missing,      \* a field that is not there, or not of its type
    Malformed,    \* a text that is no number
    NoName        \* the empty string of a Trade whose instrument is not set

Exchanges == {"binance", "bybit", "okx"}

Symbol(name, form) == [name |-> name, form |-> form]
InForm(symbol, form) == [symbol EXCEPT !.form = form]

\* What the loop over "data" takes an item for that is no object.
Blank == [symbol |-> Missing, number |-> Missing, ts |-> Missing]

(***************************************************************************)
(* Of each provider: the symbol GetSubscriptionMessage asks for; and of    *)
(* ParseTrade: the lists of items it may go through, the instrument it     *)
(* gives a trade, and whether an item throws.  A missing field is left     *)
(* unset, and the trade is pushed all the same.                            *)
(***************************************************************************)

BinanceSubscription(symbol) == InForm(symbol, "lower")

BinanceItems(msg) == IF msg.topic = "trade" THEN {msg.items} ELSE {<<>>}

BinanceInstrument(item) ==
    IF item.symbol = Missing THEN NoName ELSE InForm(item.symbol, "upper")

BinanceThrows(item) == item.number = Malformed

-----------------------------------------------------------------------------
BybitSubscription(symbol) == symbol

BybitItems(msg) == IF msg.topic = "trade" /\ msg.data THEN {msg.items} ELSE {<<>>}

BybitInstrument(item) == IF item.symbol = Missing THEN NoName ELSE item.symbol

BybitThrows(item) == item.number = Malformed

-----------------------------------------------------------------------------
\* It looks for "USDT", so a lower-case symbol stays as it is.
OKXSubscription(symbol) ==
    IF symbol.form = "upper" THEN InForm(symbol, "hyphen") ELSE symbol

\* "data" is got before "arg" is looked for, which moves the one cursor of the
\* document away from the array: simdjson leaves open what an iteration of the
\* array yields then.  A message without a channel passes.
OKXItems(msg) ==
    IF msg.data /\ msg.topic \in {"trade", Missing}
    THEN {msg.items, <<Blank>>, <<>>} ELSE {<<>>}

\* Mutant: the hyphen is not erased.
OKXInstrumentAsSent(item) == IF item.symbol = Missing THEN NoName ELSE item.symbol

OKXInstrument(item) ==
    IF item.symbol = Missing THEN NoName
    ELSE IF item.symbol.form = "hyphen" THEN InForm(item.symbol, "upper") ELSE item.symbol

\* Here the time is a text as well, and stoll throws.
OKXThrows(item) == Malformed \in {item.number, item.ts}

-----------------------------------------------------------------------------
(* The overrides of a provider, by its exchange.                           *)

Subscription(exchange, symbol) ==
    CASE exchange = "binance" -> BinanceSubscription(symbol)
      [] exchange = "bybit" -> BybitSubscription(symbol)
      [] exchange = "okx" -> OKXSubscription(symbol)

Items(exchange, msg) ==
    CASE exchange = "binance" -> BinanceItems(msg)
      [] exchange = "bybit" -> BybitItems(msg)
      [] exchange = "okx" -> OKXItems(msg)

Instrument(exchange, item) ==
    CASE exchange = "binance" -> BinanceInstrument(item)
      [] exchange = "bybit" -> BybitInstrument(item)
      [] exchange = "okx" -> OKXInstrument(item)

Throws(exchange, item) ==
    CASE exchange = "binance" -> BinanceThrows(item)
      [] exchange = "bybit" -> BybitThrows(item)
      [] exchange = "okx" -> OKXThrows(item)

-----------------------------------------------------------------------------
(* The exchanges know their symbols in one form, and may answer in another. *)

Asked == [binance |-> "lower", bybit |-> "upper", okx |-> "hyphen"]
Answered == [binance |-> "upper", bybit |-> "upper", okx |-> "hyphen"]

\* The symbols of the trades an exchange sends for configured instruments.
Feed(exchange, configured) ==
    {InForm(s, Answered[exchange]) :
        s \in {c \in configured : Subscription(exchange, c).form = Asked[exchange]}}

\* Those trades, any field of which may be missing or no number.
FeedItems(exchange, configured) ==
    [symbol : Feed(exchange, configured) \cup {Missing},
     number : {"number", Malformed, Missing}, ts : {"time", Malformed, Missing}]
=============================================================================
