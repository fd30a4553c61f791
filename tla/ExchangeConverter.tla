------------------------- MODULE ExchangeConverter -------------------------
(***************************************************************************)
(* The enumerations of types/exchange.h, and ExchangeConverter between     *)
(* them and their names.                                                   *)
(***************************************************************************)
EXTENDS Integers

\* The value both enumerations have for what they do not know.
UNKNOWN == -1

\* InstrumentId and Exchange: the values of the names they know.
InstrumentId == [BTCUSDT |-> 0, ETHUSDT |-> 1, SOLUSDT |-> 2]
Exchange == [BINANCE |-> 0, BYBIT |-> 1, OKX |-> 2]

InstrumentIds == {InstrumentId[name] : name \in DOMAIN InstrumentId} \cup {UNKNOWN}
ExchangeIds == {Exchange[name] : name \in DOMAIN Exchange} \cup {UNKNOWN}

\* Mutant: the branch for SOLUSDT returns ETHUSDT.
ToInstrumentIdMistyped(name) ==
    IF name = "SOLUSDT" THEN InstrumentId.ETHUSDT
    ELSE IF name \in DOMAIN InstrumentId THEN InstrumentId[name] ELSE UNKNOWN

ToInstrumentId(name) ==
    IF name \in DOMAIN InstrumentId THEN InstrumentId[name] ELSE UNKNOWN

NameOf(enum, id) ==
    IF \E name \in DOMAIN enum : enum[name] = id
    THEN CHOOSE name \in DOMAIN enum : enum[name] = id
    ELSE "UNKNOWN"

ToInstrumentString(id) == NameOf(InstrumentId, id)
ToExchangeString(id) == NameOf(Exchange, id)
=============================================================================
