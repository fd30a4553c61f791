----------------------------- MODULE MCPipeline -----------------------------
(* The instance of Pipeline that TLC checks.                                *)
EXTENDS Pipeline

BTC(form) == Symbol("BTCUSDT", form)
ETH == Symbol("ETHUSDT", "upper")

\* The second one is configured in lower case: only Binance serves it.
MCConfigured == {BTC("upper"), InForm(ETH, "lower")}

\* The names a builder may get.
MCInstruments == {BTC("upper"), BTC("hyphen"), ETH, NoName}

Good(symbol) == [symbol |-> symbol, number |-> "number", ts |-> "time"]

Message(topic, data, items) == [topic |-> topic, data |-> data, items |-> items]

\* Messages of one trade, of two trades or of one and a broken one, and messages
\* that are not about trades.
MCMessages ==
    LET okx == Good(BTC("hyphen"))
        btc == Good(BTC("upper"))
    IN [binance |-> {Message("trade", FALSE, <<btc>>), Message("trade", FALSE, <<Good(ETH)>>),
                     Message(Missing, FALSE, <<btc>>)},
        bybit |-> {Message("trade", TRUE, <<btc, btc>>),
                   Message("trade", TRUE, <<[btc EXCEPT !.number = Malformed], btc>>),
                   Message("trade", FALSE, <<btc>>)},
        okx |-> {Message("trade", TRUE, <<okx, [okx EXCEPT !.ts = Malformed]>>),
                 Message(Missing, TRUE, <<>>),
                 Message("other", TRUE, <<okx>>)}]
=============================================================================
