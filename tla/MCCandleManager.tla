--------------------------- MODULE MCCandleManager ---------------------------
(* The instance of CandleManager that TLC checks.                           *)
EXTENDS CandleManager

\* Two that the program knows, one that it does not, and the empty name.
MCInstruments == {"ETHUSDT", "SOLUSDT", "DOGEUSDT", ""}

\* A price no item has, above all of them.
MCLeftovers == {9}

Item(shape, price, qty) == [shape |-> shape, price |-> price, qty |-> qty]

\* Items with every price, and the ways an item can be wrong.
Items ==
    {Item("trade", 3, 1), Item("trade", 5, 2), Item("trade", 6, 1)}
        \cup {Item("trade", Unparsable, 1), Item("not_an_object", 3, 1),
              Item("field_missing", 3, 1)}

OneItem == {<<item>> : item \in Items}

\* Two items: two trades, or a trade and a broken item behind it.
TwoItems == {<<Item("trade", 5, 1), item>> : item \in Items}

Message(header, ts, topic, instrument, items) ==
    [header |-> header, ts |-> ts, topic |-> topic, instrument |-> instrument,
     items |-> items]

BybitMessages ==
    {Message(TRUE, ts, TRUE, "ETHUSDT", items) :
        ts \in {3, 7}, items \in OneItem \cup TwoItems}
        \cup {Message(TRUE, 7, topic, i, <<Item("trade", 5, 2)>>) :
                topic \in BOOLEAN, i \in {"SOLUSDT", "DOGEUSDT"}}
        \cup {Message(FALSE, 0, TRUE, "ETHUSDT", <<>>)}

BinanceMessages ==
    {Message(TRUE, ts, FALSE, "ETHUSDT", items) : ts \in {3, 7}, items \in OneItem}
        \cup {Message(TRUE, 7, FALSE, i, <<Item("trade", 5, 2)>>) :
                i \in {"SOLUSDT", "DOGEUSDT"}}
        \cup {Message(FALSE, 0, FALSE, "ETHUSDT", <<>>)}

AllMessages == [binance |-> BinanceMessages, bybit |-> BybitMessages]
OnlyBinance == [binance |-> BinanceMessages]
=============================================================================
