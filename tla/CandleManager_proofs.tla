------------------------ MODULE CandleManager_proofs ------------------------
(***************************************************************************)
(* For every set of messages, of instruments and every interval: candles   *)
(* keep their types, the prices of a candle are those of the trades it     *)
(* aggregates, and its window is aligned.  The three are inductive         *)
(* together: a new trade's price can be left out of high and low because   *)
(* it is the last price, and that is within them.                          *)
(***************************************************************************)
EXTENDS CandleManager, DataLemmas, TLAPS

Known == TypeOK /\ PricesExact /\ WindowAligned

-----------------------------------------------------------------------------
(* Types.                                                                  *)

\* An interval is cut at a multiple of its length.
LEMMA WindowOf ==
    ASSUME NEW ts \in Nat
    PROVE  /\ WindowStart(ts) \in Nat
           /\ WindowStart(ts) % interval_ms = 0
           /\ ts - WindowStart(ts) \in 0 .. interval_ms - 1
<1> USE CandleAssumption
<1>0. interval_ms \in Nat \ {0} /\ ts \in Int
  OBVIOUS
<1> DEFINE r == ts % interval_ms
<1>1. PICK d \in Int, s \in 0 .. interval_ms - 1 : r = s /\ ts = interval_ms * d + s
  BY <1>0, DivMod
<1>2. r \in Int /\ r >= 0 /\ r < interval_ms
  BY <1>1
<1> HIDE DEF r
<1>3. ts - r = 0 + interval_ms * d
  BY <1>1, <1>2
<1>4. ts - r >= 0
  <2>1. CASE d >= 0
    BY <2>1, <1>3
  <2>2. CASE d <= -1
    <3>1. interval_ms * d <= -interval_ms
      BY <2>2
    <3> QED BY <3>1, <1>1, <1>2
  <2> QED BY <2>1, <2>2
<1> DEFINE w == ts - r
           zero == 0
<1>5. w \in Int /\ zero \in Int /\ w = zero + interval_ms * d
  BY <1>2, <1>3
<1> HIDE DEF w, zero
<1>6. w % interval_ms = zero % interval_ms
  BY <1>0, <1>5, ModShift
<1>7. 0 % interval_ms = 0
  OBVIOUS
<1>8. WindowStart(ts) = w
  BY DEF WindowStart, w, r
<1> QED BY <1>2, <1>4, <1>5, <1>6, <1>7, <1>8 DEF w, zero

\* The first trade of an instrument makes a candle.
LEMMA CreateType ==
    ASSUME NEW trade \in Trades
    PROVE  CreateCandle(trade) \in Candles
<1>1. trade.price \in Int /\ trade.qty \in Int /\ trade.event_ts \in Nat
  BY DEF Trades
<1>2. trade.price * trade.qty \in Int
  BY <1>1
<1>3. WindowStart(trade.event_ts) \in Nat
  BY <1>1, WindowOf
<1>4. ToInstrumentId(trade.instrument) \in InstrumentIds /\ trade.exchange \in ExchangeIds
  BY DEF ToInstrumentId, InstrumentIds, Trades
<1> QED BY <1>1, <1>2, <1>3, <1>4 DEF CreateCandle, Candles

\* A later trade keeps the candle one, with its ids, window and open price.
LEMMA UpdateType ==
    ASSUME NEW candle \in Candles, NEW trade \in Trades
    PROVE  /\ UpdateCandle(candle, trade) \in Candles
           /\ UpdateCandle(candle, trade).open = candle.open
           /\ UpdateCandle(candle, trade).window_start_ms = candle.window_start_ms
           /\ UpdateCandle(candle, trade).instrument_id = candle.instrument_id
           /\ UpdateCandle(candle, trade).exchange = candle.exchange
<1>1. trade.price \in Int /\ trade.qty \in Int
  BY DEF Trades
<1>2. trade.price * trade.qty \in Int
  BY <1>1
<1> DEFINE new == UpdateCandle(candle, trade)
<1>3. /\ candle.base_volume + trade.qty \in Int
      /\ candle.quote_volume + trade.price * trade.qty \in Int
  BY <1>1, <1>2 DEF Candles
<1>4. /\ Larger(candle.high, trade.price) \in Int
      /\ Smaller(candle.low, trade.price) \in Int
  BY <1>1 DEF Larger, Smaller, Candles
<1>5. new = [candle EXCEPT
                !.high = IF candle.close # trade.price THEN Larger(candle.high, trade.price)
                         ELSE candle.high,
                !.low = IF candle.close # trade.price THEN Smaller(candle.low, trade.price)
                        ELSE candle.low,
                !.close = IF candle.close # trade.price THEN trade.price ELSE candle.close,
                !.base_volume = candle.base_volume + trade.qty,
                !.quote_volume = candle.quote_volume + trade.price * trade.qty]
  BY DEF UpdateCandle, Candles
<1> QED BY <1>1, <1>3, <1>4, <1>5 DEF Candles

\* The prices of an updated candle, when the last price was within them.
LEMMA UpdatePrices ==
    ASSUME NEW candle \in Candles, NEW trade \in Trades,
           candle.low <= candle.close, candle.close <= candle.high
    PROVE  LET new == UpdateCandle(candle, trade)
           IN /\ new.close = trade.price
              /\ new.low <= candle.low /\ new.low <= trade.price
              /\ new.low = candle.low \/ new.low = trade.price
              /\ candle.high <= new.high /\ trade.price <= new.high
              /\ new.high = candle.high \/ new.high = trade.price
<1>1. trade.price \in Int /\ trade.qty \in Int
  BY DEF Trades
<1> QED BY <1>1 DEF UpdateCandle, Candles, Larger, Smaller

\* What a parser returns is a list of trades of its exchange.
LEMMA ParsedType ==
    ASSUME TypeOK, NEW msg \in Messages[parser], NEW result \in Parsed(msg)
    PROVE  /\ result.trades \in Seq(Trades)
           /\ \A k \in DOMAIN result.trades : result.trades[k].exchange = Exchange[Venue]
<1>a. parser \in DOMAIN Messages
  BY DEF TypeOK
<1>b. PICK venue \in DOMAIN Exchange : venue = Venue
  BY DEF Venue, Exchange
<1>0. result \in AllTrades(venue, msg) \/ result = Nullopt \/ result = Terminate
  BY <1>b DEF Parsed, ParseBybit, ParseBinance, Venue
<1> DEFINE items == DOMAIN msg.items
           trades(i) == TradesOf(venue, msg, msg.items[i])
<1>1. \A i \in items : \A t \in trades(i) : t \in Trades /\ t.exchange = Exchange[venue]
  <2> SUFFICES ASSUME NEW i \in items, NEW t \in trades(i)
               PROVE  t \in Trades /\ t.exchange = Exchange[venue]
    OBVIOUS
  <2>1. /\ msg.items[i].price \in Int \cup {Unparsable}
        /\ msg.items[i].qty \in Int \cup {Unparsable}
        /\ Leftovers \subseteq Int
        /\ msg.ts \in Nat /\ msg.instrument \in Instruments /\ "" \in Instruments
    BY <1>a, CandleAssumption, UnnamedAssumption
  <2>2. \A text \in Int \cup {Unparsable} : ParseDouble(text) \subseteq Int
    BY <2>1 DEF ParseDouble
  <2>3. PICK p \in ParseDouble(msg.items[i].price), q \in ParseDouble(msg.items[i].qty) :
            t = [exchange |-> Exchange[venue], instrument |-> Symbol(venue, msg),
                 event_ts |-> msg.ts, price |-> p, qty |-> q]
    BY DEF TradesOf
  <2>4. p \in Int /\ q \in Int
    BY <2>1, <2>2
  <2>5. Symbol(venue, msg) \in Instruments /\ Exchange[venue] \in ExchangeIds
    BY <2>1 DEF Symbol, ExtractSymbol, ExchangeIds
  <2> QED BY <2>1, <2>3, <2>4, <2>5 DEF Trades
<1>2. CASE result \in AllTrades(venue, msg)
  <2>1. PICK ts \in [items -> UNION {trades(i) : i \in items}] :
            result = Optional(ts) /\ \A i \in items : ts[i] \in trades(i)
    BY <1>2 DEF AllTrades
  <2>2. items = 1 .. Len(msg.items) /\ Len(msg.items) \in Nat
    BY <1>a, CandleAssumption
  <2> HIDE DEF trades
  <2>3. ts \in [1 .. Len(msg.items) -> Trades]
    BY <1>1, <2>1, <2>2
  <2>4. ts \in Seq(Trades) /\ DOMAIN ts = items
    BY <2>1, <2>2, <2>3
  <2>5. result.trades = ts
    BY <2>1 DEF Optional
  <2>6. \A k \in DOMAIN ts : ts[k].exchange = Exchange[venue]
    BY <1>1, <2>1, <2>4
  <2> QED BY <1>b, <2>4, <2>5, <2>6
<1>3. CASE result = Nullopt \/ result = Terminate
  <2>1. << >> \in Seq(Trades)
    OBVIOUS
  <2>2. result.trades = << >>
    BY <1>3 DEF Nullopt, Terminate
  <2> QED BY <2>1, <2>2
<1> QED BY <1>0, <1>2, <1>3

-----------------------------------------------------------------------------
(* The step that aggregates a trade.                                       *)

\* The history grows by the trade, and only its instrument's indices do.
LEMMA HistoryGrows ==
    ASSUME TypeOK, HandleTrade
    PROVE  LET trade == Head(pending)
               last == Len(handled) + 1
           IN /\ trade \in Trades
              /\ pending' \in Seq(Trades) /\ handled' \in Seq(Trades)
              /\ last \in Nat /\ handled'[last] = trade
              /\ \A i : \A n \in TradedAt(i) :
                     n \in Nat /\ n < last /\ handled'[n] = handled[n]
                     /\ handled[n] \in Trades
              /\ \A i : TradedAt(i)' = IF i = trade.instrument
                                       THEN TradedAt(i) \cup {last} ELSE TradedAt(i)
<1> DEFINE trade == Head(pending)
           last == Len(handled) + 1
<1>1. /\ pending \in Seq(Trades) /\ handled \in Seq(Trades) /\ pending # << >>
      /\ handled' = Append(handled, trade) /\ pending' = Tail(pending)
  BY DEF TypeOK, HandleTrade
<1>2. trade \in Trades /\ pending' \in Seq(Trades)
  BY <1>1
<1> HIDE DEF trade
<1>3. /\ handled' \in Seq(Trades) /\ Len(handled) \in Nat
      /\ DOMAIN handled' = 1 .. last /\ DOMAIN handled = 1 .. Len(handled)
      /\ handled'[last] = trade
      /\ \A n \in DOMAIN handled : handled'[n] = handled[n] /\ handled[n] \in Trades
  BY <1>1, <1>2
<1>4. \A i : \A n \in TradedAt(i) :
         n \in Nat /\ n < last /\ handled'[n] = handled[n] /\ handled[n] \in Trades
  BY <1>3 DEF TradedAt
<1>5. ASSUME NEW i
      PROVE  TradedAt(i)' = IF i = trade.instrument THEN TradedAt(i) \cup {last}
                            ELSE TradedAt(i)
  <2>1. TradedAt(i)' = {n \in 1 .. last : handled'[n].instrument = i}
    BY <1>3 DEF TradedAt
  <2>2. TradedAt(i) = {n \in 1 .. Len(handled) : handled'[n].instrument = i}
    BY <1>3 DEF TradedAt
  <2> QED BY <1>3, <2>1, <2>2
<1> QED BY <1>2, <1>3, <1>4, <1>5 DEF trade

\* The candle of the trade's instrument is created or updated, no other is.
LEMMA OneCandleMoves ==
    ASSUME TypeOK, HandleTrade
    PROVE  LET trade == Head(pending)
               mine == trade.instrument
           IN /\ mine \in Instruments
              /\ DOMAIN candles' = DOMAIN candles \cup {mine}
              /\ \A i \in DOMAIN candles : i # mine => candles'[i] = candles[i]
              /\ candles'[mine] = IF mine \in DOMAIN candles
                                  THEN UpdateCandle(candles[mine], trade)
                                  ELSE CreateCandle(trade)
              /\ \A i \in DOMAIN candles' : candles'[i] \in Candles
<1> DEFINE trade == Head(pending)
           mine == trade.instrument
           candle == IF mine \in DOMAIN candles THEN UpdateCandle(candles[mine], trade)
                     ELSE CreateCandle(trade)
<1>1. trade \in Trades
  BY HistoryGrows
<1>2. candles' = [i \in DOMAIN candles \cup {mine} |-> IF i = mine THEN candle ELSE candles[i]]
  BY DEF HandleTrade
<1>3. mine \in Instruments
  BY <1>1 DEF Trades
<1>4. \A i \in DOMAIN candles : candles[i] \in Candles
  BY DEF TypeOK
<1>5. candle \in Candles
  BY <1>1, <1>4, CreateType, UpdateType
<1> HIDE DEF trade, candle, mine
<1>6. /\ DOMAIN candles' = DOMAIN candles \cup {mine}
      /\ \A i \in DOMAIN candles : i # mine => candles'[i] = candles[i]
      /\ candles'[mine] = candle
  BY <1>2
<1>7. \A i \in DOMAIN candles' : candles'[i] \in Candles
  BY <1>4, <1>5, <1>6
<1> QED BY <1>3, <1>6, <1>7 DEF candle, mine, trade

\* The prices stay those of the trades.
LEMMA PricesKept ==
    ASSUME TypeOK, PricesExact, HandleTrade
    PROVE  PricesExact'
<1>0. PICK trade, mine, last : /\ trade = Head(pending) /\ mine = trade.instrument
                              /\ last = Len(handled) + 1
  OBVIOUS
<1>1. /\ trade \in Trades /\ last \in Nat /\ handled'[last] = trade
      /\ \A i : \A n \in TradedAt(i) :
             n \in Nat /\ n < last /\ handled'[n] = handled[n] /\ handled[n] \in Trades
      /\ \A i : TradedAt(i)' = IF i = mine THEN TradedAt(i) \cup {last} ELSE TradedAt(i)
  BY <1>0, HistoryGrows
<1>2. /\ DOMAIN candles' = DOMAIN candles \cup {mine}
      /\ \A i \in DOMAIN candles : i # mine => candles'[i] = candles[i]
      /\ candles'[mine] = IF mine \in DOMAIN candles THEN UpdateCandle(candles[mine], trade)
                          ELSE CreateCandle(trade)
  BY <1>0, OneCandleMoves
<1>3. trade.price \in Int
  BY <1>1 DEF Trades
<1>4. ASSUME NEW i \in Instruments
      PROVE  i \in DOMAIN candles' <=> TradedAt(i)' # {}
  BY <1>1, <1>2 DEF PricesExact
<1>5. ASSUME NEW i \in Instruments, i # mine, i \in DOMAIN candles'
      PROVE  PricesOf(i)'
  <2>1. candles'[i] = candles[i] /\ TradedAt(i)' = TradedAt(i) /\ PricesOf(i)
    BY <1>1, <1>2, <1>5 DEF PricesExact
  <2>2. \A n \in TradedAt(i) : handled'[n] = handled[n]
    BY <1>1
  <2> QED BY <2>1, <2>2 DEF PricesOf
<1>6. ASSUME mine \in Instruments, mine \notin DOMAIN candles
      PROVE  PricesOf(mine)'
  <2>1. TradedAt(mine)' = {last}
    <3>1. TradedAt(mine) = {}
      BY <1>6 DEF PricesExact
    <3>2. TradedAt(mine)' = TradedAt(mine) \cup {last}
      BY <1>1
    <3> QED BY <3>1, <3>2
  <2>2. /\ candles'[mine].low = trade.price /\ candles'[mine].high = trade.price
        /\ candles'[mine].open = trade.price /\ candles'[mine].close = trade.price
    BY <1>2, <1>6 DEF CreateCandle
  <2> QED BY <1>1, <1>3, <2>1, <2>2 DEF PricesOf
<1>7. ASSUME mine \in Instruments, mine \in DOMAIN candles
      PROVE  PricesOf(mine)'
  <2> DEFINE old == candles[mine]
             new == candles'[mine]
             at == TradedAt(mine)
  <2>1. old \in Candles /\ PricesOf(mine)
    BY <1>7 DEF TypeOK, PricesExact
  <2>2. PICK c \in at : (\A m \in at : m <= c) /\ old.close = handled[c].price
    BY <2>1 DEF PricesOf
  <2>3. old.low <= old.close /\ old.close <= old.high
    BY <2>1, <2>2 DEF PricesOf
  <2>4. new = UpdateCandle(old, trade)
    BY <1>2, <1>7
  <2>5. /\ new.close = trade.price /\ new.open = old.open /\ new \in Candles
        /\ new.low <= old.low /\ new.low <= trade.price
        /\ new.low = old.low \/ new.low = trade.price
        /\ old.high <= new.high /\ trade.price <= new.high
        /\ new.high = old.high \/ new.high = trade.price
    BY <1>1, <2>1, <2>3, <2>4, UpdatePrices, UpdateType
  <2>6. TradedAt(mine)' = at \cup {last}
    BY <1>1
  <2>6a. \A n \in at : /\ n \in Nat /\ n < last /\ handled'[n] = handled[n]
                      /\ handled[n].price \in Int
    BY <1>1 DEF Trades
  <2>7. /\ old.low \in Int /\ old.high \in Int /\ new.low \in Int /\ new.high \in Int
    BY <2>1, <2>5 DEF Candles
  <2> HIDE DEF old, new, at
  <2>8. \A n \in at : old.low <= handled[n].price /\ handled[n].price <= old.high
    BY <2>1 DEF PricesOf, old, at
  <2>9. /\ \E n \in at : old.high = handled[n].price
        /\ \E n \in at : old.low = handled[n].price
        /\ \E n \in at : (\A m \in at : n <= m) /\ old.open = handled[n].price
    BY <2>1 DEF PricesOf, old, at
  <2>10. \A n \in at \cup {last} : new.low <= handled'[n].price /\ handled'[n].price <= new.high
    BY <1>1, <1>3, <2>5, <2>6a, <2>7, <2>8
  <2>11. /\ \E n \in at \cup {last} : new.high = handled'[n].price
         /\ \E n \in at \cup {last} : new.low = handled'[n].price
    BY <1>1, <2>5, <2>6a, <2>9
  <2>12. \E n \in at \cup {last} : /\ \A m \in at \cup {last} : n <= m
                                  /\ new.open = handled'[n].price
    BY <1>1, <2>5, <2>6a, <2>9
  <2>13. \E n \in at \cup {last} : /\ \A m \in at \cup {last} : m <= n
                                  /\ new.close = handled'[n].price
    BY <1>1, <2>2, <2>5, <2>6a
  <2> QED BY <2>6, <2>10, <2>11, <2>12, <2>13 DEF PricesOf, new
<1>8. ASSUME NEW i \in Instruments, i \in DOMAIN candles'
      PROVE  PricesOf(i)'
  <2>1. CASE i # mine
    BY <1>5, <1>8, <2>1
  <2>2. CASE i = mine
    <3>1. PricesOf(mine)'
      BY <1>6, <1>7, <2>2
    <3> QED BY <2>2, <3>1
  <2> QED BY <2>1, <2>2
<1> QED BY <1>4, <1>8 DEF PricesExact

\* A candle's window stays that of its first trade.
LEMMA WindowKept ==
    ASSUME TypeOK, PricesExact, WindowAligned, HandleTrade
    PROVE  WindowAligned'
<1>0. PICK trade, mine, last : /\ trade = Head(pending) /\ mine = trade.instrument
                              /\ last = Len(handled) + 1
  OBVIOUS
<1>1. /\ trade \in Trades /\ last \in Nat /\ handled'[last] = trade
      /\ \A i : \A n \in TradedAt(i) :
             n \in Nat /\ n < last /\ handled'[n] = handled[n] /\ handled[n] \in Trades
      /\ \A i : TradedAt(i)' = IF i = mine THEN TradedAt(i) \cup {last} ELSE TradedAt(i)
  BY <1>0, HistoryGrows
<1>2. /\ mine \in Instruments
      /\ DOMAIN candles' = DOMAIN candles \cup {mine}
      /\ \A i \in DOMAIN candles : i # mine => candles'[i] = candles[i]
      /\ candles'[mine] = IF mine \in DOMAIN candles THEN UpdateCandle(candles[mine], trade)
                          ELSE CreateCandle(trade)
  BY <1>0, OneCandleMoves
<1>3. ASSUME NEW i \in DOMAIN candles
      PROVE  candles'[i].window_start_ms = candles[i].window_start_ms
  <2>1. candles[i] \in Candles
    BY DEF TypeOK
  <2>2. CASE i = mine
    BY <1>1, <1>2, <2>1, <2>2, UpdateType
  <2>3. CASE i # mine
    BY <1>2, <2>3
  <2> QED BY <2>2, <2>3
<1>4. ASSUME NEW i \in DOMAIN candles
      PROVE  \E n \in TradedAt(i)' : /\ \A m \in TradedAt(i)' : n <= m
                                    /\ handled'[n].event_ts - candles[i].window_start_ms
                                          \in 0 .. interval_ms - 1
  <2>1. PICK n \in TradedAt(i) : /\ \A m \in TradedAt(i) : n <= m
                                 /\ handled[n].event_ts - candles[i].window_start_ms
                                       \in 0 .. interval_ms - 1
    BY DEF WindowAligned
  <2>2. n \in Nat /\ n < last /\ handled'[n] = handled[n]
    BY <1>1
  <2>3. TradedAt(i)' \subseteq TradedAt(i) \cup {last} /\ n \in TradedAt(i)'
    BY <1>1
  <2>4. \A m \in TradedAt(i)' : n <= m
    BY <1>1, <2>1, <2>2, <2>3
  <2> QED BY <2>1, <2>2, <2>3, <2>4
<1>5. ASSUME mine \notin DOMAIN candles
      PROVE  /\ candles'[mine].window_start_ms % interval_ms = 0
             /\ TradedAt(mine)' = {last}
             /\ handled'[last].event_ts - candles'[mine].window_start_ms \in 0 .. interval_ms - 1
  <2>1. trade.event_ts \in Nat
    BY <1>1 DEF Trades
  <2>2. candles'[mine].window_start_ms = WindowStart(trade.event_ts)
    BY <1>2, <1>5 DEF CreateCandle
  <2>3. TradedAt(mine)' = {last}
    <3>1. TradedAt(mine) = {}
      BY <1>2, <1>5 DEF PricesExact
    <3>2. TradedAt(mine)' = TradedAt(mine) \cup {last}
      BY <1>1
    <3> QED BY <3>1, <3>2
  <2> QED BY <1>1, <2>1, <2>2, <2>3, WindowOf
<1>6. ASSUME NEW i \in DOMAIN candles'
      PROVE  /\ candles'[i].window_start_ms % interval_ms = 0
             /\ \E n \in TradedAt(i)' : /\ \A m \in TradedAt(i)' : n <= m
                                        /\ handled'[n].event_ts - candles'[i].window_start_ms
                                              \in 0 .. interval_ms - 1
  <2>1. CASE i \in DOMAIN candles
    BY <1>3, <1>4, <2>1 DEF WindowAligned
  <2>2. CASE i \notin DOMAIN candles
    BY <1>1, <1>2, <1>5, <2>2
  <2> QED BY <2>1, <2>2
<1> QED BY <1>6 DEF WindowAligned

-----------------------------------------------------------------------------
(* The theorems.                                                           *)

\* Nothing is known of no trade.
LEMMA InitKnown == Init => Known
<1> SUFFICES ASSUME Init PROVE Known
  OBVIOUS
<1>1. candles = << >> /\ DOMAIN candles = {} /\ handled = << >> /\ DOMAIN handled = {}
  BY DEF Init
<1>2. TypeOK
  <2>1. << >> \in Seq(Trades)
    OBVIOUS
  <2> QED BY <1>1, <2>1 DEF Init, TypeOK
<1>3. \A i : TradedAt(i) = {}
  BY <1>1 DEF TradedAt
<1> QED BY <1>1, <1>2, <1>3 DEF Known, PricesExact, WindowAligned

\* A message changes no candle; a trade is aggregated as above.
LEMMA NextKnown == Known /\ [Next]_vars => Known'
<1> SUFFICES ASSUME Known, [Next]_vars PROVE Known'
  OBVIOUS
<1> USE DEF Known
<1>1. ASSUME NEW msg \in Messages[parser], HandleMessage(msg)
      PROVE  Known'
  <2>1. candles' = candles /\ handled' = handled /\ parser' = parser
    BY <1>1 DEF HandleMessage
  <2>2. pending' \in Seq(Trades) /\ terminated' \in BOOLEAN
    BY <1>1, ParsedType DEF HandleMessage
  <2>3. TypeOK'
    BY <2>1, <2>2 DEF TypeOK
  <2>4. \A i : TradedAt(i)' = TradedAt(i)
    BY <2>1 DEF TradedAt
  <2> QED BY <2>1, <2>3, <2>4 DEF PricesExact, PricesOf, WindowAligned
<1>2. ASSUME HandleTrade
      PROVE  Known'
  <2>1. TypeOK'
    <3>1. pending' \in Seq(Trades) /\ handled' \in Seq(Trades)
      BY <1>2, HistoryGrows
    <3>2. DOMAIN candles' \subseteq Instruments /\ \A i \in DOMAIN candles' : candles'[i] \in Candles
      BY <1>2, OneCandleMoves DEF TypeOK
    <3>3. terminated' \in BOOLEAN /\ parser' = parser
      BY <1>2 DEF HandleTrade, TypeOK
    <3>4. parser' \in DOMAIN Messages
      BY <3>3 DEF TypeOK
    <3> QED BY <3>1, <3>2, <3>3, <3>4 DEF TypeOK
  <2> QED BY <1>2, <2>1, PricesKept, WindowKept
<1>3. CASE UNCHANGED vars
  <2>1. /\ candles' = candles /\ handled' = handled /\ pending' = pending
        /\ terminated' = terminated /\ parser' = parser
    BY <1>3 DEF vars
  <2>2. \A i : TradedAt(i)' = TradedAt(i)
    BY <2>1 DEF TradedAt
  <2> QED BY <2>1, <2>2 DEF TypeOK, PricesExact, PricesOf, WindowAligned
<1> QED BY <1>1, <1>2, <1>3 DEF Next

\* The three together, an inductive invariant.
THEOREM KnownInvariant == Spec => []Known
<1> QED BY InitKnown, NextKnown, PTL DEF Spec

\* Whatever a message lacks or holds, the candles and the trades keep their
\* types.
THEOREM CandleTypes == Spec => []TypeOK
<1>1. Known => TypeOK
  BY DEF Known
<1> QED BY <1>1, KnownInvariant, PTL

\* UpdateCandle's shortcut for an unchanged price never loses a high or a low.
THEOREM PricesCorrect == Spec => []PricesExact
<1>1. Known => PricesExact
  BY DEF Known
<1> QED BY <1>1, KnownInvariant, PTL

\* The window of a candle is the interval its first trade falls in.
THEOREM WindowCorrect == Spec => []WindowAligned
<1>1. Known => WindowAligned
  BY DEF Known
<1> QED BY <1>1, KnownInvariant, PTL

-----------------------------------------------------------------------------
(* Volumes.                                                                *)

\* What a trade adds to the volumes, whether its price moved or not.
LEMMA UpdateVolumes ==
    ASSUME NEW candle \in Candles, NEW trade
    PROVE  /\ UpdateCandle(candle, trade).base_volume = candle.base_volume + trade.qty
           /\ UpdateCandle(candle, trade).quote_volume
                 = candle.quote_volume + trade.price * trade.qty
BY DEF UpdateCandle, Candles

\* The history summed by the property.
Quantities == [n \in DOMAIN handled |-> handled[n].qty]
Values == [n \in DOMAIN handled |-> handled[n].price * handled[n].qty]

\* A volume of one more trade is the volume before and its share.
LEMMA SumGrows ==
    ASSUME NEW D, IsFiniteSet(D), NEW last, last \notin D, NEW f, NEW g,
           \A n \in D : f[n] \in Int /\ g[n] = f[n], g[last] \in Int
    PROVE  SumFunctionOnSet(g, D \cup {last}) = SumFunctionOnSet(f, D) + g[last]
<1>1. SumFunctionOnSet(f, D) = SumFunctionOnSet(g, D)
  BY SumSame
<1>2. SumFunctionOnSet(f, D) \in Int
  BY SumType
<1>3. \A n \in D \cup {last} : g[n] \in Int
  OBVIOUS
<1>4. SumFunctionOnSet(g, D \cup {last}) = g[last] + SumFunctionOnSet(g, D)
  BY <1>3, SumAdd
<1>5. PICK v \in Int : v = SumFunctionOnSet(f, D)
  BY <1>2
<1> QED BY <1>1, <1>4, <1>5

\* Shares of trades are integers, and the trades of an instrument finitely many.
LEMMA Shares ==
    ASSUME TypeOK
    PROVE  /\ \A i : IsFiniteSet(TradedAt(i)) /\ TradedAt(i) \subseteq DOMAIN handled
           /\ \A n \in DOMAIN handled : Quantities[n] \in Int /\ Values[n] \in Int
<1>1. handled \in Seq(Trades)
  BY DEF TypeOK
<1>2. DOMAIN handled = 1 .. Len(handled) /\ Len(handled) \in Nat
  BY <1>1
<1>3. IsFiniteSet(DOMAIN handled)
  BY <1>2, FS_Interval
<1>4. \A i : TradedAt(i) \subseteq DOMAIN handled
  BY DEF TradedAt
<1>5. \A n \in DOMAIN handled : handled[n].price \in Int /\ handled[n].qty \in Int
  <2>1. \A n \in DOMAIN handled : handled[n] \in Trades
    BY <1>1, <1>2
  <2> QED BY <2>1 DEF Trades
<1>6. \A a, b \in Int : a * b \in Int
  OBVIOUS
<1> QED BY <1>3, <1>4, <1>5, <1>6, FS_Subset DEF Quantities, Values

\* A trade moves the volumes of its instrument's candle by its share, and no
\* other.
LEMMA VolumesKept ==
    ASSUME TypeOK, PricesExact, VolumesExact, HandleTrade
    PROVE  VolumesExact'
<1>0. PICK trade, mine, last : /\ trade = Head(pending) /\ mine = trade.instrument
                              /\ last = Len(handled) + 1
  OBVIOUS
<1>1. /\ trade \in Trades /\ last \in Nat /\ handled'[last] = trade
      /\ handled' \in Seq(Trades)
      /\ \A i : \A n \in TradedAt(i) : n \in Nat /\ n < last /\ handled'[n] = handled[n]
      /\ \A i : TradedAt(i)' = IF i = mine THEN TradedAt(i) \cup {last} ELSE TradedAt(i)
  BY <1>0, HistoryGrows
<1>2. /\ mine \in Instruments
      /\ DOMAIN candles' = DOMAIN candles \cup {mine}
      /\ \A i \in DOMAIN candles : i # mine => candles'[i] = candles[i]
      /\ candles'[mine] = IF mine \in DOMAIN candles THEN UpdateCandle(candles[mine], trade)
                          ELSE CreateCandle(trade)
  BY <1>0, OneCandleMoves
<1>3. DOMAIN handled' = DOMAIN handled \cup {last}
  BY <1>0 DEF HandleTrade, TypeOK
<1>4. PICK qty, value : qty = Quantities' /\ value = Values'
  OBVIOUS
<1>5. /\ \A i : IsFiniteSet(TradedAt(i)) /\ last \notin TradedAt(i)
                /\ TradedAt(i) \subseteq DOMAIN handled
      /\ qty[last] = trade.qty /\ value[last] = trade.price * trade.qty
      /\ trade.qty \in Int /\ trade.price * trade.qty \in Int
  <2>1. trade.qty \in Int /\ trade.price \in Int
    BY <1>1 DEF Trades
  <2>2. trade.price * trade.qty \in Int
    BY <2>1
  <2>3. \A i : last \notin TradedAt(i)
    BY <1>1
  <2>4. qty[last] = trade.qty /\ value[last] = trade.price * trade.qty
    BY <1>1, <1>3, <1>4 DEF Quantities, Values
  <2> QED BY <2>1, <2>2, <2>3, <2>4, Shares
<1>6. \A i : \A n \in TradedAt(i) : /\ Quantities[n] \in Int /\ qty[n] = Quantities[n]
                                    /\ Values[n] \in Int /\ value[n] = Values[n]
  BY <1>1, <1>3, <1>4, Shares DEF Quantities, Values
<1>7. ASSUME NEW i
      PROVE  LET at == TradedAt(i)
             IN /\ SumFunctionOnSet(qty, at) = SumFunctionOnSet(Quantities, at)
                /\ SumFunctionOnSet(value, at) = SumFunctionOnSet(Values, at)
                /\ SumFunctionOnSet(qty, at \cup {last})
                      = SumFunctionOnSet(Quantities, at) + trade.qty
                /\ SumFunctionOnSet(value, at \cup {last})
                      = SumFunctionOnSet(Values, at) + trade.price * trade.qty
  <2>1. PICK D, f, g : D = TradedAt(i) /\ f = Quantities /\ g = Values
    OBVIOUS
  <2>2. /\ IsFiniteSet(D) /\ last \notin D
        /\ \A n \in D : f[n] \in Int /\ qty[n] = f[n]
        /\ \A n \in D : g[n] \in Int /\ value[n] = g[n]
        /\ qty[last] \in Int /\ value[last] \in Int
    BY <1>5, <1>6, <2>1
  <2>3. /\ SumFunctionOnSet(qty, D) = SumFunctionOnSet(f, D)
        /\ SumFunctionOnSet(value, D) = SumFunctionOnSet(g, D)
    BY ONLY <2>2, SumSame
  <2>4. SumFunctionOnSet(qty, D \cup {last}) = SumFunctionOnSet(f, D) + qty[last]
    BY ONLY <2>2, SumGrows
  <2>5. SumFunctionOnSet(value, D \cup {last}) = SumFunctionOnSet(g, D) + value[last]
    BY ONLY <2>2, SumGrows
  <2> QED BY <1>5, <2>1, <2>3, <2>4, <2>5
<1>8. ASSUME NEW i \in DOMAIN candles'
      PROVE  /\ candles'[i].base_volume = SumFunctionOnSet(qty, TradedAt(i)')
             /\ candles'[i].quote_volume = SumFunctionOnSet(value, TradedAt(i)')
  <2>1. i \in DOMAIN candles =>
            /\ candles[i].base_volume = SumFunctionOnSet(Quantities, TradedAt(i))
            /\ candles[i].quote_volume = SumFunctionOnSet(Values, TradedAt(i))
    BY DEF VolumesExact, VolumesOf, Quantities, Values
  <2>2. CASE i # mine
    BY <1>1, <1>2, <1>7, <2>1, <2>2
  <2>3. CASE i = mine /\ i \in DOMAIN candles
    <3>1. candles[i] \in Candles
      BY <2>3 DEF TypeOK
    <3>2. /\ candles'[i].base_volume = candles[i].base_volume + trade.qty
          /\ candles'[i].quote_volume = candles[i].quote_volume + trade.price * trade.qty
      BY <1>2, <2>3, <3>1, UpdateVolumes
    <3>3. TradedAt(i)' = TradedAt(i) \cup {last}
      BY <1>1, <2>3
    <3> QED BY <1>7, <2>1, <2>3, <3>2, <3>3
  <2>4. CASE i = mine /\ i \notin DOMAIN candles
    <3>1. TradedAt(i) = {}
      BY <1>2, <2>4 DEF PricesExact
    <3>2. TradedAt(i)' = TradedAt(i) \cup {last}
      BY <1>1, <2>4
    <3>3. SumFunctionOnSet(Quantities, TradedAt(i)) = 0
          /\ SumFunctionOnSet(Values, TradedAt(i)) = 0
      BY <3>1, SumEmpty
    <3>4. /\ candles'[i].base_volume = trade.qty
          /\ candles'[i].quote_volume = trade.price * trade.qty
      BY <1>2, <2>4 DEF CreateCandle
    <3>5. 0 + trade.qty = trade.qty /\ 0 + trade.price * trade.qty = trade.price * trade.qty
      BY <1>5
    <3> QED BY <1>7, <3>2, <3>3, <3>4, <3>5
  <2> QED BY <1>2, <2>2, <2>3, <2>4
<1> QED BY <1>4, <1>8 DEF VolumesExact, VolumesOf, Quantities, Values

\* Every trade counts once in the volumes of its candle, and no other trade
\* does, however many trades are handled.
THEOREM VolumesCorrect == Spec => []VolumesExact
<1>1. Init => VolumesExact
  BY DEF Init, VolumesExact
<1>2. Known /\ VolumesExact /\ [Next]_vars => VolumesExact'
  <2> SUFFICES ASSUME Known, VolumesExact, [Next]_vars PROVE VolumesExact'
    OBVIOUS
  <2>1. CASE candles' = candles /\ handled' = handled
    <3>1. \A i : TradedAt(i)' = TradedAt(i)
      BY <2>1 DEF TradedAt
    <3> QED BY <2>1, <3>1 DEF VolumesExact, VolumesOf
  <2>2. CASE HandleTrade
    BY <2>2, VolumesKept DEF Known
  <2> QED BY <2>1, <2>2 DEF Next, HandleMessage, vars
<1> QED BY <1>1, <1>2, KnownInvariant, PTL DEF Spec

-----------------------------------------------------------------------------
(* What the snapshot tells.                                                *)

\* A candle carries the ids of its key and of the exchange; so do the trades
\* on the way to it.
Labelled ==
    /\ \A k \in DOMAIN pending : pending[k].exchange = Exchange[Venue]
    /\ \A i \in DOMAIN candles : /\ candles[i].instrument_id = ToInstrumentId(i)
                                 /\ candles[i].exchange = Exchange[Venue]

\* ToInstrumentString undoes ToInstrumentId for the names the program knows,
\* and ToExchangeString gives back the exchange.
LEMMA NamesRoundTrip ==
    /\ \A i : \A j \in DOMAIN InstrumentId : ToInstrumentString(ToInstrumentId(i)) = j <=> i = j
    /\ ToExchangeString(Exchange[Venue]) = Venue
<1>1. ASSUME NEW j \in DOMAIN InstrumentId
      PROVE  ToInstrumentString(InstrumentId[j]) = j
  <2>1. \A name \in DOMAIN InstrumentId : InstrumentId[name] = InstrumentId[j] <=> name = j
    BY <1>1 DEF InstrumentId
  <2> QED BY <1>1, <2>1 DEF ToInstrumentString, NameOf
<1>2. ToInstrumentString(UNKNOWN) = "UNKNOWN" /\ "UNKNOWN" \notin DOMAIN InstrumentId
  BY DEF ToInstrumentString, NameOf, UNKNOWN, InstrumentId
<1>3. \A i : \A j \in DOMAIN InstrumentId : ToInstrumentString(ToInstrumentId(i)) = j <=> i = j
  BY <1>1, <1>2 DEF ToInstrumentId
<1>4. Venue \in DOMAIN Exchange
  BY DEF Venue, Exchange
<1>5. \A name \in DOMAIN Exchange : Exchange[name] = Exchange[Venue] <=> name = Venue
  BY <1>4 DEF Exchange
<1>6. ToExchangeString(Exchange[Venue]) = Venue
  BY <1>4, <1>5 DEF ToExchangeString, NameOf
<1> QED BY <1>3, <1>6

\* Creating a candle labels it, and updating it keeps the labels.
LEMMA LabelledInvariant == Spec => []Labelled
<1>1. Init => Labelled
  BY DEF Init, Labelled
<1>2. TypeOK /\ Labelled /\ [Next]_vars => Labelled'
  <2> SUFFICES ASSUME TypeOK, Labelled, [Next]_vars PROVE Labelled'
    OBVIOUS
  <2>1. ASSUME NEW msg \in Messages[parser], HandleMessage(msg)
        PROVE  Labelled'
    <3>1. candles' = candles /\ Venue' = Venue
      BY <2>1 DEF HandleMessage, Venue
    <3>2. PICK result \in Parsed(msg) : pending' = result.trades
      BY <2>1 DEF HandleMessage
    <3> QED BY <3>1, <3>2, ParsedType DEF Labelled
  <2>2. ASSUME HandleTrade
        PROVE  Labelled'
    <3>0. PICK trade, mine : trade = Head(pending) /\ mine = trade.instrument
      OBVIOUS
    <3>1. Venue' = Venue
      BY <2>2 DEF HandleTrade, Venue
    <3>2. /\ pending \in Seq(Trades) /\ pending # << >>
          /\ pending' = Tail(pending) /\ trade \in Trades
      BY <2>2, <3>0, HistoryGrows DEF TypeOK, HandleTrade
    <3>3. \A k \in DOMAIN pending' : k + 1 \in DOMAIN pending /\ pending'[k] = pending[k + 1]
      BY <3>2
    <3>4. trade.exchange = Exchange[Venue]
      BY <3>0, <3>2 DEF Labelled
    <3>5. /\ DOMAIN candles' = DOMAIN candles \cup {mine}
          /\ \A i \in DOMAIN candles : i # mine => candles'[i] = candles[i]
          /\ candles'[mine] = IF mine \in DOMAIN candles THEN UpdateCandle(candles[mine], trade)
                              ELSE CreateCandle(trade)
      BY <2>2, <3>0, OneCandleMoves
    <3>6. mine \in DOMAIN candles => /\ candles'[mine].instrument_id = candles[mine].instrument_id
                                     /\ candles'[mine].exchange = candles[mine].exchange
      <4>1. mine \in DOMAIN candles => candles[mine] \in Candles
        BY DEF TypeOK
      <4> QED BY <3>2, <3>5, <4>1, UpdateType
    <3>7. mine \notin DOMAIN candles => /\ candles'[mine].instrument_id = ToInstrumentId(mine)
                                        /\ candles'[mine].exchange = Exchange[Venue]
      BY <3>0, <3>4, <3>5 DEF CreateCandle
    <3>8. \A i \in DOMAIN candles' : /\ candles'[i].instrument_id = ToInstrumentId(i)
                                     /\ candles'[i].exchange = Exchange[Venue]
      BY <3>5, <3>6, <3>7 DEF Labelled
    <3>9. \A k \in DOMAIN pending' : pending'[k].exchange = Exchange[Venue]
      BY <3>3 DEF Labelled
    <3> QED BY <3>1, <3>8, <3>9 DEF Labelled
  <2>3. CASE UNCHANGED vars
    BY <2>3 DEF vars, Labelled, Venue
  <2> QED BY <2>1, <2>2, <2>3 DEF Next
<1> QED BY <1>1, <1>2, CandleTypes, PTL DEF Spec

\* The ids of a candle in the snapshot name its instrument and its exchange,
\* for every instrument the program knows.
THEOREM SnapshotCorrect == Spec => []SnapshotIdentifies
<1>1. Labelled => SnapshotIdentifies
  <2> SUFFICES ASSUME Labelled, NEW i \in DOMAIN candles \cap DOMAIN InstrumentId
               PROVE  {c \in GetCandlesSnapshot : /\ ToInstrumentString(c.instrument_id) = i
                                                 /\ ToExchangeString(c.exchange) = Venue}
                          = {candles[i]}
    BY DEF SnapshotIdentifies
  <2>1. \A j \in DOMAIN candles : /\ ToInstrumentString(candles[j].instrument_id) = i <=> j = i
                                  /\ ToExchangeString(candles[j].exchange) = Venue
    BY NamesRoundTrip DEF Labelled
  <2> QED BY <2>1 DEF GetCandlesSnapshot
<1> QED BY <1>1, LabelledInvariant, PTL
=============================================================================
