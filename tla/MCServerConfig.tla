--------------------------- MODULE MCServerConfig ---------------------------
(* The instance of ServerConfig that TLC checks.                            *)
EXTENDS ServerConfig

\* Texts of up to four characters: numbers in and beyond the range, with a
\* sign (the smallest int among them), with a letter behind or before, and none.
MCNumberTexts ==
    {<<>>, <<7>>, <<1, 0>>, <<9, 9>>, <<1, 0, 0>>, <<Minus, 5>>, <<3, Letter>>,
     <<Letter, 3>>, <<Letter, Minus, 2>>, <<Minus>>, <<Minus, 1, 0, 0>>}

\* "", "a", "a,b", "b," and ",".
MCListTexts ==
    {<<EmptyName>>, <<"a">>, <<"a", "b">>, <<"b", EmptyName>>, <<EmptyName, EmptyName>>}

MCDefaultExchanges == <<"binance", "bybit", "okx">>
MCDefaultInstruments == <<"BTCUSDT", "ETHUSDT", "SOLUSDT">>
=============================================================================
