SPECIFICATION Spec
CONSTANTS
    NumberTexts <- MCNumberTexts
    ListTexts <- MCListTexts
    Minus = Minus
    Letter = Letter
    EmptyName = EmptyName
    DefaultExchanges <- MCDefaultExchanges
    DefaultInstruments <- MCDefaultInstruments
    DefaultPort = 51
    DefaultInterval = 5
    IntMax = 99
    MaxArgs = 3
INVARIANT IntervalAsGiven
CHECK_DEADLOCK FALSE
