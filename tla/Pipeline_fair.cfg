SPECIFICATION PipelineFairSpec
CONSTANTS
    Missing = Missing
    Malformed = Malformed
    NoName = NoName
    Configured <- MCConfigured
    Instruments <- MCInstruments
    Messages <- MCMessages
    PipeCapacity = 2
    MaxTrades = 3
    MaxReceived = 3
    MaxStarts = 2
INVARIANTS
    TypeOK NoTradeLost CallbackNotConcurrent NeverTerminates ProcessedIsEmitted
    CandlesInOrder ReservedIsOwned ExchangeOrderKept Consolidated
PROPERTIES StopEnds PipeIsQueue HandlersReturn Delivered
CHECK_DEADLOCK FALSE
