SPECIFICATION Spec
CONSTANTS
    Messages <- OnlyBinance
    Instruments <- MCInstruments
    interval_ms = 5
    MaxTrades = 2
    Unparsable = Unparsable
    Leftovers <- MCLeftovers
INVARIANT NeverTerminates
CHECK_DEADLOCK FALSE
