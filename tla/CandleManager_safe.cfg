SPECIFICATION Spec
CONSTANTS
    Messages <- AllMessages
    Instruments <- MCInstruments
    interval_ms = 5
    MaxTrades = 4
    Unparsable = Unparsable
    Leftovers <- MCLeftovers
INVARIANTS TypeOK PricesExact VolumesExact WindowAligned SnapshotIdentifies
CHECK_DEADLOCK FALSE
