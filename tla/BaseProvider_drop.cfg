SPECIFICATION DropSpec
CONSTANTS
    Sessions = {s1, s2, s3}
    None = None
    MaxReconnectAttempts = 2
    MaxStarts = 2
INVARIANTS TypeOK TerminateExplained
PROPERTIES QuietAfterStop StopReturns WorkerEnds ReconnectsWithinBudget
CHECK_DEADLOCK FALSE
