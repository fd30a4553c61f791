SPECIFICATION FairSpec
CONSTANTS
    Sessions = {s1, s2, s3}
    None = None
    MaxReconnectAttempts = 2
    MaxStarts = 1
PROPERTY StopReturns
CHECK_DEADLOCK FALSE
