SPECIFICATION Spec
CONSTANTS
    Sessions = {s1, s2, s3}
    None = None
    MaxReconnectAttempts = 2
    MaxStarts = 1
INVARIANT StoppedHasNoThread
CHECK_DEADLOCK FALSE
