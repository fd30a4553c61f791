SPECIFICATION Spec
CONSTANTS
    Sessions = {s1, s2, s3, s4}
    None = None
    MaxReconnectAttempts = 2
    MaxStarts = 2
SYMMETRY SessionSymmetry
INVARIANT CleanContext
CHECK_DEADLOCK FALSE
