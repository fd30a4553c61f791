SPECIFICATION EndlessSpec
CONSTANTS
    Producers = {p1, p2}
    Capacity = 2
    MaxPushes = 1
    StaleReads = FALSE
PROPERTIES
    FullMeansFull
    EmptyMeansEmpty
    ClaimedIsDelivered
    PushReturns
