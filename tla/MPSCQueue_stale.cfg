SPECIFICATION Spec
CONSTANTS
    Producers = {p1, p2, p3}
    Capacity = 2
    MaxPushes = 2
    StaleReads = TRUE
SYMMETRY ProducerSymmetry
INVARIANTS
    IInv
    FifoDelivery
    ExclusiveCell
    NeverOverfull
PROPERTY
    ImplementsBoundedQueue
