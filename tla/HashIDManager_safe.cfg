SPECIFICATION Spec
CONSTANTS
    Hashes = {0, 1, 2, 3}
    Torn = 99
    MaxHashSize = 3
    Sizes = {0, 1, 2, 9}
    MaxInits = 3
    MaxNew = 7
INVARIANTS TypeOK RecentRemembered MemoryBounded NewAccepted
CHECK_DEADLOCK FALSE
