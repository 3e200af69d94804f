\* Readers that (un)subscribe beside queued messages.
SPECIFICATION FairSpec
CONSTANTS
    Readers = {r1, r2}
    Writers = {w1}
    PoolSize = 2
    SubSize = 2
    UIntMax = 9
    MaxMessages = 3
    MaxSubs = 3
    NONE = NONE
INVARIANT
    CountWithinPool
CHECK_DEADLOCK FALSE
