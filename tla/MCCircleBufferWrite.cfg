\* A full ring.
SPECIFICATION FairSpec
CONSTANTS
    Readers = {r1}
    Writers = {w1}
    PoolSize = 2
    SubSize = 2
    UIntMax = 9
    MaxMessages = 3
    MaxSubs = 1
    NONE = NONE
PROPERTY
    WriteReturns
CHECK_DEADLOCK FALSE
