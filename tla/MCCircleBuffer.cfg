\* Three readers for two fields; messages that fill the ring and overrun it.
SPECIFICATION FairSpec
CONSTANTS
    Readers = {r1, r2, r3}
    Writers = {w1}
    PoolSize = 2
    SubSize = 2
    UIntMax = 9
    MaxMessages = 3
    MaxSubs = 3
    NONE = NONE
INVARIANTS
    TypeOK
    NoGhostSubscriber
    CountIsLive
    InOrder
PROPERTIES
    CallsReturn
CHECK_DEADLOCK FALSE
