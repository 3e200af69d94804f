\* Four threads, more rounds than there are generation numbers.
SPECIFICATION FairSpec
CONSTANTS
    Threads = {t1, t2, t3, t4}
    Threshold = 4
    UIntMax = 1
    MaxRounds = 4
INVARIANTS
    TypeOK
    BarrierHolds
    OneReturnsTrue
PROPERTIES
    EverybodyPasses
CHECK_DEADLOCK FALSE
