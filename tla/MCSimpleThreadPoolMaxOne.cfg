\* A queue of one place.
SPECIFICATION FairSpec
CONSTANTS
    Producers = {p1}
    Workers = {w1}
    Destroyers = {d1}
    Jobs = {j1, j2, j3}
    QueueMax = 1
    NULL = NULL
PROPERTY
    AddReturns
CHECK_DEADLOCK FALSE
