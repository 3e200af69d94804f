\* Two adders fill a queue of two; two threads call destory whenever they like.
SPECIFICATION FairSpec
CONSTANTS
    Producers = {p1, p2}
    Workers = {w1, w2}
    Destroyers = {d1, d2}
    Jobs = {j1, j2, j3}
    QueueMax = 2
    NULL = NULL
INVARIANTS
    TypeOK
    QueueIsList
    JobInOneHand
    CloseInOrder
    NoSleepBesideWork
PROPERTIES
    JobQueueSpec
    AcceptedJobsRun
    AddReturns
    DestroyFrees
CHECK_DEADLOCK FALSE
