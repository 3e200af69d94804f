\* Three tasks through a ring of two, whose size the clients respect.
SPECIFICATION FairSpec
CONSTANTS
    Workers = {w1, w2}
    Waiters = {a1}
    Destroyers = {d1}
    Tasks = {t1, t2, t3}
    NoTask = NoTask
    TaskQueueMax = 2
    MaxOutstanding = 2
INVARIANTS
    TypeOK
    RingHoldsQueued
    StartedInOrder
    ScheduledCountsRunning
PROPERTIES
    EveryTaskRuns
    WaitReturns
CHECK_DEADLOCK FALSE
