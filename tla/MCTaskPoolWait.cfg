\* pool_wait beside queued tasks.
SPECIFICATION Spec
CONSTANTS
    Workers = {w1, w2}
    Waiters = {a1}
    Destroyers = {}
    Tasks = {t1, t2, t3}
    NoTask = NoTask
    TaskQueueMax = 3
    MaxOutstanding = 3
PROPERTY
    WaitMeansDone
CHECK_DEADLOCK FALSE
