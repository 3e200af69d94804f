\* Two connections at a time, and as many timers, used again and again.
SPECIFICATION FairSpec
CONSTANTS
    Fds = {f1, f2}
    Cells = {c1, c2}
    NULL = NULL
    Slot = 1
    Timeout = 2
    MaxBacklog = 2
INVARIANTS
    TypeOK
    ListInOrder
    TimersMatch
    EventsHold
PROPERTIES
    IdleClosed
CHECK_DEADLOCK FALSE
