\* stop() tests the list, then sleeps.
SPECIFICATION FairSpec
CONSTANTS
    Workers = {w1}
    Clients = {c1}
    Requests = {r1, r2}
    NullRequests = {}
    NoRequest = NoRequest
    MaxRequests = 2
PROPERTY
    StopReturns
CHECK_DEADLOCK FALSE
