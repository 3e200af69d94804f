\* Two clients append, one of them stops the pool; one request is null.
SPECIFICATION FairSpec
CONSTANTS
    Workers = {w1, w2}
    Clients = {c1, c2}
    Requests = {r1, r2, r3, r4}
    NullRequests = {r4}
    NoRequest = NoRequest
    MaxRequests = 1
INVARIANTS
    TypeOK
    EveryRequestHasToken
    RequestInOneHand
    StopDrains
PROPERTIES
    AcceptedRequestsRun
    WorkersEnd
CHECK_DEADLOCK FALSE
