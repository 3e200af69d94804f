\* Two clients in turn and two messages.
SPECIFICATION FairSpec
CONSTANTS
    Conns = {k1, k2}
    Messages = {m1, m2}
    NULL = NULL
INVARIANTS
    TypeOK
    EachMessageOnePlace
    NoSleepBesideMail
PROPERTIES
    MailDelivered
    DestroyReturns
CHECK_DEADLOCK FALSE
