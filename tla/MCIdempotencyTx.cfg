SPECIFICATION Spec
CONSTANTS
    a1 = a1
    a2 = a2
    a3 = a3
    a4 = a4
    None = None
    Attempts <- MCFourAttempts
    RequestHash <- MCFourHash
    InTransaction = TRUE
    Lease = 1
    Retention = 2
    CONTENTION_POLLS = 1
    MaxTime = 2
CHECK_DEADLOCK FALSE
SYMMETRY SameRequest
INVARIANTS
    TypeOK
    ExactlyOnce
    ReplyMatchesRequest
PROPERTIES
    CompletedIsFinal
    ImplementsOnceOnly
