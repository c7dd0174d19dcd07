SPECIFICATION Spec
CONSTANTS
    a1 = a1
    a2 = a2
    a3 = a3
    None = None
    Attempts <- MCAttempts
    RequestHash <- MCHash
    Lease = 1
    CONTENTION_POLLS = 2
    MaxTime = 1
    MaxAbandoned = 2
CHECK_DEADLOCK FALSE
SYMMETRY SameRequest
INVARIANTS
    ReplyMatchesRequest
    DefiniteErrorIsFinal
PROPERTIES
    ImplementsOnceOnly
