SPECIFICATION FairSpec
CONSTANTS
    a1 = a1
    a2 = a2
    a3 = a3
    a4 = a4
    None = None
    Attempts <- MCTwoAttempts
    RequestHash <- MCTwoHash
    InTransaction = FALSE
    Lease = 1
    Retention = 2
    CONTENTION_POLLS = 2
    MaxTime = 3
CHECK_DEADLOCK FALSE
PROPERTIES
    ImplementsOnceOnly
    EveryAttemptAnswered
