SPECIFICATION FairSpec
CONSTANTS
    i1 = i1
    i2 = i2
    timer1 = timer1
    http1 = http1
    http2 = http2
    proc1 = proc1
    proc2 = proc2
    None = None
    Items = {i1, i2}
    Callers = {timer1, http1, http2}
    Timers = {timer1}
    ProcessOf <- MCProcessOf
    ExpiresAt <- MCExpiresAt
    BatchSize = 1
    Lease = 1
    Budget = 1
    Day = 2
    At = 0
    Offset = 1
    MAX_ATTEMPTS = 2
    MAX_PASSES = 1
    MaxTime = 1
    MaxAttempts = 0
CHECK_DEADLOCK FALSE
INVARIANTS
    FlagMeansPass
    DrainedMeansDone
PROPERTIES
    OncePerScheduledInstant
    EveryPassEnds
