SPECIFICATION Spec
CONSTANTS
    w1 = w1
    w2 = w2
    w3 = w3
    r1 = r1
    r2 = r2
    None = None
    Writers = {w1, w2}
    Readers = {r1}
    BatchSizes = {1}
    Limits = {1, 2}
    Retention = 0
    CursorTTL = 1
    MaxCursors = 3
    MaxSeq = 2
    MaxTime = 2
CHECK_DEADLOCK FALSE
INVARIANT NoSilentGap
