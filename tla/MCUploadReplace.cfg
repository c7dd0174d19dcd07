CONSTANTS
    None = None
    u1 = u1
    u2 = u2
    o1 = o1
    p1 = p1
    p2 = p2
    t1 = t1
    t2 = t2
    w1 = w1
    Uploads = {u1, u2}
    Objects = {o1}
    Target <- MCTarget
    Multipart = {}
    ProviderIds = {p1}
    Tasks = {t1, t2}
    Workers = {w1}
    BatchSize = 1
SPECIFICATION Spec
SYMMETRY MCSymmetry
INVARIANTS LiveContentReadable CollectedBlobsAreDead SupersededContentQueued
PROPERTIES EndedSessionsStayEnded ImplementsUploadStore
