CONSTANTS
    None = None
    u1 = u1
    u2 = u2
    o1 = o1
    p1 = p1
    p2 = p2
    t1 = t1
    t2 = t2
    w1 = w1
    Uploads = {u1}
    Objects = {o1}
    Target <- MCTarget
    Multipart = {u1}
    ProviderIds = {p1, p2}
    Tasks = {t1}
    Workers = {w1}
    BatchSize = 1
SPECIFICATION FairSpec
INVARIANTS TypeOK
PROPERTIES EverySessionEnds QueueDrains
