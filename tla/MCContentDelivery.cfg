SPECIFICATION Spec
CONSTANTS
    u1 = u1
    u2 = u2
    h1 = h1
    h2 = h2
    p1 = p1
    r1 = r1
    None = None
    Uploads = {u1, u2}
    Multipart = {u2}
    Parts = {1, 2}
    Handlers = {h1, h2}
    Putters = {p1}
    Readers = {r1}
    GcGrace = 1
    DownloadExpiry = 1
    Lease = 1
    MaxTime = 2
SYMMETRY MCSymmetry
CHECK_DEADLOCK FALSE
INVARIANTS
    LocationServesContent
    LiveContentWhole
