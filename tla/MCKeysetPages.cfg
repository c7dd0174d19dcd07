CONSTANTS
    None = None
    Keep = Keep
    c1 = c1
    c2 = c2
    c3 = c3
    Ids <- MCIds
    Clients = {c1, c2, c3}
    Requests <- MCRequests
    InitialRows <- MCInitialRows
    Queries <- MCQueries
    DefaultLimit = 1
    MaxLimit = 2
SPECIFICATION Spec
INVARIANTS SteadyRowsOnce PagesInOrder ResolvedWhereAsked
PROPERTIES AgreesWithMemoryStore EveryPageAdvances
SYMMETRY MCSymmetry
CHECK_DEADLOCK FALSE
