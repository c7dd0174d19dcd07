CONSTANTS
    None = None
    Keep = Keep
    t1 = t1
    t2 = t2
    t3 = t3
    Ids <- MCIds
    Tx = {t1, t2}
    Names <- MCNames
    Metas <- MCMetas
    Patches <- MCPatches
    Requests <- CrossingRequests
    InitialRows <- MCInitialRows
    DESCENDANT_LOCK_ATTEMPTS = 2
SPECIFICATION FairSpec
PROPERTY EveryMutationEnds
CHECK_DEADLOCK FALSE
