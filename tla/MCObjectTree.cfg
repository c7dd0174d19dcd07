CONSTANTS
    None = None
    Keep = Keep
    t1 = t1
    t2 = t2
    t3 = t3
    Ids <- MCIds
    Tx = {t1, t2, t3}
    Names <- MCNames
    Metas <- MCMetas
    Patches <- MCPatches
    Requests <- MCRequests
    InitialRows <- MCInitialRows
    DESCENDANT_LOCK_ATTEMPTS = 3
SPECIFICATION Spec
SYMMETRY MCSymmetry
INVARIANTS TypeOK EveryPrefixIsATree FeedTellsHistory IfMatchHonoured OrderLockHolderRuns
PROPERTY ImplementsTreeStore
CHECK_DEADLOCK FALSE
