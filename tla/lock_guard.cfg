CONSTANTS
    Workers = {w1, w2}
    Nobody = Nobody
    Orphan = Orphan
    WaitTimeout = 1
    StaleAfter = 2
    HoldMax = 2
    MaxJobs = 1
    MaxCrashes = 1
    Faults = {"crash", "lockWrite", "unlink", "release", "markerWrite", "ambiguous", "retention"}
SPECIFICATION FairSpec
INVARIANTS HolderOwnsLock AtMostOnceUnlessLapse SkipMeansApplied
PROPERTY EveryCallReturns
CHECK_DEADLOCK FALSE
