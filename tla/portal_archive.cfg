CONSTANTS
    j1 = j1
    j2 = j2
    Jobs = {j1, j2}
    Old = Old
    Rebuild = Rebuild
    Sweep = Sweep
    Related <- NotTransitive
    Fallback = {j2}
    Sizes <- Shrinking
    None = None
    Untouched = Untouched
    MaxAttempts = 2
    MaxFaults = 1
SPECIFICATION FairPortalSpec
INVARIANT SearchIsTruthful
PROPERTY EveryCallEnds
CHECK_DEADLOCK FALSE
