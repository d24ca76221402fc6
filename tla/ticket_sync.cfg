CONSTANTS
    N = 2
    MaxTime = 2
    Overlap = 1
    PageSize = 1
    MaxRecords = 2
    MaxReconcile = 2
    Closing = {1}
    MaxFails = 1
SPECIFICATION FairSpec
INVARIANTS
    NothingFallsBehind
    ReadyIsSearchable
    RowHasEnvelope
    ListedStaysActive
PROPERTIES
    CatchesUp
