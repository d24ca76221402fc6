CONSTANTS
    d1 = d1
    d2 = d2
    d3 = d3
    r1 = r1
    r2 = r2
    Runs = {r1, r2}
    Deliveries = {d1, d2, d3}
    RunOf <- Duplicate
    Size <- Shrinking
    None = None
    Workers = 2
    MaxReceives = 2
    MaxFails = 2
SPECIFICATION FairSpec
INVARIANTS
    OnlyCommittedIsVisible
    PendingMeansRequested
    QuietIsWhole
PROPERTIES
    SharedChunksStay
    PendingIsSettled
CHECK_DEADLOCK FALSE
