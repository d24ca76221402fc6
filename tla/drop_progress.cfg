CONSTANTS
    aj = aj
    at = at
    bj = bj
    a = a
    b = b
    Bases = {aj, at, bj}
    Stems = {a, b}
    Stem <- StemOf
    DropNames <- LooksSuffixed
    Workers = {w1}
    Idle = Idle
    Modes = {TRUE, FALSE}
    MaxQueueDepth = 1
    MaxDrops = 3
    MaxCrashes = 1
    MaxStops = 1
    MaxFailures = 1
SPECIFICATION FairSpec
INVARIANTS EveryInputKept RepeatedOnlyAfterFailure
PROPERTY EveryInputHandled
CHECK_DEADLOCK FALSE
