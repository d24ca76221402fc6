CONSTANTS
    aj = aj
    at = at
    bj = bj
    a = a
    b = b
    Bases = {aj, at, bj}
    Stems = {a, b}
    Stem <- StemOf
    DropNames <- SharedReport
    Workers = {w1, w2}
    Idle = Idle
    Modes = {TRUE}
    MaxQueueDepth = 2
    MaxDrops = 3
    MaxCrashes = 0
    MaxStops = 0
    MaxFailures = 1
SPECIFICATION Spec
INVARIANTS ProcessedHasReport InFlightExact
SYMMETRY WorkerSymmetry
CHECK_DEADLOCK FALSE
