CONSTANTS
    c1 = c1
    c2 = c2
    c3 = c3
    x = x
    y = y
    z = z
    Calls = {c1, c2, c3}
    Ids = {x, y, z}
    IdOf <- OneRetry
    NoDoc = NoDoc
    MaxConcurrency = 1
    MaxRequests = 2
    Cost = 5
    MaxBudget = 10
    WindowSeconds = 2
    LeaseSeconds = 1
    DedupeSeconds = 1
    MaxAttempts = 2
    MaxTime = 3
    Faults = {"store"}
SPECIFICATION Spec
INVARIANTS ConcurrencyLimit CountedOncePerId LostRoundsAreChanges WindowLimitUnlessStraddled
CHECK_DEADLOCK FALSE
