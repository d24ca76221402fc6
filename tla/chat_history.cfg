CONSTANTS
    q1 = q1
    q2 = q2
    q3 = q3
    q4 = q4
    q5 = q5
    t1 = t1
    t2 = t2
    Requests = {q1, q2, q3, q4, q5}
    Turns = {t1, t2}
    TurnOf <- TwoTurns
    Opening = t1
    MaxMessages = 4
    MaxAttempts = 2
    MaxDeletes = 1
    MaxFails = 1
SPECIFICATION Spec
CONSTRAINT AtMostFour
SYMMETRY Alike
INVARIANTS
    CapacityIsNotOversold
    OrderIsUnique
    OnceUnlessShared
    StoredIsThere
CHECK_DEADLOCK FALSE
