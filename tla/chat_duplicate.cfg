CONSTANTS
    q1 = q1
    q2 = q2
    q3 = q3
    q4 = q4
    q5 = q5
    t1 = t1
    t2 = t2
    Requests = {q1, q2, q3, q4, q5}
    Turns = {t1, t2}
    TurnOf <- TwoTurns
    Opening = t1
    MaxMessages = 4
    MaxAttempts = 2
    MaxDeletes = 0
    MaxFails = 0
SPECIFICATION Spec
INVARIANT
    OneTurnPerRequestId
CHECK_DEADLOCK FALSE
