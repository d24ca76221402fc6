CONSTANTS
    m1 = m1
    m2 = m2
    o1 = o1
    o2 = o2
    Messages = {m1, m2}
    Objects = {o1}
    ObjectOf <- SameObject
    Analyses = {a1, a2}
    Absent = Absent
    LambdaTimeout = 1
    LockSeconds = 1
    Visibility = 3
    MaxReceives = 2
    MaxExpiries = 0
    Faults = {"crash", "analysis", "rejected", "lostAnswer"}
SPECIFICATION FairSpec
INVARIANTS NoSilentLoss
PROPERTIES WritebackSettles
CHECK_DEADLOCK FALSE
