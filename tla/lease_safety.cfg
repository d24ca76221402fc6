CONSTANTS
    m1 = m1
    m2 = m2
    o1 = o1
    o2 = o2
    Messages = {m1, m2}
    Objects = {o1}
    ObjectOf <- SameObject
    Analyses = {a1, a2}
    Absent = Absent
    LambdaTimeout = 1
    LockSeconds = 2
    Visibility = 3
    MaxReceives = 2
    MaxExpiries = 1
    Faults = {"crash", "analysis", "store", "lag", "rejected", "lostAnswer", "ttl", "archive"}
SPECIFICATION Spec
SYMMETRY Alike
INVARIANTS SingleWriter SkipMeansApplied PostedIsStored
PROPERTY GuardsTheWrite
CHECK_DEADLOCK FALSE
