SPECIFICATION RegSpec
CONSTANTS
    v1 = v1
    v2 = v2
    a = a
    b = b
    Slots = {s1, s2}
    Instances = {i1, i2}
    Versions = {v1, v2}
    Contents = {a, b}
    Uploads <- ConflictAndOther
    Absent = absent
    Partial = partial
    Backends = {"local", "b2"}
    MaxPublishes <- ThreeLocalTwoShared
    MaxFailures = 1
INVARIANTS
    Backed
    RefreshSeesAcked
    Durable
PROPERTIES
    KeepsPromise
CHECK_DEADLOCK FALSE
SYMMETRY Symmetry
