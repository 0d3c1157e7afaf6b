SPECIFICATION RegSpec
CONSTANTS
    v1 = v1
    v2 = v2
    a = a
    b = b
    Slots = {s1, s2}
    Instances = {i1}
    Versions = {v1, v2}
    Contents = {a, b}
    Uploads <- ConflictAndOther
    Absent = absent
    Partial = partial
    Backends = {"b2"}
    MaxPublishes <- OnePublish
    MaxFailures = 0
INVARIANT
    NextReadFresh
CHECK_DEADLOCK FALSE
