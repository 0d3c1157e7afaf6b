SPECIFICATION ChanSpec
CONSTANTS
    Users = {p, q, r}
    Values = {x, y}
    Null = null
    Capacity = 2
    MaxCalls = 2
INVARIANTS
    NoLostWakeup
PROPERTIES
    ImplementsQueue
CHECK_DEADLOCK FALSE
