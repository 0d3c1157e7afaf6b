SPECIFICATION SmallSpec
CONSTANTS
    Main = main
    Worker = {a, b}
    Users = {main, a, b}
    Values = {a, b, job}
    None = none
    Job = job
    Null = null
    Capacity = 1
    MaxCalls = 1
    MaxOps = 2
    Limits <- OneOrTwo
    Spawners <- MainOrAnyone
    Sharing <- Either
INVARIANTS
    LimitHolds
    JoinTruthful
    OnlyCirclesOutliveRun
PROPERTY
    RunEnds
CHECK_DEADLOCK FALSE
