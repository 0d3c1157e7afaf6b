SPECIFICATION Spec
CONSTANTS
    Entry = main
    lib = lib
    util = util
    File = {main, lib, util}
    g = g
    h = h
    T = T
    m = m
    FnName = {g, h}
    TypeName = {T}
    Alias = {m}
    Missing = missing
    Unsafe = unsafe
    Graphs <- UpToThree
    Contents <- Small
INVARIANTS
    MergesWanted
    FailsOnConflict
    FlatCallsResolved
PROPERTY
    LoadEnds
CHECK_DEADLOCK FALSE
