\* Three activations, five classes of programs; no symmetry, since liveness
\* is checked too.
SPECIFICATION FairSpec
CONSTANTS
    None = None
    Frames = {root, f1, f2}
    Root = root
    MaxHandle = 2
    Limit = 2
    MaxGroups = 2
    MaxScope = 2
    Classes <- MCClasses
INVARIANTS
    HeldOnce
    OkMeansJoined
    Lossless
    CancelledNotAggregated
    TokenIsInnermost
    NoStaleValue
PROPERTIES
    DrainTerminates
