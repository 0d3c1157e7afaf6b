SPECIFICATION ProjectSpec
CONSTANTS
    a = a
    b = b
    x = x
    y = y
    Packages = {a, b}
    Releases <- AllReleases
    Contents = {x, y}
    None = none
    Partial = partial
    MaxTurns = 6
    Registries <- SomeRegistries
    RootSets <- NoRoots
    Checkouts <- SomeCheckouts
    Upcoming <- Later
    Commands <- SomeCommands
    Layouts <- SomeLayouts
    MaxCommands = 2
    MaxMoves = 1
    MaxBreaks = 1
INVARIANTS
    Sound
    PicksMaximum
    Installed
    AddAllOrNothing
PROPERTY
    NeverRepinned
CHECK_DEADLOCK FALSE
