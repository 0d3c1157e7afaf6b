SPECIFICATION Spec
CONSTANTS
    Main = main
    Echo = {a, b, c}
    None = none
    MaxLines = 1
INVARIANTS
    NoCircularWait
    NoneDetached
    OutputKept
    FailureNotLost
PROPERTY
    EndsUnlessLocked
CHECK_DEADLOCK FALSE
