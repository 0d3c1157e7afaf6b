SPECIFICATION Spec
CONSTANTS
    Main = main
    Echo = {a, b}
    None = none
    MaxLines = 1
PROPERTY
    RunReturns
CHECK_DEADLOCK FALSE
