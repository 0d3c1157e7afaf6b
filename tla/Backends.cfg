\* Every program of the families, on the interpreter and then on the JIT.
SPECIFICATION FairSpec
CONSTANTS
    MaxInt = 3
    MaxDepth = 2
    Strict = FALSE
    Enums <- MCEnums
    Structs <- MCStructs
    Narrow <- MCNarrow
    Programs <- MCPrograms
    Inputs <- MCInputs
INVARIANTS
    MeansSource
    JitAgrees
    NeverStuck
PROPERTY RunsDone
CHECK_DEADLOCK FALSE
