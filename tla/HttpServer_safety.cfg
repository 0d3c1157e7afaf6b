SPECIFICATION Spec
CONSTANTS
    Conn = {c1, c2}
    Worker = {w1, w2}
    Main = main
    Spare = {f1}
    Acceptor = acceptor
    Poller = poller
    None = none
    Wake = wake
    Capacity = 1
    BacklogLimit = 2
    MaxRequests = 2
    MaxStops = 2
    MaxFaults = 1
INVARIANTS
    OwnedOnce
    RunStopsServer
    AtMostOneUnserved
SYMMETRY Symmetry
CHECK_DEADLOCK FALSE
