SPECIFICATION Spec
CONSTANTS
    Conn = {c1}
    Worker = {w1, w2}
    Main = main
    Spare = {f1}
    Acceptor = acceptor
    Poller = poller
    None = none
    Wake = wake
    Capacity = 1
    BacklogLimit = 2
    MaxRequests = 2
    MaxStops = 2
    MaxFaults = 1
PROPERTIES
    StopEnds
    RequestAnswered
CHECK_DEADLOCK FALSE
