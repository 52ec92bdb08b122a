SPECIFICATION FairSpec
CONSTANTS
    c1 = c1
    c2 = c2
    w1 = w1
    w2 = w2
    NoConn = NoConn
    Conn = {c1, c2}
    Worker = {w1, w2}
    Home <- TwoProcesses
    MaxGeneration = 2
    MaxLapses = 1
    Mishaps = {"lost", "crash"}
PROPERTY OwnershipConverges
CHECK_DEADLOCK FALSE
