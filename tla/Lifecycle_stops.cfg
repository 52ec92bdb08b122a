SPECIFICATION FairSpec
CONSTANTS
    h1 = h1
    h2 = h2
    Hosts = {h1, h2}
    MaxRequests = 2
    MaxConns = 2
    Requests = {"move", "archive"}
    Mishaps = {"drop", "crash"}
PROPERTY UnwantedWorkersStop
PROPERTY RowsTellTheTruth
CHECK_DEADLOCK FALSE
