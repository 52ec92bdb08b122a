SPECIFICATION FairSpec
CONSTANTS
    h1 = h1
    h2 = h2
    Hosts = {h1}
    MaxRequests = 1
    MaxConns = 2
    Requests = {}
    Mishaps = {"drop"}
PROPERTY ExitsAreReported
CHECK_DEADLOCK FALSE
