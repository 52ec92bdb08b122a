SPECIFICATION Spec
CONSTANTS
    h1 = h1
    h2 = h2
    Hosts = {h1}
    MaxRequests = 2
    MaxConns = 1
    Requests = {"restart"}
    Mishaps = {"lost"}
PROPERTY CrashedWorkersAreReplaced
CHECK_DEADLOCK FALSE
