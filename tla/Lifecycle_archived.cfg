SPECIFICATION FairSpec
CONSTANTS
    h1 = h1
    h2 = h2
    Hosts = {h1}
    MaxRequests = 2
    MaxConns = 2
    Requests = {"archive"}
    Mishaps = {"drop"}
PROPERTY ArchivedWindowsStop
CHECK_DEADLOCK FALSE
