SPECIFICATION Spec
CONSTANTS
    h1 = h1
    h2 = h2
    Hosts = {h1}
    MaxRequests = 3
    MaxConns = 2
    Requests = {"restart", "archive", "unarchive", "delete"}
    Mishaps = {"drop", "cancel", "late", "crash", "fail", "lost", "stuck", "slow", "rush", "deaf"}
INVARIANT LifecycleTypeOK
PROPERTY SignalsFindTheirWorker
CHECK_DEADLOCK FALSE
