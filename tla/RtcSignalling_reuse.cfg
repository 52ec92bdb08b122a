SPECIFICATION Spec
CONSTANTS
    s1 = s1
    r1 = r1
    r2 = r2
    Sid = {s1}
    Nonce = {1, 2}
    Gen = {1}
    Channel = {r1}
    MaxIdentities = 8
    MaxRestarts = 1
    MaxRevocations = 1
    Mishaps = {"full", "database", "fence"}
    Cap <- WideCaps
INVARIANTS
    SignallingTypeOK
PROPERTY GoodbyesAreTrue
CHECK_DEADLOCK FALSE
