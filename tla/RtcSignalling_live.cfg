SPECIFICATION FairSpec
CONSTANTS
    s1 = s1
    r1 = r1
    r2 = r2
    Sid = {s1}
    Nonce = {1}
    Gen = {1, 2}
    Channel = {r1}
    MaxIdentities = 8
    MaxRestarts = 0
    MaxRevocations = 0
    Mishaps = {"full"}
    Cap <- WideCaps
PROPERTY BindingsAreBacked
CHECK_DEADLOCK FALSE
