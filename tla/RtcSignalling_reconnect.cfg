SPECIFICATION Spec
CONSTANTS
    s1 = s1
    r1 = r1
    r2 = r2
    Sid = {s1}
    Nonce = {1}
    Gen = {1, 2}
    Channel = {r1, r2}
    MaxIdentities = 8
    MaxRestarts = 0
    MaxRevocations = 0
    Mishaps = {"early"}
    Cap <- WideCaps
SYMMETRY EitherRelay
INVARIANTS
    ClosesOnlyTheForgotten
    NoneStranded
PROPERTY ImplementsTable
CHECK_DEADLOCK FALSE
