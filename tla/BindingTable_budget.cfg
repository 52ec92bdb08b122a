SPECIFICATION TableSpec
CONSTANTS
    s1 = s1
    s2 = s2
    n1 = n1
    r1 = r1
    r2 = r2
    Sid = {s1, s2}
    Nonce = {n1}
    Gen = {1, 2}
    Channel = {r1, r2}
    MaxIdentities = 3
    Cap <- SmallCaps
SYMMETRY Interchangeable
INVARIANTS
    TypeOK
    RetirementAlwaysFits
    RetiredIdentitiesStayDead
    CapsHold
PROPERTY LeavesATombstone
