SPECIFICATION Spec
CONSTANTS
    c1 = c1
    c2 = c2
    w1 = w1
    w2 = w2
    NoConn = NoConn
    Conn = {c1, c2}
    Worker = {w1}
    Home <- OneProcess
    MaxGeneration = 2
    MaxLapses = 1
    Mishaps = {"lost", "abandon", "drop", "cleanup", "crash"}
INVARIANT TypeOK
INVARIANT OwnerIsRouted
INVARIANT OneConnectionPerGeneration
INVARIANT ReservationIsNewest
INVARIANT LeaseFollowsCommit
PROPERTY WritesInGenerationOrder
PROPERTY CleanupSparesOthers
PROPERTY RefusedOnlyByNewer
CHECK_DEADLOCK FALSE
