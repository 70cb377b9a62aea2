SPECIFICATION FairSpec
CONSTANTS
    Object = {o1, o2}
    NoObject = NoObject
    Request = {r1}
    Worker = {w1, w2}
    Misconfigured = {w2}
    BatchSize = 2
    MaxAttempts = 2
    MaxClaims = 2
    Faults = {"lostCommit", "cleanupStore"}

INVARIANTS NoBytesForgotten
PROPERTIES DeletedBytesGo
CHECK_DEADLOCK FALSE
