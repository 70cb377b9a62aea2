SPECIFICATION Spec
CONSTANTS
    Object = {o1, o2}
    NoObject = NoObject
    Request = {r1, r2}
    Worker = {w1, w2}
    Misconfigured = {}
    BatchSize = 1
    MaxAttempts = 2
    MaxClaims = 2
    Faults = {}
SYMMETRY Symmetry
INVARIANTS TypeOK LiveBytesKept NoBytesForgotten LeaseExclusive
CHECK_DEADLOCK FALSE
