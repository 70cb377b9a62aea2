SPECIFICATION Spec
CONSTANTS
    Object = {o1, o2}
    NoObject = NoObject
    Request = {r1}
    Worker = {w1}
    Misconfigured = {}
    BatchSize = 1
    MaxAttempts = 1
    MaxClaims = 1
    Faults = {"cleanupStore"}
SYMMETRY Symmetry
INVARIANT LiveBytesKept
CHECK_DEADLOCK FALSE
