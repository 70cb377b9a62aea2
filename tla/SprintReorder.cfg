SPECIFICATION Spec
CONSTANTS
    Sprint = {s1, s2, s3, s4}
    NoSprint = NoSprint
    Issue = {}
    Tx = {}
INVARIANT ShiftsApart
CHECK_DEADLOCK FALSE
