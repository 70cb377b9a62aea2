SPECIFICATION Spec
CONSTANTS
    Sprint = {s1, s2, s3}
    NoSprint = NoSprint
    Issue = {i1, i2}
    Tx = {t1, t2}
SYMMETRY Symmetry
INVARIANTS TypeOK ActiveInSprintMode NothingLeftBehind HistoryRecorded
PROPERTIES OpenSprintsGainIssues
CHECK_DEADLOCK FALSE
