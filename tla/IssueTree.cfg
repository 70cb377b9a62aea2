SPECIFICATION Spec
CONSTANTS
    MaxIssue = 3
    Series = {s1}
    NoSeries = NoSeries
    Tx = {t1, t2}
    Operations <- TreeOperations
SYMMETRY Symmetry
INVARIANT LiveUnderLive
