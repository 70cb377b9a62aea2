SPECIFICATION Spec
CONSTANTS
    MaxIssue = 3
    Series = {s1, s2}
    NoSeries = NoSeries
    Tx = {t1, t2}
    Operations <- RepeatOperations
SYMMETRY Symmetry
INVARIANT OneLiveRepetition
PROPERTY SeriesGrowth
