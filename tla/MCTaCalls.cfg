SPECIFICATION Spec
CONSTANTS
    Threads = {t1, t2}
    Ctxs = {c1, c2}
    Setups <- CallingAndStatistics
    MaxId = 2
    MaxTa = 1
    NW = NW
    NULL = NULL
    X = X
    Y = Y
SYMMETRY SymmetryOfCalls
INVARIANTS CountsExact PanicOnlyOnReentry OnlyStatisticsDeadlock
CHECK_DEADLOCK FALSE
