SPECIFICATION Spec
CONSTANTS
    Threads = {t1, t2}
    Ctxs = {c1, c2}
    Setups <- StatisticsOnly
    MaxId = 2
    MaxTa = 1
    NW = NW
    NULL = NULL
    X = X
    Y = Y
INVARIANTS NoDeadlock
CHECK_DEADLOCK FALSE
