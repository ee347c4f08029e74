SPECIFICATION Spec
CONSTANTS
    Threads = {t1, t2, t3}
    Ctxs = {c1, c2}
    Setups <- Sessions
    MaxId = 2
    MaxTa = 1
    NW = NW
    NULL = NULL
    X = X
    Y = Y
SYMMETRY Symmetry
INVARIANTS TypeOK SessionRefs ContextRefs BusyExact OneInstance NoDeadlock
