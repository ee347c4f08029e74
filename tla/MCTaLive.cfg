SPECIFICATION FairSpec
CONSTANTS
    Threads = {t1, t2, t3}
    Ctxs = {c1}
    Setups <- Plain
    MaxId = 2
    MaxTa = 1
    NW = NW
    NULL = NULL
    X = X
    Y = Y
PROPERTIES LockIsTaken UnlinkedIsFreed
