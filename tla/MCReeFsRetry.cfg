SPECIFICATION ReeFsSpec
CONSTANTS
    Threads = {t1}
    Names = {n1}
    MaxHandles = 1
    MaxPobjs = 1
    MaxTx = 3
    Setups <- Retry
    NULL = NULL
PROPERTIES ObjectsSurvive
CHECK_DEADLOCK FALSE
