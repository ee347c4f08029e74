SPECIFICATION ReeFsSpec
CONSTANTS
    Threads = {t1, t2}
    Names = {n1, n2}
    MaxHandles = 2
    MaxPobjs = 3
    MaxTx = 3
    Setups <- Normal
    NULL = NULL
SYMMETRY ReeFsSymmetry
INVARIANTS ReeFsTypeOK StoredObjectsRead DirhRefs ExclusiveAccess PobjRefs EnumerationComplete
PROPERTIES ImplementsObjectStore
CHECK_DEADLOCK FALSE
