SPECIFICATION Spec
CONSTANTS
    Threads = {t1, t2, t3}
    Condvars = {c1}
    NULL = NULL
SYMMETRY Symmetry
INVARIANTS TypeOK LockWord QueueExact NoLostWakeup DoneIsNotified CondvarWaitsForSignal
PROPERTIES ImplementsRWLock
