SPECIFICATION Spec
CONSTANTS
    Threads = {t1, t2, t3}
    Mobjs = {o1, o2}
    Cookies = {k1}
    Pages = {p1}
    MaxCalls = 4
    NULL = NULL
    Cores = {x1, x2}
    NumThreads = 2
    Buffers = {b1, b2}
    MaxStdCalls = 3
    NoBuf = NoBuf
    Drivers = {d1, d2, d3}
    NotifThreads = {n1, n2}
    NOTIF_ASYNC_VALUE_MAX = 2
    MaxEvents = 4
    NoDriver = NoDriver
    MaxIdx = 130
INVARIANTS LayoutSound RefsExact NoUseAfterFree SharedIsNotProtected ResumedAsSuspended BuffersExact DriversAgree NoValueLost
PROPERTIES PanicOnlyOnTemporary ReleaseReturns
CHECK_DEADLOCK FALSE
