------------------------------- MODULE RWLock -------------------------------
(***************************************************************************)
(* What a kernel mutex of core/kernel/mutex.c promises its users, and      *)
(* nothing about how: either one thread has it for writing, or any number  *)
(* of threads have it for reading.  Mutex.tla implements this module.      *)
(***************************************************************************)
CONSTANT Threads

VARIABLES
    writers,    \* threads between mutex_lock() and mutex_unlock()
    readers     \* threads between mutex_read_lock() and mutex_read_unlock()

lockVars == <<writers, readers>>

Init ==
    /\ writers = {}
    /\ readers = {}

AcquireWrite(t) ==
    /\ writers = {}
    /\ readers = {}
    /\ writers' = {t}
    /\ UNCHANGED readers

AcquireRead(t) ==
    /\ writers = {}
    /\ t \notin readers
    /\ readers' = readers \cup {t}
    /\ UNCHANGED writers

ReleaseWrite(t) ==
    /\ t \in writers
    /\ writers' = writers \ {t}
    /\ UNCHANGED readers

ReleaseRead(t) ==
    /\ t \in readers
    /\ readers' = readers \ {t}
    /\ UNCHANGED writers

Next ==
    \E t \in Threads :
        \/ AcquireWrite(t)
        \/ AcquireRead(t)
        \/ ReleaseWrite(t)
        \/ ReleaseRead(t)

Spec == Init /\ [][Next]_lockVars
=============================================================================
