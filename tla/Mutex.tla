------------------------------- MODULE Mutex --------------------------------
(***************************************************************************)
(* One kernel mutex with its wait queue and the condition variables linked *)
(* to it: core/kernel/mutex.c and core/kernel/wait_queue.c.                *)
(*                                                                         *)
(* A step is one section under a spinlock, or one call into normal world.  *)
(* The section of m->spin_lock that also appends to the wait queue under   *)
(* wq_spin_lock is one step: nothing that runs under wq_spin_lock alone    *)
(* reads or writes m->state.  The wait queue element lives on the stack of *)
(* the thread that waits, so a thread has at most one and its fields are   *)
(* functions of the thread.                                                *)
(***************************************************************************)
EXTENDS Integers, Sequences, FiniteSets

CONSTANTS
    Threads,    \* the threads that use the mutex
    Condvars,   \* the condition variables used together with it
    NULL

ASSUME MutexAssumption ==
    /\ IsFiniteSet(Threads)
    /\ NULL \notin Threads
    /\ NULL \notin Condvars

VARIABLES
    state,      \* m->state: -1 write locked, 0 unlocked, n > 0 read locks
    wq,         \* m->wq, the threads in the order of their elements
    wait_read,  \* threads with wqe->wait_read; also, that ask for a read lock
    done,       \* threads with wqe->done
    cv,         \* wqe->cv
    cv_m,       \* the condvars whose cv->m is this mutex
    notified,   \* normal world: threads with an unconsumed notification
    pc,         \* where each thread is
    ret,        \* where the thread continues when wq_wake_next() returns
    wake_read,  \* wq_wake_next(): "none" until wake_type_assigned
    handle,     \* wq_wake_next(): the thread to notify
    panicked    \* panic() has been called

vars == <<state, wq, wait_read, done, cv, cv_m, notified, pc, ret,
          wake_read, handle, panicked>>
wqeVars == <<wq, wait_read, done, cv>>
wakeVars == <<ret, wake_read, handle>>

PCs == {"idle", "lock", "holdW", "holdR", "wake", "send", "sleep", "remove"}

\* The threads that hold the mutex, by kind.
Writers == {t \in Threads : pc[t] = "holdW"}
Readers == {t \in Threads : pc[t] = "holdR"}
Holds(t) == pc[t] \in {"holdW", "holdR"}

\* The thread has an element in the wait queue.
Queued(t) ==
    \/ pc[t] \in {"sleep", "remove"}
    \/ pc[t] \in {"wake", "send"} /\ ret[t] = "sleep"

\* q without its i-th element (SLIST_REMOVE).
Without(q, i) == [j \in 1..(Len(q) - 1) |-> IF j < i THEN q[j] ELSE q[j + 1]]

\* The set S after the flag of t has been set to b.
Flag(S, t, b) == IF b THEN S \cup {t} ELSE S \ {t}

Init ==
    /\ state = 0
    /\ wq = <<>>
    /\ wait_read = {}
    /\ done = {}
    /\ cv = [t \in Threads |-> NULL]
    /\ cv_m = {}
    /\ notified = {}
    /\ pc = [t \in Threads |-> "idle"]
    /\ ret = [t \in Threads |-> "idle"]
    /\ wake_read = [t \in Threads |-> "none"]
    /\ handle = [t \in Threads |-> NULL]
    /\ panicked = FALSE

Goto(t, l) == pc' = [pc EXCEPT ![t] = l]

Panic ==
    /\ panicked' = TRUE
    /\ UNCHANGED <<state, wqeVars, cv_m, notified, pc, wakeVars>>

-----------------------------------------------------------------------------
(* Wait queue *)

\* wq_wait_init_condvar(): t appends its element, waiting for condvar c or,
\* when c is NULL, for the mutex.
wq_wait_init(t, c, read) ==
    /\ wq' = Append(wq, t)
    /\ wait_read' = Flag(wait_read, t, read)
    /\ done' = done \ {t}
    /\ cv' = [cv EXCEPT ![t] = c]

\* The kind of lock the element of u waits for.
Kind(u) == IF u \in wait_read THEN "R" ELSE "W"

\* MUTANT of Wakeable: condvar waiters are not skipped.
WakeableCondvarToo(t, u) ==
    /\ u \notin done
    /\ wake_read[t] \in {"none", Kind(u)}

\* An element wq_wake_next(), run by t, does not skip.
Wakeable(t, u) ==
    /\ cv[u] = NULL
    /\ u \notin done
    /\ wake_read[t] \in {"none", Kind(u)}

\* MUTANT of wq_wake_next: the handle is not read under wq_spin_lock.
wq_wake_next_NoHandle(t) ==
    /\ pc[t] = "wake"
    /\ \E i \in 1..Len(wq) :
          /\ Wakeable(t, wq[i])
          /\ done' = done \cup {wq[i]}
          /\ wake_read' = [wake_read EXCEPT ![t] = Kind(wq[i])]
    /\ Goto(t, "send")
    /\ UNCHANGED <<state, wq, wait_read, cv, cv_m, notified, ret, handle,
                   panicked>>

\* MUTANT of wq_wake_next: all readers are marked done in one pass, but only
\* the first one is notified.
wq_wake_next_OnePass(t) ==
    /\ pc[t] = "wake"
    /\ \E i \in 1..Len(wq) :
          /\ Wakeable(t, wq[i])
          /\ \A j \in 1..(i - 1) : ~Wakeable(t, wq[j])
          /\ done' = done \cup {wq[i]} \cup
                {u \in wait_read : /\ wq[i] \in wait_read
                                  /\ Wakeable(t, u)
                                  /\ \E j \in 1..Len(wq) : wq[j] = u}
          /\ handle' = [handle EXCEPT ![t] = wq[i]]
          /\ wake_read' = [wake_read EXCEPT ![t] = Kind(wq[i])]
    /\ Goto(t, "send")
    /\ UNCHANGED <<state, wq, wait_read, cv, cv_m, notified, ret, panicked>>

\* wq_wake_next(), one round of its loop: the first element not skipped is
\* marked done, and its thread is notified after wq_spin_lock is released.
wq_wake_next(t) ==
    /\ pc[t] = "wake"
    /\ \E i \in 1..Len(wq) :
          /\ Wakeable(t, wq[i])
          /\ \A j \in 1..(i - 1) : ~Wakeable(t, wq[j])
          /\ done' = done \cup {wq[i]}
          /\ handle' = [handle EXCEPT ![t] = wq[i]]
          /\ wake_read' = [wake_read EXCEPT ![t] = Kind(wq[i])]
    /\ Goto(t, "send")
    /\ UNCHANGED <<state, wq, wait_read, cv, cv_m, notified, ret, panicked>>

\* wq_wake_next() returns to mutex_unlock() or condvar_wait().
WakeReturn(t) ==
    /\ Goto(t, ret[t])
    /\ ret' = [ret EXCEPT ![t] = "idle"]
    /\ wake_read' = [wake_read EXCEPT ![t] = "none"]
    /\ handle' = [handle EXCEPT ![t] = NULL]

\* wq_wake_next(): nothing left to wake.
wq_wake_none(t) ==
    /\ pc[t] = "wake"
    /\ \A i \in 1..Len(wq) : ~Wakeable(t, wq[i])
    /\ WakeReturn(t)
    /\ UNCHANGED <<state, wqeVars, cv_m, notified, panicked>>

\* do_notif(false, handle): normal world keeps the notification until the
\* thread waits for it.  One writer only is woken, but every reader.
do_notif_send(t) ==
    /\ pc[t] = "send"
    /\ notified' = notified \cup {handle[t]}
    /\ \/ /\ wake_read[t] = "W"
          /\ WakeReturn(t)
       \/ /\ wake_read[t] # "W"
          /\ Goto(t, "wake")
          /\ handle' = [handle EXCEPT ![t] = NULL]
          /\ UNCHANGED <<ret, wake_read>>
    /\ UNCHANGED <<state, wqeVars, cv_m, panicked>>

\* do_notif(true, handle): the wait in normal world ends with a notification,
notif_wait_return(t) ==
    /\ pc[t] = "sleep"
    /\ t \in notified
    /\ notified' = notified \ {t}
    /\ Goto(t, "remove")
    /\ UNCHANGED <<state, wqeVars, cv_m, wakeVars, panicked>>

\* or without one: a timeout, or an RPC that failed (its result is ignored).
notif_wait_fail(t) ==
    /\ pc[t] = "sleep"
    /\ Goto(t, "remove")
    /\ UNCHANGED <<state, wqeVars, cv_m, notified, wakeVars, panicked>>

\* MUTANT of wq_wait_final: the thread that was woken leaves its element.
wq_wait_final_KeepDone(t) ==
    /\ pc[t] = "remove"
    /\ IF t \in done
       THEN UNCHANGED wq
       ELSE \E i \in 1..Len(wq) : wq[i] = t /\ wq' = Without(wq, i)
    /\ Goto(t, "lock")
    /\ UNCHANGED <<state, wait_read, done, cv, cv_m, notified, wakeVars,
                   panicked>>

\* The rest of wq_wait_final_helper().  Every caller then goes for the lock
\* again, condvar_wait() with the kind of lock it had.
wq_wait_final(t) ==
    /\ pc[t] = "remove"
    /\ \E i \in 1..Len(wq) : wq[i] = t /\ wq' = Without(wq, i)
    /\ Goto(t, "lock")
    /\ UNCHANGED <<state, wait_read, done, cv, cv_m, notified, wakeVars,
                   panicked>>

\* The element wq_promote_condvar() reaches first.
FirstOf(c, i) == cv[wq[i]] = c /\ \A j \in 1..(i - 1) : cv[wq[j]] # c

wq_promote_condvar(c, only_one) ==
    \/ /\ only_one
       /\ \E i \in 1..Len(wq) : FirstOf(c, i) /\ cv' = [cv EXCEPT ![wq[i]] = NULL]
    \/ /\ ~only_one
       /\ cv' = [u \in Threads |->
                    IF cv[u] = c /\ (\E i \in 1..Len(wq) : wq[i] = u)
                    THEN NULL ELSE cv[u]]
    \/ /\ \A i \in 1..Len(wq) : cv[wq[i]] # c
       /\ UNCHANGED cv

-----------------------------------------------------------------------------
(* Mutex *)

\* A call of mutex_lock() or mutex_read_lock().
LockCall(t) ==
    /\ pc[t] = "idle"
    /\ \E read \in BOOLEAN : wait_read' = Flag(wait_read, t, read)
    /\ Goto(t, "lock")
    /\ UNCHANGED <<state, wq, done, cv, cv_m, notified, wakeVars, panicked>>

\* MUTANT of mutex_lock: the test of mutex_read_lock().
mutex_lock_ReadTest(t) ==
    /\ pc[t] = "lock"
    /\ t \notin wait_read
    /\ IF state # -1
       THEN /\ state' = -1
            /\ Goto(t, "holdW")
            /\ UNCHANGED wqeVars
       ELSE /\ wq_wait_init(t, NULL, FALSE)
            /\ Goto(t, "sleep")
            /\ UNCHANGED state
    /\ UNCHANGED <<cv_m, notified, wakeVars, panicked>>

\* __mutex_lock(), one round of its loop.
mutex_lock(t) ==
    /\ pc[t] = "lock"
    /\ t \notin wait_read
    /\ \/ /\ state = 0
          /\ state' = -1
          /\ Goto(t, "holdW")
          /\ UNCHANGED wqeVars
       \/ /\ state # 0
          /\ wq_wait_init(t, NULL, FALSE)
          /\ Goto(t, "sleep")
          /\ UNCHANGED state
    /\ UNCHANGED <<cv_m, notified, wakeVars, panicked>>

\* __mutex_read_lock(), one round of its loop.
mutex_read_lock(t) ==
    /\ pc[t] = "lock"
    /\ t \in wait_read
    /\ \/ /\ state # -1
          /\ state' = state + 1
          /\ Goto(t, "holdR")
          /\ UNCHANGED wqeVars
       \/ /\ state = -1
          /\ wq_wait_init(t, NULL, TRUE)
          /\ Goto(t, "sleep")
          /\ UNCHANGED state
    /\ UNCHANGED <<cv_m, notified, wakeVars, panicked>>

\* mutex_trylock(); when it fails nothing changes.
mutex_trylock(t) ==
    /\ pc[t] = "idle"
    /\ state = 0
    /\ state' = -1
    /\ Goto(t, "holdW")
    /\ UNCHANGED <<wqeVars, cv_m, notified, wakeVars, panicked>>

\* MUTANT of mutex_read_trylock: no test of the state.
mutex_read_trylock_NoTest(t) ==
    /\ pc[t] = "idle"
    /\ state' = state + 1
    /\ Goto(t, "holdR")
    /\ UNCHANGED <<wqeVars, cv_m, notified, wakeVars, panicked>>

mutex_read_trylock(t) ==
    /\ pc[t] = "idle"
    /\ state # -1
    /\ state' = state + 1
    /\ Goto(t, "holdR")
    /\ UNCHANGED <<wqeVars, cv_m, notified, wakeVars, panicked>>

\* The caller goes on to wq_wake_next(), which will return to l.
CallWake(t, l) ==
    /\ Goto(t, "wake")
    /\ ret' = [ret EXCEPT ![t] = l]
    /\ UNCHANGED <<wake_read, handle>>

mutex_unlock(t) ==
    /\ pc[t] = "holdW"
    /\ \/ /\ state = 0
          /\ Panic
       \/ /\ state # 0
          /\ state' = 0
          /\ CallWake(t, "idle")
          /\ UNCHANGED <<wqeVars, cv_m, notified, panicked>>

\* MUTANT of mutex_read_unlock: the state before the decrement is tested.
mutex_read_unlock_OldState(t) ==
    /\ pc[t] = "holdR"
    /\ state > 0
    /\ state' = state - 1
    /\ Goto(t, "idle")
    /\ UNCHANGED <<wqeVars, cv_m, notified, wakeVars, panicked>>

mutex_read_unlock(t) ==
    /\ pc[t] = "holdR"
    /\ \/ /\ state <= 0
          /\ Panic
       \/ /\ state > 0
          /\ state' = state - 1
          /\ \/ state' = 0 /\ CallWake(t, "idle")
             \/ state' # 0 /\ Goto(t, "idle") /\ UNCHANGED wakeVars
          /\ UNCHANGED <<wqeVars, cv_m, notified, panicked>>

\* The caller of mutex_destroy() guarantees that nobody uses the mutex.
mutex_destroy ==
    /\ \A t \in Threads : pc[t] = "idle"
    /\ \/ (state # 0 \/ wq # <<>>) /\ Panic
       \/ state = 0 /\ wq = <<>> /\ UNCHANGED vars

-----------------------------------------------------------------------------
(* Condition variables *)

\* MUTANT of condvar_wait: the next waiter is not woken.
condvar_wait_NoWake(t, c) ==
    /\ Holds(t)
    /\ cv_m' = cv_m \cup {c}
    /\ wq_wait_init(t, c, state > 0)
    /\ state' = IF state > 1 THEN state - 1 ELSE 0
    /\ Goto(t, "sleep")
    /\ UNCHANGED <<notified, wakeVars, panicked>>

\* __condvar_wait_timeout() up to wq_wait_final(): the element is queued
\* before the lock is given up.
condvar_wait(t, c) ==
    /\ Holds(t)
    /\ \/ /\ state = 0
          /\ Panic
       \/ /\ state # 0
          /\ cv_m' = cv_m \cup {c}
          /\ wq_wait_init(t, c, state > 0)
          /\ \/ /\ state > 1
                /\ state' = state - 1
                /\ Goto(t, "sleep") /\ UNCHANGED wakeVars
             \/ /\ state <= 1
                /\ state' = 0
                /\ CallWake(t, "sleep")
          /\ UNCHANGED <<notified, panicked>>

\* condvar_signal() and condvar_broadcast(), called with the mutex held as
\* all callers in core/ do.
cv_signal(t, c, only_one) ==
    /\ Holds(t)
    /\ c \in cv_m
    /\ wq_promote_condvar(c, only_one)
    /\ UNCHANGED <<state, wq, wait_read, done, cv_m, notified, pc, wakeVars,
                   panicked>>

\* The caller of condvar_destroy() knows that nobody waits for it any more.
condvar_destroy(c) ==
    /\ c \in cv_m
    /\ \A t \in Threads : Queued(t) => cv[t] # c
    /\ \/ /\ \E i \in 1..Len(wq) : cv[wq[i]] = c
          /\ Panic
       \/ /\ \A i \in 1..Len(wq) : cv[wq[i]] # c
          /\ cv_m' = cv_m \ {c}
          /\ UNCHANGED <<state, wqeVars, notified, pc, wakeVars, panicked>>

-----------------------------------------------------------------------------

\* What a thread inside mutex.c or wait_queue.c does next by itself.
Internal(t) ==
    \/ wq_wake_next(t)
    \/ wq_wake_none(t)
    \/ do_notif_send(t)
    \/ notif_wait_return(t)
    \/ wq_wait_final(t)
    \/ mutex_lock(t)
    \/ mutex_read_lock(t)

Unlock(t) == mutex_unlock(t) \/ mutex_read_unlock(t)

Calls(t) ==
    \/ LockCall(t)
    \/ mutex_trylock(t)
    \/ mutex_read_trylock(t)
    \/ notif_wait_fail(t)
    \/ \E c \in Condvars :
          \/ condvar_wait(t, c)
          \/ \E only_one \in BOOLEAN : cv_signal(t, c, only_one)

Next ==
    /\ ~panicked
    /\ \/ \E t \in Threads : Internal(t) \/ Unlock(t) \/ Calls(t)
       \/ \E c \in Condvars : condvar_destroy(c)
       \/ mutex_destroy

Spec == Init /\ [][Next]_vars

\* Normal world schedules every thread, and a thread that holds the mutex
\* does not keep it forever.
FairSpec ==
    Spec /\ \A t \in Threads : WF_vars(Internal(t)) /\ WF_vars(Unlock(t))

-----------------------------------------------------------------------------
(* Properties *)

\* The variables have the types of the fields of struct mutex and struct
\* wait_queue_elem they stand for; wq_wake_next() notifies a thread.
TypeOK ==
    /\ state \in Int
    /\ wq \in Seq(Threads)
    /\ wait_read \subseteq Threads
    /\ done \subseteq Threads
    /\ cv \in [Threads -> Condvars \cup {NULL}]
    /\ cv_m \subseteq Condvars
    /\ notified \subseteq Threads
    /\ pc \in [Threads -> PCs]
    /\ ret \in [Threads -> {"idle", "sleep"}]
    /\ wake_read \in [Threads -> {"none", "R", "W"}]
    /\ handle \in [Threads -> Threads \cup {NULL}]
    /\ panicked \in BOOLEAN

\* The state word tells exactly who holds the mutex: at most one writer and
\* then no reader, or as many readers as it counts.  It is what keeps
\* mutex_unlock(), mutex_read_unlock() and condvar_wait() from panicking.
LockWord ==
    /\ ~panicked
    /\ IF state = -1
       THEN Readers = {} /\ \E t \in Threads : Writers = {t}
       ELSE Writers = {} /\ state = Cardinality(Readers)

\* The queue holds each waiting thread once and no other: a stack frame that
\* has returned is never left on the list.
QueueExact ==
    /\ \A i, j \in 1..Len(wq) : wq[i] = wq[j] => i = j
    /\ \A t \in Threads : Queued(t) <=> \E i \in 1..Len(wq) : wq[i] = t

\* A thread that will go for the lock, or wake another one, without help.
Guardian(t) ==
    \/ pc[t] \in {"lock", "remove"}
    \/ Queued(t) /\ t \in done
    \/ pc[t] = "wake" /\ wake_read[t] = "none"

\* No lost wakeup: while the mutex is free, a thread asleep on it is never
\* left without somebody who will wake it.
NoLostWakeup ==
    state = 0 =>
        \A u \in Threads :
            Queued(u) /\ cv[u] = NULL => \E t \in Threads : Guardian(t)

\* A thread marked done has its notification, or will get it: wq_wake_next()
\* sends it only after it released wq_spin_lock.
DoneIsNotified ==
    \A u \in Threads :
        Queued(u) /\ u \in done /\ pc[u] # "remove" =>
            \/ u \in notified
            \/ \E t \in Threads : pc[t] = "send" /\ handle[t] = u

\* A thread that waits for a condvar is not woken by an unlock: only
\* condvar_signal() or condvar_broadcast() makes it eligible.
CondvarWaitsForSignal ==
    \A u \in Threads : Queued(u) /\ cv[u] # NULL => u \notin done

\* A free mutex that somebody is waiting for gets taken.
FreeMutexIsTaken ==
    (state = 0 /\ \E t \in Threads : Queued(t) /\ cv[t] = NULL) ~> (state # 0)

\* The mutex implements the abstract reader-writer lock.
Abstract == INSTANCE RWLock WITH writers <- Writers, readers <- Readers
ImplementsRWLock == Abstract!Spec
=============================================================================
