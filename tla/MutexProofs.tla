---------------------------- MODULE MutexProofs -----------------------------
(***************************************************************************)
(* Proofs about Mutex for any number of threads and condition variables.   *)
(* The inductive invariant is built in layers, each one using those above  *)
(* it: types and the locals of wq_wake_next(), the lock word, the queue,   *)
(* and then what depends on both.                                          *)
(***************************************************************************)
EXTENDS Mutex, FiniteSetTheorems, TLAPS

\* The locals of wq_wake_next() are meaningful exactly while it runs.
WakeLocals ==
    \A t \in Threads :
        /\ pc[t] = "send" => handle[t] \in Threads
        /\ pc[t] \notin {"wake", "send"} => wake_read[t] = "none"

Typing == TypeOK /\ WakeLocals

-----------------------------------------------------------------------------
(* Facts about the queue operators *)

\* Append adds one element at the end.
LEMMA AppendFacts ==
    ASSUME NEW S, NEW q \in Seq(S), NEW e \in S
    PROVE  /\ Append(q, e) \in Seq(S)
           /\ Len(Append(q, e)) = Len(q) + 1
           /\ \A i \in 1..Len(q) : Append(q, e)[i] = q[i]
           /\ Append(q, e)[Len(q) + 1] = e
  OBVIOUS

\* SLIST_REMOVE takes out one element and keeps the order of the others.
LEMMA WithoutFacts ==
    ASSUME NEW S, NEW q \in Seq(S), NEW i \in 1..Len(q)
    PROVE  /\ Without(q, i) \in Seq(S)
           /\ Len(Without(q, i)) = Len(q) - 1
           /\ \A j \in 1..(Len(q) - 1) :
                 Without(q, i)[j] = IF j < i THEN q[j] ELSE q[j + 1]
  <1>1. Len(q) - 1 \in Nat
    OBVIOUS
  <1>2. \A j \in 1..(Len(q) - 1) :
           (IF j < i THEN q[j] ELSE q[j + 1]) \in S
    OBVIOUS
  <1>3. Without(q, i) \in [1..(Len(q) - 1) -> S]
    BY <1>2 DEF Without
  <1>4. Without(q, i) \in Seq(S)
    BY <1>1, <1>3
  <1>5. Len(Without(q, i)) = Len(q) - 1
    BY <1>1, <1>3, <1>4
  <1> QED
    BY <1>4, <1>5 DEF Without

-----------------------------------------------------------------------------
(* What the two actions with the most branches do *)

\* mutex_read_lock() that finds the mutex write locked queues the thread.
LEMMA ReadLockWaits ==
    ASSUME NEW t \in Threads, mutex_read_lock(t), state = -1
    PROVE  /\ pc[t] = "lock"
           /\ wq' = Append(wq, t)
           /\ wait_read' = wait_read \cup {t}
           /\ done' = done \ {t}
           /\ cv' = [cv EXCEPT ![t] = NULL]
           /\ pc' = [pc EXCEPT ![t] = "sleep"]
           /\ UNCHANGED <<state, cv_m, notified, ret, wake_read, handle,
                          panicked>>
  BY DEF mutex_read_lock, wq_wait_init, Flag, Goto, wakeVars

\* condvar_wait() queues the thread and gives up its lock, and wakes the next
\* waiter when that was the last one.
LEMMA CondvarWaits ==
    ASSUME NEW t \in Threads, NEW c \in Condvars, condvar_wait(t, c),
           state # 0, wait_read \subseteq Threads
    PROVE  /\ pc[t] \in {"holdW", "holdR"}
           /\ wq' = Append(wq, t)
           /\ wait_read' \subseteq Threads
           /\ done' = done \ {t}
           /\ cv' = [cv EXCEPT ![t] = c]
           /\ cv_m' = cv_m \cup {c}
           /\ \/ /\ state > 1
                 /\ state' = state - 1
                 /\ pc' = [pc EXCEPT ![t] = "sleep"]
                 /\ UNCHANGED ret
              \/ /\ state <= 1
                 /\ state' = 0
                 /\ pc' = [pc EXCEPT ![t] = "wake"]
                 /\ ret' = [ret EXCEPT ![t] = "sleep"]
           /\ UNCHANGED <<notified, wake_read, handle, panicked>>
  <1>1. /\ pc[t] \in {"holdW", "holdR"}
        /\ wq' = Append(wq, t)
        /\ done' = done \ {t}
        /\ cv' = [cv EXCEPT ![t] = c]
        /\ cv_m' = cv_m \cup {c}
        /\ UNCHANGED <<notified, panicked>>
    BY DEF condvar_wait, wq_wait_init, Flag, Holds
  <1>2. wait_read' \subseteq Threads
    BY DEF condvar_wait, wq_wait_init, Flag
  <1>3. CASE state > 1
    BY <1>1, <1>2, <1>3 DEF condvar_wait, wq_wait_init, Flag, Goto, wakeVars,
                            CallWake
  <1>4. CASE ~(state > 1)
    BY <1>1, <1>2, <1>4 DEF condvar_wait, wq_wait_init, Flag, Goto, CallWake
  <1> QED
    BY <1>3, <1>4

-----------------------------------------------------------------------------
(* Types *)

LEMMA TypingInit == Init => Typing
  <1> SUFFICES ASSUME Init
               PROVE  Typing
    OBVIOUS
  <1>1. panicked \in BOOLEAN
    BY DEF Init
  <1>2. wq \in Seq(Threads)
    BY DEF Init
  <1>3. WakeLocals
    BY DEF Init, WakeLocals
  <1> QED
    BY <1>1, <1>2, <1>3 DEF Init, Typing, TypeOK, PCs

LEMMA TypingStep == Typing /\ [Next]_vars => Typing'
  <1> SUFFICES ASSUME Typing, [Next]_vars
               PROVE  Typing'
    OBVIOUS
  <1> USE DEF Typing, TypeOK, WakeLocals, PCs, Goto, wqeVars, wakeVars
  <1>0. ASSUME Panic
        PROVE  Typing'
    BY <1>0 DEF Panic
  <1>1. ASSUME NEW t \in Threads, wq_wake_next(t)
        PROVE  Typing'
    BY <1>1 DEF wq_wake_next, Kind
  <1>2. ASSUME NEW t \in Threads, wq_wake_none(t)
        PROVE  Typing'
    BY <1>2 DEF wq_wake_none, WakeReturn
  <1>3. ASSUME NEW t \in Threads, do_notif_send(t)
        PROVE  Typing'
    BY <1>3 DEF do_notif_send, WakeReturn
  <1>4. ASSUME NEW t \in Threads, notif_wait_return(t) \/ notif_wait_fail(t)
        PROVE  Typing'
    BY <1>4 DEF notif_wait_return, notif_wait_fail
  <1>5. ASSUME NEW t \in Threads, wq_wait_final(t)
        PROVE  Typing'
    <2>1. wq' \in Seq(Threads)
      BY <1>5, WithoutFacts DEF wq_wait_final
    <2> QED
      BY <1>5, <2>1 DEF wq_wait_final
  <1>6. ASSUME NEW t \in Threads, LockCall(t)
        PROVE  Typing'
    BY <1>6 DEF LockCall, Flag
  <1>7. ASSUME NEW t \in Threads, mutex_lock(t)
        PROVE  Typing'
    BY <1>7 DEF mutex_lock, wq_wait_init, Flag
  <1>8. ASSUME NEW t \in Threads, mutex_read_lock(t)
        PROVE  Typing'
    <2>1. CASE state = -1
      <3>1. wq' \in Seq(Threads)
        BY <1>8, <2>1, ReadLockWaits, AppendFacts
      <3>2. WakeLocals'
        BY <1>8, <2>1, ReadLockWaits
      <3>3. cv' \in [Threads -> Condvars \cup {NULL}]
        BY <1>8, <2>1, ReadLockWaits
      <3>6. pc' \in [Threads -> PCs]
        BY <1>8, <2>1, ReadLockWaits
      <3>4. wait_read' \subseteq Threads /\ done' \subseteq Threads
        BY <1>8, <2>1, ReadLockWaits
      <3>5. UNCHANGED <<state, cv_m, notified, ret, wake_read, handle, panicked>>
        BY <1>8, <2>1, ReadLockWaits
      <3> QED
        BY <3>1, <3>2, <3>3, <3>4, <3>5, <3>6
    <2>2. CASE state # -1
      BY <1>8, <2>2 DEF mutex_read_lock, wq_wait_init, Flag
    <2> QED
      BY <2>1, <2>2
  <1>9. ASSUME NEW t \in Threads, mutex_trylock(t) \/ mutex_read_trylock(t)
        PROVE  Typing'
    BY <1>9 DEF mutex_trylock, mutex_read_trylock
  <1>10. ASSUME NEW t \in Threads, mutex_unlock(t)
         PROVE  Typing'
    BY <1>0, <1>10 DEF mutex_unlock, CallWake
  <1>11. ASSUME NEW t \in Threads, mutex_read_unlock(t)
         PROVE  Typing'
    BY <1>0, <1>11 DEF mutex_read_unlock, CallWake
  <1>12. ASSUME NEW t \in Threads, NEW c \in Condvars, condvar_wait(t, c)
         PROVE  Typing'
    <2>1. CASE state # 0
      <3>1. wq' \in Seq(Threads)
        BY <1>12, <2>1, CondvarWaits, AppendFacts
      <3>2. WakeLocals'
        BY <1>12, <2>1, CondvarWaits
      <3>3. cv' \in [Threads -> Condvars \cup {NULL}]
        BY <1>12, <2>1, CondvarWaits
      <3>6. \/ pc' = [pc EXCEPT ![t] = "sleep"]
            \/ pc' = [pc EXCEPT ![t] = "wake"]
        BY <1>12, <2>1, CondvarWaits
      <3>4. wait_read' \subseteq Threads /\ done' \subseteq Threads
        BY <1>12, <2>1, CondvarWaits
      <3>5. ret' = ret \/ ret' = [ret EXCEPT ![t] = "sleep"]
        BY <1>12, <2>1, CondvarWaits
      <3>7. /\ state' \in Int /\ cv_m' \subseteq Condvars
            /\ UNCHANGED <<notified, wake_read, handle, panicked>>
        BY <1>12, <2>1, CondvarWaits
      <3> QED
        BY <3>1, <3>2, <3>3, <3>4, <3>5, <3>6, <3>7
    <2> QED
      BY <1>0, <1>12, <2>1 DEF condvar_wait, wq_wait_init, Flag
  <1>13. ASSUME NEW t \in Threads, NEW c \in Condvars,
                NEW only_one \in BOOLEAN, cv_signal(t, c, only_one)
         PROVE  Typing'
    BY <1>13 DEF cv_signal, wq_promote_condvar, FirstOf
  <1>14. ASSUME NEW c \in Condvars, condvar_destroy(c)
         PROVE  Typing'
    BY <1>0, <1>14 DEF condvar_destroy
  <1>15. ASSUME UNCHANGED vars
         PROVE  Typing'
    BY <1>15 DEF vars
  <1>16. ASSUME mutex_destroy
         PROVE  Typing'
    BY <1>0, <1>15, <1>16 DEF mutex_destroy
  <1> QED
    BY <1>1, <1>2, <1>3, <1>4, <1>5, <1>6, <1>7, <1>8, <1>9, <1>10, <1>11,
       <1>12, <1>13, <1>14, <1>15, <1>16
       DEF Next, Internal, Unlock, Calls

\* Every variable keeps its type, and the locals of wq_wake_next() are set
\* when it sends a notification.
THEOREM TypeCorrect == Spec => []TypeOK
  <1>1. Spec => []Typing
    BY TypingInit, TypingStep, PTL DEF Spec
  <1> QED
    BY <1>1, PTL DEF Typing

-----------------------------------------------------------------------------
(* The queue *)

\* Nobody enters or leaves the queue.
LEMMA QueueSame ==
    ASSUME QueueExact, wq' = wq,
           \A u \in Threads : Queued(u)' <=> Queued(u)
    PROVE  QueueExact'
  BY DEF QueueExact

\* A thread that is not in the queue enters it.
LEMMA QueueEnter ==
    ASSUME QueueExact, wq \in Seq(Threads), NEW t \in Threads, ~Queued(t),
           wq' = Append(wq, t),
           \A u \in Threads : Queued(u)' <=> (Queued(u) \/ u = t)
    PROVE  QueueExact'
  <1>1. /\ Len(wq') = Len(wq) + 1
        /\ \A i \in 1..Len(wq) : wq'[i] = wq[i]
        /\ wq'[Len(wq) + 1] = t
    BY AppendFacts
  <1>2. \A i \in 1..Len(wq) : wq[i] # t
    BY DEF QueueExact
  <1>3. \A i, j \in 1..Len(wq') : wq'[i] = wq'[j] => i = j
    BY <1>1, <1>2 DEF QueueExact
  <1>4. ASSUME NEW u \in Threads
        PROVE  Queued(u)' <=> \E i \in 1..Len(wq') : wq'[i] = u
    <2>1. (\E i \in 1..Len(wq') : wq'[i] = u)
             <=> (u = t \/ \E i \in 1..Len(wq) : wq[i] = u)
      BY <1>1
    <2> QED
      BY <2>1 DEF QueueExact
  <1> QED
    BY <1>3, <1>4 DEF QueueExact

\* A thread leaves the queue.
LEMMA QueueLeave ==
    ASSUME QueueExact, wq \in Seq(Threads), NEW t \in Threads,
           NEW k \in 1..Len(wq), wq[k] = t, wq' = Without(wq, k),
           \A u \in Threads : Queued(u)' <=> (Queued(u) /\ u # t)
    PROVE  QueueExact'
  <1>1. /\ Len(wq') = Len(wq) - 1
        /\ \A j \in 1..(Len(wq) - 1) :
              wq'[j] = IF j < k THEN wq[j] ELSE wq[j + 1]
    BY WithoutFacts
  <1>2. Len(wq) \in Nat /\ Len(wq') \in Nat
    BY <1>1
  <1>3. \A i, j \in 1..Len(wq') : wq'[i] = wq'[j] => i = j
    BY <1>1, <1>2 DEF QueueExact
  <1>4. ASSUME NEW u \in Threads
        PROVE  Queued(u)' <=> \E i \in 1..Len(wq') : wq'[i] = u
    <2>1. ASSUME NEW i \in 1..Len(wq'), wq'[i] = u
          PROVE  u # t /\ \E j \in 1..Len(wq) : wq[j] = u
      BY <1>1, <1>2, <2>1 DEF QueueExact
    <2>2. ASSUME NEW j \in 1..Len(wq), wq[j] = u, u # t
          PROVE  \E i \in 1..Len(wq') : wq'[i] = u
      <3>1. CASE j < k
        BY <1>1, <1>2, <2>2, <3>1
      <3>2. CASE j > k
        <4>1. j - 1 \in 1..Len(wq') /\ wq'[j - 1] = wq[j]
          BY <1>1, <1>2, <3>2
        <4> QED
          BY <2>2, <4>1
      <3> QED
        BY <2>2, <3>1, <3>2
    <2> QED
      BY <2>1, <2>2 DEF QueueExact
  <1> QED
    BY <1>3, <1>4 DEF QueueExact

LEMMA QueueInit == Init => QueueExact
  BY DEF Init, QueueExact, Queued

LEMMA QueueStep == Typing /\ QueueExact /\ [Next]_vars => QueueExact'
  <1> SUFFICES ASSUME Typing, QueueExact, [Next]_vars
               PROVE  QueueExact'
    OBVIOUS
  <1> USE DEF Goto, wqeVars, wakeVars
  <1>a. /\ pc \in [Threads -> PCs]
        /\ ret \in [Threads -> {"idle", "sleep"}]
        /\ wq \in Seq(Threads)
        /\ wait_read \subseteq Threads
    BY DEF Typing, TypeOK
  <1>0. ASSUME Panic
        PROVE  QueueExact'
    BY <1>0, QueueSame DEF Panic, Queued
  <1>1. ASSUME NEW t \in Threads, wq_wake_next(t)
        PROVE  QueueExact'
    BY <1>a, <1>1, QueueSame DEF wq_wake_next, Queued
  <1>2. ASSUME NEW t \in Threads, wq_wake_none(t)
        PROVE  QueueExact'
    BY <1>a, <1>2, QueueSame DEF wq_wake_none, WakeReturn, Queued
  <1>3. ASSUME NEW t \in Threads, do_notif_send(t)
        PROVE  QueueExact'
    BY <1>a, <1>3, QueueSame DEF do_notif_send, WakeReturn, Queued
  <1>4. ASSUME NEW t \in Threads, notif_wait_return(t) \/ notif_wait_fail(t)
        PROVE  QueueExact'
    BY <1>a, <1>4, QueueSame DEF notif_wait_return, notif_wait_fail, Queued
  <1>5. ASSUME NEW t \in Threads, wq_wait_final(t)
        PROVE  QueueExact'
    <2>1. PICK k \in 1..Len(wq) : wq[k] = t /\ wq' = Without(wq, k)
      BY <1>5 DEF wq_wait_final
    <2>2. \A u \in Threads : Queued(u)' <=> (Queued(u) /\ u # t)
      BY <1>a, <1>5 DEF wq_wait_final, Queued
    <2> QED
      BY <1>a, <2>1, <2>2, QueueLeave
  <1>6. ASSUME NEW t \in Threads, LockCall(t)
        PROVE  QueueExact'
    BY <1>a, <1>6, QueueSame DEF LockCall, Queued
  <1>7. ASSUME NEW t \in Threads, mutex_lock(t)
        PROVE  QueueExact'
    <2>1. CASE state = 0
      BY <1>a, <1>7, <2>1, QueueSame DEF mutex_lock, wq_wait_init, Flag, Queued
    <2>2. CASE state # 0
      <3>1. wq' = Append(wq, t) /\ ~Queued(t)
        BY <1>a, <1>7, <2>2 DEF mutex_lock, wq_wait_init, Queued
      <3>2. \A u \in Threads : Queued(u)' <=> (Queued(u) \/ u = t)
        BY <1>a, <1>7, <2>2 DEF mutex_lock, wq_wait_init, Flag, Queued
      <3> QED
        BY <1>a, <3>1, <3>2, QueueEnter
    <2> QED
      BY <2>1, <2>2
  <1>8. ASSUME NEW t \in Threads, mutex_read_lock(t)
        PROVE  QueueExact'
    <2>1. CASE state # -1
      BY <1>a, <1>8, <2>1, QueueSame
         DEF mutex_read_lock, wq_wait_init, Flag, Queued
    <2>2. CASE state = -1
      <3>1. wq' = Append(wq, t) /\ ~Queued(t)
        BY <1>a, <1>8, <2>2, ReadLockWaits DEF Queued
      <3>2. \A u \in Threads : Queued(u)' <=> (Queued(u) \/ u = t)
        BY <1>a, <1>8, <2>2, ReadLockWaits DEF Queued
      <3> QED
        BY <1>a, <3>1, <3>2, QueueEnter
    <2> QED
      BY <2>1, <2>2
  <1>9. ASSUME NEW t \in Threads, mutex_trylock(t) \/ mutex_read_trylock(t)
        PROVE  QueueExact'
    BY <1>a, <1>9, QueueSame DEF mutex_trylock, mutex_read_trylock, Queued
  <1>10. ASSUME NEW t \in Threads, mutex_unlock(t)
         PROVE  QueueExact'
    BY <1>0, <1>a, <1>10, QueueSame DEF mutex_unlock, CallWake, Queued
  <1>11. ASSUME NEW t \in Threads, mutex_read_unlock(t)
         PROVE  QueueExact'
    BY <1>0, <1>a, <1>11, QueueSame DEF mutex_read_unlock, CallWake, Queued
  <1>12. ASSUME NEW t \in Threads, NEW c \in Condvars, condvar_wait(t, c)
         PROVE  QueueExact'
    <2>1. CASE state # 0
      <3>1. wq' = Append(wq, t) /\ ~Queued(t)
        BY <1>a, <1>12, <2>1, CondvarWaits DEF Queued
      <3>2. \A u \in Threads : Queued(u)' <=> (Queued(u) \/ u = t)
        BY <1>a, <1>12, <2>1, CondvarWaits DEF Queued
      <3> QED
        BY <1>a, <3>1, <3>2, QueueEnter
    <2> QED
      BY <1>0, <1>12, <2>1 DEF condvar_wait, wq_wait_init, Flag
  <1>13. ASSUME NEW t \in Threads, NEW c \in Condvars,
                NEW only_one \in BOOLEAN, cv_signal(t, c, only_one)
         PROVE  QueueExact'
    BY <1>13, QueueSame DEF cv_signal, Queued
  <1>14. ASSUME NEW c \in Condvars, condvar_destroy(c)
         PROVE  QueueExact'
    BY <1>0, <1>14, QueueSame DEF condvar_destroy, Queued
  <1>15. ASSUME UNCHANGED vars
         PROVE  QueueExact'
    BY <1>15, QueueSame DEF vars, Queued
  <1>16. ASSUME mutex_destroy
         PROVE  QueueExact'
    BY <1>0, <1>15, <1>16 DEF mutex_destroy
  <1> QED
    BY <1>1, <1>2, <1>3, <1>4, <1>5, <1>6, <1>7, <1>8, <1>9, <1>10, <1>11,
       <1>12, <1>13, <1>14, <1>15, <1>16
       DEF Next, Internal, Unlock, Calls

-----------------------------------------------------------------------------
(* The lock word *)

LEMMA ReadersFinite == IsFiniteSet(Readers) /\ Cardinality(Readers) \in Nat
  <1>1. Readers \in SUBSET Threads
    BY DEF Readers
  <1> QED
    BY <1>1, MutexAssumption, FS_Subset, FS_CardinalityType

\* Nobody gets or gives up the mutex.
LEMMA LockSame ==
    ASSUME LockWord, state' = state, panicked' = panicked,
           Writers' = Writers, Readers' = Readers
    PROVE  LockWord'
  BY DEF LockWord

\* The only lock is a write lock, a new one.
LEMMA LockWrite ==
    ASSUME LockWord, NEW t \in Threads, state = 0, state' = -1,
           panicked' = panicked, Writers' = Writers \cup {t},
           Readers' = Readers
    PROVE  LockWord'
  <1>1. Writers = {} /\ Readers = {}
    BY ReadersFinite, FS_EmptySet DEF LockWord
  <1> QED
    BY <1>1 DEF LockWord

\* One more read lock.
LEMMA LockRead ==
    ASSUME LockWord, NEW t \in Threads, t \notin Readers, state # -1,
           state' = state + 1, panicked' = panicked, Writers' = Writers,
           Readers' = Readers \cup {t}
    PROVE  LockWord'
  <1>1. Writers = {} /\ state = Cardinality(Readers)
    BY DEF LockWord
  <1>2. Cardinality(Readers \cup {t}) = Cardinality(Readers) + 1
    BY ReadersFinite, FS_AddElement
  <1> QED
    BY <1>1, <1>2, ReadersFinite DEF LockWord

\* The write lock is given up.
LEMMA LockFreeWrite ==
    ASSUME LockWord, NEW t \in Threads, t \in Writers, state' = 0,
           panicked' = panicked, Writers' = Writers \ {t}, Readers' = Readers
    PROVE  LockWord'
  <1>1. Writers = {t} /\ Readers = {}
    BY DEF LockWord
  <1> QED
    BY <1>1, FS_EmptySet DEF LockWord

\* A read lock is given up.
LEMMA LockFreeRead ==
    ASSUME LockWord, NEW t \in Threads, t \in Readers, state' = state - 1,
           panicked' = panicked, Writers' = Writers, Readers' = Readers \ {t}
    PROVE  LockWord'
  <1>1. Writers = {} /\ state = Cardinality(Readers)
    BY DEF LockWord
  <1>2. Cardinality(Readers \ {t}) = Cardinality(Readers) - 1
    BY ReadersFinite, FS_RemoveElement
  <1>3. Cardinality(Readers) # 0
    BY ReadersFinite, FS_EmptySet
  <1> QED
    BY <1>1, <1>2, <1>3, ReadersFinite DEF LockWord

\* The word says which kind of lock a holder has.
LEMMA HolderState ==
    ASSUME LockWord, NEW t \in Threads
    PROVE  /\ t \in Writers => state = -1
           /\ t \in Readers => state \in Nat /\ state > 0
  <1>1. t \in Readers => Cardinality(Readers) # 0
    BY ReadersFinite, FS_EmptySet
  <1> QED
    BY <1>1, ReadersFinite DEF LockWord

LEMMA LockInit == Init => LockWord
  <1> SUFFICES ASSUME Init
               PROVE  LockWord
    OBVIOUS
  <1>1. Writers = {} /\ Readers = {}
    BY DEF Init, Writers, Readers
  <1> QED
    BY <1>1, FS_EmptySet DEF Init, LockWord

LEMMA LockStep ==
    Typing /\ QueueExact /\ LockWord /\ [Next]_vars => LockWord'
  <1> SUFFICES ASSUME Typing, QueueExact, LockWord, [Next]_vars
               PROVE  LockWord'
    OBVIOUS
  <1> USE DEF Goto, wqeVars, wakeVars
  <1>a. /\ pc \in [Threads -> PCs]
        /\ ret \in [Threads -> {"idle", "sleep"}]
        /\ wq \in Seq(Threads)
        /\ wait_read \subseteq Threads
        /\ state \in Int
    BY DEF Typing, TypeOK
  <1>1. ASSUME NEW t \in Threads, wq_wake_next(t)
        PROVE  LockWord'
    BY <1>a, <1>1, LockSame DEF wq_wake_next, Writers, Readers
  <1>2. ASSUME NEW t \in Threads, wq_wake_none(t)
        PROVE  LockWord'
    BY <1>a, <1>2, LockSame DEF wq_wake_none, WakeReturn, Writers, Readers
  <1>3. ASSUME NEW t \in Threads, do_notif_send(t)
        PROVE  LockWord'
    BY <1>a, <1>3, LockSame DEF do_notif_send, WakeReturn, Writers, Readers
  <1>4. ASSUME NEW t \in Threads, notif_wait_return(t) \/ notif_wait_fail(t)
        PROVE  LockWord'
    BY <1>a, <1>4, LockSame
       DEF notif_wait_return, notif_wait_fail, Writers, Readers
  <1>5. ASSUME NEW t \in Threads, wq_wait_final(t)
        PROVE  LockWord'
    BY <1>a, <1>5, LockSame DEF wq_wait_final, Writers, Readers
  <1>6. ASSUME NEW t \in Threads, LockCall(t)
        PROVE  LockWord'
    BY <1>a, <1>6, LockSame DEF LockCall, Writers, Readers
  <1>7. ASSUME NEW t \in Threads, mutex_lock(t)
        PROVE  LockWord'
    <2>1. CASE state = 0
      BY <1>a, <1>7, <2>1, LockWrite
         DEF mutex_lock, wq_wait_init, Flag, Writers, Readers
    <2>2. CASE state # 0
      BY <1>a, <1>7, <2>2, LockSame
         DEF mutex_lock, wq_wait_init, Flag, Writers, Readers
    <2> QED
      BY <2>1, <2>2
  <1>8. ASSUME NEW t \in Threads, mutex_read_lock(t)
        PROVE  LockWord'
    <2>1. CASE state # -1
      BY <1>a, <1>8, <2>1, LockRead
         DEF mutex_read_lock, wq_wait_init, Flag, Writers, Readers
    <2>2. CASE state = -1
      BY <1>a, <1>8, <2>2, LockSame, ReadLockWaits DEF Writers, Readers
    <2> QED
      BY <2>1, <2>2
  <1>9. ASSUME NEW t \in Threads, mutex_trylock(t)
        PROVE  LockWord'
    BY <1>a, <1>9, LockWrite DEF mutex_trylock, Writers, Readers
  <1>10. ASSUME NEW t \in Threads, mutex_read_trylock(t)
         PROVE  LockWord'
    BY <1>a, <1>10, LockRead DEF mutex_read_trylock, Writers, Readers
  <1>11. ASSUME NEW t \in Threads, mutex_unlock(t)
         PROVE  LockWord'
    <2>1. t \in Writers /\ state = -1
      BY <1>11, HolderState DEF mutex_unlock, Writers
    <2>2. /\ state' = 0
          /\ pc' = [pc EXCEPT ![t] = "wake"]
          /\ panicked' = panicked
      BY <1>11, <2>1 DEF mutex_unlock, CallWake
    <2>3. Writers' = Writers \ {t} /\ Readers' = Readers
      BY <1>a, <1>11, <2>2 DEF mutex_unlock, Writers, Readers
    <2> QED
      BY <2>1, <2>2, <2>3, LockFreeWrite
  <1>12. ASSUME NEW t \in Threads, mutex_read_unlock(t)
         PROVE  LockWord'
    <2>1. t \in Readers /\ state > 0
      BY <1>12, HolderState DEF mutex_read_unlock, Readers
    <2> QED
      BY <1>a, <1>12, <2>1, LockFreeRead
         DEF mutex_read_unlock, CallWake, Writers, Readers
  <1>13. ASSUME NEW t \in Threads, NEW c \in Condvars, condvar_wait(t, c)
         PROVE  LockWord'
    <2>1. \/ t \in Writers /\ state = -1
          \/ t \in Readers /\ state \in Nat /\ state > 0
      BY <1>13, HolderState DEF condvar_wait, Holds, Writers, Readers
    <2>2. /\ Writers' = Writers \ {t}
          /\ Readers' = Readers \ {t}
          /\ panicked' = panicked
      <3>1. /\ panicked' = panicked
            /\ \/ pc' = [pc EXCEPT ![t] = "sleep"]
               \/ pc' = [pc EXCEPT ![t] = "wake"]
        BY <1>a, <1>13, <2>1, CondvarWaits
      <3> QED
        BY <1>a, <3>1 DEF Writers, Readers
    <2>3. CASE t \in Writers
      <3>1. state' = 0
        BY <1>a, <1>13, <2>1, <2>3, CondvarWaits DEF Writers, Readers
      <3>2. Readers = {}
        BY <2>1, <2>3 DEF Writers, Readers, LockWord
      <3> QED
        BY <2>2, <2>3, <3>1, <3>2, LockFreeWrite
    <2>4. CASE t \in Readers
      <3>1. state' = state - 1
        BY <1>a, <1>13, <2>1, <2>4, CondvarWaits DEF Writers, Readers
      <3>2. Writers = {}
        BY <2>1, <2>4 DEF Writers, Readers, LockWord
      <3> QED
        BY <2>2, <2>4, <3>1, <3>2, LockFreeRead
    <2> QED
      BY <2>1, <2>3, <2>4
  <1>14. ASSUME NEW t \in Threads, NEW c \in Condvars,
                NEW only_one \in BOOLEAN, cv_signal(t, c, only_one)
         PROVE  LockWord'
    BY <1>14, LockSame DEF cv_signal, Writers, Readers
  <1>15. ASSUME NEW c \in Condvars, condvar_destroy(c)
         PROVE  LockWord'
    <2>1. \A i \in 1..Len(wq) : Queued(wq[i])
      BY <1>a DEF QueueExact
    <2>2. \A i \in 1..Len(wq) : cv[wq[i]] # c
      BY <1>a, <1>15, <2>1 DEF condvar_destroy
    <2> QED
      BY <1>15, <2>2, LockSame DEF condvar_destroy, Writers, Readers
  <1>16. ASSUME UNCHANGED vars
         PROVE  LockWord'
    BY <1>16, LockSame DEF vars, Writers, Readers
  <1>17. ASSUME mutex_destroy
         PROVE  LockWord'
    <2>1. Writers = {} /\ Readers = {}
      BY <1>17 DEF mutex_destroy, Writers, Readers
    <2>2. state = 0
      BY <2>1, FS_EmptySet DEF LockWord
    <2>3. \A u \in Threads : ~Queued(u)
      BY <1>17 DEF mutex_destroy, Queued
    <2>4. wq = <<>>
      <3>1. Len(wq) = 0
        BY <1>a, <2>3 DEF QueueExact
      <3> QED
        BY <1>a, <3>1
    <2> QED
      BY <1>16, <1>17, <2>2, <2>4 DEF mutex_destroy
  <1> QED
    BY <1>1, <1>2, <1>3, <1>4, <1>5, <1>6, <1>7, <1>8, <1>9, <1>10, <1>11,
       <1>12, <1>13, <1>14, <1>15, <1>16, <1>17
       DEF Next, Internal, Unlock, Calls

\* The state word always tells who holds the mutex, for any number of threads;
\* in particular no unlock and no condvar_wait() reaches panic().
THEOREM LockWordHolds == Spec => []LockWord
  <1>1. Spec => [](Typing /\ QueueExact /\ LockWord)
    BY TypingInit, TypingStep, QueueInit, QueueStep, LockInit, LockStep, PTL
       DEF Spec
  <1> QED
    BY <1>1, PTL

\* The wait queue is exactly the set of waiting threads, each of them once.
THEOREM QueueIsExact == Spec => []QueueExact
  <1>1. Spec => [](Typing /\ QueueExact)
    BY TypingInit, TypingStep, QueueInit, QueueStep, PTL DEF Spec
  <1> QED
    BY <1>1, PTL

-----------------------------------------------------------------------------
(* Wakeups *)

Base == Typing /\ QueueExact /\ LockWord

LEMMA BaseTypes ==
    ASSUME Base
    PROVE  /\ pc \in [Threads -> PCs]
           /\ ret \in [Threads -> {"idle", "sleep"}]
           /\ wake_read \in [Threads -> {"none", "R", "W"}]
           /\ handle \in [Threads -> Threads \cup {NULL}]
           /\ cv \in [Threads -> Condvars \cup {NULL}]
           /\ wq \in Seq(Threads)
           /\ wait_read \subseteq Threads
           /\ done \subseteq Threads
           /\ state \in Int
  BY DEF Base, Typing, TypeOK

\* A panic() would contradict the lock word.
LEMMA NoPanic == Base /\ [Next]_vars => panicked' = FALSE
  BY LockStep DEF Base, LockWord

LEMMA CondvarInit == Init => CondvarWaitsForSignal
  BY DEF Init, CondvarWaitsForSignal, Queued

LEMMA CondvarStep ==
    Base /\ CondvarWaitsForSignal /\ [Next]_vars => CondvarWaitsForSignal'
  <1> SUFFICES ASSUME Base, CondvarWaitsForSignal, [Next]_vars
               PROVE  CondvarWaitsForSignal'
    OBVIOUS
  <1> USE DEF Goto, wqeVars, wakeVars
  <1>a. /\ pc \in [Threads -> PCs]
        /\ ret \in [Threads -> {"idle", "sleep"}]
        /\ cv \in [Threads -> Condvars \cup {NULL}]
        /\ wq \in Seq(Threads)
        /\ wait_read \subseteq Threads
    BY BaseTypes
  <1>b. ASSUME cv' = cv, done' = done,
               \A u \in Threads : Queued(u)' => Queued(u)
        PROVE  CondvarWaitsForSignal'
    BY <1>b DEF CondvarWaitsForSignal
  <1>0. ASSUME Panic
        PROVE  CondvarWaitsForSignal'
    BY <1>0, <1>b DEF Panic, Queued
  <1>1. ASSUME NEW t \in Threads, wq_wake_next(t)
        PROVE  CondvarWaitsForSignal'
    BY <1>a, <1>1 DEF wq_wake_next, Wakeable, CondvarWaitsForSignal, Queued
  <1>2. ASSUME NEW t \in Threads, wq_wake_none(t)
        PROVE  CondvarWaitsForSignal'
    BY <1>a, <1>b, <1>2 DEF wq_wake_none, WakeReturn, Queued
  <1>3. ASSUME NEW t \in Threads, do_notif_send(t)
        PROVE  CondvarWaitsForSignal'
    BY <1>a, <1>b, <1>3 DEF do_notif_send, WakeReturn, Queued
  <1>4. ASSUME NEW t \in Threads, notif_wait_return(t) \/ notif_wait_fail(t)
        PROVE  CondvarWaitsForSignal'
    BY <1>a, <1>b, <1>4 DEF notif_wait_return, notif_wait_fail, Queued
  <1>5. ASSUME NEW t \in Threads, wq_wait_final(t)
        PROVE  CondvarWaitsForSignal'
    BY <1>a, <1>b, <1>5 DEF wq_wait_final, Queued
  <1>6. ASSUME NEW t \in Threads, LockCall(t)
        PROVE  CondvarWaitsForSignal'
    BY <1>a, <1>b, <1>6 DEF LockCall, Queued
  <1>7. ASSUME NEW t \in Threads, mutex_lock(t)
        PROVE  CondvarWaitsForSignal'
    <2>1. CASE state = 0
      BY <1>a, <1>b, <1>7, <2>1 DEF mutex_lock, wq_wait_init, Flag, Queued
    <2>2. CASE state # 0
      BY <1>a, <1>7, <2>2
         DEF mutex_lock, wq_wait_init, Flag, Queued, CondvarWaitsForSignal
    <2> QED
      BY <2>1, <2>2
  <1>8. ASSUME NEW t \in Threads, mutex_read_lock(t)
        PROVE  CondvarWaitsForSignal'
    <2>1. CASE state # -1
      BY <1>a, <1>b, <1>8, <2>1
         DEF mutex_read_lock, wq_wait_init, Flag, Queued
    <2>2. CASE state = -1
      BY <1>a, <1>8, <2>2, ReadLockWaits DEF Queued, CondvarWaitsForSignal
    <2> QED
      BY <2>1, <2>2
  <1>9. ASSUME NEW t \in Threads, mutex_trylock(t) \/ mutex_read_trylock(t)
        PROVE  CondvarWaitsForSignal'
    BY <1>a, <1>b, <1>9 DEF mutex_trylock, mutex_read_trylock, Queued
  <1>10. ASSUME NEW t \in Threads, mutex_unlock(t)
         PROVE  CondvarWaitsForSignal'
    BY <1>0, <1>a, <1>b, <1>10 DEF mutex_unlock, CallWake, Queued
  <1>11. ASSUME NEW t \in Threads, mutex_read_unlock(t)
         PROVE  CondvarWaitsForSignal'
    BY <1>0, <1>a, <1>b, <1>11 DEF mutex_read_unlock, CallWake, Queued
  <1>12. ASSUME NEW t \in Threads, NEW c \in Condvars, condvar_wait(t, c)
         PROVE  CondvarWaitsForSignal'
    <2>1. CASE state # 0
      <3>1. /\ done' = done \ {t}
            /\ cv' = [cv EXCEPT ![t] = c]
        BY <1>a, <1>12, <2>1, CondvarWaits
      <3>2. \A u \in Threads \ {t} : Queued(u)' => Queued(u)
        BY <1>a, <1>12, <2>1, CondvarWaits DEF Queued
      <3> QED
        BY <1>a, <3>1, <3>2 DEF CondvarWaitsForSignal
    <2> QED
      BY <1>0, <1>12, <2>1 DEF condvar_wait, wq_wait_init, Flag
  <1>13. ASSUME NEW t \in Threads, NEW c \in Condvars,
                NEW only_one \in BOOLEAN, cv_signal(t, c, only_one)
         PROVE  CondvarWaitsForSignal'
    <2>1. \A u \in Threads : cv'[u] = cv[u] \/ cv'[u] = NULL
      BY <1>a, <1>13 DEF cv_signal, wq_promote_condvar, FirstOf
    <2> QED
      BY <1>13, <2>1 DEF cv_signal, Queued, CondvarWaitsForSignal
  <1>14. ASSUME NEW c \in Condvars, condvar_destroy(c)
         PROVE  CondvarWaitsForSignal'
    BY <1>0, <1>b, <1>14 DEF condvar_destroy, Queued
  <1>15. ASSUME UNCHANGED vars
         PROVE  CondvarWaitsForSignal'
    BY <1>b, <1>15 DEF vars, Queued
  <1>16. ASSUME mutex_destroy
         PROVE  CondvarWaitsForSignal'
    BY <1>0, <1>15, <1>16 DEF mutex_destroy
  <1> QED
    BY <1>1, <1>2, <1>3, <1>4, <1>5, <1>6, <1>7, <1>8, <1>9, <1>10, <1>11,
       <1>12, <1>13, <1>14, <1>15, <1>16
       DEF Next, Internal, Unlock, Calls

\* A mutex that stays or becomes locked satisfies NoLostWakeup; so does one
\* that leaves somebody who will go for the lock or wake another thread.
LEMMA SomeGuardian ==
    ASSUME state' # 0 \/ \E t \in Threads : Guardian(t)'
    PROVE  NoLostWakeup'
  BY DEF NoLostWakeup

\* A step that changes neither the word, nor who waits for the mutex, nor who
\* is a guardian, cannot lose a wakeup.
LEMMA GuardianKept ==
    ASSUME NoLostWakeup, state' = state, cv' = cv,
           \A u \in Threads : Queued(u)' <=> Queued(u),
           \A u \in Threads : Guardian(u) => Guardian(u)'
    PROVE  NoLostWakeup'
  BY DEF NoLostWakeup

LEMMA WakeupInit == Init => NoLostWakeup
  BY DEF Init, NoLostWakeup, Queued

LEMMA WakeupStep == Base /\ NoLostWakeup /\ [Next]_vars => NoLostWakeup'
  <1> SUFFICES ASSUME Base, NoLostWakeup, [Next]_vars
               PROVE  NoLostWakeup'
    OBVIOUS
  <1> USE DEF Goto, wqeVars, wakeVars
  <1>a. /\ pc \in [Threads -> PCs]
        /\ ret \in [Threads -> {"idle", "sleep"}]
        /\ wake_read \in [Threads -> {"none", "R", "W"}]
        /\ cv \in [Threads -> Condvars \cup {NULL}]
        /\ wq \in Seq(Threads)
        /\ wait_read \subseteq Threads
        /\ state \in Int
    BY BaseTypes
  <1>b. \A u \in Threads : Queued(u) <=> \E i \in 1..Len(wq) : wq[i] = u
    BY DEF Base, QueueExact
  <1>c. \A t \in Threads : pc[t] \notin {"wake", "send"} => wake_read[t] = "none"
    BY DEF Base, Typing, WakeLocals
  <1>d. panicked' = FALSE
    BY NoPanic
  <1>1. ASSUME NEW t \in Threads, wq_wake_next(t)
        PROVE  NoLostWakeup'
    <2>1. PICK u \in Threads : Queued(u) /\ done' = done \cup {u}
      BY <1>1, <1>a, <1>b DEF wq_wake_next
    <2>2. Queued(u)'
      BY <1>1, <1>a, <2>1 DEF wq_wake_next, Queued
    <2> QED
      BY <2>1, <2>2, SomeGuardian DEF Guardian
  <1>2. ASSUME NEW t \in Threads, wq_wake_none(t)
        PROVE  NoLostWakeup'
    <2>1. /\ \A u \in Threads : Queued(u)' <=> Queued(u)
          /\ UNCHANGED <<state, cv, done>>
      BY <1>2, <1>a DEF wq_wake_none, WakeReturn, Queued
    <2>2. CASE wake_read[t] = "none"
      <3>1. ASSUME NEW u \in Threads, Queued(u), cv[u] = NULL
            PROVE  u \in done
        <4>1. PICK i \in 1..Len(wq) : wq[i] = u
          BY <1>b, <3>1
        <4>2. ~Wakeable(t, u)
          BY <1>2, <4>1 DEF wq_wake_none
        <4> QED
          BY <2>2, <3>1, <4>2 DEF Wakeable
      <3> QED
        BY <2>1, <3>1 DEF NoLostWakeup, Guardian
    <2>3. CASE wake_read[t] # "none"
      <3>1. ASSUME NEW u \in Threads, Guardian(u)
            PROVE  Guardian(u)'
        BY <1>2, <1>a, <2>1, <2>3, <3>1 DEF wq_wake_none, WakeReturn, Guardian
      <3> QED
        BY <2>1, <3>1, GuardianKept
    <2> QED
      BY <2>2, <2>3
  <1>3. ASSUME NEW t \in Threads, do_notif_send(t)
        PROVE  NoLostWakeup'
    <2>1. /\ \A u \in Threads : Queued(u)' <=> Queued(u)
          /\ UNCHANGED <<state, cv, done>>
      BY <1>3, <1>a DEF do_notif_send, WakeReturn, Queued
    <2>2. ASSUME NEW u \in Threads, Guardian(u)
          PROVE  Guardian(u)'
      BY <1>3, <1>a, <2>1, <2>2 DEF do_notif_send, WakeReturn, Guardian
    <2> QED
      BY <2>1, <2>2, GuardianKept
  <1>4. ASSUME NEW t \in Threads, notif_wait_return(t) \/ notif_wait_fail(t)
        PROVE  NoLostWakeup'
    BY <1>4, <1>a, SomeGuardian
       DEF notif_wait_return, notif_wait_fail, Guardian
  <1>5. ASSUME NEW t \in Threads, wq_wait_final(t)
        PROVE  NoLostWakeup'
    BY <1>5, <1>a, SomeGuardian DEF wq_wait_final, Guardian
  <1>6. ASSUME NEW t \in Threads, LockCall(t)
        PROVE  NoLostWakeup'
    BY <1>6, <1>a, SomeGuardian DEF LockCall, Guardian
  <1>7. ASSUME NEW t \in Threads, mutex_lock(t)
        PROVE  NoLostWakeup'
    <2>1. state' # 0
      BY <1>7 DEF mutex_lock, wq_wait_init, Flag
    <2> QED
      BY <2>1, SomeGuardian
  <1>8. ASSUME NEW t \in Threads, mutex_read_lock(t) \/ mutex_read_trylock(t)
        PROVE  NoLostWakeup'
    <2>1. state \in Nat \/ state = -1
      BY ReadersFinite DEF Base, LockWord
    <2>2. state' # 0
      BY <1>8, <2>1, ReadLockWaits
         DEF mutex_read_lock, mutex_read_trylock, wq_wait_init, Flag
    <2> QED
      BY <2>2, SomeGuardian
  <1>9. ASSUME NEW t \in Threads, mutex_trylock(t)
        PROVE  NoLostWakeup'
    BY <1>9, SomeGuardian DEF mutex_trylock
  <1>10. ASSUME NEW t \in Threads, mutex_unlock(t)
         PROVE  NoLostWakeup'
    <2>1. pc[t] = "holdW" /\ CallWake(t, "idle")
      BY <1>10, <1>d DEF mutex_unlock, Panic
    <2>2. Guardian(t)'
      BY <1>a, <1>c, <2>1 DEF CallWake, Guardian
    <2> QED
      BY <2>2, SomeGuardian
  <1>11. ASSUME NEW t \in Threads, mutex_read_unlock(t)
         PROVE  NoLostWakeup'
    <2>1. /\ pc[t] = "holdR"
          /\ state' # 0 \/ CallWake(t, "idle")
      BY <1>11, <1>d DEF mutex_read_unlock, Panic
    <2>2. state' # 0 \/ Guardian(t)'
      BY <1>a, <1>c, <2>1 DEF CallWake, Guardian
    <2> QED
      BY <2>2, SomeGuardian
  <1>12. ASSUME NEW t \in Threads, NEW c \in Condvars, condvar_wait(t, c)
         PROVE  NoLostWakeup'
    <2>1. state # 0
      BY <1>12, <1>d DEF condvar_wait, Panic
    <2>2. pc[t] \in {"holdW", "holdR"} /\ wake_read' = wake_read
      BY <1>12, <1>a, <2>1, CondvarWaits
    <2>3. state' # 0 \/ pc' = [pc EXCEPT ![t] = "wake"]
      BY <1>12, <1>a, <2>1, CondvarWaits
    <2>4. state' # 0 \/ Guardian(t)'
      BY <1>a, <1>c, <2>2, <2>3 DEF Guardian
    <2> QED
      BY <2>4, SomeGuardian
  <1>13. ASSUME NEW t \in Threads, NEW c \in Condvars,
                NEW only_one \in BOOLEAN, cv_signal(t, c, only_one)
         PROVE  NoLostWakeup'
    <2>1. state # 0
      BY <1>13, HolderState DEF cv_signal, Holds, Writers, Readers, Base
    <2> QED
      BY <1>13, <2>1, SomeGuardian DEF cv_signal
  <1>14. ASSUME NEW c \in Condvars, condvar_destroy(c)
         PROVE  NoLostWakeup'
    BY <1>14, <1>d, GuardianKept DEF condvar_destroy, Panic, Guardian, Queued
  <1>15. ASSUME UNCHANGED vars
         PROVE  NoLostWakeup'
    BY <1>15, GuardianKept DEF vars, Guardian, Queued
  <1>16. ASSUME mutex_destroy
         PROVE  NoLostWakeup'
    BY <1>15, <1>16, <1>d DEF mutex_destroy, Panic
  <1> QED
    BY <1>1, <1>2, <1>3, <1>4, <1>5, <1>6, <1>7, <1>8, <1>9, <1>10, <1>11,
       <1>12, <1>13, <1>14, <1>15, <1>16
       DEF Next, Internal, Unlock, Calls

LEMMA DoneInit == Init => DoneIsNotified
  BY DEF Init, DoneIsNotified, Queued

\* The threads that are marked done and must still be notified.
ToNotify(u) == Queued(u) /\ u \in done /\ pc[u] # "remove"
BeingSent(u) == \E t \in Threads : pc[t] = "send" /\ handle[t] = u

LEMMA DoneKept ==
    ASSUME DoneIsNotified,
           \A u \in Threads : ToNotify(u)' => ToNotify(u),
           \A u \in Threads : ToNotify(u)' /\ u \in notified => u \in notified',
           \A t \in Threads : pc[t] = "send" =>
                pc'[t] = "send" /\ handle'[t] = handle[t]
    PROVE  DoneIsNotified'
  <1> SUFFICES ASSUME NEW u \in Threads, ToNotify(u)'
               PROVE  (u \in notified \/ BeingSent(u))'
    BY DEF DoneIsNotified, ToNotify, BeingSent
  <1>1. u \in notified \/ BeingSent(u)
    BY DEF DoneIsNotified, ToNotify, BeingSent
  <1> QED
    BY <1>1 DEF BeingSent

LEMMA DoneStep == Base /\ DoneIsNotified /\ [Next]_vars => DoneIsNotified'
  <1> SUFFICES ASSUME Base, DoneIsNotified, [Next]_vars
               PROVE  DoneIsNotified'
    OBVIOUS
  <1> USE DEF Goto, wqeVars, wakeVars
  <1>a. /\ pc \in [Threads -> PCs]
        /\ ret \in [Threads -> {"idle", "sleep"}]
        /\ handle \in [Threads -> Threads \cup {NULL}]
        /\ wq \in Seq(Threads)
        /\ wait_read \subseteq Threads
    BY BaseTypes
  <1>0. ASSUME Panic
        PROVE  DoneIsNotified'
    BY <1>0, DoneKept DEF Panic, ToNotify, Queued
  <1>1. ASSUME NEW t \in Threads, wq_wake_next(t)
        PROVE  DoneIsNotified'
    <2>0. PICK i \in 1..Len(wq) : /\ done' = done \cup {wq[i]}
                                  /\ handle' = [handle EXCEPT ![t] = wq[i]]
      BY <1>1 DEF wq_wake_next
    <2>1. PICK v \in Threads : v = wq[i]
      BY <1>a
    <2>2. /\ pc[t] = "wake"
          /\ pc' = [pc EXCEPT ![t] = "send"]
          /\ done' = done \cup {v}
          /\ handle' = [handle EXCEPT ![t] = v]
          /\ UNCHANGED <<ret, notified>>
      BY <1>1, <2>0, <2>1 DEF wq_wake_next
    <2>3. ASSUME NEW u \in Threads, ToNotify(u)'
          PROVE  (u \in notified \/ BeingSent(u))'
      <3>1. CASE u = v
        BY <1>a, <2>2, <3>1 DEF BeingSent
      <3>2. CASE u # v
        <4>1. ToNotify(u)
          BY <1>a, <2>2, <2>3, <3>2 DEF ToNotify, Queued
        <4>2. u \in notified \/ BeingSent(u)
          BY <4>1 DEF DoneIsNotified, ToNotify, BeingSent
        <4> QED
          BY <1>a, <2>2, <4>2 DEF BeingSent
      <3> QED
        BY <3>1, <3>2
    <2> QED
      BY <2>3 DEF DoneIsNotified, ToNotify, BeingSent
  <1>2. ASSUME NEW t \in Threads, wq_wake_none(t)
        PROVE  DoneIsNotified'
    BY <1>2, <1>a, DoneKept DEF wq_wake_none, WakeReturn, ToNotify, Queued
  <1>3. ASSUME NEW t \in Threads, do_notif_send(t)
        PROVE  DoneIsNotified'
    <2>1. /\ notified' = notified \cup {handle[t]}
          /\ done' = done
      BY <1>3 DEF do_notif_send
    <2>2. \A w \in Threads \ {t} : pc'[w] = pc[w] /\ handle'[w] = handle[w]
      BY <1>3, <1>a DEF do_notif_send, WakeReturn
    <2>3. ASSUME NEW u \in Threads, ToNotify(u)'
          PROVE  (u \in notified \/ BeingSent(u))'
      <3>1. ToNotify(u)
        BY <1>3, <1>a, <2>1, <2>3
           DEF do_notif_send, WakeReturn, ToNotify, Queued
      <3>2. u \in notified \/ BeingSent(u)
        BY <3>1 DEF DoneIsNotified, ToNotify, BeingSent
      <3> QED
        BY <2>1, <2>2, <3>2 DEF BeingSent
    <2> QED
      BY <2>3 DEF DoneIsNotified, ToNotify, BeingSent
  <1>4. ASSUME NEW t \in Threads, notif_wait_return(t) \/ notif_wait_fail(t)
        PROVE  DoneIsNotified'
    BY <1>4, <1>a, DoneKept
       DEF notif_wait_return, notif_wait_fail, ToNotify, Queued
  <1>5. ASSUME NEW t \in Threads, wq_wait_final(t)
        PROVE  DoneIsNotified'
    BY <1>5, <1>a, DoneKept DEF wq_wait_final, ToNotify, Queued
  <1>6. ASSUME NEW t \in Threads, LockCall(t)
        PROVE  DoneIsNotified'
    BY <1>6, <1>a, DoneKept DEF LockCall, ToNotify, Queued
  <1>7. ASSUME NEW t \in Threads, mutex_lock(t)
        PROVE  DoneIsNotified'
    BY <1>7, <1>a, DoneKept DEF mutex_lock, wq_wait_init, Flag, ToNotify, Queued
  <1>8. ASSUME NEW t \in Threads, mutex_read_lock(t)
        PROVE  DoneIsNotified'
    <2>1. CASE state # -1
      BY <1>8, <1>a, <2>1, DoneKept
         DEF mutex_read_lock, wq_wait_init, Flag, ToNotify, Queued
    <2>2. CASE state = -1
      BY <1>8, <1>a, <2>2, DoneKept, ReadLockWaits DEF ToNotify, Queued
    <2> QED
      BY <2>1, <2>2
  <1>9. ASSUME NEW t \in Threads, mutex_trylock(t) \/ mutex_read_trylock(t)
        PROVE  DoneIsNotified'
    BY <1>9, <1>a, DoneKept
       DEF mutex_trylock, mutex_read_trylock, ToNotify, Queued
  <1>10. ASSUME NEW t \in Threads, mutex_unlock(t)
         PROVE  DoneIsNotified'
    BY <1>0, <1>10, <1>a, DoneKept DEF mutex_unlock, CallWake, ToNotify, Queued
  <1>11. ASSUME NEW t \in Threads, mutex_read_unlock(t)
         PROVE  DoneIsNotified'
    BY <1>0, <1>11, <1>a, DoneKept
       DEF mutex_read_unlock, CallWake, ToNotify, Queued
  <1>12. ASSUME NEW t \in Threads, NEW c \in Condvars, condvar_wait(t, c)
         PROVE  DoneIsNotified'
    <2>1. CASE state # 0
      <3>1. /\ pc[t] \in {"holdW", "holdR"}
            /\ done' = done \ {t}
            /\ UNCHANGED <<notified, handle>>
        BY <1>a, <1>12, <2>1, CondvarWaits
      <3>2. \A u \in Threads \ {t} : pc'[u] = pc[u] /\ ret'[u] = ret[u]
        BY <1>a, <1>12, <2>1, CondvarWaits
      <3> QED
        BY <1>a, <3>1, <3>2, DoneKept DEF ToNotify, Queued
    <2> QED
      BY <1>0, <1>12, <2>1 DEF condvar_wait, wq_wait_init, Flag
  <1>13. ASSUME NEW t \in Threads, NEW c \in Condvars,
                NEW only_one \in BOOLEAN, cv_signal(t, c, only_one)
         PROVE  DoneIsNotified'
    BY <1>13, DoneKept DEF cv_signal, ToNotify, Queued
  <1>14. ASSUME NEW c \in Condvars, condvar_destroy(c)
         PROVE  DoneIsNotified'
    BY <1>0, <1>14, DoneKept DEF condvar_destroy, ToNotify, Queued
  <1>15. ASSUME UNCHANGED vars
         PROVE  DoneIsNotified'
    BY <1>15, DoneKept DEF vars, ToNotify, Queued
  <1>16. ASSUME mutex_destroy
         PROVE  DoneIsNotified'
    BY <1>0, <1>15, <1>16 DEF mutex_destroy
  <1> QED
    BY <1>1, <1>2, <1>3, <1>4, <1>5, <1>6, <1>7, <1>8, <1>9, <1>10, <1>11,
       <1>12, <1>13, <1>14, <1>15, <1>16
       DEF Next, Internal, Unlock, Calls

LEMMA BaseAlways == Spec => []Base
  BY TypingInit, TypingStep, QueueInit, QueueStep, LockInit, LockStep, PTL
     DEF Spec, Base

\* No wakeup is ever lost: while the mutex is free, a thread that waits for it
\* always has somebody who will go for the lock or wake it.
THEOREM NoWakeupIsLost == Spec => []NoLostWakeup
  BY BaseAlways, WakeupInit, WakeupStep, PTL DEF Spec

\* wq_wake_next() marks an element done before it sends the notification, but
\* never forgets to send it.
THEOREM EveryDoneIsNotified == Spec => []DoneIsNotified
  BY BaseAlways, DoneInit, DoneStep, PTL DEF Spec

\* Only a signal or a broadcast makes a condvar waiter eligible for a wakeup.
THEOREM CondvarNeedsSignal == Spec => []CondvarWaitsForSignal
  BY BaseAlways, CondvarInit, CondvarStep, PTL DEF Spec

-----------------------------------------------------------------------------
(* Refinement *)

LEMMA AbstractSame ==
    ASSUME Writers' = Writers, Readers' = Readers
    PROVE  UNCHANGED Abstract!lockVars
  BY DEF Abstract!lockVars

LEMMA AbstractStep ==
    Base /\ [Next]_vars => [Abstract!Next]_(Abstract!lockVars)
  <1> SUFFICES ASSUME Base, [Next]_vars
               PROVE  Abstract!Next \/ UNCHANGED Abstract!lockVars
    OBVIOUS
  <1> USE DEF Goto, wqeVars, wakeVars
  <1>a. /\ pc \in [Threads -> PCs]
        /\ ret \in [Threads -> {"idle", "sleep"}]
        /\ wait_read \subseteq Threads
        /\ state \in Int
        /\ LockWord
    BY BaseTypes DEF Base
  <1>b. panicked' = FALSE
    BY NoPanic
  <1>1. ASSUME NEW t \in Threads,
               wq_wake_next(t) \/ notif_wait_return(t) \/ notif_wait_fail(t)
               \/ wq_wait_final(t) \/ LockCall(t)
        PROVE  Writers' = Writers /\ Readers' = Readers
    BY <1>1, <1>a DEF wq_wake_next, notif_wait_return, notif_wait_fail,
                      wq_wait_final, LockCall, Writers, Readers
  <1>2. ASSUME NEW t \in Threads, wq_wake_none(t) \/ do_notif_send(t)
        PROVE  Writers' = Writers /\ Readers' = Readers
    BY <1>2, <1>a DEF wq_wake_none, do_notif_send, WakeReturn, Writers, Readers
  <1>3. ASSUME state = 0
        PROVE  Writers = {} /\ Readers = {}
    BY <1>a, <1>3, ReadersFinite, FS_EmptySet DEF LockWord
  <1>4. ASSUME NEW t \in Threads, mutex_lock(t) \/ mutex_trylock(t)
        PROVE  \/ Abstract!AcquireWrite(t)
               \/ Writers' = Writers /\ Readers' = Readers
    <2>1. CASE state = 0
      <3>1. Writers' = Writers \cup {t} /\ Readers' = Readers
        BY <1>4, <1>a, <2>1
           DEF mutex_lock, mutex_trylock, wq_wait_init, Flag, Writers, Readers
      <3> QED
        BY <1>3, <2>1, <3>1 DEF Abstract!AcquireWrite
    <2>2. CASE state # 0
      BY <1>4, <1>a, <2>2
         DEF mutex_lock, mutex_trylock, wq_wait_init, Flag, Writers, Readers
    <2> QED
      BY <2>1, <2>2
  <1>5. ASSUME NEW t \in Threads, mutex_read_lock(t) \/ mutex_read_trylock(t)
        PROVE  \/ Abstract!AcquireRead(t)
               \/ Writers' = Writers /\ Readers' = Readers
    <2>1. CASE state # -1
      <3>1. /\ Writers' = Writers /\ Readers' = Readers \cup {t}
            /\ t \notin Readers
        BY <1>5, <1>a, <2>1 DEF mutex_read_lock, mutex_read_trylock,
                                wq_wait_init, Flag, Writers, Readers
      <3>2. Writers = {}
        BY <1>a, <2>1 DEF LockWord
      <3> QED
        BY <3>1, <3>2 DEF Abstract!AcquireRead
    <2>2. CASE state = -1
      <3>1. mutex_read_lock(t)
        BY <1>5, <2>2 DEF mutex_read_trylock
      <3> QED
        BY <1>a, <2>2, <3>1, ReadLockWaits DEF Writers, Readers
    <2> QED
      BY <2>1, <2>2
  <1>6. ASSUME NEW t \in Threads, mutex_unlock(t)
        PROVE  Abstract!ReleaseWrite(t)
    <2>1. pc[t] = "holdW" /\ pc' = [pc EXCEPT ![t] = "wake"]
      BY <1>6, <1>b DEF mutex_unlock, Panic, CallWake
    <2>2. t \in Writers /\ Writers' = Writers \ {t} /\ Readers' = Readers
      BY <1>a, <2>1 DEF Writers, Readers
    <2> QED
      BY <2>2 DEF Abstract!ReleaseWrite
  <1>7. ASSUME NEW t \in Threads, mutex_read_unlock(t)
        PROVE  Abstract!ReleaseRead(t)
    <2>1. /\ pc[t] = "holdR"
          /\ \/ pc' = [pc EXCEPT ![t] = "wake"]
             \/ pc' = [pc EXCEPT ![t] = "idle"]
      BY <1>7, <1>b DEF mutex_read_unlock, Panic, CallWake
    <2>2. t \in Readers /\ Readers' = Readers \ {t} /\ Writers' = Writers
      BY <1>a, <2>1 DEF Writers, Readers
    <2> QED
      BY <2>2 DEF Abstract!ReleaseRead
  <1>8. ASSUME NEW t \in Threads, NEW c \in Condvars, condvar_wait(t, c)
        PROVE  Abstract!ReleaseRead(t) \/ Abstract!ReleaseWrite(t)
    <2>1. state # 0
      BY <1>8, <1>b DEF condvar_wait, Panic
    <2>2. /\ pc[t] \in {"holdW", "holdR"}
          /\ \/ pc' = [pc EXCEPT ![t] = "sleep"]
             \/ pc' = [pc EXCEPT ![t] = "wake"]
      BY <1>8, <1>a, <2>1, CondvarWaits
    <2>3. CASE pc[t] = "holdW"
      <3>1. t \in Writers /\ Writers' = Writers \ {t} /\ Readers' = Readers
        BY <1>a, <2>2, <2>3 DEF Writers, Readers
      <3> QED
        BY <3>1 DEF Abstract!ReleaseWrite
    <2>4. CASE pc[t] = "holdR"
      <3>1. t \in Readers /\ Readers' = Readers \ {t} /\ Writers' = Writers
        BY <1>a, <2>2, <2>4 DEF Writers, Readers
      <3> QED
        BY <3>1 DEF Abstract!ReleaseRead
    <2> QED
      BY <2>2, <2>3, <2>4
  <1>9. ASSUME pc' = pc
        PROVE  Writers' = Writers /\ Readers' = Readers
    BY <1>9 DEF Writers, Readers
  <1>10. ASSUME NEW t \in Threads, NEW c \in Condvars,
                NEW only_one \in BOOLEAN, cv_signal(t, c, only_one)
         PROVE  Writers' = Writers /\ Readers' = Readers
    BY <1>9, <1>10 DEF cv_signal
  <1>11. ASSUME NEW c \in Condvars, condvar_destroy(c)
         PROVE  Writers' = Writers /\ Readers' = Readers
    BY <1>9, <1>11 DEF condvar_destroy, Panic
  <1>12. ASSUME mutex_destroy \/ UNCHANGED vars
         PROVE  Writers' = Writers /\ Readers' = Readers
    BY <1>9, <1>12 DEF mutex_destroy, Panic, vars
  <1> QED
    BY <1>1, <1>2, <1>4, <1>5, <1>6, <1>7, <1>8, <1>10, <1>11, <1>12,
       AbstractSame
       DEF Next, Internal, Unlock, Calls, Abstract!Next

\* The kernel mutex, with its wait queue and its condition variables,
\* implements the reader-writer lock of RWLock.
THEOREM MutexImplementsRWLock == Spec => ImplementsRWLock
  <1>1. Init => Abstract!Init
    BY DEF Init, Abstract!Init, Writers, Readers
  <1> QED
    BY <1>1, BaseAlways, AbstractStep, PTL
       DEF Spec, Abstract!Spec, ImplementsRWLock
=============================================================================
