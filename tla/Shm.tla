-------------------------------- MODULE Shm --------------------------------
(***************************************************************************)
(* Memory objects for shared and protected memory of normal world          *)
(* (core/mm/mobj_dyn_shm.c, the references of core/kernel/refcount.c and   *)
(* core/include/mm/mobj.h) with the requests that use them: registering    *)
(* and unregistering shared memory, lending and reclaiming protected       *)
(* memory (core/tee/entry_std.c), calls whose argument or parameters are   *)
(* found by cookie or by address, and calls with a temporary object.       *)
(*                                                                         *)
(* A step is an atomic operation on a reference counter or one section     *)
(* under reg_shm_slist_lock, reg_shm_map_lock or shm_mu.  The sections     *)
(* under the spinlocks are atomic because what they read and can be        *)
(* written without the lock, a counter that is zero, changes only under    *)
(* the lock: refcount_inc fails on zero and nobody holds a count to give   *)
(* back.  An object is on its list from the section that inserts it to the *)
(* section that removes and frees it, so being allocated stands for both.  *)
(* An object covers one page; the order of the lists, which only decides   *)
(* between objects that were given one cookie, is left open.               *)
(***************************************************************************)
EXTENDS Naturals, FiniteSets

CONSTANTS
    Threads,        \* Threads that serve requests of normal world
    Mobjs,          \* Heap cells for memory objects
    Cookies,        \* Cookies normal world uses
    Pages,          \* Pages of non-secure memory
    MaxCalls,       \* Bound: requests of normal world in a behaviour
    NULL

\* Memory objects: struct mobj_reg_shm and struct mobj_protmem
MobjType == [kind : {"shm", "protmem"}, cookie : Cookies, page : Pages,
             refc : Nat, mapcount : Nat, mm : BOOLEAN, guarded : BOOLEAN,
             releasing : BOOLEAN, release_frees : BOOLEAN]

\* There are CFG_NUM_THREADS threads.
ASSUME ShmAssumption ==
    /\ NULL \notin Threads \cup Mobjs /\ NULL \notin MobjType
    /\ IsFiniteSet(Threads) /\ MaxCalls \in Nat

VARIABLES
    mobj,           \* The object in each cell, NULL when the cell is free
    protected,      \* Pages plat_set_protmem_range protects
    shm_mu,         \* Holder of the mutex shm_mu
    shm_release_waiters,
    st,             \* What each thread does: pc, job and object
    calls           \* Requests made so far

ShmVars == <<mobj, protected, shm_mu, shm_release_waiters, st, calls>>

----------------------------------------------------------------------------
(* Jobs.  "arg" and "temp" are calls with a temporary object, mapped and   *)
(* not; "regd" and "param" are calls that find an object, the first maps   *)
(* it too.                                                                 *)

Idle == [pc |-> "idle", job |-> "none", o |-> NULL]
Jobs == {"none", "register", "release", "arg", "temp", "regd", "param"}
PCs == {"idle", "unguard", "map", "maplock", "using", "unmap", "unmaplock",
        "put", "free", "broadcast", "wait", "check", "sleep", "asleep",
        "relock", "leave", "panic"}

Live(k) == {o \in Mobjs : mobj[o] # NULL /\ mobj[o].kind = k}
Allocated == Live("shm") \cup Live("protmem")

New(k, c, p) ==
    [kind |-> k, cookie |-> c, page |-> p, refc |-> 1, mapcount |-> 0,
     mm |-> FALSE, guarded |-> k = "shm", releasing |-> FALSE,
     release_frees |-> FALSE]

ShmInit ==
    /\ mobj = [o \in Mobjs |-> NULL]
    /\ protected = {}
    /\ shm_mu = NULL
    /\ shm_release_waiters = 0
    /\ st = [t \in Threads |-> Idle]
    /\ calls = 0

At(t, pc) == st[t].pc = pc
GoTo(t, pc) == st' = [st EXCEPT ![t].pc = pc]
Go(t, pc, job, o) == st' = [st EXCEPT ![t] = [pc |-> pc, job |-> job, o |-> o]]
Call(t) == At(t, "idle") /\ calls < MaxCalls /\ calls' = calls + 1
Locks == <<shm_mu, shm_release_waiters>>

----------------------------------------------------------------------------
(* Allocation.                                                             *)

\* MUTANT: memory is lent although it is shared.
NoConflict_Lend(k, p) == k = "protmem" => \A o \in Live(k) : mobj[o].page # p

\* check_protmem_conflict and check_reg_shm_list_conflict
NoConflict(k, p) == \A o \in Live(k) : mobj[o].page # p

\* mobj_reg_shm_alloc: a guarded object with one reference, of the caller.
mobj_reg_shm_alloc(o, c, p) ==
    /\ mobj[o] = NULL
    /\ NoConflict("protmem", p)
    /\ mobj' = [mobj EXCEPT ![o] = New("shm", c, p)]

\* register_shm up to mobj_reg_shm_unguard
register_shm(t) ==
    /\ Call(t)
    /\ \E o \in Mobjs, c \in Cookies, p \in Pages :
          mobj_reg_shm_alloc(o, c, p) /\ Go(t, "unguard", "register", o)
    /\ UNCHANGED <<protected, Locks>>

\* The reference of the allocation now belongs to the registration.
mobj_reg_shm_unguard(t) ==
    /\ At(t, "unguard")
    /\ mobj' = [mobj EXCEPT ![st[t].o].guarded = FALSE]
    /\ st' = [st EXCEPT ![t] = Idle]
    /\ UNCHANGED <<protected, Locks, calls>>

\* A call with a temporary object: its argument, mapped (std_entry_with_parg),
\* or a parameter of scattered pages (set_tmem_param).
TemporaryShm(t) ==
    /\ Call(t)
    /\ \E o \in Mobjs, c \in Cookies, p \in Pages, mapped \in BOOLEAN :
          /\ mobj_reg_shm_alloc(o, c, p)
          /\ IF mapped THEN Go(t, "map", "arg", o) ELSE Go(t, "using", "temp", o)
    /\ UNCHANGED <<protected, Locks>>

\* lend_protmem: protecting the page may fail, and then nothing is left.
mobj_protmem_alloc(t) ==
    /\ Call(t)
    /\ \E o \in Mobjs, c \in Cookies, p \in Pages :
          /\ mobj[o] = NULL
          /\ NoConflict("shm", p)
          /\ mobj' = [mobj EXCEPT ![o] = New("protmem", c, p)]
          /\ protected' = protected \cup {p}
    /\ UNCHANGED <<Locks, st>>

----------------------------------------------------------------------------
(* Finding an object.                                                      *)

\* mobj_get panics when the counter is zero.
mobj_get(t, job, o) ==
    IF mobj[o].refc = 0
    THEN Go(t, "panic", job, o) /\ UNCHANGED mobj
    ELSE /\ mobj' = [mobj EXCEPT ![o].refc = @ + 1]
         /\ Go(t, IF job = "regd" THEN "map" ELSE "using", job, o)

\* The objects a lookup can return: reg_shm_list is searched first.
FindByCookie(c) ==
    LET found(k) == {o \in Live(k) : mobj[o].cookie = c}
    IN  IF found("shm") # {} THEN found("shm") ELSE found("protmem")

\* MUTANT: an object that is being released is still found.
get_releasing(t) ==
    /\ Call(t)
    /\ \E c \in Cookies, job \in {"regd", "param"} : \E o \in FindByCookie(c) :
          mobj_get(t, job, o)
    /\ UNCHANGED <<protected, Locks>>

mobj_reg_shm_get_by_cookie(t) ==
    /\ Call(t)
    /\ \E c \in Cookies, job \in {"regd", "param"} : \E o \in FindByCookie(c) :
          ~mobj[o].releasing /\ mobj_get(t, job, o)
    /\ UNCHANGED <<protected, Locks>>

mobj_protmem_get_by_pa(t) ==
    /\ Call(t)
    /\ \E p \in Pages : \E o \in {m \in Live("protmem") : mobj[m].page = p} :
          ~mobj[o].releasing /\ mobj_get(t, "param", o)
    /\ UNCHANGED <<protected, Locks>>

----------------------------------------------------------------------------
(* Mapping.                                                                *)

\* mobj_reg_shm_inc_map: the counter is increased unless it is zero.
\* mobj_protmem_inc_map fails.
inc_map(t) ==
    LET o == st[t].o
    IN  /\ At(t, "map")
        /\ \/ mobj[o].kind = "protmem" /\ GoTo(t, "put") /\ UNCHANGED mobj
           \/ /\ mobj[o].kind = "shm"
              /\ IF mobj[o].mapcount > 0
                 THEN /\ mobj' = [mobj EXCEPT ![o].mapcount = @ + 1]
                      /\ GoTo(t, "using")
                 ELSE GoTo(t, "maplock") /\ UNCHANGED mobj
        /\ UNCHANGED <<protected, Locks, calls>>

\* The section under reg_shm_map_lock: start again when another thread was
\* first; else map unless the mapping is still there, which may fail.
inc_map_locked(t) ==
    LET o == st[t].o
    IN  /\ At(t, "maplock")
        /\ \/ mobj[o].mapcount > 0 /\ GoTo(t, "map") /\ UNCHANGED mobj
           \/ /\ mobj[o].mapcount = 0
              /\ mobj' = [mobj EXCEPT ![o].mm = TRUE, ![o].mapcount = 1]
              /\ GoTo(t, "using")
           \/ /\ mobj[o].mapcount = 0 /\ ~mobj[o].mm
              /\ GoTo(t, "put") /\ UNCHANGED mobj
        /\ UNCHANGED <<protected, Locks, calls>>

\* The call returns: a temporary mapping is left to the last mobj_put.
EndUse(t) ==
    /\ At(t, "using")
    /\ GoTo(t, IF st[t].job = "regd" THEN "unmap" ELSE "put")
    /\ UNCHANGED <<mobj, protected, Locks, calls>>

dec_map(t) ==
    LET o == st[t].o
    IN  /\ At(t, "unmap")
        /\ mobj' = [mobj EXCEPT ![o].mapcount = @ - 1]
        /\ GoTo(t, IF mobj[o].mapcount = 1 THEN "unmaplock" ELSE "put")
        /\ UNCHANGED <<protected, Locks, calls>>

dec_map_locked(t) ==
    LET o == st[t].o
    IN  /\ At(t, "unmaplock")
        /\ mobj' = [mobj EXCEPT ![o].mm = @ /\ mobj[o].mapcount > 0]
        /\ GoTo(t, "put")
        /\ UNCHANGED <<protected, Locks, calls>>

----------------------------------------------------------------------------
(* Giving a reference back.                                                *)

\* Where the caller of mobj_put goes on: a release waits, a call is done.
AfterPut(t) ==
    IF st[t].job = "release" THEN [st[t] EXCEPT !.pc = "wait"] ELSE Idle

mobj_put(t) ==
    LET o == st[t].o
    IN  /\ At(t, "put")
        /\ mobj' = [mobj EXCEPT ![o].refc = @ - 1]
        /\ IF mobj[o].refc = 1 THEN GoTo(t, "free")
                               ELSE st' = [st EXCEPT ![t] = AfterPut(t)]
        /\ UNCHANGED <<protected, Locks, calls>>

\* reg_shm_free_helper and protmem_free_helper: unmap or restore, unlink, free.
free_helper(o) ==
    /\ mobj' = [mobj EXCEPT ![o] = NULL]
    /\ protected' = IF mobj[o].kind = "protmem"
                    THEN protected \ {mobj[o].page} ELSE protected

\* MUTANT: the object is freed although a release waits to free it.
free_always(t) ==
    /\ At(t, "free")
    /\ free_helper(st[t].o)
    /\ st' = [st EXCEPT ![t] = AfterPut(t)]
    /\ UNCHANGED <<Locks, calls>>

\* mobj_reg_shm_free and mobj_protmem_free up to the first unlock
mobj_free(t) ==
    LET o == st[t].o
        r == mobj[o]
    IN  /\ At(t, "free")
        /\ IF (r.kind = "shm" => r.guarded) /\ ~r.releasing
           THEN free_helper(o) /\ st' = [st EXCEPT ![t] = AfterPut(t)]
           ELSE /\ mobj' = [mobj EXCEPT ![o].release_frees = TRUE]
                /\ GoTo(t, "broadcast")
                /\ UNCHANGED protected
        /\ UNCHANGED <<Locks, calls>>

\* Threads after condvar_broadcast(&shm_cv), and thread t in state s
Woken == [u \in Threads |-> IF At(u, "asleep") THEN [st[u] EXCEPT !.pc = "relock"]
                                                ELSE st[u]]

\* MUTANT: a waiter is woken only when there are several.
broadcast_many(t) ==
    /\ At(t, "broadcast")
    /\ shm_mu = NULL
    /\ st' = [(IF shm_release_waiters > 1 THEN Woken ELSE st)
                 EXCEPT ![t] = AfterPut(t)]
    /\ UNCHANGED <<mobj, protected, Locks, calls>>

\* The section under shm_mu of the two free functions
free_broadcast(t) ==
    /\ At(t, "broadcast")
    /\ shm_mu = NULL
    /\ st' = [(IF shm_release_waiters > 0 THEN Woken ELSE st)
                 EXCEPT ![t] = AfterPut(t)]
    /\ UNCHANGED <<mobj, protected, Locks, calls>>

----------------------------------------------------------------------------
(* Releasing by cookie: unregister_shm and reclaim_protmem.                *)

\* MUTANT: a second release of the same cookie is not refused.
release_any(t) ==
    /\ Call(t)
    /\ \E c \in Cookies, k \in {"shm", "protmem"} :
          \E o \in {m \in Live(k) : mobj[m].cookie = c} :
             /\ ~mobj[o].guarded
             /\ mobj' = [mobj EXCEPT ![o].releasing = TRUE]
             /\ Go(t, "put", "release", o)
    /\ UNCHANGED <<protected, Locks>>

release_by_cookie(t) ==
    /\ Call(t)
    /\ \E c \in Cookies, k \in {"shm", "protmem"} :
          \E o \in {m \in Live(k) : mobj[m].cookie = c} :
             /\ ~mobj[o].guarded /\ ~mobj[o].releasing
             /\ mobj' = [mobj EXCEPT ![o].releasing = TRUE]
             /\ Go(t, "put", "release", o)
    /\ UNCHANGED <<protected, Locks>>

\* mutex_lock(&shm_mu), shm_release_waiters++
release_lock(t) ==
    /\ At(t, "wait")
    /\ shm_mu = NULL
    /\ shm_mu' = t
    /\ shm_release_waiters' = shm_release_waiters + 1
    /\ GoTo(t, "check")
    /\ UNCHANGED <<mobj, protected, calls>>

\* The section under reg_shm_slist_lock in the loop
release_check(t) ==
    LET o == st[t].o
    IN  /\ At(t, "check")
        /\ IF mobj[o].release_frees
           THEN free_helper(o) /\ GoTo(t, "leave")
           ELSE GoTo(t, "sleep") /\ UNCHANGED <<mobj, protected>>
        /\ UNCHANGED <<Locks, calls>>

\* condvar_wait(&shm_cv, &shm_mu): sleep and unlock, then lock again
release_wait(t) ==
    /\ At(t, "sleep")
    /\ shm_mu' = NULL
    /\ GoTo(t, "asleep")
    /\ UNCHANGED <<mobj, protected, shm_release_waiters, calls>>

release_relock(t) ==
    /\ At(t, "relock")
    /\ shm_mu = NULL
    /\ shm_mu' = t
    /\ GoTo(t, "check")
    /\ UNCHANGED <<mobj, protected, shm_release_waiters, calls>>

release_leave(t) ==
    /\ At(t, "leave")
    /\ shm_mu' = NULL
    /\ shm_release_waiters' = shm_release_waiters - 1
    /\ st' = [st EXCEPT ![t] = Idle]
    /\ UNCHANGED <<mobj, protected, calls>>

----------------------------------------------------------------------------

\* The steps of a thread inside the memory object functions
Step(t) ==
    \/ mobj_reg_shm_unguard(t) \/ inc_map(t) \/ inc_map_locked(t)
    \/ dec_map(t) \/ dec_map_locked(t) \/ mobj_put(t) \/ mobj_free(t)
    \/ free_broadcast(t) \/ release_lock(t) \/ release_check(t)
    \/ release_wait(t) \/ release_relock(t) \/ release_leave(t)

\* Requests of normal world, and the end of the call that uses an object
Request(t) ==
    \/ register_shm(t) \/ TemporaryShm(t) \/ mobj_protmem_alloc(t)
    \/ mobj_reg_shm_get_by_cookie(t) \/ mobj_protmem_get_by_pa(t)
    \/ release_by_cookie(t) \/ EndUse(t)

ShmNext == \E t \in Threads : Step(t) \/ Request(t)

ShmSpec == ShmInit /\ [][ShmNext]_ShmVars

\* A thread that is inside the functions is scheduled again; normal world
\* need not make requests, and a call need not return.
ShmFairness == \A t \in Threads : WF_ShmVars(Step(t))
ShmFairSpec == ShmSpec /\ ShmFairness

----------------------------------------------------------------------------
(* Correctness.                                                            *)

\* Type invariant.
ShmTypeOK ==
    /\ mobj \in [Mobjs -> MobjType \cup {NULL}]
    /\ protected \subseteq Pages
    /\ shm_mu \in Threads \cup {NULL}
    /\ shm_release_waiters \in Nat
    /\ st \in [Threads -> [pc : PCs, job : Jobs, o : Mobjs \cup {NULL}]]
    /\ calls \in 0 .. MaxCalls

\* Points at which a thread has a reference of its own
Holding == {"unguard", "map", "maplock", "using", "unmap", "unmaplock", "put"}
Holders(o) == {t \in Threads : st[t].o = o /\ st[t].pc \in Holding}
Mappers(o) == {t \in Threads : st[t].o = o /\
                   \/ st[t].pc = "using" /\ st[t].job \in {"regd", "arg"}
                   \/ st[t].pc = "unmap"}
Released(o) == {t \in Threads : st[t].o = o /\ st[t].job = "release"}

\* An object has as many references as it has users, plus the one of its
\* registration until a release takes it over: no interleaving of lookups,
\* calls and releases loses a reference or gives one back twice
\* (mobj_reg_shm_get_by_cookie, mobj_reg_shm_release_by_cookie, mobj_put).
RefsExact ==
    \A o \in Allocated :
        mobj[o].refc = Cardinality(Holders(o))
                       + (IF mobj[o].guarded \/ mobj[o].releasing THEN 0 ELSE 1)

\* No thread that goes on to use its object finds the cell freed or reused,
\* and at most one thread is about to free it: the object of a release stays
\* until that release frees it (mobj_reg_shm_free, release_by_cookie).  Who
\* uses the mapping finds it, whatever threads map and unmap the object at the
\* same time (inc_map and dec_map decide outside the lock).
NoUseAfterFree ==
    /\ \A t \in Threads :
        /\ st[t].pc \in Holding \cup {"free", "wait", "check", "sleep",
                                     "asleep", "relock"} => st[t].o \in Allocated
        /\ At(t, "free") =>
              /\ mobj[st[t].o].refc = 0
              /\ \A u \in Threads \ {t} :
                    st[u].o = st[t].o => st[u].pc \in
                       {"broadcast", "wait", "check", "sleep", "asleep",
                        "relock", "leave", "panic"}
    /\ \A o \in Mobjs : Mappers(o) # {} => mobj[o] # NULL /\ mobj[o].mm

\* Memory that normal world shares is never protected: as long as an object
\* for a page exists, mapped or not, the page is open to normal world
\* (check_protmem_conflict, check_reg_shm_list_conflict).
SharedIsNotProtected == \A o \in Live("shm") : mobj[o].page \notin protected

\* Looking an object up panics only for a temporary object that its call
\* gives back at the same moment, never for a registered or lent one
\* (mobj_get in mobj_reg_shm_get_by_cookie and mobj_protmem_get_by_pa).
PanicOnlyOnTemporary ==
    [][\A t \in Threads : ~At(t, "panic") /\ At(t, "panic")' =>
          mobj[st'[t].o].guarded]_ShmVars

\* Once the last user has given its reference back, a release returns: its
\* wakeup is not lost between the check of release_frees and the wait
\* (mobj_reg_shm_release_by_cookie).
ReleaseReturns ==
    \A t \in Threads :
        At(t, "asleep") /\ mobj[st[t].o].refc = 0 ~> At(t, "idle")

=============================================================================
