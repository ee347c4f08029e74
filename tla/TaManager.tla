----------------------------- MODULE TaManager ------------------------------
(***************************************************************************)
(* Sessions and contexts of trusted applications:                          *)
(* core/kernel/tee_ta_manager.c, with the loading and the release of a     *)
(* context from core/kernel/user_ta.c.  The callers are normal world       *)
(* (core/tee/entry_std.c) and trusted applications that are clients of     *)
(* others (core/tee/tee_svc.c).                                            *)
(*                                                                         *)
(* A step is one section under tee_ta_mutex, with what the thread does by  *)
(* itself before and after, or a stay in a TA.  Mutex.tla is about the     *)
(* mutex and the condition variables themselves; here a condition variable *)
(* is the threads that wait for it, in the order of their arrival.         *)
(*                                                                         *)
(* A client uses its session ids concurrently if it likes: an id may be    *)
(* invoked, cancelled and closed at the same time, and normal world may    *)
(* name a session that is still being opened, whose id it was not given.   *)
(* When that session then fails to open, it is freed under those who name  *)
(* it: what follows is undefined, and the model stops there.               *)
(***************************************************************************)
EXTENDS Integers, Sequences, FiniteSets, SequencesExt

CONSTANTS
    Threads,
    Ctxs,       \* memory for struct tee_ta_ctx
    Setups,     \* the trusted applications, with what is asked of them and
                \* what may go wrong
    MaxId,      \* session ids are 1..MaxId: stands for UINT32_MAX
    MaxTa,      \* a bound: the sessions a TA has open at a time
    NW,         \* normal world
    NULL

\* flags has the TA_FLAG_* of each TA, where "PTA" marks a pseudo TA and
\* "STATS" the one that calls tee_ta_instance_stats(); clients tells whom a TA
\* opens sessions to; requests is what clients ask for, besides opening; early
\* tells whether they also name sessions whose ids they were not given yet;
\* maxrec is CFG_CORE_MAX_SYSCALL_RECURSION.
SetupOK(s) ==
    LET uuids == DOMAIN s.flags
    IN  /\ s.flags \in [uuids -> SUBSET {"SI", "MS", "KA", "KC", "CC", "PTA", "STATS"}]
        /\ \A u \in uuids :
              /\ "PTA" \in s.flags[u] => {"SI", "MS", "KA"} \subseteq s.flags[u]
              /\ "CC" \in s.flags[u] => "PTA" \in s.flags[u]
        /\ s.clients \in [uuids -> SUBSET uuids]
        /\ s.faults \subseteq {"load", "memory", "params", "panic", "spurious"}
        /\ s.requests \subseteq {"invoke", "close", "cancel"}
        /\ s.early \in BOOLEAN
        /\ s.maxrec \in Nat \ {0}

Ids == 1..MaxId
Lists == {NW} \cup Ctxs
Keys == Lists \X Ids    \* a session: the list it is on, and its id

\* struct tee_ta_ctx and struct tee_ta_session
CtxType == [uuid : UNION {DOMAIN s.flags : s \in Setups}, ref : Nat, busy : BOOLEAN,
            init : BOOLEAN, panicked : BOOLEAN, releasing : BOOLEAN]
SessType == [ctx : Ctxs \cup {NULL}, ref : Nat, lock : Threads \cup {NULL},
             unlink : BOOLEAN, cancel : BOOLEAN, given : BOOLEAN]

ASSUME TaManagerAssumption ==
    /\ IsFiniteSet(Threads) /\ IsFiniteSet(Ctxs)
    /\ MaxId \in Nat \ {0} /\ MaxTa \in Nat
    /\ \A s \in Setups : SetupOK(s)
    /\ NULL \notin Threads \cup Ctxs /\ NW \notin Ctxs
    /\ NULL \notin CtxType /\ NULL \notin SessType

VARIABLES
    setup,          \* the one of the Setups this is about
    ctx,            \* struct tee_ta_ctx, NULL when freed
    tee_ctxes,      \* the list of contexts
    sess,           \* struct tee_ta_session, NULL when freed
    open_sessions,  \* the list of sessions of each client
    si_thread,      \* tee_ta_single_instance_thread
    si_count,       \* tee_ta_single_instance_count
    waitq,          \* of each condvar the threads that wait for it
    stack,          \* the calls each thread is in, the innermost first
    halted          \* panic() was called

vars == <<setup, ctx, tee_ctxes, sess, open_sessions, si_thread, si_count,
          waitq, stack, halted>>
siVars == <<si_thread, si_count>>
listVars == <<tee_ctxes, open_sessions>>

Flags == setup.flags
Uuids == DOMAIN Flags
Clients == setup.clients
Faults == setup.faults
Requests == setup.requests
Early == setup.early
MaxRec == setup.maxrec

Has(c, flag) == flag \in Flags[ctx[c].uuid]
Keep(c) == Has(c, "SI") /\ Has(c, "KA")
KeepCrashed(c) == Keep(c) /\ Has(c, "KC")

-----------------------------------------------------------------------------
(* Condition variables *)

tee_ta_cv == <<"si", NULL>>
tee_ta_init_cv == <<"init", NULL>>
busy_cv(c) == <<"busy", c>>
lock_cv(k) == <<"lock", k>>
refc_cv(k) == <<"refc", k>>

CondVars == {tee_ta_cv, tee_ta_init_cv} \cup {busy_cv(c) : c \in Ctxs}
            \cup {lock_cv(k) : k \in Keys} \cup {refc_cv(k) : k \in Keys}

WaitsFor(t, cv) == Contains(waitq[cv], t)
Waiting(t) == \E cv \in CondVars : WaitsFor(t, cv)

Wait(t, cv) == waitq' = [waitq EXCEPT ![cv] = Append(@, t)]

\* condvar_signal(): of the threads that wait, q, the first one goes on.
Signal(q, cv) == IF q[cv] = <<>> THEN q ELSE [q EXCEPT ![cv] = Tail(@)]

\* MUTANT of Broadcast: only one thread is woken.
Broadcast_One(q, cv) == Signal(q, cv)

\* condvar_broadcast()
Broadcast(q, cv) == [q EXCEPT ![cv] = <<>>]

-----------------------------------------------------------------------------
(* Calls *)

\* A call of a thread.  It has the context busy while busy is TRUE; ok tells
\* whether the TA was entered and returned no error, and before that whether the
\* call has yet to come to tee_ta_try_set_busy().
Frame(op, k, u, c, l) ==
    [op |-> op, key |-> k, uuid |-> u, ctx |-> c, pc |-> l, busy |-> FALSE,
     ok |-> TRUE, todo |-> <<>>]

Top(t) == Head(stack[t])
At(t, l) == stack[t] # <<>> /\ Top(t).pc = l /\ ~Waiting(t)
Goto(t, l) == stack' = [stack EXCEPT ![t][1].pc = l]
Push(t, f) == stack' = [stack EXCEPT ![t] = <<f>> \o @]
Return(t) == stack' = [stack EXCEPT ![t] = Tail(@)]
ReturnTo(t, f) == stack' = [stack EXCEPT ![t] = <<f>> \o Tail(Tail(@))]

\* Where a call may come from: normal world, or a user TA that is running.
InUserTa(t) == At(t, "inTA") /\ ~Has(Top(t).ctx, "PTA")
Client(t) == IF stack[t] = <<>> THEN NW ELSE Top(t).ctx
MayCall(t) == stack[t] = <<>> \/ InUserTa(t)

\* user_ta_enter() calls under way: thread_specific_data.syscall_recursion.
Recursion(t) ==
    Cardinality({i \in 1..Len(stack[t]) :
                    stack[t][i].pc = "inTA" /\ ~Has(stack[t][i].ctx, "PTA")})

Init ==
    /\ setup \in Setups
    /\ ctx = [c \in Ctxs |-> NULL]
    /\ tee_ctxes = <<>>
    /\ sess = [k \in Keys |-> NULL]
    /\ open_sessions = [l \in Lists |-> <<>>]
    /\ si_thread = NULL
    /\ si_count = 0
    /\ waitq = [cv \in CondVars |-> <<>>]
    /\ stack = [t \in Threads |-> <<>>]
    /\ halted = FALSE

-----------------------------------------------------------------------------
(* Opening a session *)

\* new_session_id(): the one after the last of list q that is not in use, 0
\* when there is none.
new_session_id(q) ==
    LET start == IF q = <<>> \/ Last(q) = MaxId THEN 1 ELSE Last(q) + 1
        nth(i) == ((start - 1 + i) % MaxId) + 1
        free == {i \in 0..(MaxId - 1) : ~Contains(q, nth(i))}
    IN  IF free = {} THEN 0 ELSE nth(Min(free))

\* MUTANT of NewSession: the thread that opens it has no reference.
NewSession_NoRef(t) == [ctx |-> NULL, ref |-> 0, lock |-> t, unlink |-> FALSE,
                        cancel |-> FALSE, given |-> FALSE]

NewSession(t) == [ctx |-> NULL, ref |-> 1, lock |-> t, unlink |-> FALSE,
                  cancel |-> FALSE, given |-> FALSE]

NewCtx(u) == [uuid |-> u, ref |-> 1, busy |-> FALSE,
              init |-> "PTA" \notin Flags[u], panicked |-> FALSE,
              releasing |-> FALSE]

\* MUTANT of tee_ta_context_find: a context that is being loaded is not seen.
tee_ta_context_find_Ready(u) ==
    {c \in Range(tee_ctxes) : ctx[c].uuid = u /\ ~ctx[c].init}

\* tee_ta_context_find()
tee_ta_context_find(u) ==
    LET is == {i \in 1..Len(tee_ctxes) : ctx[tee_ctxes[i]].uuid = u}
    IN  {tee_ctxes[i] : i \in {j \in is : \A n \in is : j <= n}}

\* No other session to a context that is not multi-session.
Full(c) == ~Has(c, "MS") /\ ctx[c].ref # 0

\* The rest of the stack below the call, and f in the place of the call.
Become(t, rest, f) == stack' = [stack EXCEPT ![t] = <<f>> \o rest]

\* tee_ta_init_session_with_context(), and when it finds no context to share
\* tee_ta_init_pseudo_ta_session() or tee_ta_init_user_ta_session().  k is the
\* session, which s0 has.
tee_ta_init_session_with_context(t, k, u, s0, rest) ==
    LET found == tee_ta_context_find(u)
        share == {c \in found : ~ctx[c].init /\ Has(c, "SI")}
        unused == {c \in Ctxs : ctx[c] = NULL}
        Call(c, l) == Become(t, rest, Frame("open", k, u, c, l))
    IN  \/ \* Wait until the context is initialized, then search again.
           /\ \E c \in found : ctx[c].init
           /\ Wait(t, tee_ta_init_cv)
           /\ sess' = s0
           /\ Call(NULL, "lookup")
           /\ UNCHANGED <<ctx, tee_ctxes>>
        \/ \E c \in share :
              \/ \* TEE_ERROR_BUSY
                 /\ Full(c)
                 /\ sess' = s0
                 /\ Call(NULL, "initfail")
                 /\ UNCHANGED <<ctx, tee_ctxes, waitq>>
              \/ /\ ~Full(c)
                 /\ ctx' = [ctx EXCEPT ![c].ref = @ + 1]
                 /\ sess' = [s0 EXCEPT ![k].ctx = c]
                 /\ Call(c, "enter")
                 /\ UNCHANGED <<tee_ctxes, waitq>>
        \/ /\ share = {} /\ \A c \in found : ~ctx[c].init
           /\ \/ \E c \in unused :
                    /\ ctx' = [ctx EXCEPT ![c] = NewCtx(u)]
                    /\ tee_ctxes' = Append(tee_ctxes, c)
                    /\ sess' = [s0 EXCEPT ![k].ctx = c]
                    /\ Call(c, IF "PTA" \in Flags[u] THEN "enter" ELSE "load")
              \/ /\ "memory" \in Faults \/ unused = {}
                 /\ sess' = s0
                 /\ Call(NULL, "initfail")
                 /\ UNCHANGED <<ctx, tee_ctxes>>
           /\ UNCHANGED waitq

\* tee_ta_init_session(), its first section.  When there is no id left the
\* call fails and nothing has changed.
tee_ta_init_session(t, u) ==
    /\ MayCall(t)
    /\ stack[t] # <<>> => /\ u \in Clients[ctx[Top(t).ctx].uuid]
                         /\ Len(open_sessions[Top(t).ctx]) < MaxTa
    /\ LET l == Client(t)
           id == new_session_id(open_sessions[l])
       IN  /\ id # 0
           /\ open_sessions' = [open_sessions EXCEPT ![l] = Append(@, id)]
           /\ tee_ta_init_session_with_context(t, <<l, id>>, u,
                 [sess EXCEPT ![<<l, id>>] = NewSession(t)], stack[t])
    /\ UNCHANGED <<siVars, halted>>

\* The loop goes round after the wait.
SearchAgain(t) ==
    /\ At(t, "lookup")
    /\ tee_ta_init_session_with_context(t, Top(t).key, Top(t).uuid, sess,
                                        Tail(stack[t]))
    /\ UNCHANGED <<open_sessions, siVars, halted>>

\* tee_ta_complete_user_ta_session(): ldelf has loaded the TA, or has failed.
tee_ta_complete_user_ta_session(t) ==
    /\ At(t, "load")
    /\ LET c == Top(t).ctx
       IN  \/ /\ ctx' = [ctx EXCEPT ![c].init = FALSE]
              /\ Goto(t, "enter")
              /\ UNCHANGED <<tee_ctxes, sess, halted>>
           \/ /\ "load" \in Faults
              /\ ctx' = [ctx EXCEPT ![c] = NULL]
              /\ tee_ctxes' = RemoveFirst(tee_ctxes, c)
              /\ sess' = [sess EXCEPT ![Top(t).key].ctx = NULL]
              /\ halted' = \E u \in Threads : WaitsFor(u, busy_cv(c))
              /\ stack' = [stack EXCEPT ![t][1].pc = "initfail", ![t][1].ctx = NULL]
    /\ waitq' = Broadcast(waitq, tee_ta_init_cv)
    /\ UNCHANGED <<open_sessions, siVars>>

\* tee_ta_init_session(), its last section: the session is not to be.
InitFail(t) ==
    /\ At(t, "initfail")
    /\ LET k == Top(t).key
       IN  /\ open_sessions' = [open_sessions EXCEPT ![k[1]] = RemoveFirst(@, k[2])]
           /\ sess' = [sess EXCEPT ![k] = NULL]
    /\ Return(t)
    /\ UNCHANGED <<ctx, tee_ctxes, siVars, waitq, halted>>

-----------------------------------------------------------------------------
(* References to a session *)

\* MUTANT of dec_session_ref_count: the signal comes one reference too late.
dec_session_ref_count_Late(q, k) ==
    IF sess[k].ref = 1 THEN Signal(q, refc_cv(k)) ELSE q

\* dec_session_ref_count(): the condvars after the count of k has gone down.
dec_session_ref_count(q, k) ==
    IF sess[k].ref = 2 THEN Signal(q, refc_cv(k)) ELSE q

\* tee_ta_get_session() by a call op of thread t that will have pending f.  A
\* session that is not there, or about to be unlinked, is no session: the
\* call fails and nothing has changed.
tee_ta_get_session(t, k, exclusive, f) ==
    /\ sess[k] # NULL
    /\ ~sess[k].unlink
    /\ \/ /\ exclusive /\ sess[k].lock # NULL
          /\ sess' = [sess EXCEPT ![k].ref = @ + 1]
          /\ Wait(t, lock_cv(k))
          /\ Push(t, [f EXCEPT !.pc = "locking"])
       \/ /\ exclusive /\ sess[k].lock = NULL
          /\ sess' = [sess EXCEPT ![k].ref = @ + 1, ![k].lock = t]
          /\ Push(t, [f EXCEPT !.ctx = sess[k].ctx])
          /\ UNCHANGED waitq
       \/ /\ ~exclusive
          /\ sess' = [sess EXCEPT ![k].ref = @ + 1]
          /\ Push(t, f)
          /\ UNCHANGED waitq
    /\ UNCHANGED <<ctx, listVars, siVars, halted>>

\* tee_ta_get_session() after a wait for the lock.
GetLock(t) ==
    /\ At(t, "locking")
    /\ LET k == Top(t).key
       IN  \/ /\ sess[k].unlink
              /\ sess' = [sess EXCEPT ![k].ref = @ - 1]
              /\ waitq' = dec_session_ref_count(waitq, k)
              /\ IF Top(t).op = "dump"
                 THEN ReturnTo(t, [stack[t][2] EXCEPT !.todo[1] = Tail(@)])
                 ELSE Return(t)
           \/ /\ ~sess[k].unlink /\ sess[k].lock # NULL
              /\ Wait(t, lock_cv(k))
              /\ UNCHANGED <<sess, stack>>
           \/ /\ ~sess[k].unlink /\ sess[k].lock = NULL
              /\ sess' = [sess EXCEPT ![k].lock = t]
              /\ stack' = [stack EXCEPT ![t][1].pc = "enter",
                                        ![t][1].ctx = sess[k].ctx]
              /\ UNCHANGED waitq
    /\ UNCHANGED <<ctx, listVars, siVars, halted>>

\* tee_ta_put_session().  The id of a session that was opened goes to its
\* client.  A cancellation is marked just before.
tee_ta_put_session(t) ==
    /\ At(t, "put")
    /\ LET f == Top(t)
           k == f.key
           mine == sess[k].lock = t
       IN  /\ sess' = [sess EXCEPT
                 ![k].lock = IF mine THEN NULL ELSE @,
                 ![k].ref = @ - 1,
                 ![k].cancel = @ \/ f.op = "cancel",
                 ![k].given = @ \/ f.op = "open"]
           /\ waitq' = dec_session_ref_count(
                          IF mine THEN Signal(waitq, lock_cv(k)) ELSE waitq, k)
           /\ IF f.op = "dump"
              THEN ReturnTo(t, [stack[t][2] EXCEPT !.todo = Tail(@)])
              ELSE Return(t)
    /\ UNCHANGED <<ctx, listVars, siVars, halted>>

-----------------------------------------------------------------------------
(* Entering and leaving a context *)

\* MUTANT of CanLock: nobody waits for the single-instance lock.
CanLock_Always(t) == TRUE

\* lock_single_instance() does not wait.
CanLock(t) == si_thread \in {t, NULL}

\* MUTANT of has_single_instance_lock: as in the build without that lock.
has_single_instance_lock_No(t, c) == FALSE

\* has_single_instance_lock(), after lock_single_instance() for context c.
has_single_instance_lock(t, c) ==
    si_thread = t \/ (Has(c, "SI") /\ si_thread = NULL)

\* MUTANT of unlock_single_instance: nobody is told.
unlock_single_instance_Silent(q) == q

\* unlock_single_instance(): the condvars afterwards.
unlock_single_instance(q) == IF si_count <= 1 THEN Signal(q, tee_ta_cv) ELSE q

\* MUTANT of LastUnlock: the lock does not count.
LastUnlock_Any(c) == Has(c, "SI")

\* unlock_single_instance() for context c gives the lock away.
LastUnlock(c) == Has(c, "SI") /\ si_count = 1

\* inc_recursion() fails.
TooDeep(t, c) == ~Has(c, "PTA") /\ Recursion(t) >= MaxRec

\* After tee_ta_try_set_busy() is TRUE: where the call f goes on, depending on
\* whether the TA is dead, or user_ta_enter() refuses to recurse any deeper.
Entered(t, f) ==
    LET c == f.ctx
        l == IF ~ctx[c].panicked /\ ~TooDeep(t, c) THEN "inTA"
             ELSE IF f.op = "close" THEN "unlink"
             ELSE IF ctx[c].panicked /\ ~KeepCrashed(c) THEN "panicked"
             ELSE "clear"
    IN  [f EXCEPT !.busy = TRUE, !.pc = l, !.ok = (l = "inTA")]

\* After tee_ta_try_set_busy() is FALSE: the session cannot be opened, or it is
\* closed without a visit to the TA, or its statistics are not available.
Refused(f) ==
    CASE f.op = "open"  -> [f EXCEPT !.op = "close"]
      [] f.op = "close" -> [f EXCEPT !.pc = "unlink"]
      [] f.op = "dump"  -> [f EXCEPT !.pc = "put"]
      [] OTHER          -> f

\* tee_ta_try_set_busy(), when it waits.
SetBusyWait(t) ==
    /\ At(t, "enter")
    /\ LET c == Top(t).ctx
       IN  /\ ~Has(c, "CC")
           /\ IF Has(c, "SI") /\ ~CanLock(t)
              THEN Wait(t, tee_ta_cv)
              ELSE /\ ctx[c].busy /\ ~has_single_instance_lock(t, c)
                   /\ Wait(t, busy_cv(c))
    /\ stack' = [stack EXCEPT ![t][1].ok = FALSE]
    /\ UNCHANGED <<ctx, listVars, sess, siVars, halted>>

\* when the context becomes busy,
SetBusy(t) ==
    /\ At(t, "enter")
    /\ LET f == Top(t)
           c == f.ctx
       IN  /\ \/ Has(c, "CC") /\ UNCHANGED <<ctx, siVars>>
              \/ /\ ~Has(c, "CC") /\ ~ctx[c].busy
                 /\ ctx' = [ctx EXCEPT ![c].busy = TRUE]
                 /\ \/ /\ Has(c, "SI") /\ CanLock(t)
                       /\ si_thread' = t
                       /\ si_count' = si_count + 1
                    \/ ~Has(c, "SI") /\ UNCHANGED siVars
           /\ stack' = [stack EXCEPT ![t][1] = Entered(t, f)]
           /\ sess' = IF TooDeep(t, c) /\ ~ctx[c].panicked
                      THEN [sess EXCEPT ![f.key].cancel = FALSE] ELSE sess
    /\ UNCHANGED <<listVars, waitq, halted>>

\* MUTANT of Fatal: tee_ta_open_session() calls tee_ta_set_busy() as well.
Fatal_Open(op) == op \in {"invoke", "open"}

\* Who calls tee_ta_set_busy(), which panics, and not tee_ta_try_set_busy().
Fatal(op) == op = "invoke"

\* and when to wait would be a deadlock.  The single-instance lock is released
\* again if it was taken.
SetBusyRefused(t) ==
    /\ At(t, "enter")
    /\ LET f == Top(t)
           c == f.ctx
       IN  /\ ~Has(c, "CC") /\ ctx[c].busy
           /\ has_single_instance_lock(t, c)
           /\ waitq' = IF si_thread = NULL THEN unlock_single_instance(waitq)
                       ELSE waitq
           /\ stack' = [stack EXCEPT ![t][1] = Refused(f)]
           /\ halted' = Fatal(f.op)
    /\ UNCHANGED <<ctx, listVars, sess, siVars>>

\* check_params() or the copying of parameters fails: a session that was being
\* opened is closed, one that was to be invoked is put.
BadParameters(t) ==
    /\ "params" \in Faults
    /\ At(t, "enter") /\ Top(t).ok
    /\ \/ /\ Top(t).op = "open"
          /\ stack' = [stack EXCEPT ![t][1].op = "close"]
       \/ /\ Top(t).op = "invoke"
          /\ Goto(t, "put")
    /\ UNCHANGED <<ctx, listVars, sess, siVars, waitq, halted>>

\* The TA returns, with an error perhaps, or panics: the end of user_ta_enter()
\* and what its callers make of it.
user_ta_enter(t) ==
    /\ At(t, "inTA")
    /\ LET f == Top(t)
           c == f.ctx
           Leave(ok, panics) ==
              /\ ctx' = [ctx EXCEPT ![c].panicked = panics]
              /\ sess' = [sess EXCEPT ![f.key].cancel = @ /\ Has(c, "PTA")]
              /\ stack' = [stack EXCEPT
                    ![t][1].ok = ok,
                    ![t][1].pc = IF f.op = "close" THEN "unlink"
                                 ELSE IF panics /\ ~KeepCrashed(c) THEN "panicked"
                                 ELSE "clear"]
       IN  \/ Leave(TRUE, FALSE)
           \/ f.op = "open" /\ Leave(FALSE, FALSE)
           \/ "panic" \in Faults /\ ~Has(c, "PTA") /\ Leave(FALSE, TRUE)
    /\ UNCHANGED <<listVars, siVars, waitq, halted>>

\* maybe_release_ta_ctx(): the first thread to see that the TA has panicked
\* takes its context off the list, so that the TA can be loaded again, and
\* releases its state.
maybe_release_ta_ctx(t) ==
    /\ At(t, "panicked")
    /\ LET c == Top(t).ctx
       IN  /\ ctx' = [ctx EXCEPT ![c].releasing = TRUE]
           /\ \/ /\ ~ctx[c].releasing
                 /\ tee_ctxes' = RemoveFirst(tee_ctxes, c)
                 /\ Goto(t, "release")
              \/ /\ ctx[c].releasing
                 /\ Goto(t, "clear")
                 /\ UNCHANGED tee_ctxes
    /\ UNCHANGED <<sess, open_sessions, siVars, waitq, halted>>

\* tee_ta_clear_busy(), and where the call goes on.
tee_ta_clear_busy(t) ==
    /\ At(t, "clear")
    /\ LET f == Top(t)
           c == f.ctx
           q == Signal(waitq, busy_cv(c))
       IN  /\ \/ Has(c, "CC") /\ UNCHANGED <<ctx, siVars, waitq>>
              \/ /\ ~Has(c, "CC")
                 /\ ctx' = [ctx EXCEPT ![c].busy = FALSE]
                 /\ si_count' = IF Has(c, "SI") THEN si_count - 1 ELSE si_count
                 /\ si_thread' = IF LastUnlock(c) THEN NULL ELSE si_thread
                 /\ waitq' = IF Has(c, "SI") THEN unlock_single_instance(q) ELSE q
           /\ stack' = [stack EXCEPT ![t][1] =
                 [f EXCEPT !.busy = FALSE,
                           !.op = IF f.op = "open" /\ ~f.ok THEN "close" ELSE @,
                           !.pc = IF f.op = "close" THEN "drop"
                                  ELSE IF f.op = "open" /\ ~f.ok THEN "enter"
                                  ELSE "put"]]
    /\ UNCHANGED <<listVars, sess, halted>>

-----------------------------------------------------------------------------
(* Closing a session *)

\* MUTANT of LastReference: one of the others is not waited for.
LastReference_AtMost2(k) == sess[k].ref <= 2

\* Nobody else refers to session k.
LastReference(k) == sess[k].ref = 1

\* tee_ta_unlink_session() and the rest of destroy_session(), once nobody else
\* refers to session k.
Unlinked(t, k) ==
    /\ open_sessions' = [open_sessions EXCEPT ![k[1]] = RemoveFirst(@, k[2])]
    /\ sess' = [sess EXCEPT ![k] = NULL]
    /\ Goto(t, IF Top(t).busy THEN "clear" ELSE "drop")

tee_ta_unlink_session(t) ==
    /\ At(t, "unlink")
    /\ LET k == Top(t).key
           q == Broadcast(waitq, lock_cv(k))
       IN  \/ /\ LastReference(k)
              /\ Unlinked(t, k)
              /\ waitq' = q
           \/ /\ ~LastReference(k)
              /\ sess' = [sess EXCEPT ![k].unlink = TRUE]
              /\ waitq' = [q EXCEPT ![refc_cv(k)] = Append(@, t)]
              /\ Goto(t, "unlinking")
              /\ UNCHANGED open_sessions
    /\ UNCHANGED <<ctx, tee_ctxes, siVars, halted>>

\* The loop goes round after the wait.
WaitForReferences(t) ==
    /\ At(t, "unlinking")
    /\ LET k == Top(t).key
       IN  \/ /\ LastReference(k)
              /\ Unlinked(t, k)
              /\ UNCHANGED waitq
           \/ /\ ~LastReference(k)
              /\ Wait(t, refc_cv(k))
              /\ UNCHANGED <<open_sessions, sess, stack>>
    /\ UNCHANGED <<ctx, tee_ctxes, siVars, halted>>

LastSession(c) == ctx[c].ref = 1

\* MUTANT of Kept: a crash makes no difference.
Kept_Crashed(c) == Keep(c)

\* The context outlives its sessions.
Kept(c) == IF ctx[c].panicked THEN KeepCrashed(c) ELSE Keep(c)

\* close_session(), its last section: the reference to the context is dropped,
\* and with the last one, unless it is kept, the context.
close_session(t) ==
    /\ At(t, "drop")
    /\ LET c == Top(t).ctx
       IN  \/ /\ LastSession(c) /\ ~Kept(c)
              /\ ctx' = [ctx EXCEPT ![c].ref = 0, ![c].releasing = TRUE]
              /\ tee_ctxes' = IF ctx[c].releasing THEN tee_ctxes
                              ELSE RemoveFirst(tee_ctxes, c)
              /\ Goto(t, "destroy")
           \/ /\ ~LastSession(c) \/ Kept(c)
              /\ ctx' = [ctx EXCEPT ![c].ref = @ - 1]
              /\ Return(t)
              /\ UNCHANGED tee_ctxes
    /\ UNCHANGED <<sess, open_sessions, siVars, waitq, halted>>

\* release_utc_state() closes the sessions the TA has opened, one by one,
CloseNext(t) ==
    /\ At(t, "release") \/ At(t, "destroy")
    /\ LET c == Top(t).ctx
       IN  /\ open_sessions[c] # <<>>
           /\ LET k == <<c, Head(open_sessions[c])>>
              IN  tee_ta_get_session(t, k, TRUE,
                                     Frame("close", k, NULL, NULL, "enter"))

\* and then maybe_release_ta_ctx() returns,
release_utc_state(t) ==
    /\ At(t, "release")
    /\ open_sessions[Top(t).ctx] = <<>>
    /\ Goto(t, "clear")
    /\ UNCHANGED <<ctx, listVars, sess, siVars, waitq, halted>>

\* or the context is freed.
destroy_context(t) ==
    /\ At(t, "destroy")
    /\ LET c == Top(t).ctx
       IN  /\ open_sessions[c] = <<>>
           /\ ctx' = [ctx EXCEPT ![c] = NULL]
           /\ halted' = \E u \in Threads : WaitsFor(u, busy_cv(c))
    /\ Return(t)
    /\ UNCHANGED <<listVars, sess, siVars, waitq>>

-----------------------------------------------------------------------------
(* Requests of clients for a session *)

\* entry_invoke_command(), entry_close_session(), entry_cancel(), and the
\* system calls for the first two: any session on the list of the client.
Request(t, op, k) ==
    /\ MayCall(t)
    /\ k[1] = Client(t)
    /\ sess[k] # NULL /\ (sess[k].given \/ Early)
    /\ op = "cancel" => k[1] = NW
    /\ tee_ta_get_session(t, k, op # "cancel",
          Frame(op, k, NULL, NULL, IF op = "cancel" THEN "put" ELSE "enter"))

\* A wait in normal world ends by itself.
SpuriousWakeup(t) ==
    /\ "spurious" \in Faults
    /\ Waiting(t)
    /\ waitq' = [cv \in CondVars |-> RemoveFirst(waitq[cv], t)]
    /\ UNCHANGED <<ctx, listVars, sess, siVars, stack, halted>>

-----------------------------------------------------------------------------
(* Statistics *)

\* init_dump_ctx(): for each user TA on the list, the ids of its sessions.
init_dump_ctx(t) ==
    /\ At(t, "inTA")
    /\ Top(t).op = "invoke" /\ Has(Top(t).ctx, "STATS")
    /\ LET users == SelectSeq(tee_ctxes, LAMBDA c : ~Has(c, "PTA"))
           Of(c) == SelectSeq(open_sessions[NW], LAMBDA id : sess[<<NW, id>>].ctx = c)
       IN  /\ users # <<>>
           /\ stack' = [stack EXCEPT ![t][1].todo = [i \in 1..Len(users) |-> Of(users[i])],
                                     ![t][1].pc = "dump"]
    /\ UNCHANGED <<ctx, listVars, sess, siVars, waitq, halted>>

\* dump_ta_stats(): of each TA the first session that is still there, for
\* dump_ta_memstats(); todo has the ids of this TA first.
dump_ta_stats(t) ==
    /\ At(t, "dump")
    /\ LET todo == Top(t).todo
           ids == Head(todo)
           k == <<NW, Head(ids)>>
           GoOn(x) == /\ stack' = [stack EXCEPT ![t][1] = x]
                       /\ UNCHANGED <<ctx, listVars, sess, siVars, waitq, halted>>
       IN  \/ todo = <<>> /\ GoOn([Top(t) EXCEPT !.pc = "inTA"])
           \/ todo # <<>> /\ ids = <<>> /\ GoOn([Top(t) EXCEPT !.todo = Tail(todo)])
           \/ /\ todo # <<>> /\ ids # <<>>
              /\ \/ tee_ta_get_session(t, k, TRUE, Frame("dump", k, NULL, NULL, "enter"))
                 \/ /\ sess[k] # NULL => sess[k].unlink
                    /\ GoOn([Top(t) EXCEPT !.todo[1] = Tail(ids)])

-----------------------------------------------------------------------------

\* All calls under way, as places on the stacks, counted from the outermost.
Calls == UNION {{t} \X (1..Len(stack[t])) : t \in Threads}
Call(p) == stack[p[1]][Len(stack[p[1]]) + 1 - p[2]]

\* The call refers to its session: until put, or until unlinked.
Refers(f) == f.pc \notin {"drop", "destroy"} /\ ~(f.op = "close" /\ f.pc = "clear")

\* A call refers to a session that was freed.
Loses(f) == Refers(f) /\ sess[f.key] = NULL
Dangling == \E p \in Calls : Loses(Call(p))

\* The core goes on: it has not panicked, and its memory is in order.
Running == ~halted /\ ~Dangling

\* What a thread in the core does next by itself.
Internal(t) ==
    \/ SearchAgain(t)
    \/ tee_ta_complete_user_ta_session(t)
    \/ InitFail(t)
    \/ GetLock(t)
    \/ tee_ta_put_session(t)
    \/ SetBusyWait(t)
    \/ SetBusy(t)
    \/ SetBusyRefused(t)
    \/ maybe_release_ta_ctx(t)
    \/ tee_ta_clear_busy(t)
    \/ tee_ta_unlink_session(t)
    \/ WaitForReferences(t)
    \/ close_session(t)
    \/ CloseNext(t)
    \/ release_utc_state(t)
    \/ destroy_context(t)
    \/ dump_ta_stats(t)

Next ==
    /\ Running
    /\ UNCHANGED setup
    /\ \E t \in Threads :
          \/ Internal(t)
          \/ BadParameters(t)
          \/ user_ta_enter(t)
          \/ SpuriousWakeup(t)
          \/ init_dump_ctx(t)
          \/ \E u \in Uuids : tee_ta_init_session(t, u)
          \/ \E op \in Requests, k \in Keys : Request(t, op, k)

Spec == Init /\ [][Next]_vars

\* Normal world schedules every thread.
FairSpec ==
    Spec /\ \A t \in Threads : WF_vars(Running /\ Internal(t) /\ UNCHANGED setup)

-----------------------------------------------------------------------------
(* Properties *)

\* The variables have the types of the C variables they stand for.
TypeOK ==
    /\ ctx \in [Ctxs -> CtxType \cup {NULL}]
    /\ \A c \in Ctxs : ctx[c] # NULL => ctx[c].uuid \in Uuids
    /\ sess \in [Keys -> SessType \cup {NULL}]
    /\ tee_ctxes \in Seq(Ctxs)
    /\ open_sessions \in [Lists -> Seq(Ids)]
    /\ si_thread \in Threads \cup {NULL} /\ si_count \in Nat
    /\ waitq \in [CondVars -> Seq(Threads)]
    /\ \A p \in Calls : Call(p).key \in Keys
    /\ halted \in BOOLEAN

\* No session is freed while a call refers to it, its reference count being the
\* number of these calls, but for one: a session that fails to open is freed
\* whoever has come to refer to it meanwhile (tee_ta_init_session).  That takes a
\* client that names it early or the statistics, which find it on the list; and
\* those who lose it have not locked it, so that nobody is in a TA, or about to
\* enter one, by a session that was freed.
SessionRefs ==
    /\ \A p \in Calls : Loses(Call(p)) =>
          /\ Early \/ \E u \in Uuids : "STATS" \in Flags[u]
          /\ Call(p).pc = "locking" \/ Call(p).op = "cancel"
    /\ ~Dangling => \A k \in Keys : sess[k] # NULL =>
          sess[k].ref = Cardinality({p \in Calls : Call(p).key = k /\ Refers(Call(p))})

\* No context is freed while a session or a call refers to it, and none stays
\* behind: its reference count is the number of its sessions and of the closing
\* calls that have not dropped theirs, and at zero it is kept alive or on its
\* way out.
ContextRefs ==
    /\ \A p \in Calls : Call(p).ctx # NULL => ctx[Call(p).ctx] # NULL
    /\ \A k \in Keys : sess[k] # NULL /\ sess[k].ctx # NULL => ctx[sess[k].ctx] # NULL
    /\ \A c \in Ctxs : ctx[c] # NULL =>
          LET closing == {p \in Calls : Call(p).ctx = c /\ ~Refers(Call(p))
                                        /\ Call(p).pc # "destroy"}
          IN  /\ ctx[c].ref = Cardinality({k \in Keys : sess[k] # NULL /\ sess[k].ctx = c})
                              + Cardinality(closing)
              /\ ctx[c].ref = 0 => \/ Keep(c) /\ Contains(tee_ctxes, c)
                                   \/ \E p \in Calls : /\ Call(p).ctx = c
                                                       /\ Call(p).pc = "destroy"

\* A TA that is not concurrent runs on one thread at a time, and the busy flag
\* and the single-instance lock tell which: the lock is held as many times as
\* its thread is in a single-instance TA, and nobody else is in one.
BusyExact ==
    LET entered == {p \in Calls : Call(p).busy /\ ~Has(Call(p).ctx, "CC")}
    IN  /\ \A p, q \in entered : Call(p).ctx = Call(q).ctx => p = q
        /\ \A c \in Ctxs : ctx[c] # NULL =>
              (ctx[c].busy <=> \E p \in entered : Call(p).ctx = c)
        /\ LET si == {p \in entered : Has(Call(p).ctx, "SI")}
           IN  /\ si_count = Cardinality(si)
               /\ \A p \in si : p[1] = si_thread
               /\ si_count = 0 <=> si_thread = NULL

\* A single-instance TA has one instance, not counting those in which it has
\* panicked and that are being released, however the threads that load it and
\* see it panic interleave; and without multi-session it has one session.
OneInstance ==
    /\ \A i, j \in 1..Len(tee_ctxes) :
          /\ Has(tee_ctxes[i], "SI")
          /\ ctx[tee_ctxes[i]].uuid = ctx[tee_ctxes[j]].uuid
          => i = j
    /\ \A c \in Ctxs : ctx[c] # NULL /\ Has(c, "SI") /\ ~Has(c, "MS") => ctx[c].ref <= 1

\* The core panics only for a thread that invokes a TA it is in already.
PanicOnlyOnReentry ==
    halted => \E p, q \in Calls : /\ p[1] = q[1] /\ p[2] = Len(stack[p[1]]) /\ q # p
                                  /\ Call(p).op = "invoke" /\ Call(p).pc = "enter"
                                  /\ Call(p).ctx = Call(q).ctx /\ Call(q).busy

\* The threads that t waits for: they hold what it needs, or are about to.
Awaited(t) ==
    LET k == Top(t).key
        c == Top(t).ctx
    IN  IF ~Waiting(t) THEN {}
        ELSE CASE WaitsFor(t, tee_ta_cv) -> {si_thread} \ {NULL}
               [] WaitsFor(t, tee_ta_init_cv) ->
                     {p[1] : p \in {q \in Calls : Call(q).pc = "load"
                                                  /\ Call(q).uuid = Top(t).uuid}}
               [] Top(t).pc = "locking" -> {sess[k].lock} \ {NULL}
               [] Top(t).pc = "unlinking" ->
                     {p[1] : p \in {q \in Calls : Call(q).key = k /\ Refers(Call(q))}} \ {t}
               [] OTHER -> {p[1] : p \in {q \in Calls : Call(q).busy /\ Call(q).ctx = c}}

\* Threads never wait for each other in a circle, nor for themselves.
NoDeadlock ==
    ~Dangling => \A T \in (SUBSET Threads) \ {{}} : \E t \in T : Awaited(t) \cap T = {}

\* The only wait that can close a circle is the one of dump_ta_stats() for the
\* lock of a session, made with the single-instance lock; calls between TAs,
\* panics and cancellations never do.
OnlyStatisticsDeadlock ==
    ~Dangling => \A T \in (SUBSET Threads) \ {{}} :
        \/ \E t \in T : Awaited(t) \cap T = {}
        \/ \E t \in T : Top(t).op = "dump" /\ Top(t).pc = "locking"

\* The counts and flags that decide when a session or context is freed and who
\* may enter it, all at once, while TAs call each other, panic, are looked at
\* by the statistics and cancelled.
CountsExact == SessionRefs /\ ContextRefs /\ BusyExact

\* What was signalled is taken: a free single-instance lock that is waited for.
LockIsTaken ==
    (si_thread = NULL /\ \E t \in Threads : WaitsFor(t, tee_ta_cv)) ~>
        (si_thread # NULL \/ ~Running)

\* A session that is unlinked is freed, whatever was under way on it.
UnlinkedIsFreed ==
    \A k \in Keys : (sess[k] # NULL /\ sess[k].unlink) ~> (sess[k] = NULL \/ ~Running)
=============================================================================
