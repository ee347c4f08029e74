------------------------------ MODULE StdCall ------------------------------
(***************************************************************************)
(* Yielding calls of normal world: the threads that run them, how they are *)
(* suspended and resumed (core/arch/arm/kernel/thread.c), the requests     *)
(* they make to normal world (thread_optee_smc.c) and the buffers of       *)
(* normal world they keep: the RPC argument, cached between calls or       *)
(* given with the call, and the payload of the cache of                    *)
(* core/kernel/thread.c.                                                   *)
(*                                                                         *)
(* A step is one section under the lock of the threads, or what a core     *)
(* does with its own thread up to the next one.  Normal world serves a     *)
(* request in the step that resumes its thread, and it may try to resume   *)
(* any thread at any time, on any core.                                    *)
(***************************************************************************)
EXTENDS Naturals, FiniteSets, FiniteSetsExt

CONSTANTS
    Cores,
    NumThreads,     \* CFG_NUM_THREADS
    Buffers,        \* Buffers of normal world
    MaxStdCalls,    \* Bound: yielding calls in a behaviour
    NoBuf

ASSUME StdCallAssumption ==
    /\ NumThreads \in Nat /\ MaxStdCalls \in Nat
    /\ NoBuf \notin Buffers \cup {"supplied"} /\ "supplied" \notin Buffers

VARIABLES
    threads,        \* threads[]
    core,           \* What each core does, and for which thread
    prealloc,       \* thread_prealloc_rpc_cache
    lent,           \* Buffers normal world has allocated for secure world
    stdcalls

StdVars == <<threads, core, prealloc, lent, stdcalls>>

Ids == 1 .. NumThreads
Commands == {"CMD", "SHM_ALLOC", "SHM_FREE"}
NormalWorld == [at |-> "ns", n |-> 0]
NoRequest == [cmd |-> "none", buf |-> NoBuf]

FreeThread == [state |-> "free", copy |-> FALSE, pc |-> "none", supplied |-> FALSE,
               rpc_arg |-> NoBuf, rpc_mobj |-> NoBuf, shm |-> NoBuf,
               req |-> NoRequest, cont |-> "none", regs |-> "own"]

StdInit ==
    /\ threads = [n \in Ids |-> FreeThread]
    /\ core = [c \in Cores |-> NormalWorld]
    /\ prealloc = FALSE
    /\ lent = {}
    /\ stdcalls = 0

\* Core c runs thread n, which is at a point of the call.
Runs(c, n, pc) == core[c] = [at |-> "run", n |-> n] /\ threads[n].pc = pc
Update(n, r) == threads' = [threads EXCEPT ![n] = r]

----------------------------------------------------------------------------
(* Starting, suspending and resuming threads.                              *)

\* alloc_thread up to the unlock; without a free thread the call is refused.
alloc_thread(c) ==
    LET free == {n \in Ids : threads[n].state = "free"}
    IN  /\ core[c] = NormalWorld /\ free # {} /\ stdcalls < MaxStdCalls
        /\ threads' = [threads EXCEPT ![Min(free)].state = "active"]
        /\ core' = [core EXCEPT ![c] = [at |-> "start", n |-> Min(free)]]
        /\ stdcalls' = stdcalls + 1
        /\ UNCHANGED <<prealloc, lent>>

\* The rest of thread_alloc_and_run: curr_thread, flags and registers
thread_alloc_and_run(c) ==
    /\ core[c].at = "start"
    /\ \E supplied \in BOOLEAN :
          threads' = [threads EXCEPT ![core[c].n].copy = FALSE, ![core[c].n].pc = "entry",
                                     ![core[c].n].supplied = supplied]
    /\ core' = [core EXCEPT ![c].at = "run"]
    /\ UNCHANGED <<prealloc, lent, stdcalls>>

\* thread_state_suspend
thread_state_suspend(c, n, r) ==
    /\ Update(n, [r EXCEPT !.state = "suspended"])
    /\ core' = [core EXCEPT ![c] = NormalWorld]

\* A request: thread_rpc suspends with THREAD_FLAGS_COPY_ARGS_ON_RETURN.
thread_rpc(c, n, r, cmd, buf, cont) ==
    thread_state_suspend(c, n, [r EXCEPT !.pc = "rpc", !.copy = TRUE, !.regs = "request",
                                         !.req = [cmd |-> cmd, buf |-> buf], !.cont = cont])

\* A foreign interrupt, enabled since __tee_entry_std
thread_foreign_intr_exit(c) == \E n \in Ids :
    /\ \E pc \in {"body", "bad", "finish", "exit", "rpc"} \cup Commands : Runs(c, n, pc)
    /\ threads[n].cont # "supply"
    /\ thread_state_suspend(c, n, threads[n])
    /\ UNCHANGED <<prealloc, lent, stdcalls>>

\* The check of thread_resume_from_rpc
Resumable(n) == threads[n].state = "suspended"

\* thread_resume_from_rpc up to the unlock.  When the thread has made a request
\* normal world has served it: the buffer it allocates is the answer.
thread_resume_from_rpc(c) == \E n \in Ids :
    LET q == threads[n].req
        asked == threads[n].regs = "request"
    IN  /\ core[c] = NormalWorld
        /\ Resumable(n)
        /\ core' = [core EXCEPT ![c] = [at |-> "resume", n |-> n]]
        /\ \/ /\ asked /\ q.cmd \in {"ALLOC", "SHM_ALLOC"}
              /\ \E b \in (Buffers \ lent) \cup {NoBuf} :
                    /\ threads' = [threads EXCEPT ![n].state = "active", ![n].req.buf = b]
                    /\ lent' = lent \cup ({b} \ {NoBuf})
           \/ /\ asked /\ q.cmd \in {"FREE", "SHM_FREE"}
              /\ threads' = [threads EXCEPT ![n].state = "active"]
              /\ lent' = lent \ {q.buf}
           \/ /\ asked => q.cmd = "CMD"
              /\ threads' = [threads EXCEPT ![n].state = "active"]
              /\ UNCHANGED lent
        /\ UNCHANGED <<prealloc, stdcalls>>

\* MUTANT of CopyArgs: the flag stays.
CopyArgs_Stays(r) == IF r.copy THEN [r EXCEPT !.regs = "answer"] ELSE r

\* Registers come from normal world only after a request.
CopyArgs(r) == IF r.copy THEN [r EXCEPT !.regs = "answer", !.copy = FALSE] ELSE r

\* The rest of thread_resume_from_rpc
thread_resume(c) ==
    /\ core[c].at = "resume"
    /\ Update(core[c].n, CopyArgs(threads[core[c].n]))
    /\ core' = [core EXCEPT ![c].at = "run"]
    /\ UNCHANGED <<prealloc, lent, stdcalls>>

\* thread_state_free
thread_state_free(c) == \E n \in Ids :
    /\ Runs(c, n, "exit")
    /\ Update(n, [threads[n] EXCEPT !.state = "free", !.copy = FALSE, !.pc = "none"])
    /\ core' = [core EXCEPT ![c] = NormalWorld]
    /\ UNCHANGED <<prealloc, lent, stdcalls>>

----------------------------------------------------------------------------
(* call_entry_std                                                          *)

\* clear_prealloc_rpc_cache: thread_rpc_free_arg asks for nothing without a
\* buffer; the rest is done when normal world is back (Continue).
clear_prealloc_rpc_cache(c, n, r, cont) ==
    IF r.rpc_mobj # NoBuf
    THEN thread_rpc(c, n, r, "FREE", r.rpc_mobj, cont)
    ELSE /\ Update(n, [r EXCEPT !.rpc_arg = NoBuf, !.pc = cont])
         /\ UNCHANGED core

\* MUTANT of EntryClears: a supplied argument leaves the cached one.
EntryClears_No(r) == FALSE

\* The argument of the thread is cleared before a supplied one is used.
EntryClears(r) == r.supplied /\ prealloc

call_entry_std(c) == \E n \in Ids :
    /\ Runs(c, n, "entry")
    /\ IF EntryClears(threads[n])
       THEN clear_prealloc_rpc_cache(c, n, threads[n], "supply")
       ELSE Update(n, [threads[n] EXCEPT !.pc = "supply"]) /\ UNCHANGED core
    /\ UNCHANGED <<prealloc, lent, stdcalls>>

\* tee_entry_std is entered, or refuses an unknown command without a request.
tee_entry_std(c) == \E n \in Ids :
    LET r == threads[n]
    IN  /\ Runs(c, n, "supply")
        /\ \E next \in {"body", "bad"} :
              Update(n, [r EXCEPT !.pc = next,
                                  !.rpc_arg = IF r.supplied THEN "supplied" ELSE @])
        /\ UNCHANGED <<core, prealloc, lent, stdcalls>>

\* get_rpc_arg: without an argument one is allocated first, and the request
\* is made when it is there.
Requests(c, n, cmd, buf, cont) ==
    IF threads[n].rpc_arg = NoBuf
    THEN thread_rpc(c, n, threads[n], "ALLOC", NoBuf, cmd)
    ELSE thread_rpc(c, n, threads[n], cmd, buf, cont)

\* thread_rpc_cmd, and thread_rpc_shm_cache_alloc: an entry of the cache that
\* does not fit is cleared before the next one is allocated, and one that
\* cannot be used is cleared.
RpcInCall(c) == \E n \in Ids :
    LET Now(cmd) == Runs(c, n, "body") \/ Runs(c, n, cmd)
        shm == threads[n].shm
    IN  /\ \/ Now("CMD") /\ Requests(c, n, "CMD", NoBuf, "body")
           \/ /\ Now("SHM_ALLOC") /\ shm = NoBuf
              /\ Requests(c, n, "SHM_ALLOC", NoBuf, "body")
           \/ /\ Runs(c, n, "body") /\ shm # NoBuf
              /\ \E cont \in {"SHM_ALLOC", "body"} : Requests(c, n, "SHM_FREE", shm, cont)
        /\ UNCHANGED <<prealloc, lent, stdcalls>>

\* A thread takes the answer to its request and goes on.
Continue(c) == \E n \in Ids :
    LET r == threads[n]
        b == r.req.buf
        failed == r.req.cmd = "ALLOC" /\ b = NoBuf
        done == [r EXCEPT !.pc = IF failed THEN "body" ELSE r.cont, !.cont = "none",
                          !.req = NoRequest, !.regs = "own"]
    IN  /\ Runs(c, n, "rpc")
        /\ Update(n, CASE r.req.cmd = "ALLOC" -> [done EXCEPT !.rpc_arg = b, !.rpc_mobj = b]
                       [] r.req.cmd = "FREE" -> [done EXCEPT !.rpc_arg = NoBuf, !.rpc_mobj = NoBuf]
                       [] r.req.cmd = "SHM_ALLOC" -> [done EXCEPT !.shm = b]
                       [] r.req.cmd = "SHM_FREE" -> [done EXCEPT !.shm = NoBuf]
                       [] OTHER -> done)
        /\ UNCHANGED <<core, prealloc, lent, stdcalls>>

\* tee_entry_std returns: thread_rpc_shm_cache_clear
thread_rpc_shm_cache_clear(c) == \E n \in Ids :
    /\ Runs(c, n, "body")
    /\ IF threads[n].shm # NoBuf
       THEN thread_rpc(c, n, threads[n], "SHM_FREE", threads[n].shm, "finish")
       ELSE Update(n, [threads[n] EXCEPT !.pc = "finish"]) /\ UNCHANGED core
    /\ UNCHANGED <<prealloc, lent, stdcalls>>

\* The rest of call_entry_std; the cached argument stays after a bad command.
FinishCall(c) == \E n \in Ids :
    LET r == [threads[n] EXCEPT !.rpc_arg = IF threads[n].supplied THEN NoBuf ELSE @]
    IN  /\ \/ /\ Runs(c, n, "finish") /\ ~prealloc
              /\ clear_prealloc_rpc_cache(c, n, r, "exit")
           \/ /\ \/ Runs(c, n, "finish") /\ prealloc
                 \/ Runs(c, n, "bad")
              /\ Update(n, [r EXCEPT !.pc = "exit"])
              /\ UNCHANGED core
        /\ UNCHANGED <<prealloc, lent, stdcalls>>

----------------------------------------------------------------------------
(* Fast calls: the cache is switched when no thread is in use.             *)

AllFree == \A n \in Ids : threads[n].state = "free"

thread_enable_prealloc_rpc_cache(c) ==
    /\ core[c] = NormalWorld /\ AllFree
    /\ prealloc' = TRUE
    /\ UNCHANGED <<threads, core, lent, stdcalls>>

\* One cached argument is given back in each call; the last call finds none.
thread_disable_prealloc_rpc_cache(c) ==
    LET cached == {n \in Ids : threads[n].rpc_arg # NoBuf}
        n == Min(cached)
    IN  /\ core[c] = NormalWorld /\ AllFree
        /\ IF cached # {}
           THEN /\ lent' = lent \ {threads[n].rpc_mobj}
                /\ Update(n, [threads[n] EXCEPT !.rpc_arg = NoBuf, !.rpc_mobj = NoBuf])
                /\ UNCHANGED prealloc
           ELSE prealloc' = FALSE /\ UNCHANGED <<threads, lent>>
        /\ UNCHANGED <<core, stdcalls>>

----------------------------------------------------------------------------

StdNext == \E c \in Cores :
    \/ alloc_thread(c) \/ thread_alloc_and_run(c) \/ thread_foreign_intr_exit(c)
    \/ thread_resume_from_rpc(c) \/ thread_resume(c) \/ thread_state_free(c)
    \/ call_entry_std(c) \/ tee_entry_std(c) \/ RpcInCall(c) \/ Continue(c)
    \/ thread_rpc_shm_cache_clear(c) \/ FinishCall(c)
    \/ thread_enable_prealloc_rpc_cache(c) \/ thread_disable_prealloc_rpc_cache(c)

StdSpec == StdInit /\ [][StdNext]_StdVars

----------------------------------------------------------------------------
(* Correctness.                                                            *)

\* Type invariant.
StdTypeOK ==
    /\ threads \in [Ids -> [state : {"free", "active", "suspended"}, copy : BOOLEAN,
          pc : {"none", "entry", "supply", "body", "bad", "rpc", "finish", "exit"} \cup Commands,
          supplied : BOOLEAN, rpc_arg : Buffers \cup {NoBuf, "supplied"},
          rpc_mobj : Buffers \cup {NoBuf}, shm : Buffers \cup {NoBuf},
          req : [cmd : {"none", "ALLOC", "FREE"} \cup Commands,
                 buf : Buffers \cup {NoBuf}],
          cont : {"none", "supply", "body", "finish", "exit"} \cup Commands,
          regs : {"own", "request", "answer"}]]
    /\ core \in [Cores -> [at : {"ns", "start", "resume", "run"}, n : 0 .. NumThreads]]
    /\ prealloc \in BOOLEAN
    /\ lent \subseteq Buffers
    /\ stdcalls \in 0 .. MaxStdCalls

\* A thread runs on one core while it is active and on none else, whatever
\* normal world tries to resume; it goes on with the answer of normal world
\* after a request, and with its own registers after an interrupt
\* (thread_resume_from_rpc, thread_state_suspend).
ResumedAsSuspended ==
    \A n \in Ids :
        /\ Cardinality({c \in Cores : core[c].n = n})
              = IF threads[n].state = "active" THEN 1 ELSE 0
        /\ \A c \in Cores : core[c] = [at |-> "run", n |-> n] =>
              threads[n].regs = IF threads[n].pc = "rpc" THEN "answer" ELSE "own"

\* The buffers a thread is responsible for, between the answer to its request
\* and what it does with it too
Served(n) == \/ threads[n].regs = "request" /\ threads[n].state = "active"
             \/ threads[n].regs = "answer"
Keeps(n, b) ==
    LET r == threads[n]
    IN  \/ Served(n) /\ r.req.cmd \in {"ALLOC", "SHM_ALLOC"} /\ r.req.buf = b
        \/ r.rpc_mobj = b /\ ~(Served(n) /\ r.req.cmd = "FREE")
        \/ r.shm = b /\ ~(Served(n) /\ r.req.cmd = "SHM_FREE")

\* Each buffer of normal world has one thread that keeps it and gives it back:
\* an idle thread keeps one only as its cached argument, none when normal
\* world was told that the cache is empty; and a request tells normal world
\* the buffer it was written to (call_entry_std, get_rpc_arg,
\* thread_disable_prealloc_rpc_cache).
BuffersExact ==
    /\ \A b \in Buffers :
          Cardinality({n \in Ids : Keeps(n, b)}) = IF b \in lent THEN 1 ELSE 0
    /\ \A n \in Ids :
          /\ threads[n].rpc_mobj # NoBuf => threads[n].rpc_mobj # threads[n].shm
          /\ threads[n].state = "free" =>
                /\ threads[n].shm = NoBuf
                /\ threads[n].rpc_arg = threads[n].rpc_mobj
                /\ ~prealloc => threads[n].rpc_mobj = NoBuf
          /\ threads[n].pc = "rpc" /\ threads[n].req.cmd = "CMD" =>
                threads[n].rpc_mobj = IF threads[n].rpc_arg = "supplied" THEN NoBuf
                                      ELSE threads[n].rpc_arg
============================================================================
