--------------------------- MODULE StdCallProofs ----------------------------
(***************************************************************************)
(* Proofs about StdCall for any number of cores, threads and buffers.      *)
(* What a step does to the one thread it changes is said about records:    *)
(* CallOK relates the fields of a thread at each point of its call, Kept   *)
(* is the set of buffers it is responsible for.  On top of that no two     *)
(* cores run one thread, and no two threads keep one buffer.               *)
(***************************************************************************)
EXTENDS StdCall, FiniteSetTheorems, WellFoundedInduction, TLAPS

Points == {"none", "entry", "supply", "body", "bad", "rpc", "finish", "exit"} \cup Commands
Requested == {"none", "ALLOC", "FREE"} \cup Commands
Continuations == {"none", "supply", "body", "finish", "exit"} \cup Commands

\* A thread
ThreadRec ==
    [state : {"free", "active", "suspended"}, copy : BOOLEAN, pc : Points,
     supplied : BOOLEAN, rpc_arg : Buffers \cup {NoBuf, "supplied"},
     rpc_mobj : Buffers \cup {NoBuf}, shm : Buffers \cup {NoBuf},
     req : [cmd : Requested, buf : Buffers \cup {NoBuf}],
     cont : Continuations, regs : {"own", "request", "answer"}]

-----------------------------------------------------------------------------
(* One thread *)

\* What a request says about the thread that makes it
RequestOK(r, cached) ==
    LET q == r.req
    IN  /\ q.cmd = "FREE" =>
              /\ q.buf = r.rpc_mobj /\ r.rpc_mobj # NoBuf /\ r.shm = NoBuf
              /\ r.cont \in {"supply", "exit"} /\ (r.cont = "supply" => cached)
        /\ q.cmd = "SHM_FREE" =>
              /\ q.buf = r.shm /\ r.shm # NoBuf
              /\ r.cont \in {"SHM_ALLOC", "body", "finish"}
        /\ q.cmd = "ALLOC" => /\ r.rpc_arg = NoBuf /\ r.cont \in Commands
                              /\ r.regs = "request" /\ r.state # "active" => q.buf = NoBuf
        /\ q.cmd = "SHM_ALLOC" => /\ r.shm = NoBuf /\ r.cont = "body"
                                  /\ r.regs = "request" /\ r.state # "active" => q.buf = NoBuf
        /\ q.cmd = "CMD" => r.cont = "body"

\* Registers and request of a thread
RegsOK(r) ==
    /\ r.regs = "own" <=> r.pc # "rpc"
    /\ r.copy <=> r.regs = "request"
    /\ r.cont = "none" <=> r.pc # "rpc"
    /\ r.req.cmd = "none" <=> r.pc # "rpc"
    /\ r.state = "free" => r.pc = "none"

\* The argument for requests: given with the call and then no buffer of the
\* thread, or the buffer the thread has allocated.  Outside the body of the
\* call there is no payload, and no argument when the cache is off.
ArgOK(r, cached) ==
    /\ r.rpc_arg = "supplied" =>
          /\ r.supplied /\ r.rpc_mobj = NoBuf
          /\ r.pc \notin {"none", "entry", "supply", "exit"}
    /\ r.rpc_arg # "supplied" =>
          /\ r.rpc_arg = r.rpc_mobj
          /\ r.supplied => \/ r.pc \in {"none", "entry", "supply", "exit"}
                           \/ r.req.cmd = "FREE"
    /\ r.supplied /\ r.pc = "supply" => r.rpc_mobj = NoBuf
    /\ r.pc \in {"none", "entry", "supply", "bad", "finish", "exit"} => r.shm = NoBuf
    /\ ~cached /\ r.pc \in {"none", "entry", "supply", "bad", "exit"} => r.rpc_mobj = NoBuf

CallOK(r, cached) == RequestOK(r, cached) /\ RegsOK(r) /\ ArgOK(r, cached)

\* The buffers of a thread: the answer it has not taken yet, its argument and
\* its payload, unless normal world has taken them back
Answered(r) == \/ r.regs = "request" /\ r.state = "active"
               \/ r.regs = "answer"
AnswerBuf(r) == IF Answered(r) /\ r.req.cmd \in {"ALLOC", "SHM_ALLOC"}
                THEN r.req.buf ELSE NoBuf
ArgBuf(r) == IF Answered(r) /\ r.req.cmd = "FREE" THEN NoBuf ELSE r.rpc_mobj
ShmBuf(r) == IF Answered(r) /\ r.req.cmd = "SHM_FREE" THEN NoBuf ELSE r.shm
Kept(r) == {AnswerBuf(r), ArgBuf(r), ShmBuf(r)} \ {NoBuf}

\* No buffer is used for two purposes.
KeptOnce(r) ==
    /\ AnswerBuf(r) # NoBuf => AnswerBuf(r) # ArgBuf(r) /\ AnswerBuf(r) # ShmBuf(r)
    /\ r.rpc_mobj # NoBuf => r.rpc_mobj # r.shm

-----------------------------------------------------------------------------
(* All threads *)

ThreadsOK == \A n \in Ids : CallOK(threads[n], prealloc)

\* A thread is on one core while it is active and on none else; it starts with
\* nothing asked, and runs only after its answer was copied.
CoresExact ==
    /\ \A c \in Cores : core[c].n = 0 <=> core[c].at = "ns"
    /\ \A c, d \in Cores : core[c].n # 0 /\ core[c].n = core[d].n => c = d
    /\ \A n \in Ids : threads[n].state = "active" <=> \E c \in Cores : core[c].n = n
    /\ \A c \in Cores : core[c].at = "start" => threads[core[c].n].pc = "none"
    /\ \A c \in Cores : core[c].at = "run" => ~threads[core[c].n].copy

LentExact ==
    /\ \A n \in Ids : KeptOnce(threads[n])
    /\ \A m, n \in Ids : m # n => Kept(threads[m]) \cap Kept(threads[n]) = {}
    /\ \A b \in Buffers : b \in lent <=> \E n \in Ids : b \in Kept(threads[n])

CallInv == StdTypeOK /\ ThreadsOK /\ CoresExact /\ LentExact

-----------------------------------------------------------------------------
(* What the steps do to one thread *)

\* A thread that keeps what it kept
Goes(r, s, cached) ==
    s \in ThreadRec /\ CallOK(s, cached) /\ KeptOnce(s) /\ Kept(s) = Kept(r)

\* A thread that gets buffer b, unless it is none, and one that gives it back
Gets(r, s, cached, b) ==
    /\ s \in ThreadRec /\ CallOK(s, cached) /\ KeptOnce(s)
    /\ Kept(s) = Kept(r) \cup ({b} \ {NoBuf})
GivesBack(r, s, cached, b) ==
    /\ s \in ThreadRec /\ CallOK(s, cached) /\ KeptOnce(s)
    /\ b \in Kept(r) /\ Kept(s) = Kept(r) \ {b}

\* thread_rpc: nothing is answered before nor after.
LEMMA AskFacts ==
    ASSUME NEW cached, NEW r \in ThreadRec, CallOK(r, cached), KeptOnce(r),
           r.pc \notin {"rpc", "none"}, NEW cmd \in Requested \ {"none"},
           NEW buf \in Buffers \cup {NoBuf}, NEW cont \in Continuations \ {"none"},
           NEW s, s = [r EXCEPT !.pc = "rpc", !.copy = TRUE, !.regs = "request",
                                !.req = [cmd |-> cmd, buf |-> buf], !.cont = cont,
                                !.state = "suspended"],
           RequestOK(s, cached),
           r.supplied /\ r.rpc_arg # "supplied" => cmd = "FREE"
    PROVE  Goes(r, s, cached)
  <1>1. s \in ThreadRec
    BY DEF ThreadRec, Points
  <1>2. /\ s.pc = "rpc" /\ s.copy = TRUE /\ s.regs = "request" /\ s.cont = cont
        /\ s.req.cmd = cmd /\ s.req.buf = buf /\ s.state = "suspended"
        /\ s.supplied = r.supplied /\ s.rpc_arg = r.rpc_arg
        /\ s.rpc_mobj = r.rpc_mobj /\ s.shm = r.shm
    BY DEF ThreadRec
  <1>3. r.regs = "own"
    BY DEF CallOK, RegsOK
  <1>4. ~Answered(r) /\ ~Answered(s)
    BY <1>2, <1>3 DEF Answered
  <1>5. Kept(s) = Kept(r) /\ KeptOnce(s)
    BY <1>2, <1>4 DEF Kept, KeptOnce, AnswerBuf, ArgBuf, ShmBuf
  <1>6. RegsOK(s)
    BY <1>2 DEF RegsOK
  <1>7. ArgOK(s, cached)
    BY <1>2 DEF CallOK, ArgOK
  <1> QED
    BY <1>1, <1>5, <1>6, <1>7 DEF Goes, CallOK

\* thread_state_suspend on an interrupt, and thread_state_free
LEMMA SuspendFacts ==
    ASSUME NEW cached, NEW r \in ThreadRec, CallOK(r, cached), KeptOnce(r),
           r.state = "active", ~r.copy, NEW s,
           \/ /\ r.pc # "none"
              /\ s = [r EXCEPT !.state = "suspended"]
           \/ /\ r.pc = "exit"
              /\ s = [r EXCEPT !.state = "free", !.copy = FALSE, !.pc = "none"]
    PROVE  Goes(r, s, cached)
  <1>1. s \in ThreadRec
    BY DEF ThreadRec, Points
  <1>2. /\ s.copy = FALSE /\ s.regs = r.regs /\ s.cont = r.cont /\ s.req = r.req
        /\ s.supplied = r.supplied /\ s.rpc_arg = r.rpc_arg
        /\ s.rpc_mobj = r.rpc_mobj /\ s.shm = r.shm
        /\ \/ s.state = "suspended" /\ s.pc = r.pc
           \/ s.state = "free" /\ s.pc = "none" /\ r.pc = "exit"
    BY DEF ThreadRec
  <1>3. r.regs # "request"
    BY DEF CallOK, RegsOK
  <1>4. Answered(s) <=> Answered(r)
    BY <1>2, <1>3 DEF Answered
  <1>5. Kept(s) = Kept(r) /\ KeptOnce(s)
    BY <1>2, <1>4 DEF Kept, KeptOnce, AnswerBuf, ArgBuf, ShmBuf
  <1>6. RegsOK(s)
    BY <1>2 DEF CallOK, RegsOK
  <1>7. ArgOK(s, cached)
    BY <1>2 DEF CallOK, ArgOK
  <1>8. RequestOK(s, cached)
    BY <1>2, <1>3 DEF CallOK, RequestOK
  <1> QED
    BY <1>1, <1>5, <1>6, <1>7, <1>8 DEF Goes, CallOK

\* alloc_thread, and thread_resume_from_rpc without a buffer to give or take
LEMMA ActivateFacts ==
    ASSUME NEW cached, NEW r \in ThreadRec, CallOK(r, cached), KeptOnce(r),
           r.state # "active", r.regs = "request" => r.req.cmd = "CMD",
           NEW s, s = [r EXCEPT !.state = "active"]
    PROVE  Goes(r, s, cached)
  <1>1. s \in ThreadRec
    BY DEF ThreadRec
  <1>2. /\ s.state = "active" /\ s.pc = r.pc /\ s.copy = r.copy /\ s.regs = r.regs
        /\ s.cont = r.cont /\ s.req = r.req
        /\ s.supplied = r.supplied /\ s.rpc_arg = r.rpc_arg
        /\ s.rpc_mobj = r.rpc_mobj /\ s.shm = r.shm
    BY DEF ThreadRec
  <1>3. r.req.cmd # "CMD" => (Answered(s) <=> Answered(r))
    BY <1>2 DEF Answered
  <1>5. Kept(s) = Kept(r) /\ KeptOnce(s)
    BY <1>2, <1>3 DEF Kept, KeptOnce, AnswerBuf, ArgBuf, ShmBuf
  <1>6. RegsOK(s)
    BY <1>2 DEF CallOK, RegsOK
  <1>7. ArgOK(s, cached)
    BY <1>2 DEF CallOK, ArgOK
  <1>8. RequestOK(s, cached)
    BY <1>2 DEF CallOK, RequestOK
  <1> QED
    BY <1>1, <1>5, <1>6, <1>7, <1>8 DEF Goes, CallOK

\* thread_alloc_and_run
LEMMA StartFacts ==
    ASSUME NEW cached, NEW r \in ThreadRec, CallOK(r, cached), KeptOnce(r),
           r.pc = "none", NEW sup \in BOOLEAN,
           NEW s, s = [r EXCEPT !.copy = FALSE, !.pc = "entry", !.supplied = sup],
           r.state = "active"
    PROVE  Goes(r, s, cached) /\ s.state = "active" /\ ~s.copy
  <1>1. s \in ThreadRec
    BY DEF ThreadRec, Points
  <1>2. /\ s.state = "active" /\ s.pc = "entry" /\ s.copy = FALSE /\ s.regs = r.regs
        /\ s.cont = r.cont /\ s.req = r.req /\ s.rpc_arg = r.rpc_arg
        /\ s.rpc_mobj = r.rpc_mobj /\ s.shm = r.shm
    BY DEF ThreadRec
  <1>3. r.regs = "own" /\ r.req.cmd = "none"
    BY DEF CallOK, RegsOK
  <1>4. Kept(s) = Kept(r) /\ KeptOnce(s)
    BY <1>2, <1>3 DEF Kept, KeptOnce, AnswerBuf, ArgBuf, ShmBuf, Answered
  <1>6. RegsOK(s)
    BY <1>2, <1>3 DEF CallOK, RegsOK
  <1>7. ArgOK(s, cached)
    BY <1>2 DEF CallOK, ArgOK
  <1>8. RequestOK(s, cached)
    BY <1>2, <1>3 DEF RequestOK
  <1> QED
    BY <1>1, <1>2, <1>4, <1>6, <1>7, <1>8 DEF Goes, CallOK

\* The rest of thread_resume_from_rpc
LEMMA CopyFacts ==
    ASSUME NEW cached, NEW r \in ThreadRec, CallOK(r, cached), KeptOnce(r),
           r.state = "active", NEW s, s = CopyArgs(r)
    PROVE  Goes(r, s, cached) /\ s.state = "active" /\ ~s.copy
  <1>1. CASE ~r.copy
    BY <1>1 DEF CopyArgs, Goes
  <1>2. CASE r.copy
    <2>1. s = [r EXCEPT !.regs = "answer", !.copy = FALSE]
      BY <1>2 DEF CopyArgs
    <2>2. s \in ThreadRec
      BY <2>1 DEF ThreadRec
    <2>3. /\ s.state = "active" /\ s.pc = r.pc /\ s.copy = FALSE /\ s.regs = "answer"
          /\ s.cont = r.cont /\ s.req = r.req /\ s.rpc_arg = r.rpc_arg
          /\ s.supplied = r.supplied /\ s.rpc_mobj = r.rpc_mobj /\ s.shm = r.shm
      BY <2>1 DEF ThreadRec
    <2>4. r.regs = "request" /\ r.pc = "rpc"
      BY <1>2 DEF CallOK, RegsOK
    <2>5. Answered(r) /\ Answered(s)
      BY <2>3, <2>4 DEF Answered
    <2>6. Kept(s) = Kept(r) /\ KeptOnce(s)
      BY <2>3, <2>5 DEF Kept, KeptOnce, AnswerBuf, ArgBuf, ShmBuf
    <2>7. RegsOK(s)
      BY <2>3, <2>4 DEF CallOK, RegsOK
    <2>8. ArgOK(s, cached)
      BY <2>3 DEF CallOK, ArgOK
    <2>9. RequestOK(s, cached)
      BY <2>3 DEF CallOK, RequestOK
    <2> QED
      BY <2>2, <2>3, <2>6, <2>7, <2>8, <2>9 DEF Goes, CallOK
  <1> QED
    BY <1>1, <1>2

\* Normal world allocates a buffer.
LEMMA GrantFacts ==
    ASSUME NEW cached, NEW r \in ThreadRec, CallOK(r, cached), KeptOnce(r),
           r.state # "active", r.regs = "request", r.req.cmd \in {"ALLOC", "SHM_ALLOC"},
           NEW b \in Buffers \cup {NoBuf}, b \notin Kept(r),
           NEW s, s = [r EXCEPT !.state = "active", !.req = [cmd |-> r.req.cmd, buf |-> b]]
    PROVE  Gets(r, s, cached, b)
  <1>1. s \in ThreadRec
    BY DEF ThreadRec
  <1>2. /\ s.state = "active" /\ s.pc = r.pc /\ s.copy = r.copy /\ s.regs = "request"
        /\ s.cont = r.cont /\ s.req.cmd = r.req.cmd /\ s.req.buf = b
        /\ s.rpc_arg = r.rpc_arg /\ s.supplied = r.supplied
        /\ s.rpc_mobj = r.rpc_mobj /\ s.shm = r.shm
    BY DEF ThreadRec
  <1>3. ~Answered(r) /\ Answered(s)
    BY <1>2 DEF Answered
  <1>4. Kept(s) = Kept(r) \cup ({b} \ {NoBuf}) /\ KeptOnce(s)
    BY <1>2, <1>3 DEF Kept, KeptOnce, AnswerBuf, ArgBuf, ShmBuf
  <1>5. RegsOK(s)
    BY <1>2 DEF CallOK, RegsOK
  <1>6. ArgOK(s, cached)
    BY <1>2 DEF CallOK, ArgOK
  <1>7. RequestOK(s, cached)
    BY <1>2 DEF CallOK, RequestOK
  <1> QED
    BY <1>1, <1>4, <1>5, <1>6, <1>7 DEF CallOK, Gets

\* Normal world takes a buffer back.
LEMMA TakeFacts ==
    ASSUME NEW cached, NEW r \in ThreadRec, CallOK(r, cached), KeptOnce(r),
           r.state # "active", r.regs = "request", r.req.cmd \in {"FREE", "SHM_FREE"},
           NEW s, s = [r EXCEPT !.state = "active"]
    PROVE  GivesBack(r, s, cached, r.req.buf)
  <1>1. s \in ThreadRec
    BY DEF ThreadRec
  <1>2. /\ s.state = "active" /\ s.pc = r.pc /\ s.copy = r.copy /\ s.regs = "request"
        /\ s.cont = r.cont /\ s.req = r.req
        /\ s.rpc_arg = r.rpc_arg /\ s.supplied = r.supplied
        /\ s.rpc_mobj = r.rpc_mobj /\ s.shm = r.shm
    BY DEF ThreadRec
  <1>3. ~Answered(r) /\ Answered(s)
    BY <1>2 DEF Answered
  <1>4. RequestOK(r, cached)
    BY DEF CallOK
  <1>5. KeptOnce(s) /\ r.req.buf \in Kept(r) /\ Kept(s) = Kept(r) \ {r.req.buf}
    BY <1>2, <1>3, <1>4 DEF Kept, KeptOnce, AnswerBuf, ArgBuf, ShmBuf, RequestOK
  <1>6. RegsOK(s)
    BY <1>2 DEF CallOK, RegsOK
  <1>7. ArgOK(s, cached)
    BY <1>2 DEF CallOK, ArgOK
  <1>8. RequestOK(s, cached)
    BY <1>2, <1>4 DEF RequestOK
  <1> QED
    BY <1>1, <1>5, <1>6, <1>7, <1>8 DEF CallOK, GivesBack

\* A step of the call that changes no more than the point and the argument
LEMMA StepFacts ==
    ASSUME NEW cached, NEW r \in ThreadRec, CallOK(r, cached), KeptOnce(r),
           r.state = "active", r.pc \notin {"none", "rpc"},
           NEW s, s.pc \in Points \ {"none", "rpc"},
           s.rpc_arg \in Buffers \cup {NoBuf, "supplied"},
           s = [r EXCEPT !.pc = s.pc, !.rpc_arg = s.rpc_arg], ArgOK(s, cached)
    PROVE  Goes(r, s, cached) /\ s.state = "active" /\ ~s.copy
  <1>1. s \in ThreadRec
    BY DEF ThreadRec
  <1>2. /\ s.state = "active" /\ s.copy = r.copy /\ s.regs = r.regs
        /\ s.cont = r.cont /\ s.req = r.req
        /\ s.supplied = r.supplied /\ s.rpc_mobj = r.rpc_mobj /\ s.shm = r.shm
    BY DEF ThreadRec
  <1>3. r.regs = "own" /\ ~r.copy /\ r.req.cmd = "none" /\ r.cont = "none"
    BY DEF CallOK, RegsOK
  <1>4. Kept(s) = Kept(r) /\ KeptOnce(s)
    BY <1>2, <1>3 DEF Kept, KeptOnce, AnswerBuf, ArgBuf, ShmBuf, Answered
  <1>5. RegsOK(s)
    BY <1>2, <1>3 DEF RegsOK
  <1>6. RequestOK(s, cached)
    BY <1>2, <1>3 DEF RequestOK
  <1> QED
    BY <1>1, <1>2, <1>3, <1>4, <1>5, <1>6 DEF Goes, CallOK

\* The record a thread continues with
Taken(r) ==
    LET b == r.req.buf
        failed == r.req.cmd = "ALLOC" /\ b = NoBuf
        done == [r EXCEPT !.pc = IF failed THEN "body" ELSE r.cont, !.cont = "none",
                          !.req = NoRequest, !.regs = "own"]
    IN  CASE r.req.cmd = "ALLOC" -> [done EXCEPT !.rpc_arg = b, !.rpc_mobj = b]
          [] r.req.cmd = "FREE" -> [done EXCEPT !.rpc_arg = NoBuf, !.rpc_mobj = NoBuf]
          [] r.req.cmd = "SHM_ALLOC" -> [done EXCEPT !.shm = b]
          [] r.req.cmd = "SHM_FREE" -> [done EXCEPT !.shm = NoBuf]
          [] OTHER -> done

\* A thread takes the answer to its request.
LEMMA ContinueFacts ==
    ASSUME NEW cached, NEW r \in ThreadRec, CallOK(r, cached), KeptOnce(r),
           r.state = "active", r.pc = "rpc", ~r.copy, NEW s, s = Taken(r)
    PROVE  Goes(r, s, cached) /\ s.state = "active" /\ ~s.copy
  <1>1. /\ r.regs = "answer" /\ r.cont # "none" /\ r.req.cmd # "none"
        /\ r.cont # "rpc" /\ Answered(r)
    BY DEF CallOK, RegsOK, ThreadRec, Answered, Continuations, Commands
  <1>2. RequestOK(r, cached) /\ ArgOK(r, cached)
    BY DEF CallOK
  <1> DEFINE cmd == r.req.cmd
             b == r.req.buf
  <1>3. cmd \in {"ALLOC", "FREE", "CMD", "SHM_ALLOC", "SHM_FREE"}
    BY <1>1 DEF ThreadRec, Requested, Commands
  <1>4. s \in ThreadRec
    <2> DEFINE p == IF cmd = "ALLOC" /\ b = NoBuf THEN "body" ELSE r.cont
               done == [r EXCEPT !.pc = p, !.cont = "none", !.req = NoRequest, !.regs = "own"]
    <2>1. p \in Points
      BY DEF ThreadRec, Points, Continuations
    <2>2. b \in Buffers \cup {NoBuf}
      BY DEF ThreadRec
    <2>3. NoRequest \in [cmd : Requested, buf : Buffers \cup {NoBuf}]
      BY DEF NoRequest, Requested
    <2>4. s = CASE cmd = "ALLOC" -> [done EXCEPT !.rpc_arg = b, !.rpc_mobj = b]
                [] cmd = "FREE" -> [done EXCEPT !.rpc_arg = NoBuf, !.rpc_mobj = NoBuf]
                [] cmd = "SHM_ALLOC" -> [done EXCEPT !.shm = b]
                [] cmd = "SHM_FREE" -> [done EXCEPT !.shm = NoBuf]
                [] OTHER -> done
      BY DEF Taken
    <2> HIDE DEF p, b, cmd
    <2>5. done \in ThreadRec
      BY <2>1, <2>3 DEF ThreadRec, Continuations
    <2> HIDE DEF done
    <2>6. /\ [done EXCEPT !.rpc_arg = b, !.rpc_mobj = b] \in ThreadRec
          /\ [done EXCEPT !.rpc_arg = NoBuf, !.rpc_mobj = NoBuf] \in ThreadRec
          /\ [done EXCEPT !.shm = b] \in ThreadRec
          /\ [done EXCEPT !.shm = NoBuf] \in ThreadRec
      BY <2>2, <2>5 DEF ThreadRec
    <2> QED
      BY <1>3, <2>4, <2>5, <2>6
  <1>5. /\ s.state = "active" /\ s.copy = FALSE /\ s.regs = "own" /\ s.cont = "none"
        /\ s.req.cmd = "none" /\ s.supplied = r.supplied
        /\ s.pc = IF cmd = "ALLOC" /\ b = NoBuf THEN "body" ELSE r.cont
        /\ s.rpc_arg = IF cmd = "ALLOC" THEN b ELSE IF cmd = "FREE" THEN NoBuf
                       ELSE r.rpc_arg
        /\ s.rpc_mobj = IF cmd = "ALLOC" THEN b ELSE IF cmd = "FREE" THEN NoBuf
                        ELSE r.rpc_mobj
        /\ s.shm = IF cmd = "SHM_ALLOC" THEN b ELSE IF cmd = "SHM_FREE" THEN NoBuf
                   ELSE r.shm
    BY <1>3 DEF Taken, ThreadRec, NoRequest
  <1>6. ~Answered(s)
    BY <1>5 DEF Answered
  <1>7. AnswerBuf(s) = NoBuf /\ ArgBuf(s) = s.rpc_mobj /\ ShmBuf(s) = s.shm
    BY <1>6 DEF AnswerBuf, ArgBuf, ShmBuf
  <1>8. KeptOnce(s)
    BY <1>1, <1>5, <1>7 DEF KeptOnce, AnswerBuf, ArgBuf, ShmBuf
  <1>9. cmd = "ALLOC" => r.rpc_mobj = NoBuf
    BY <1>2, StdCallAssumption DEF RequestOK, ArgOK
  <1>10. Kept(s) = Kept(r)
    <2>1. CASE cmd = "ALLOC"
      BY <1>1, <1>5, <1>7, <1>9, <2>1 DEF Kept, AnswerBuf, ArgBuf, ShmBuf
    <2>2. CASE cmd = "SHM_ALLOC"
      BY <1>1, <1>2, <1>5, <1>7, <2>2 DEF Kept, AnswerBuf, ArgBuf, ShmBuf, RequestOK
    <2>3. CASE cmd \in {"FREE", "SHM_FREE", "CMD"}
      BY <1>1, <1>5, <1>7, <2>3 DEF Kept, AnswerBuf, ArgBuf, ShmBuf
    <2> QED
      BY <1>3, <2>1, <2>2, <2>3
  <1>11. s.pc \notin {"none", "rpc"}
    BY <1>1, <1>5
  <1>12. RegsOK(s) /\ RequestOK(s, cached)
    BY <1>5, <1>11 DEF RegsOK, RequestOK
  <1>13. ArgOK(s, cached)
    <2>1. CASE cmd = "ALLOC"
      BY <1>2, <1>5, <1>9, <2>1, StdCallAssumption DEF ArgOK, RequestOK, ThreadRec, Commands
    <2>2. CASE cmd = "FREE"
      BY <1>2, <1>5, <2>2, StdCallAssumption DEF ArgOK, RequestOK
    <2>3. CASE cmd \in {"CMD", "SHM_ALLOC", "SHM_FREE"}
      BY <1>2, <1>5, <2>3 DEF ArgOK, RequestOK
    <2> QED
      BY <1>3, <2>1, <2>2, <2>3
  <1> QED
    BY <1>4, <1>5, <1>8, <1>10, <1>12, <1>13 DEF Goes, CallOK

-----------------------------------------------------------------------------
(* What that means for all threads *)

LEMMA ThreadType ==
    ASSUME StdTypeOK
    PROVE  threads \in [Ids -> ThreadRec] /\ \A n \in Ids : threads[n] \in ThreadRec
  BY DEF StdTypeOK, ThreadRec, Points, Requested, Continuations

\* The threads are as they should be, apart from where they run.
AllCalls == threads \in [Ids -> ThreadRec] /\ ThreadsOK /\ lent \subseteq Buffers /\ LentExact

\* A thread goes on and keeps what it kept.
LEMMA OneGoes ==
    ASSUME AllCalls, NEW n \in Ids, NEW s, Goes(threads[n], s, prealloc),
           threads' = [threads EXCEPT ![n] = s], UNCHANGED <<prealloc, lent>>
    PROVE  AllCalls'
  <1>1. /\ threads'[n] = s
        /\ \A m \in Ids \ {n} : threads'[m] = threads[m]
        /\ threads' \in [Ids -> ThreadRec]
    BY DEF AllCalls, Goes
  <1>2. ThreadsOK'
    BY <1>1 DEF AllCalls, ThreadsOK, Goes
  <1>3. \A m \in Ids : Kept(threads'[m]) = Kept(threads[m])
    BY <1>1 DEF Goes
  <1>4. \A m \in Ids : KeptOnce(threads'[m])
    BY <1>1 DEF AllCalls, LentExact, Goes
  <1>5. LentExact'
    BY <1>3, <1>4 DEF AllCalls, LentExact
  <1> QED
    BY <1>1, <1>2, <1>5 DEF AllCalls

\* A thread gets a buffer nobody has, or nothing.
LEMMA OneGets ==
    ASSUME AllCalls, NEW n \in Ids, NEW s, NEW b \in (Buffers \ lent) \cup {NoBuf},
           Gets(threads[n], s, prealloc, b),
           lent' = lent \cup ({b} \ {NoBuf}),
           threads' = [threads EXCEPT ![n] = s], UNCHANGED prealloc
    PROVE  AllCalls'
  <1>1. /\ threads'[n] = s
        /\ \A m \in Ids \ {n} : threads'[m] = threads[m]
        /\ threads' \in [Ids -> ThreadRec]
    BY DEF AllCalls, Gets
  <1>2. ThreadsOK'
    BY <1>1 DEF AllCalls, ThreadsOK, Gets
  <1>3. \A m \in Ids : b # NoBuf => b \notin Kept(threads[m])
    BY DEF AllCalls, LentExact, Gets
  <1>4. \A m, k \in Ids : m # k => Kept(threads'[m]) \cap Kept(threads'[k]) = {}
    BY <1>1, <1>3 DEF AllCalls, LentExact, Gets
  <1>5. \A m \in Ids : KeptOnce(threads'[m])
    BY <1>1 DEF AllCalls, LentExact, Gets
  <1>6. \A e \in Buffers : e \in lent' <=> \E m \in Ids : e \in Kept(threads'[m])
    BY <1>1 DEF AllCalls, LentExact, Gets
  <1>7. LentExact'
    BY <1>4, <1>5, <1>6 DEF LentExact
  <1> QED
    BY <1>1, <1>2, <1>7 DEF AllCalls

\* A thread gives a buffer back.
LEMMA OneGivesBack ==
    ASSUME AllCalls, NEW n \in Ids, NEW s, NEW b, GivesBack(threads[n], s, prealloc, b),
           lent' = lent \ {b}, threads' = [threads EXCEPT ![n] = s], UNCHANGED prealloc
    PROVE  AllCalls'
  <1>1. /\ threads'[n] = s
        /\ \A m \in Ids \ {n} : threads'[m] = threads[m]
        /\ threads' \in [Ids -> ThreadRec]
    BY DEF AllCalls, GivesBack
  <1>2. ThreadsOK'
    BY <1>1 DEF AllCalls, ThreadsOK, GivesBack
  <1>3. \A m \in Ids \ {n} : b \notin Kept(threads[m])
    BY DEF AllCalls, LentExact, GivesBack
  <1>4. \A m, k \in Ids : m # k => Kept(threads'[m]) \cap Kept(threads'[k]) = {}
    BY <1>1 DEF AllCalls, LentExact, GivesBack
  <1>5. \A m \in Ids : KeptOnce(threads'[m])
    BY <1>1 DEF AllCalls, LentExact, GivesBack
  <1>6. \A e \in Buffers : e \in lent' <=> \E m \in Ids : e \in Kept(threads'[m])
    BY <1>1, <1>3 DEF AllCalls, LentExact, GivesBack
  <1>7. LentExact'
    BY <1>4, <1>5, <1>6 DEF LentExact
  <1> QED
    BY <1>1, <1>2, <1>7 DEF AllCalls

-----------------------------------------------------------------------------
(* Where threads run *)

CoreType == core \in [Cores -> [at : {"ns", "start", "resume", "run"}, n : 0 .. NumThreads]]
Placed == CoreType /\ threads \in [Ids -> ThreadRec] /\ CoresExact

\* A core that runs a thread goes on running it.
LEMMA CoreStays ==
    ASSUME Placed, NEW c \in Cores, NEW n \in Ids, core[c] = [at |-> "run", n |-> n],
           NEW s \in ThreadRec, s.state = "active", ~s.copy,
           threads' = [threads EXCEPT ![n] = s], UNCHANGED core
    PROVE  Placed'
  <1>1. /\ threads'[n] = s
        /\ \A m \in Ids \ {n} : threads'[m] = threads[m]
        /\ threads' \in [Ids -> ThreadRec]
    BY DEF Placed
  <1>2. core[c].n = n /\ core[c].at = "run" /\ n # 0
    BY DEF Ids
  <1>3. \A d \in Cores \ {c} : core[d].n # n
    BY <1>2 DEF Placed, CoresExact
  <1>4. \A d \in Cores : core[d].at # "ns" => core[d].n \in Ids
    BY StdCallAssumption DEF Placed, CoresExact, CoreType, Ids
  <1>5. CoresExact'
    BY <1>1, <1>2, <1>3, <1>4 DEF Placed, CoresExact
  <1> QED
    BY <1>1, <1>5 DEF Placed, CoreType

\* A core leaves its thread, which is not active any more.
LEMMA CoreLeaves ==
    ASSUME Placed, NEW c \in Cores, NEW n \in Ids, core[c] = [at |-> "run", n |-> n],
           NEW s \in ThreadRec, s.state # "active",
           threads' = [threads EXCEPT ![n] = s],
           core' = [core EXCEPT ![c] = NormalWorld]
    PROVE  Placed'
  <1>1. /\ threads'[n] = s
        /\ \A m \in Ids \ {n} : threads'[m] = threads[m]
        /\ threads' \in [Ids -> ThreadRec]
    BY DEF Placed
  <1>2. core[c].n = n /\ core[c].at = "run" /\ n # 0
    BY DEF Ids
  <1>3. \A d \in Cores \ {c} : core[d].n # n
    BY <1>2 DEF Placed, CoresExact
  <1>4. \A d \in Cores : core[d].at # "ns" => core[d].n \in Ids
    BY StdCallAssumption DEF Placed, CoresExact, CoreType, Ids
  <1>5. /\ core'[c].n = 0 /\ core'[c].at = "ns"
        /\ \A d \in Cores \ {c} : core'[d] = core[d]
    BY DEF Placed, CoreType, NormalWorld
  <1>6. CoreType'
    BY StdCallAssumption DEF Placed, CoreType, NormalWorld
  <1>7. CoresExact'
    <2>1. \A d \in Cores : core'[d].n = 0 <=> core'[d].at = "ns"
      BY <1>5 DEF Placed, CoresExact
    <2>2. \A d, e \in Cores : core'[d].n # 0 /\ core'[d].n = core'[e].n => d = e
      BY <1>5 DEF Placed, CoresExact
    <2>3. \A m \in Ids : threads'[m].state = "active" <=> \E d \in Cores : core'[d].n = m
      BY <1>1, <1>2, <1>3, <1>5 DEF Placed, CoresExact, Ids
    <2>4. \A d \in Cores : core'[d].at = "start" => threads'[core'[d].n].pc = "none"
      BY <1>1, <1>3, <1>4, <1>5 DEF Placed, CoresExact
    <2>5. \A d \in Cores : core'[d].at = "run" => ~threads'[core'[d].n].copy
      BY <1>1, <1>3, <1>4, <1>5 DEF Placed, CoresExact
    <2> QED
      BY <2>1, <2>2, <2>3, <2>4, <2>5 DEF CoresExact
  <1> QED
    BY <1>1, <1>6, <1>7 DEF Placed

\* A core takes a thread that no core has.
LEMMA CoreTakes ==
    ASSUME Placed, NEW c \in Cores, NEW n \in Ids, core[c] = NormalWorld,
           threads[n].state # "active", NEW a \in {"start", "resume"},
           NEW s \in ThreadRec, s.state = "active", a = "start" => s.pc = "none",
           threads' = [threads EXCEPT ![n] = s],
           core' = [core EXCEPT ![c] = [at |-> a, n |-> n]]
    PROVE  Placed'
  <1>1. /\ threads'[n] = s
        /\ \A m \in Ids \ {n} : threads'[m] = threads[m]
        /\ threads' \in [Ids -> ThreadRec]
    BY DEF Placed
  <1>2. core[c].n = 0 /\ n # 0
    BY DEF Ids, NormalWorld
  <1>3. \A d \in Cores : core[d].n # n
    BY <1>2 DEF Placed, CoresExact
  <1>4. \A d \in Cores : core[d].at # "ns" => core[d].n \in Ids
    BY StdCallAssumption DEF Placed, CoresExact, CoreType, Ids
  <1>5. /\ core'[c].n = n /\ core'[c].at = a
        /\ \A d \in Cores \ {c} : core'[d] = core[d]
    BY DEF Placed, CoreType
  <1>6. CoreType'
    BY StdCallAssumption DEF Placed, CoreType, Ids
  <1>7. CoresExact'
    <2>1. \A d \in Cores : core'[d].n = 0 <=> core'[d].at = "ns"
      BY <1>2, <1>5 DEF Placed, CoresExact
    <2>2. \A d, e \in Cores : core'[d].n # 0 /\ core'[d].n = core'[e].n => d = e
      BY <1>3, <1>5 DEF Placed, CoresExact
    <2>3. \A m \in Ids : threads'[m].state = "active" <=> \E d \in Cores : core'[d].n = m
      BY <1>1, <1>2, <1>3, <1>5 DEF Placed, CoresExact, Ids
    <2>4. \A d \in Cores : core'[d].at = "start" => threads'[core'[d].n].pc = "none"
      BY <1>1, <1>3, <1>4, <1>5 DEF Placed, CoresExact
    <2>5. \A d \in Cores : core'[d].at = "run" => ~threads'[core'[d].n].copy
      BY <1>1, <1>3, <1>4, <1>5 DEF Placed, CoresExact
    <2> QED
      BY <2>1, <2>2, <2>3, <2>4, <2>5 DEF CoresExact
  <1> QED
    BY <1>1, <1>6, <1>7 DEF Placed

\* A core that has started or resumed a thread runs it.
LEMMA CoreRuns ==
    ASSUME Placed, NEW c \in Cores, NEW n \in Ids, core[c].at \in {"start", "resume"},
           core[c].n = n, NEW s \in ThreadRec, s.state = "active", ~s.copy,
           threads' = [threads EXCEPT ![n] = s],
           core' = [core EXCEPT ![c].at = "run"]
    PROVE  Placed'
  <1>1. /\ threads'[n] = s
        /\ \A m \in Ids \ {n} : threads'[m] = threads[m]
        /\ threads' \in [Ids -> ThreadRec]
    BY DEF Placed
  <1>2. n # 0
    BY DEF Ids
  <1>3. \A d \in Cores \ {c} : core[d].n # n
    BY <1>2 DEF Placed, CoresExact
  <1>4. \A d \in Cores : core[d].at # "ns" => core[d].n \in Ids
    BY StdCallAssumption DEF Placed, CoresExact, CoreType, Ids
  <1>5. /\ core'[c].n = n /\ core'[c].at = "run"
        /\ \A d \in Cores \ {c} : core'[d] = core[d]
    BY DEF Placed, CoreType
  <1>6. CoreType'
    BY StdCallAssumption DEF Placed, CoreType
  <1>7. CoresExact'
    <2>1. \A d \in Cores : core'[d].n = 0 <=> core'[d].at = "ns"
      BY <1>2, <1>5 DEF Placed, CoresExact
    <2>2. \A d, e \in Cores : core'[d].n # 0 /\ core'[d].n = core'[e].n => d = e
      BY <1>3, <1>5 DEF Placed, CoresExact
    <2>3. \A m \in Ids : threads'[m].state = "active" <=> \E d \in Cores : core'[d].n = m
      BY <1>1, <1>2, <1>3, <1>5 DEF Placed, CoresExact, Ids
    <2>4. \A d \in Cores : core'[d].at = "start" => threads'[core'[d].n].pc = "none"
      BY <1>1, <1>3, <1>4, <1>5 DEF Placed, CoresExact
    <2>5. \A d \in Cores : core'[d].at = "run" => ~threads'[core'[d].n].copy
      BY <1>1, <1>3, <1>4, <1>5 DEF Placed, CoresExact
    <2> QED
      BY <2>1, <2>2, <2>3, <2>4, <2>5 DEF CoresExact
  <1> QED
    BY <1>1, <1>6, <1>7 DEF Placed

-----------------------------------------------------------------------------
(* The steps *)

\* What is known of a thread
LEMMA OneThread ==
    ASSUME AllCalls, NEW n \in Ids
    PROVE  threads[n] \in ThreadRec /\ CallOK(threads[n], prealloc) /\ KeptOnce(threads[n])
  BY DEF AllCalls, ThreadsOK, LentExact

\* What is known of a thread that runs
LEMMA RunsFacts ==
    ASSUME AllCalls, Placed, NEW c \in Cores, NEW n \in Ids, NEW pc, Runs(c, n, pc)
    PROVE  /\ core[c] = [at |-> "run", n |-> n]
           /\ threads[n].state = "active" /\ ~threads[n].copy /\ threads[n].pc = pc
  <1>1. core[c].n = n /\ core[c].at = "run"
    BY DEF Runs
  <1> QED
    BY <1>1 DEF Runs, Placed, CoresExact

\* Every set of naturals that is not empty has a least element.
LEMMA MinIsLeast ==
    ASSUME NEW S \in SUBSET Nat, S # {}
    PROVE  Min(S) \in S
  <1> DEFINE R == OpToRel(<, Nat)
  <1>1. IsWellFoundedOn(R, Nat)
    BY NatLessThanWellFounded
  <1> HIDE DEF R
  <1>2. PICK x \in S : \A y \in S : <<y, x>> \notin R
    BY <1>1, WFMin
  <1>3. ASSUME NEW y \in S
        PROVE  x <= y
    <2>1. y < x => <<y, x>> \in R
      BY DEF R, OpToRel
    <2> QED
      BY <1>2, <2>1
  <1> QED
    BY <1>3 DEF Min

LEMMA AllocStep ==
    ASSUME AllCalls, Placed, NEW c \in Cores, alloc_thread(c)
    PROVE  AllCalls' /\ Placed'
  <1> DEFINE free == {m \in Ids : threads[m].state = "free"}
             n == Min(free)
  <1>1. /\ core[c] = NormalWorld /\ free # {}
        /\ threads' = [threads EXCEPT ![n].state = "active"]
        /\ core' = [core EXCEPT ![c] = [at |-> "start", n |-> n]]
        /\ UNCHANGED <<prealloc, lent>>
    BY DEF alloc_thread
  <1>2. n \in free
    BY <1>1, MinIsLeast DEF Ids
  <1>3. n \in Ids /\ threads[n].state = "free"
    BY <1>2
  <1> HIDE DEF n
  <1> DEFINE s == [threads[n] EXCEPT !.state = "active"]
  <1>4. threads' = [threads EXCEPT ![n] = s]
    BY <1>1
  <1>5. threads[n].pc = "none" /\ threads[n].regs # "request"
    BY <1>3, OneThread DEF CallOK, RegsOK
  <1>6. Goes(threads[n], s, prealloc)
    BY <1>3, <1>5, OneThread, ActivateFacts
  <1>7. s \in ThreadRec /\ s.state = "active" /\ s.pc = "none"
    BY <1>3, <1>5, <1>6, OneThread DEF Goes, ThreadRec
  <1> HIDE DEF s
  <1>8. AllCalls'
    BY <1>1, <1>3, <1>4, <1>6, OneGoes
  <1>9. Placed'
    BY <1>1, <1>3, <1>4, <1>7, CoreTakes
  <1> QED
    BY <1>8, <1>9

LEMMA StartStep ==
    ASSUME AllCalls, Placed, NEW c \in Cores, thread_alloc_and_run(c)
    PROVE  AllCalls' /\ Placed'
  <1> DEFINE n == core[c].n
  <1>1. PICK sup \in BOOLEAN :
           threads' = [threads EXCEPT ![n].copy = FALSE, ![n].pc = "entry",
                                      ![n].supplied = sup]
    BY DEF thread_alloc_and_run
  <1>2. /\ core[c].at = "start"
        /\ core' = [core EXCEPT ![c].at = "run"]
        /\ UNCHANGED <<prealloc, lent>>
    BY DEF thread_alloc_and_run
  <1>3. n \in Ids /\ threads[n].pc = "none" /\ threads[n].state = "active"
    BY <1>2, StdCallAssumption DEF Placed, CoresExact, CoreType, Ids
  <1>10. core[c].n = n
    OBVIOUS
  <1> HIDE DEF n
  <1> DEFINE s == [threads[n] EXCEPT !.copy = FALSE, !.pc = "entry", !.supplied = sup]
  <1>4. threads' = [threads EXCEPT ![n] = s]
    BY <1>1
  <1>5. Goes(threads[n], s, prealloc) /\ s.state = "active" /\ ~s.copy
    BY <1>3, OneThread, StartFacts
  <1>6. s \in ThreadRec
    BY <1>5 DEF Goes
  <1> HIDE DEF s
  <1>8. AllCalls'
    BY <1>2, <1>3, <1>4, <1>5, OneGoes
  <1>9. Placed'
    BY <1>2, <1>3, <1>4, <1>5, <1>6, <1>10, CoreRuns
  <1> QED
    BY <1>8, <1>9

LEMMA CopyStep ==
    ASSUME AllCalls, Placed, NEW c \in Cores, thread_resume(c)
    PROVE  AllCalls' /\ Placed'
  <1> DEFINE n == core[c].n
             s == CopyArgs(threads[n])
  <1>1. /\ core[c].at = "resume"
        /\ threads' = [threads EXCEPT ![n] = s]
        /\ core' = [core EXCEPT ![c].at = "run"]
        /\ UNCHANGED <<prealloc, lent>>
    BY DEF thread_resume, Update
  <1>3. n \in Ids /\ threads[n].state = "active" /\ core[c].n = n
    BY <1>1, StdCallAssumption DEF Placed, CoresExact, CoreType, Ids
  <1> HIDE DEF n
  <1>5. Goes(threads[n], s, prealloc) /\ s.state = "active" /\ ~s.copy
    BY <1>3, OneThread, CopyFacts
  <1>6. s \in ThreadRec
    BY <1>5 DEF Goes
  <1> HIDE DEF s
  <1>8. AllCalls'
    BY <1>1, <1>3, <1>5, OneGoes
  <1>9. Placed'
    BY <1>1, <1>3, <1>5, <1>6, CoreRuns
  <1> QED
    BY <1>8, <1>9

LEMMA LeaveStep ==
    ASSUME AllCalls, Placed, NEW c \in Cores,
           thread_foreign_intr_exit(c) \/ thread_state_free(c)
    PROVE  AllCalls' /\ Placed'
  <1>1. PICK n \in Ids :
           \/ /\ \E pc \in {"body", "bad", "finish", "exit", "rpc"} \cup Commands : Runs(c, n, pc)
              /\ threads' = [threads EXCEPT ![n] = [threads[n] EXCEPT !.state = "suspended"]]
              /\ core' = [core EXCEPT ![c] = NormalWorld]
              /\ UNCHANGED <<prealloc, lent>>
           \/ /\ Runs(c, n, "exit")
              /\ threads' = [threads EXCEPT ![n] =
                    [threads[n] EXCEPT !.state = "free", !.copy = FALSE, !.pc = "none"]]
              /\ core' = [core EXCEPT ![c] = NormalWorld]
              /\ UNCHANGED <<prealloc, lent>>
    BY DEF thread_foreign_intr_exit, thread_state_free, thread_state_suspend, Update
  <1>2. /\ core[c] = [at |-> "run", n |-> n]
        /\ threads[n].state = "active" /\ ~threads[n].copy /\ threads[n].pc # "none"
    BY <1>1, RunsFacts DEF Commands
  <1>3. PICK s : /\ \/ s = [threads[n] EXCEPT !.state = "suspended"]
                    \/ /\ threads[n].pc = "exit"
                       /\ s = [threads[n] EXCEPT !.state = "free", !.copy = FALSE, !.pc = "none"]
                 /\ threads' = [threads EXCEPT ![n] = s]
    BY <1>1, RunsFacts
  <1>4. Goes(threads[n], s, prealloc)
    BY <1>2, <1>3, OneThread, SuspendFacts
  <1>5. s \in ThreadRec /\ s.state # "active"
    BY <1>3, <1>4, OneThread DEF Goes, ThreadRec
  <1>8. AllCalls'
    BY <1>1, <1>3, <1>4, OneGoes
  <1>9. Placed'
    BY <1>1, <1>2, <1>3, <1>5, CoreLeaves
  <1> QED
    BY <1>8, <1>9

LEMMA ServeStep ==
    ASSUME AllCalls, Placed, NEW c \in Cores, thread_resume_from_rpc(c)
    PROVE  AllCalls' /\ Placed'
  <1>1. PICK n \in Ids :
           LET q == threads[n].req
               asked == threads[n].regs = "request"
           IN  /\ core[c] = NormalWorld
               /\ Resumable(n)
               /\ core' = [core EXCEPT ![c] = [at |-> "resume", n |-> n]]
               /\ \/ /\ asked /\ q.cmd \in {"ALLOC", "SHM_ALLOC"}
                     /\ \E b \in (Buffers \ lent) \cup {NoBuf} :
                           /\ threads' = [threads EXCEPT ![n].state = "active", ![n].req.buf = b]
                           /\ lent' = lent \cup ({b} \ {NoBuf})
                  \/ /\ asked /\ q.cmd \in {"FREE", "SHM_FREE"}
                     /\ threads' = [threads EXCEPT ![n].state = "active"]
                     /\ lent' = lent \ {q.buf}
                  \/ /\ asked => q.cmd = "CMD"
                     /\ threads' = [threads EXCEPT ![n].state = "active"]
                     /\ UNCHANGED lent
               /\ UNCHANGED prealloc
    BY DEF thread_resume_from_rpc
  <1> DEFINE r == threads[n]
  <1>2. r.state = "suspended" /\ r \in ThreadRec /\ CallOK(r, prealloc) /\ KeptOnce(r)
    BY <1>1, OneThread DEF Resumable
  <1>3. SUFFICES \E s \in ThreadRec : /\ s.state = "active"
                                      /\ threads' = [threads EXCEPT ![n] = s]
                                      /\ AllCalls'
    BY <1>1, <1>2, CoreTakes
  <1>4. CASE /\ r.regs = "request" /\ r.req.cmd \in {"ALLOC", "SHM_ALLOC"}
             /\ \E b \in (Buffers \ lent) \cup {NoBuf} :
                   /\ threads' = [threads EXCEPT ![n].state = "active", ![n].req.buf = b]
                   /\ lent' = lent \cup ({b} \ {NoBuf})
    <2>1. PICK b \in (Buffers \ lent) \cup {NoBuf} :
             /\ threads' = [threads EXCEPT ![n].state = "active", ![n].req.buf = b]
             /\ lent' = lent \cup ({b} \ {NoBuf})
      BY <1>4
    <2>6. PICK s : s = [r EXCEPT !.state = "active", !.req = [cmd |-> r.req.cmd, buf |-> b]]
      OBVIOUS
    <2>7. [r.req EXCEPT !.buf = b] = [cmd |-> r.req.cmd, buf |-> b]
      BY <1>2 DEF ThreadRec
    <2>2. threads' = [threads EXCEPT ![n] = s]
      BY <2>1, <2>6, <2>7
    <2>3. b \notin Kept(r) /\ b \in Buffers \cup {NoBuf}
      BY DEF AllCalls, LentExact, Kept
    <2>4. s.state = "active"
      BY <1>2, <2>6 DEF ThreadRec
    <2>5. Gets(r, s, prealloc, b)
      <3> HIDE DEF r
      <3>1. /\ r.state # "active" /\ r.regs = "request"
            /\ r.req.cmd \in {"ALLOC", "SHM_ALLOC"}
        BY <1>2, <1>4
      <3> QED
        BY <1>2, <2>3, <2>6, <3>1, GrantFacts
    <2> QED
      BY <1>1, <2>1, <2>2, <2>4, <2>5, OneGets DEF Gets
  <1>5. CASE /\ r.regs = "request" /\ r.req.cmd \in {"FREE", "SHM_FREE"}
             /\ threads' = [threads EXCEPT ![n].state = "active"]
             /\ lent' = lent \ {r.req.buf}
    <2> DEFINE s == [r EXCEPT !.state = "active"]
    <2>1. threads' = [threads EXCEPT ![n] = s]
      BY <1>5
    <2>2. s.state = "active"
      BY <1>2 DEF ThreadRec
    <2>3. GivesBack(r, s, prealloc, r.req.buf)
      BY <1>2, <1>5, TakeFacts
    <2> HIDE DEF s
    <2> QED
      BY <1>1, <1>5, <2>1, <2>2, <2>3, OneGivesBack DEF GivesBack
  <1>6. CASE /\ r.regs = "request" => r.req.cmd = "CMD"
             /\ threads' = [threads EXCEPT ![n].state = "active"]
             /\ UNCHANGED lent
    <2> DEFINE s == [r EXCEPT !.state = "active"]
    <2>1. threads' = [threads EXCEPT ![n] = s]
      BY <1>6
    <2>2. s.state = "active"
      BY <1>2 DEF ThreadRec
    <2>3. Goes(r, s, prealloc)
      BY <1>2, <1>6, ActivateFacts
    <2>4. s \in ThreadRec
      BY <2>3 DEF Goes
    <2> HIDE DEF s
    <2> QED
      BY <1>1, <1>6, <2>1, <2>2, <2>3, <2>4, OneGoes
  <1> QED
    BY <1>1, <1>4, <1>5, <1>6

\* A running thread goes on.
LEMMA StayStep ==
    ASSUME AllCalls, Placed, NEW c \in Cores, NEW n \in Ids,
           core[c] = [at |-> "run", n |-> n], NEW s, Goes(threads[n], s, prealloc),
           s.state = "active", ~s.copy, threads' = [threads EXCEPT ![n] = s],
           UNCHANGED <<core, prealloc, lent>>
    PROVE  AllCalls' /\ Placed'
  <1>1. s \in ThreadRec
    BY DEF Goes
  <1>2. AllCalls'
    BY OneGoes
  <1>3. Placed'
    BY <1>1, CoreStays
  <1> QED
    BY <1>2, <1>3

\* What a thread must have to make a request
CanAsk(r, cached, cmd, buf, cont) ==
    /\ cmd = "FREE" =>
          /\ buf = r.rpc_mobj /\ r.rpc_mobj # NoBuf /\ r.shm = NoBuf
          /\ cont \in {"supply", "exit"} /\ (cont = "supply" => cached)
    /\ cmd = "SHM_FREE" =>
          /\ buf = r.shm /\ r.shm # NoBuf /\ cont \in {"SHM_ALLOC", "body", "finish"}
    /\ cmd = "ALLOC" => r.rpc_arg = NoBuf /\ cont \in Commands /\ buf = NoBuf
    /\ cmd = "SHM_ALLOC" => r.shm = NoBuf /\ cont = "body" /\ buf = NoBuf
    /\ cmd = "CMD" => cont = "body"
    /\ r.supplied /\ r.rpc_arg # "supplied" => cmd = "FREE"

\* A running thread makes a request.
LEMMA RpcStep ==
    ASSUME AllCalls, Placed, NEW c \in Cores, NEW n \in Ids, NEW p,
           Runs(c, n, p), p \notin {"none", "rpc"},
           NEW cmd \in Requested \ {"none"}, NEW buf \in Buffers \cup {NoBuf},
           NEW cont \in Continuations \ {"none"},
           CanAsk(threads[n], prealloc, cmd, buf, cont),
           thread_rpc(c, n, threads[n], cmd, buf, cont), UNCHANGED <<prealloc, lent>>
    PROVE  AllCalls' /\ Placed'
  <1>1. /\ core[c] = [at |-> "run", n |-> n]
        /\ threads[n].pc \notin {"none", "rpc"}
    BY RunsFacts
  <1>2. threads[n] \in ThreadRec /\ CallOK(threads[n], prealloc) /\ KeptOnce(threads[n])
    BY OneThread
  <1>3. PICK s : /\ s = [threads[n] EXCEPT !.pc = "rpc", !.copy = TRUE, !.regs = "request",
                            !.req = [cmd |-> cmd, buf |-> buf], !.cont = cont,
                            !.state = "suspended"]
                 /\ threads' = [threads EXCEPT ![n] = s]
                 /\ core' = [core EXCEPT ![c] = NormalWorld]
    BY DEF thread_rpc, thread_state_suspend, Update
  <1>4. /\ s.pc = "rpc" /\ s.regs = "request" /\ s.cont = cont
        /\ s.req.cmd = cmd /\ s.req.buf = buf /\ s.state = "suspended"
        /\ s.rpc_arg = threads[n].rpc_arg
        /\ s.rpc_mobj = threads[n].rpc_mobj /\ s.shm = threads[n].shm
    BY <1>2, <1>3 DEF ThreadRec
  <1>5. RequestOK(s, prealloc)
    BY <1>4 DEF RequestOK, CanAsk
  <1>6. threads[n].supplied /\ threads[n].rpc_arg # "supplied" => cmd = "FREE"
    BY DEF CanAsk
  <1>7. Goes(threads[n], s, prealloc)
    BY <1>1, <1>2, <1>3, <1>5, <1>6, AskFacts
  <1>8. s \in ThreadRec /\ s.state # "active"
    BY <1>4, <1>7 DEF Goes
  <1>9. AllCalls'
    BY <1>3, <1>7, OneGoes
  <1>10. Placed'
    BY <1>1, <1>3, <1>8, CoreLeaves
  <1> QED
    BY <1>9, <1>10

LEMMA ContinueStep ==
    ASSUME AllCalls, Placed, NEW c \in Cores, Continue(c)
    PROVE  AllCalls' /\ Placed'
  <1>1. PICK n \in Ids : /\ Runs(c, n, "rpc")
                         /\ threads' = [threads EXCEPT ![n] = Taken(threads[n])]
                         /\ UNCHANGED <<core, prealloc, lent>>
    BY DEF Continue, Update, Taken
  <1>2. /\ core[c] = [at |-> "run", n |-> n]
        /\ threads[n].state = "active" /\ ~threads[n].copy /\ threads[n].pc = "rpc"
    BY <1>1, RunsFacts
  <1>3. PICK s : s = Taken(threads[n])
    OBVIOUS
  <1>4. Goes(threads[n], s, prealloc) /\ s.state = "active" /\ ~s.copy
    BY <1>2, <1>3, OneThread, ContinueFacts
  <1> QED
    BY <1>1, <1>2, <1>3, <1>4, StayStep

\* A running thread changes its point and its argument.
LEMMA PointStep ==
    ASSUME AllCalls, Placed, NEW c \in Cores, NEW n \in Ids, NEW p,
           Runs(c, n, p), p \notin {"none", "rpc"}, NEW p2 \in Points \ {"none", "rpc"},
           NEW a \in Buffers \cup {NoBuf, "supplied"}, NEW s,
           s = [threads[n] EXCEPT !.pc = p2, !.rpc_arg = a], ArgOK(s, prealloc),
           threads' = [threads EXCEPT ![n] = s], UNCHANGED <<core, prealloc, lent>>
    PROVE  AllCalls' /\ Placed'
  <1>1. /\ core[c] = [at |-> "run", n |-> n] /\ threads[n].state = "active"
        /\ threads[n].pc \notin {"none", "rpc"}
    BY RunsFacts
  <1>3. threads[n] \in ThreadRec /\ CallOK(threads[n], prealloc) /\ KeptOnce(threads[n])
    BY OneThread
  <1>4. s.pc = p2 /\ s.rpc_arg = a
    BY <1>3 DEF ThreadRec
  <1>2. Goes(threads[n], s, prealloc) /\ s.state = "active" /\ ~s.copy
    BY <1>1, <1>3, <1>4, StepFacts
  <1> QED
    BY <1>1, <1>2, StayStep

\* What is known of a thread that runs and has nothing asked
LEMMA CallNow ==
    ASSUME AllCalls, Placed, NEW c \in Cores, NEW n \in Ids, NEW p, Runs(c, n, p),
           p # "rpc"
    PROVE  /\ threads[n] \in ThreadRec /\ ArgOK(threads[n], prealloc)
           /\ threads[n].pc = p /\ threads[n].req.cmd = "none"
  <1>1. threads[n] \in ThreadRec /\ CallOK(threads[n], prealloc)
    BY OneThread
  <1>2. threads[n].pc = p
    BY RunsFacts
  <1>3. RegsOK(threads[n]) /\ ArgOK(threads[n], prealloc)
    BY <1>1 DEF CallOK
  <1> QED
    BY <1>1, <1>2, <1>3 DEF RegsOK

\* What a change of point and argument leaves
LEMMA PointFields ==
    ASSUME NEW r \in ThreadRec, NEW p, NEW a
    PROVE  LET s == [r EXCEPT !.pc = p, !.rpc_arg = a]
           IN  /\ s.pc = p /\ s.rpc_arg = a /\ s.req = r.req
               /\ s.supplied = r.supplied /\ s.rpc_mobj = r.rpc_mobj /\ s.shm = r.shm
  BY DEF ThreadRec

LEMMA EntryStep ==
    ASSUME AllCalls, Placed, NEW c \in Cores, call_entry_std(c)
    PROVE  AllCalls' /\ Placed'
  <1>1. PICK n \in Ids :
           /\ Runs(c, n, "entry")
           /\ IF EntryClears(threads[n])
              THEN clear_prealloc_rpc_cache(c, n, threads[n], "supply")
              ELSE Update(n, [threads[n] EXCEPT !.pc = "supply"]) /\ UNCHANGED core
           /\ UNCHANGED <<prealloc, lent>>
    BY DEF call_entry_std
  <1>2. /\ threads[n] \in ThreadRec /\ ArgOK(threads[n], prealloc)
        /\ threads[n].pc = "entry"
    BY <1>1, CallNow
  <1>3. threads[n].rpc_arg # "supplied" /\ threads[n].rpc_arg = threads[n].rpc_mobj
    BY <1>2 DEF ArgOK
  <1>4. CASE EntryClears(threads[n]) /\ threads[n].rpc_mobj # NoBuf
    <2>1. thread_rpc(c, n, threads[n], "FREE", threads[n].rpc_mobj, "supply")
      BY <1>1, <1>4 DEF clear_prealloc_rpc_cache
    <2>2. CanAsk(threads[n], prealloc, "FREE", threads[n].rpc_mobj, "supply")
      BY <1>2, <1>4 DEF CanAsk, ArgOK, EntryClears
    <2>3. threads[n].rpc_mobj \in Buffers \cup {NoBuf}
      BY <1>2 DEF ThreadRec
    <2>4. "FREE" \in Requested \ {"none"} /\ "supply" \in Continuations \ {"none"}
      BY DEF Requested, Continuations
    <2> QED
      BY <1>1, <2>1, <2>2, <2>3, <2>4, RpcStep
  <1>5. CASE ~(EntryClears(threads[n]) /\ threads[n].rpc_mobj # NoBuf)
    <2> DEFINE s == [threads[n] EXCEPT !.pc = "supply", !.rpc_arg = threads[n].rpc_mobj]
    <2>1. threads' = [threads EXCEPT ![n] = s] /\ UNCHANGED core
      <3>1. CASE EntryClears(threads[n])
        BY <1>1, <1>2, <1>3, <1>5, <3>1 DEF clear_prealloc_rpc_cache, Update, ThreadRec
      <3>2. CASE ~EntryClears(threads[n])
        <4>1. threads' = [threads EXCEPT ![n] = [threads[n] EXCEPT !.pc = "supply"]]
          BY <1>1, <3>2 DEF Update
        <4>2. [threads[n] EXCEPT !.pc = "supply"] = s
          BY <1>2, <1>3 DEF ThreadRec
        <4> QED
          BY <1>1, <3>2, <4>1, <4>2
      <3> QED
        BY <3>1, <3>2
    <2>2. "supply" \in Points /\ threads[n].rpc_mobj \in Buffers \cup {NoBuf, "supplied"}
      BY <1>2 DEF ThreadRec, Points
    <2>3. /\ s.pc = "supply" /\ s.rpc_arg = threads[n].rpc_mobj /\ s.req = threads[n].req
          /\ s.supplied = threads[n].supplied /\ s.rpc_mobj = threads[n].rpc_mobj
          /\ s.shm = threads[n].shm
      BY <1>2, PointFields
    <2> HIDE DEF s
    <2>4. ArgOK(s, prealloc)
      BY <1>2, <1>3, <1>5, <2>3 DEF ArgOK, EntryClears
    <2>5. s = [threads[n] EXCEPT !.pc = "supply", !.rpc_arg = threads[n].rpc_mobj]
      BY DEF s
    <2> QED
      BY <1>1, <2>1, <2>2, <2>4, <2>5, PointStep
  <1> QED
    BY <1>4, <1>5

LEMMA SupplyStep ==
    ASSUME AllCalls, Placed, NEW c \in Cores, tee_entry_std(c)
    PROVE  AllCalls' /\ Placed'
  <1>1. PICK n \in Ids, next \in {"body", "bad"} :
           /\ Runs(c, n, "supply")
           /\ threads' = [threads EXCEPT ![n] = [threads[n] EXCEPT !.pc = next,
                 !.rpc_arg = IF threads[n].supplied THEN "supplied" ELSE threads[n].rpc_arg]]
           /\ UNCHANGED <<core, prealloc, lent>>
    BY DEF tee_entry_std, Update
  <1>2. /\ threads[n] \in ThreadRec /\ ArgOK(threads[n], prealloc)
        /\ threads[n].pc = "supply" /\ threads[n].req.cmd = "none"
    BY <1>1, CallNow
  <1> DEFINE a == IF threads[n].supplied THEN "supplied" ELSE threads[n].rpc_arg
  <1>3. next \in Points /\ next \notin {"none", "rpc"}
        /\ a \in Buffers \cup {NoBuf, "supplied"}
    BY <1>2 DEF ThreadRec, Points
  <1>4. a = IF threads[n].supplied THEN "supplied" ELSE threads[n].rpc_arg
    OBVIOUS
  <1>5. PICK s : s = [threads[n] EXCEPT !.pc = next, !.rpc_arg = a]
    OBVIOUS
  <1>6. threads' = [threads EXCEPT ![n] = s]
    BY <1>1, <1>5
  <1> HIDE DEF a
  <1>7. /\ s.pc = next /\ s.rpc_arg = a /\ s.req = threads[n].req
        /\ s.supplied = threads[n].supplied /\ s.rpc_mobj = threads[n].rpc_mobj
        /\ s.shm = threads[n].shm
    BY <1>2, <1>5 DEF ThreadRec
  <1>8. ArgOK(s, prealloc)
    BY <1>2, <1>3, <1>4, <1>7 DEF ArgOK
  <1> QED
    BY <1>1, <1>3, <1>5, <1>6, <1>8, PointStep

\* A request of a call, for which an argument may have to be allocated first
LEMMA RequestsStep ==
    ASSUME AllCalls, Placed, NEW c \in Cores, NEW n \in Ids, NEW p \in {"body"} \cup Commands,
           Runs(c, n, p), NEW cmd \in Commands, NEW buf \in Buffers \cup {NoBuf},
           NEW cont \in {"body", "SHM_ALLOC"},
           cmd = "SHM_FREE" => buf = threads[n].shm /\ threads[n].shm # NoBuf,
           cmd = "SHM_ALLOC" => threads[n].shm = NoBuf /\ buf = NoBuf /\ cont = "body",
           cmd = "CMD" => cont = "body",
           Requests(c, n, cmd, buf, cont), UNCHANGED <<prealloc, lent>>
    PROVE  AllCalls' /\ Placed'
  <1>1. /\ threads[n] \in ThreadRec /\ ArgOK(threads[n], prealloc)
        /\ threads[n].pc = p /\ threads[n].req.cmd = "none" /\ p \notin {"none", "rpc"}
    <2>1. p # "rpc" /\ p # "none"
      BY DEF Commands
    <2> QED
      BY <2>1, CallNow
  <1>2. threads[n].supplied => threads[n].rpc_arg = "supplied"
    BY <1>1 DEF ArgOK, Commands
  <1>3. CASE threads[n].rpc_arg = NoBuf
    <2>1. thread_rpc(c, n, threads[n], "ALLOC", NoBuf, cmd)
      BY <1>3 DEF Requests
    <2>2. CanAsk(threads[n], prealloc, "ALLOC", NoBuf, cmd)
      BY <1>2, <1>3 DEF CanAsk
    <2>3. "ALLOC" \in Requested \ {"none"} /\ cmd \in Continuations \ {"none"}
          /\ NoBuf \in Buffers \cup {NoBuf}
      BY DEF Requested, Continuations, Commands
    <2> QED
      BY <1>1, <2>1, <2>2, <2>3, RpcStep
  <1>4. CASE threads[n].rpc_arg # NoBuf
    <2>1. thread_rpc(c, n, threads[n], cmd, buf, cont)
      BY <1>4 DEF Requests
    <2>2. CanAsk(threads[n], prealloc, cmd, buf, cont)
      BY <1>2, <1>4 DEF CanAsk, Commands
    <2>3. cmd \in Requested \ {"none"} /\ cont \in Continuations \ {"none"}
      BY DEF Requested, Continuations, Commands
    <2> QED
      BY <1>1, <2>1, <2>2, <2>3, RpcStep
  <1> QED
    BY <1>3, <1>4

LEMMA RpcInCallStep ==
    ASSUME AllCalls, Placed, NEW c \in Cores, RpcInCall(c)
    PROVE  AllCalls' /\ Placed'
  <1>1. PICK n \in Ids :
           /\ \/ /\ Runs(c, n, "body") \/ Runs(c, n, "CMD")
                 /\ Requests(c, n, "CMD", NoBuf, "body")
              \/ /\ Runs(c, n, "body") \/ Runs(c, n, "SHM_ALLOC")
                 /\ threads[n].shm = NoBuf
                 /\ Requests(c, n, "SHM_ALLOC", NoBuf, "body")
              \/ /\ Runs(c, n, "body") /\ threads[n].shm # NoBuf
                 /\ \E cont \in {"SHM_ALLOC", "body"} :
                       Requests(c, n, "SHM_FREE", threads[n].shm, cont)
           /\ UNCHANGED <<prealloc, lent>>
    BY DEF RpcInCall
  <1>2. /\ "CMD" \in Commands /\ "SHM_ALLOC" \in Commands /\ "SHM_FREE" \in Commands
        /\ NoBuf \in Buffers \cup {NoBuf} /\ threads[n].shm \in Buffers \cup {NoBuf}
        /\ "body" \in {"body"} \cup Commands
    BY OneThread DEF Commands, ThreadRec
  <1>3. ASSUME NEW p \in {"body"} \cup Commands, Runs(c, n, p),
               Requests(c, n, "CMD", NoBuf, "body")
        PROVE  AllCalls' /\ Placed'
    BY <1>1, <1>2, <1>3, RequestsStep
  <1>4. ASSUME NEW p \in {"body"} \cup Commands, Runs(c, n, p), threads[n].shm = NoBuf,
               Requests(c, n, "SHM_ALLOC", NoBuf, "body")
        PROVE  AllCalls' /\ Placed'
    BY <1>1, <1>2, <1>4, RequestsStep
  <1>5. ASSUME Runs(c, n, "body"), threads[n].shm # NoBuf,
               NEW cont \in {"SHM_ALLOC", "body"},
               Requests(c, n, "SHM_FREE", threads[n].shm, cont)
        PROVE  AllCalls' /\ Placed'
    BY <1>1, <1>2, <1>5, RequestsStep
  <1> QED
    BY <1>1, <1>2, <1>3, <1>4, <1>5

LEMMA ShmClearStep ==
    ASSUME AllCalls, Placed, NEW c \in Cores, thread_rpc_shm_cache_clear(c)
    PROVE  AllCalls' /\ Placed'
  <1>1. PICK n \in Ids :
           /\ Runs(c, n, "body")
           /\ IF threads[n].shm # NoBuf
              THEN thread_rpc(c, n, threads[n], "SHM_FREE", threads[n].shm, "finish")
              ELSE Update(n, [threads[n] EXCEPT !.pc = "finish"]) /\ UNCHANGED core
           /\ UNCHANGED <<prealloc, lent>>
    BY DEF thread_rpc_shm_cache_clear
  <1>2. /\ threads[n] \in ThreadRec /\ ArgOK(threads[n], prealloc)
        /\ threads[n].pc = "body" /\ threads[n].req.cmd = "none"
    BY <1>1, CallNow
  <1>3. threads[n].supplied => threads[n].rpc_arg = "supplied"
    BY <1>2 DEF ArgOK
  <1>4. CASE threads[n].shm # NoBuf
    <2>1. CanAsk(threads[n], prealloc, "SHM_FREE", threads[n].shm, "finish")
      BY <1>3, <1>4 DEF CanAsk
    <2>2. /\ "SHM_FREE" \in Requested \ {"none"} /\ "finish" \in Continuations \ {"none"}
          /\ threads[n].shm \in Buffers \cup {NoBuf}
      BY <1>2 DEF Requested, Continuations, Commands, ThreadRec
    <2> QED
      BY <1>1, <1>4, <2>1, <2>2, RpcStep
  <1>5. CASE threads[n].shm = NoBuf
    <2>1. PICK s : s = [threads[n] EXCEPT !.pc = "finish", !.rpc_arg = threads[n].rpc_arg]
      OBVIOUS
    <2>2. threads' = [threads EXCEPT ![n] = s] /\ UNCHANGED core
      <3>1. [threads[n] EXCEPT !.pc = "finish"] = s
        BY <1>2, <2>1 DEF ThreadRec
      <3> QED
        BY <1>1, <1>5, <3>1 DEF Update
    <2>3. /\ s.pc = "finish" /\ s.rpc_arg = threads[n].rpc_arg /\ s.req = threads[n].req
          /\ s.supplied = threads[n].supplied /\ s.rpc_mobj = threads[n].rpc_mobj
          /\ s.shm = threads[n].shm
      BY <1>2, <2>1, PointFields
    <2>4. ArgOK(s, prealloc)
      BY <1>2, <1>3, <1>5, <2>3 DEF ArgOK
    <2>5. /\ "finish" \in Points \ {"none", "rpc"}
          /\ threads[n].rpc_arg \in Buffers \cup {NoBuf, "supplied"}
      BY <1>2 DEF ThreadRec, Points
    <2> QED
      BY <1>1, <2>1, <2>2, <2>4, <2>5, PointStep
  <1> QED
    BY <1>4, <1>5

LEMMA FinishStep ==
    ASSUME AllCalls, Placed, NEW c \in Cores, FinishCall(c)
    PROVE  AllCalls' /\ Placed'
  <1>1. PICK n \in Ids :
           LET r == [threads[n] EXCEPT !.rpc_arg =
                        IF threads[n].supplied THEN NoBuf ELSE threads[n].rpc_arg]
           IN  /\ \/ /\ Runs(c, n, "finish") /\ ~prealloc
                     /\ clear_prealloc_rpc_cache(c, n, r, "exit")
                  \/ /\ \/ Runs(c, n, "finish") /\ prealloc
                        \/ Runs(c, n, "bad")
                     /\ Update(n, [r EXCEPT !.pc = "exit"])
                     /\ UNCHANGED core
               /\ UNCHANGED <<prealloc, lent>>
    BY DEF FinishCall
  <1> DEFINE a == IF threads[n].supplied THEN NoBuf ELSE threads[n].rpc_arg
             r == [threads[n] EXCEPT !.rpc_arg = a]
  <1>2. PICK p \in {"finish", "bad"} : Runs(c, n, p)
    BY <1>1
  <1>3. /\ threads[n] \in ThreadRec /\ ArgOK(threads[n], prealloc)
        /\ threads[n].pc = p /\ threads[n].req.cmd = "none"
    BY <1>2, CallNow
  <1>4. /\ threads[n].supplied <=> threads[n].rpc_arg = "supplied"
        /\ threads[n].rpc_arg = "supplied" => threads[n].rpc_mobj = NoBuf
        /\ threads[n].rpc_arg # "supplied" => threads[n].rpc_arg = threads[n].rpc_mobj
        /\ threads[n].shm = NoBuf
        /\ ~prealloc /\ p = "bad" => threads[n].rpc_mobj = NoBuf
    BY <1>3 DEF ArgOK
  <1>5. a = threads[n].rpc_mobj /\ r.rpc_mobj = threads[n].rpc_mobj
    BY <1>3, <1>4 DEF ThreadRec
  <1>6. ASSUME threads' = [threads EXCEPT ![n] = [threads[n] EXCEPT !.pc = "exit", !.rpc_arg = a]],
               UNCHANGED <<core, prealloc, lent>>,
               prealloc \/ threads[n].rpc_mobj = NoBuf
        PROVE  AllCalls' /\ Placed'
    <2>1. PICK s : s = [threads[n] EXCEPT !.pc = "exit", !.rpc_arg = a]
      OBVIOUS
    <2>2. threads' = [threads EXCEPT ![n] = s]
      BY <1>6, <2>1
    <2>3. /\ s.pc = "exit" /\ s.rpc_arg = a /\ s.req = threads[n].req
          /\ s.supplied = threads[n].supplied /\ s.rpc_mobj = threads[n].rpc_mobj
          /\ s.shm = threads[n].shm
      BY <1>3, <2>1, PointFields
    <2>4. "exit" \in Points \ {"none", "rpc"} /\ a \in Buffers \cup {NoBuf, "supplied"}
      BY <1>3, <1>5 DEF ThreadRec, Points
    <2> HIDE DEF a
    <2>5. threads[n].rpc_mobj # "supplied"
      BY <1>3, StdCallAssumption DEF ThreadRec
    <2>6. ArgOK(s, prealloc)
      BY <1>4, <1>5, <1>6, <2>3, <2>5 DEF ArgOK
    <2>7. p \notin {"none", "rpc"}
      OBVIOUS
    <2> QED
      BY <1>2, <1>6, <2>1, <2>2, <2>4, <2>6, <2>7, PointStep
  <1>7. CASE /\ Runs(c, n, "finish") /\ ~prealloc
             /\ clear_prealloc_rpc_cache(c, n, r, "exit")
    <2>1. CASE threads[n].rpc_mobj # NoBuf
      <3>1. ~threads[n].supplied
        BY <1>4, <2>1
      <3>2. r = threads[n]
        BY <1>3, <3>1 DEF ThreadRec
      <3>3. thread_rpc(c, n, threads[n], "FREE", threads[n].rpc_mobj, "exit")
        BY <1>5, <1>7, <2>1, <3>2 DEF clear_prealloc_rpc_cache
      <3>4. CanAsk(threads[n], prealloc, "FREE", threads[n].rpc_mobj, "exit")
        BY <1>4, <2>1, <3>1 DEF CanAsk
      <3>5. /\ "FREE" \in Requested \ {"none"} /\ "exit" \in Continuations \ {"none"}
            /\ threads[n].rpc_mobj \in Buffers \cup {NoBuf}
        BY <1>3 DEF Requested, Continuations, ThreadRec
      <3>6. UNCHANGED <<prealloc, lent>>
        BY <1>1
      <3> QED
        BY <1>7, <3>3, <3>4, <3>5, <3>6, RpcStep
    <2>2. CASE threads[n].rpc_mobj = NoBuf
      <3>1. /\ threads' = [threads EXCEPT ![n] = [r EXCEPT !.rpc_arg = NoBuf, !.pc = "exit"]]
            /\ UNCHANGED core
        BY <1>5, <1>7, <2>2 DEF clear_prealloc_rpc_cache, Update
      <3>2. [r EXCEPT !.rpc_arg = NoBuf, !.pc = "exit"]
               = [threads[n] EXCEPT !.pc = "exit", !.rpc_arg = a]
        BY <1>3, <1>5, <2>2 DEF ThreadRec
      <3> QED
        BY <1>1, <1>6, <2>2, <3>1, <3>2
    <2> QED
      BY <2>1, <2>2
  <1>8. CASE /\ \/ Runs(c, n, "finish") /\ prealloc
                \/ Runs(c, n, "bad")
             /\ Update(n, [r EXCEPT !.pc = "exit"])
             /\ UNCHANGED core
    <2>1. threads' = [threads EXCEPT ![n] = [r EXCEPT !.pc = "exit"]]
      BY <1>8 DEF Update
    <2>2. [r EXCEPT !.pc = "exit"] = [threads[n] EXCEPT !.pc = "exit", !.rpc_arg = a]
      BY <1>3 DEF ThreadRec
    <2>3. prealloc \/ threads[n].rpc_mobj = NoBuf
      <3>1. threads[n].pc = "bad" \/ prealloc
        BY <1>8 DEF Runs
      <3> QED
        BY <1>3, <1>4, <3>1
    <2> QED
      BY <1>1, <1>6, <1>8, <2>1, <2>2, <2>3
  <1> QED
    BY <1>1, <1>7, <1>8

-----------------------------------------------------------------------------
(* The cache of arguments is switched *)

\* A free thread has nothing asked and no payload, and keeps its argument only.
LEMMA FreeFacts ==
    ASSUME NEW cached, NEW r \in ThreadRec, CallOK(r, cached), r.state = "free"
    PROVE  /\ r.pc = "none" /\ r.req.cmd = "none" /\ r.regs = "own" /\ r.cont = "none"
           /\ ~r.copy /\ r.shm = NoBuf /\ r.rpc_arg = r.rpc_mobj
           /\ (~cached => r.rpc_mobj = NoBuf)
  <1>1. RegsOK(r) /\ ArgOK(r, cached)
    BY DEF CallOK
  <1>2. r.pc = "none" /\ r.req.cmd = "none" /\ r.regs = "own" /\ r.cont = "none" /\ ~r.copy
    BY <1>1 DEF RegsOK, ThreadRec
  <1> QED
    BY <1>1, <1>2 DEF ArgOK

\* What is known of a free thread depends on the cache only by its argument.
LEMMA FreeCallOK ==
    ASSUME NEW cached, NEW r \in ThreadRec, CallOK(r, cached), r.state = "free",
           NEW now, now \/ r.rpc_mobj = NoBuf
    PROVE  CallOK(r, now)
  <1>1. /\ r.pc = "none" /\ r.req.cmd = "none" /\ r.shm = NoBuf /\ r.rpc_arg = r.rpc_mobj
    BY FreeFacts
  <1>2. RegsOK(r) /\ ArgOK(r, cached)
    BY DEF CallOK
  <1>3. ArgOK(r, now)
    BY <1>1, <1>2 DEF ArgOK
  <1>4. RequestOK(r, now)
    BY <1>1 DEF RequestOK
  <1> QED
    BY <1>2, <1>3, <1>4 DEF CallOK

LEMMA SwitchStep ==
    ASSUME AllCalls, Placed, AllFree, UNCHANGED <<threads, core, lent>>,
           prealloc' \/ \A n \in Ids : threads[n].rpc_arg = NoBuf
    PROVE  AllCalls' /\ Placed'
  <1>1. ASSUME NEW n \in Ids
        PROVE  CallOK(threads[n], prealloc')
    <2>1. /\ threads[n] \in ThreadRec /\ CallOK(threads[n], prealloc)
          /\ threads[n].state = "free"
      BY OneThread DEF AllFree
    <2>2. threads[n].rpc_arg = threads[n].rpc_mobj
      BY <2>1, FreeFacts
    <2> QED
      BY <2>1, <2>2, FreeCallOK
  <1>2. ThreadsOK'
    BY <1>1 DEF ThreadsOK
  <1>3. LentExact'
    BY DEF AllCalls, LentExact
  <1>4. Placed'
    BY DEF Placed, CoreType, CoresExact
  <1> QED
    BY <1>2, <1>3, <1>4 DEF AllCalls

\* The cached argument of a free thread is given back.
LEMMA DropFacts ==
    ASSUME NEW cached, NEW r \in ThreadRec, CallOK(r, cached), KeptOnce(r), r.state = "free",
           r.rpc_arg # NoBuf, NEW s, s = [r EXCEPT !.rpc_arg = NoBuf, !.rpc_mobj = NoBuf]
    PROVE  GivesBack(r, s, cached, r.rpc_mobj)
  <1>1. s \in ThreadRec
    BY DEF ThreadRec
  <1>2. /\ s.state = r.state /\ s.pc = r.pc /\ s.copy = r.copy /\ s.regs = r.regs
        /\ s.cont = r.cont /\ s.req = r.req /\ s.supplied = r.supplied /\ s.shm = r.shm
        /\ s.rpc_arg = NoBuf /\ s.rpc_mobj = NoBuf
    BY DEF ThreadRec
  <1>3. /\ r.pc = "none" /\ r.req.cmd = "none" /\ r.regs = "own"
        /\ r.shm = NoBuf /\ r.rpc_arg = r.rpc_mobj
    BY FreeFacts
  <1>4. ~Answered(r) /\ ~Answered(s)
    BY <1>2, <1>3 DEF Answered
  <1>5. KeptOnce(s) /\ r.rpc_mobj \in Kept(r) /\ Kept(s) = Kept(r) \ {r.rpc_mobj}
    BY <1>2, <1>3, <1>4 DEF KeptOnce, Kept, AnswerBuf, ArgBuf, ShmBuf
  <1>6. RegsOK(s)
    BY <1>2 DEF CallOK, RegsOK
  <1>7. ArgOK(s, cached)
    BY <1>2, <1>3, StdCallAssumption DEF ArgOK
  <1>8. RequestOK(s, cached)
    BY <1>2, <1>3 DEF RequestOK
  <1> QED
    BY <1>1, <1>5, <1>6, <1>7, <1>8 DEF CallOK, GivesBack

LEMMA DisableStep ==
    ASSUME AllCalls, Placed, NEW c \in Cores, thread_disable_prealloc_rpc_cache(c)
    PROVE  AllCalls' /\ Placed'
  <1> DEFINE cached == {m \in Ids : threads[m].rpc_arg # NoBuf}
             n == Min(cached)
  <1>1. AllFree /\ UNCHANGED core
    BY DEF thread_disable_prealloc_rpc_cache
  <1>2. CASE cached = {}
    <2>1. UNCHANGED <<threads, lent>>
      BY <1>2 DEF thread_disable_prealloc_rpc_cache
    <2> QED
      BY <1>1, <1>2, <2>1, SwitchStep
  <1>3. CASE cached # {}
    <2>1. /\ lent' = lent \ {threads[n].rpc_mobj}
          /\ threads' = [threads EXCEPT ![n] =
                [threads[n] EXCEPT !.rpc_arg = NoBuf, !.rpc_mobj = NoBuf]]
          /\ UNCHANGED prealloc
      BY <1>3 DEF thread_disable_prealloc_rpc_cache, Update
    <2>2. n \in cached
      <3>1. cached \in SUBSET Nat
        BY StdCallAssumption DEF Ids
      <3> HIDE DEF cached
      <3> QED
        BY <1>3, <3>1, MinIsLeast
    <2>3. n \in Ids /\ threads[n].rpc_arg # NoBuf
      BY <2>2
    <2> HIDE DEF n
    <2>4. /\ threads[n] \in ThreadRec /\ CallOK(threads[n], prealloc) /\ KeptOnce(threads[n])
          /\ threads[n].state = "free"
      BY <1>1, <2>3, OneThread DEF AllFree
    <2>5. PICK s : s = [threads[n] EXCEPT !.rpc_arg = NoBuf, !.rpc_mobj = NoBuf]
      OBVIOUS
    <2>6. GivesBack(threads[n], s, prealloc, threads[n].rpc_mobj)
      BY <2>3, <2>4, <2>5, DropFacts
    <2>7. threads' = [threads EXCEPT ![n] = s]
      BY <2>1, <2>5
    <2>8. AllCalls'
      BY <2>1, <2>3, <2>6, <2>7, OneGivesBack
    <2>9. /\ threads \in [Ids -> ThreadRec] /\ threads' \in [Ids -> ThreadRec]
          /\ threads'[n] = s /\ \A m \in Ids \ {n} : threads'[m] = threads[m]
      BY <2>3, <2>7, <2>8 DEF AllCalls
    <2>10. s.state = threads[n].state /\ s.pc = threads[n].pc /\ s.copy = threads[n].copy
      BY <2>4, <2>5 DEF ThreadRec
    <2>11. \A m \in Ids : /\ threads'[m].state = threads[m].state
                          /\ threads'[m].pc = threads[m].pc
                          /\ threads'[m].copy = threads[m].copy
      BY <2>3, <2>9, <2>10
    <2>12. \A d \in Cores : core[d].n \in Ids \/ core[d].at = "ns"
      BY StdCallAssumption DEF Placed, CoreType, CoresExact, Ids
    <2>13. Placed'
      BY <1>1, <2>9, <2>11, <2>12 DEF Placed, CoreType, CoresExact
    <2> QED
      BY <2>8, <2>13
  <1> QED
    BY <1>2, <1>3

-----------------------------------------------------------------------------
(* The invariant *)

Counters == prealloc \in BOOLEAN /\ stdcalls \in 0 .. MaxStdCalls

LEMMA CallInvParts == CallInv <=> AllCalls /\ Placed /\ Counters
  BY DEF CallInv, AllCalls, Placed, Counters, CoreType, StdTypeOK, ThreadRec, Points,
         Requested, Continuations

LEMMA CallInvInit == StdInit => CallInv
  <1> SUFFICES ASSUME StdInit PROVE AllCalls /\ Placed /\ Counters
    BY CallInvParts
  <1>1. FreeThread \in ThreadRec
    BY DEF FreeThread, ThreadRec, NoRequest, Points, Requested, Continuations
  <1>2. /\ FreeThread.state = "free" /\ FreeThread.pc = "none" /\ FreeThread.copy = FALSE
        /\ FreeThread.rpc_arg = NoBuf /\ FreeThread.rpc_mobj = NoBuf /\ FreeThread.shm = NoBuf
        /\ FreeThread.req.cmd = "none" /\ FreeThread.cont = "none" /\ FreeThread.regs = "own"
        /\ FreeThread.supplied = FALSE
    BY DEF FreeThread, NoRequest
  <1>3. CallOK(FreeThread, prealloc)
    BY <1>2, StdCallAssumption DEF CallOK, RequestOK, RegsOK, ArgOK
  <1>4. KeptOnce(FreeThread) /\ Kept(FreeThread) = {}
    BY <1>2 DEF KeptOnce, Kept, AnswerBuf, ArgBuf, ShmBuf, Answered
  <1>5. threads \in [Ids -> ThreadRec] /\ \A n \in Ids : threads[n] = FreeThread
    BY <1>1 DEF StdInit
  <1>6. AllCalls
    BY <1>3, <1>4, <1>5 DEF AllCalls, ThreadsOK, LentExact, StdInit
  <1>7. /\ core \in [Cores -> [at : {"ns", "start", "resume", "run"}, n : 0 .. NumThreads]]
        /\ \A c \in Cores : core[c].at = "ns" /\ core[c].n = 0
    BY StdCallAssumption DEF StdInit, NormalWorld
  <1>8. Placed
    BY <1>2, <1>5, <1>7 DEF Placed, CoreType, CoresExact, Ids
  <1>9. Counters
    <2>1. prealloc = FALSE /\ stdcalls = 0
      BY DEF StdInit
    <2>2. prealloc \in BOOLEAN
      BY <2>1
    <2>3. stdcalls \in 0 .. MaxStdCalls
      BY <2>1, StdCallAssumption
    <2> QED
      BY <2>2, <2>3 DEF Counters
  <1> QED
    BY <1>6, <1>8, <1>9

LEMMA CountersStep ==
    ASSUME Counters, NEW c \in Cores,
           \/ alloc_thread(c) \/ thread_alloc_and_run(c) \/ thread_foreign_intr_exit(c)
           \/ thread_resume_from_rpc(c) \/ thread_resume(c) \/ thread_state_free(c)
           \/ call_entry_std(c) \/ tee_entry_std(c) \/ RpcInCall(c) \/ Continue(c)
           \/ thread_rpc_shm_cache_clear(c) \/ FinishCall(c)
           \/ thread_enable_prealloc_rpc_cache(c) \/ thread_disable_prealloc_rpc_cache(c)
    PROVE  Counters'
  <1>1. CASE alloc_thread(c)
    BY <1>1, StdCallAssumption DEF alloc_thread, Counters
  <1>2. CASE thread_enable_prealloc_rpc_cache(c) \/ thread_disable_prealloc_rpc_cache(c)
    BY <1>2 DEF thread_enable_prealloc_rpc_cache, thread_disable_prealloc_rpc_cache, Counters
  <1>3. CASE \/ thread_alloc_and_run(c) \/ thread_foreign_intr_exit(c)
             \/ thread_resume_from_rpc(c) \/ thread_resume(c) \/ thread_state_free(c)
             \/ call_entry_std(c) \/ tee_entry_std(c) \/ RpcInCall(c) \/ Continue(c)
             \/ thread_rpc_shm_cache_clear(c) \/ FinishCall(c)
    <2>1. UNCHANGED <<prealloc, stdcalls>>
      BY <1>3 DEF thread_alloc_and_run, thread_foreign_intr_exit, thread_resume_from_rpc,
           thread_resume, thread_state_free, call_entry_std, tee_entry_std, RpcInCall,
           Continue, thread_rpc_shm_cache_clear, FinishCall
    <2> QED
      BY <2>1 DEF Counters
  <1> QED
    BY <1>1, <1>2, <1>3

LEMMA CallInvStep == CallInv /\ [StdNext]_StdVars => CallInv'
  <1> SUFFICES ASSUME AllCalls, Placed, Counters, [StdNext]_StdVars
               PROVE  AllCalls' /\ Placed' /\ Counters'
    <2>1. AllCalls' /\ Placed' /\ Counters' => CallInv'
      BY DEF CallInv, AllCalls, Placed, Counters, CoreType, StdTypeOK, ThreadRec, Points,
             Requested, Continuations
    <2> QED
      BY <2>1, CallInvParts
  <1>1. CASE UNCHANGED StdVars
    BY <1>1 DEF StdVars, AllCalls, Placed, Counters, CoreType, ThreadsOK, CoresExact, LentExact
  <1>2. ASSUME NEW c \in Cores,
           \/ alloc_thread(c) \/ thread_alloc_and_run(c) \/ thread_foreign_intr_exit(c)
           \/ thread_resume_from_rpc(c) \/ thread_resume(c) \/ thread_state_free(c)
           \/ call_entry_std(c) \/ tee_entry_std(c) \/ RpcInCall(c) \/ Continue(c)
           \/ thread_rpc_shm_cache_clear(c) \/ FinishCall(c)
           \/ thread_enable_prealloc_rpc_cache(c) \/ thread_disable_prealloc_rpc_cache(c)
        PROVE  AllCalls' /\ Placed' /\ Counters'
    <2>1. Counters'
      BY <1>2, CountersStep
    <2>2. CASE alloc_thread(c) \/ thread_alloc_and_run(c)
      BY <2>1, <2>2, AllocStep, StartStep
    <2>3. CASE thread_foreign_intr_exit(c) \/ thread_state_free(c)
      BY <2>1, <2>3, LeaveStep
    <2>4. CASE thread_resume_from_rpc(c) \/ thread_resume(c)
      BY <2>1, <2>4, ServeStep, CopyStep
    <2>5. CASE call_entry_std(c) \/ tee_entry_std(c)
      BY <2>1, <2>5, EntryStep, SupplyStep
    <2>6. CASE RpcInCall(c) \/ Continue(c)
      BY <2>1, <2>6, RpcInCallStep, ContinueStep
    <2>7. CASE thread_rpc_shm_cache_clear(c) \/ FinishCall(c)
      BY <2>1, <2>7, ShmClearStep, FinishStep
    <2>8. CASE thread_enable_prealloc_rpc_cache(c)
      <3>1. AllFree /\ prealloc' = TRUE /\ UNCHANGED <<threads, core, lent>>
        BY <2>8 DEF thread_enable_prealloc_rpc_cache
      <3> QED
        BY <2>1, <3>1, SwitchStep
    <2>9. CASE thread_disable_prealloc_rpc_cache(c)
      BY <2>1, <2>9, DisableStep
    <2> QED
      BY <1>2, <2>2, <2>3, <2>4, <2>5, <2>6, <2>7, <2>8, <2>9
  <1> QED
    BY <1>1, <1>2 DEF StdNext

LEMMA CallInvAlways == StdSpec => []CallInv
  BY CallInvInit, CallInvStep, PTL DEF StdSpec

-----------------------------------------------------------------------------
(* The theorems *)

\* The threads, the cores and the buffers lent by normal world stay of their
\* types in every order of calls, requests, interrupts and resumptions
\* (threads[], thread_core_local).
THEOREM StdTypeCorrect == StdSpec => []StdTypeOK
  <1>1. CallInv => StdTypeOK
    BY DEF CallInv
  <1> QED
    BY <1>1, CallInvAlways, PTL

\* A thread runs on one core exactly while it is active, whichever threads
\* normal world tries to resume on how many cores, and it goes on with the
\* registers it is due: the answer after a request, its own after an
\* interrupt (thread_state_suspend, thread_resume_from_rpc).
THEOREM ThreadsResumeAsSuspended == StdSpec => []ResumedAsSuspended
  <1>1. CallInv => ResumedAsSuspended
    <2> SUFFICES ASSUME CallInv, NEW n \in Ids
                 PROVE  /\ Cardinality({c \in Cores : core[c].n = n})
                              = IF threads[n].state = "active" THEN 1 ELSE 0
                        /\ \A c \in Cores : core[c] = [at |-> "run", n |-> n] =>
                              threads[n].regs = IF threads[n].pc = "rpc" THEN "answer" ELSE "own"
      BY DEF ResumedAsSuspended
    <2>1. AllCalls /\ Placed
      BY CallInvParts
    <2>2. n # 0
      BY DEF Ids
    <2>3. ASSUME threads[n].state = "active"
          PROVE  Cardinality({c \in Cores : core[c].n = n}) = 1
      <3>1. PICK c \in Cores : core[c].n = n
        BY <2>1, <2>3 DEF Placed, CoresExact
      <3>2. {d \in Cores : core[d].n = n} = {c}
        BY <2>1, <2>2, <3>1 DEF Placed, CoresExact
      <3> QED
        BY <3>2, FS_Singleton
    <2>4. ASSUME threads[n].state # "active"
          PROVE  Cardinality({c \in Cores : core[c].n = n}) = 0
      <3>1. {d \in Cores : core[d].n = n} = {}
        BY <2>1, <2>4 DEF Placed, CoresExact
      <3> QED
        BY <3>1, FS_EmptySet
    <2>5. ASSUME NEW c \in Cores, core[c] = [at |-> "run", n |-> n]
          PROVE  threads[n].regs = IF threads[n].pc = "rpc" THEN "answer" ELSE "own"
      <3>1. Runs(c, n, threads[n].pc)
        BY <2>5 DEF Runs
      <3>2. ~threads[n].copy
        BY <2>1, <3>1, RunsFacts
      <3>3. threads[n] \in ThreadRec /\ RegsOK(threads[n])
        BY <2>1, OneThread DEF CallOK
      <3> QED
        BY <3>2, <3>3 DEF RegsOK, ThreadRec
    <2> QED
      BY <2>3, <2>4, <2>5
  <1> QED
    BY <1>1, CallInvAlways, PTL

\* Each buffer normal world has lent is kept by exactly one thread, which
\* gives it back; an idle thread keeps one only as its cached argument, and
\* none once normal world was told that the cache is empty
\* (call_entry_std, get_rpc_arg, thread_disable_prealloc_rpc_cache).
THEOREM BuffersStayExact == StdSpec => []BuffersExact
  <1>1. CallInv => BuffersExact
    <2> SUFFICES ASSUME CallInv PROVE BuffersExact
      OBVIOUS
    <2>1. AllCalls
      BY CallInvParts
    <2>2. ASSUME NEW n \in Ids, NEW b \in Buffers
          PROVE  Keeps(n, b) <=> b \in Kept(threads[n])
      BY StdCallAssumption DEF Keeps, Served, Kept, AnswerBuf, ArgBuf, ShmBuf, Answered
    <2>3. ASSUME NEW b \in Buffers
          PROVE  Cardinality({n \in Ids : Keeps(n, b)}) = IF b \in lent THEN 1 ELSE 0
      <3>1. CASE b \in lent
        <4>1. PICK n \in Ids : b \in Kept(threads[n])
          BY <2>1, <3>1 DEF AllCalls, LentExact
        <4>2. ASSUME NEW m \in Ids, Keeps(m, b)
              PROVE  m = n
          BY <2>1, <2>2, <2>3, <4>1, <4>2 DEF AllCalls, LentExact
        <4>3. {m \in Ids : Keeps(m, b)} = {n}
          BY <2>2, <4>1, <4>2
        <4> QED
          BY <3>1, <4>3, FS_Singleton
      <3>2. CASE b \notin lent
        <4>1. {m \in Ids : Keeps(m, b)} = {}
          BY <2>1, <2>2, <3>2 DEF AllCalls, LentExact
        <4> QED
          BY <3>2, <4>1, FS_EmptySet
      <3> QED
        BY <3>1, <3>2
    <2>4. ASSUME NEW n \in Ids
          PROVE  /\ threads[n].rpc_mobj # NoBuf => threads[n].rpc_mobj # threads[n].shm
                 /\ threads[n].state = "free" =>
                       /\ threads[n].shm = NoBuf
                       /\ threads[n].rpc_arg = threads[n].rpc_mobj
                       /\ ~prealloc => threads[n].rpc_mobj = NoBuf
                 /\ threads[n].pc = "rpc" /\ threads[n].req.cmd = "CMD" =>
                       threads[n].rpc_mobj = IF threads[n].rpc_arg = "supplied" THEN NoBuf
                                             ELSE threads[n].rpc_arg
      <3>1. /\ threads[n] \in ThreadRec /\ CallOK(threads[n], prealloc)
            /\ KeptOnce(threads[n])
        BY <2>1, OneThread
      <3>2. threads[n].rpc_mobj # NoBuf => threads[n].rpc_mobj # threads[n].shm
        BY <3>1 DEF KeptOnce
      <3>3. threads[n].state = "free" =>
               /\ threads[n].shm = NoBuf /\ threads[n].rpc_arg = threads[n].rpc_mobj
               /\ ~prealloc => threads[n].rpc_mobj = NoBuf
        BY <3>1, FreeFacts
      <3>4. ArgOK(threads[n], prealloc)
        BY <3>1 DEF CallOK
      <3>5. threads[n].rpc_mobj = IF threads[n].rpc_arg = "supplied" THEN NoBuf
                                  ELSE threads[n].rpc_arg
        BY <3>4 DEF ArgOK
      <3> QED
        BY <3>2, <3>3, <3>5
    <2> QED
      BY <2>3, <2>4 DEF BuffersExact
  <1> QED
    BY <1>1, CallInvAlways, PTL
=============================================================================
