----------------------------- MODULE ShmProofs ------------------------------
(***************************************************************************)
(* Proofs about Shm for any set of objects, cookies and pages and any      *)
(* finite set of threads.  The invariant is stated for each cell of the    *)
(* heap: its counters against the threads that use it, and what the        *)
(* threads that name it rely on.  A step is of one thread and changes one  *)
(* cell, so that the other cells need no argument.                         *)
(***************************************************************************)
EXTENDS Shm, FiniteSetTheorems, TLAPS

ThreadType == [pc : PCs, job : Jobs, o : Mobjs \cup {NULL}]

-----------------------------------------------------------------------------
(* The invariant *)

Holds(r, m) == r.o = m /\ r.pc \in Holding
Maps(r, m) == r.o = m /\ \/ r.pc = "using" /\ r.job \in {"regd", "arg"}
                         \/ r.pc = "unmap"

\* A release that still has to free its object
InRelease(r) == r.job = "release" /\ r.pc # "leave"
Waits(r) == r.pc \in {"check", "sleep", "asleep", "relock", "leave"}
Waiters == {t \in Threads : Waits(st[t])}

\* Only releases wait, and an idle thread names no object.
FormOK(r) == /\ r.pc = "wait" \/ Waits(r) => r.job = "release"
             /\ r.pc = "idle" <=> r.o = NULL
             /\ r.pc = "idle" => r.job = "none"

\* The counters of the object in cell m against the threads that use it
CountsOK(m) ==
    /\ mobj[m].refc = Cardinality(Holders(m))
                      + (IF mobj[m].guarded \/ mobj[m].releasing THEN 0 ELSE 1)
    /\ mobj[m].mapcount >= Cardinality(Mappers(m))

\* The flags of an object
FlagsOK(c) ==
    /\ c.mapcount > 0 => c.mm
    /\ c.guarded => ~c.releasing
    /\ c.release_frees => c.releasing /\ c.refc = 0

\* What thread r relies on when c is in the cell it names
UserOK(r, c) ==
    /\ r.pc \in Holding \cup {"free"} \/ InRelease(r) => c # NULL
    /\ InRelease(r) => c.releasing
    /\ r.pc = "unguard" => c.guarded
    /\ r.pc = "free" => c.refc = 0 /\ ~c.release_frees

\* What two threads that name one cell do not both do
Alone(r, s) == /\ ~(InRelease(r) /\ InRelease(s))
               /\ ~(r.pc = "unguard" /\ s.pc = "unguard")
               /\ ~(r.pc = "free" /\ s.pc = "free")

CellOK(m) ==
    /\ mobj[m] # NULL => CountsOK(m) /\ FlagsOK(mobj[m])
    /\ \A u \in Threads : st[u].o = m => UserOK(st[u], mobj[m])
    /\ \A u, v \in Threads : u # v /\ st[u].o = m /\ st[v].o = m => Alone(st[u], st[v])

CellsOK == \A m \in Mobjs : CellOK(m)
FormsOK == \A t \in Threads : FormOK(st[t])
WaitersExact == shm_release_waiters = Cardinality(Waiters)

\* A protected page belongs to a protected object, and to no shared one.
PagesOK ==
    /\ \A p \in protected : \E o \in Live("protmem") : mobj[o].page = p
    /\ \A o \in Live("shm"), q \in Live("protmem") : mobj[o].page # mobj[q].page

ShmInv == ShmTypeOK /\ CellsOK /\ FormsOK /\ WaitersExact /\ PagesOK

-----------------------------------------------------------------------------
(* Counting threads *)

\* Two sets of threads that differ in one thread at most
LEMMA OneOff ==
    ASSUME NEW A \in SUBSET Threads, NEW B \in SUBSET Threads, NEW t \in Threads,
           \A u \in Threads \ {t} : u \in A <=> u \in B
    PROVE  /\ Cardinality(A) \in Nat /\ Cardinality(B) \in Nat
           /\ (t \in A <=> t \in B) => Cardinality(B) = Cardinality(A)
           /\ t \notin A /\ t \in B => Cardinality(B) = Cardinality(A) + 1
           /\ t \in A /\ t \notin B => Cardinality(A) = Cardinality(B) + 1
  <1>1. IsFiniteSet(A) /\ IsFiniteSet(B)
    BY FS_Subset, ShmAssumption
  <1>2. Cardinality(A) \in Nat /\ Cardinality(B) \in Nat
    BY <1>1, FS_CardinalityType
  <1>3. (t \in A <=> t \in B) => A = B
    OBVIOUS
  <1>4. ASSUME t \notin A, t \in B PROVE Cardinality(B) = Cardinality(A) + 1
    <2>1. B = A \cup {t}
      BY <1>4
    <2> QED
      BY <1>1, <1>4, <2>1, FS_AddElement
  <1>5. ASSUME t \in A, t \notin B PROVE Cardinality(A) = Cardinality(B) + 1
    <2>1. A = B \cup {t}
      BY <1>5
    <2> QED
      BY <1>1, <1>5, <2>1, FS_AddElement
  <1> QED
    BY <1>2, <1>3, <1>4, <1>5

\* A set of threads with a member, and one without
LEMMA CountBounds ==
    ASSUME NEW A \in SUBSET Threads
    PROVE  /\ Cardinality(A) \in Nat
           /\ A = {} <=> Cardinality(A) = 0
           /\ \A t \in A : Cardinality(A) >= 1
  <1>1. IsFiniteSet(A)
    BY FS_Subset, ShmAssumption
  <1>2. Cardinality(A) \in Nat
    BY <1>1, FS_CardinalityType
  <1>3. A = {} <=> Cardinality(A) = 0
    BY <1>1, FS_EmptySet
  <1> QED
    BY <1>2, <1>3

\* A thread that a step of another thread leaves alone or wakes
Same(r, s) == \/ s = r
              \/ r.pc = "asleep" /\ s = [r EXCEPT !.pc = "relock"]
Others(t) == \A u \in Threads \ {t} : Same(st[u], st'[u])

LEMMA SameFacts ==
    ASSUME NEW r \in ThreadType, NEW s, Same(r, s)
    PROVE  /\ s \in ThreadType /\ s.o = r.o /\ s.job = r.job
           /\ s.pc = r.pc \/ (r.pc = "asleep" /\ s.pc = "relock")
  BY DEF Same, ThreadType, PCs

LEMMA SameUse ==
    ASSUME NEW r \in ThreadType, NEW s, Same(r, s)
    PROVE  /\ \A m : Holds(s, m) <=> Holds(r, m)
           /\ \A m : Maps(s, m) <=> Maps(r, m)
           /\ Waits(s) <=> Waits(r)
           /\ FormOK(r) => FormOK(s)
           /\ \A c : UserOK(s, c) <=> UserOK(r, c)
           /\ InRelease(s) <=> InRelease(r)
           /\ s.pc = "unguard" <=> r.pc = "unguard"
           /\ s.pc = "free" <=> r.pc = "free"
  <1>1. /\ s.o = r.o /\ s.job = r.job
        /\ s.pc = r.pc \/ (r.pc = "asleep" /\ s.pc = "relock")
    BY SameFacts
  <1>2. /\ s.pc \in Holding <=> r.pc \in Holding
        /\ Waits(s) <=> Waits(r)
        /\ InRelease(s) <=> InRelease(r)
    BY <1>1 DEF Holding, Waits, InRelease
  <1>3. \A m : (Holds(s, m) <=> Holds(r, m)) /\ (Maps(s, m) <=> Maps(r, m))
    BY <1>1, <1>2 DEF Holds, Maps
  <1>4. \A c : UserOK(s, c) <=> UserOK(r, c)
    BY <1>1, <1>2 DEF UserOK
  <1>5. FormOK(r) => FormOK(s)
    BY <1>1, <1>2 DEF FormOK
  <1> QED
    BY <1>1, <1>2, <1>3, <1>4, <1>5

StateType == st \in [Threads -> ThreadType]

\* How many threads use a cell after a step of thread t
LEMMA HoldersStep ==
    ASSUME StateType, NEW t \in Threads, Others(t), NEW m
    PROVE  /\ Cardinality(Holders(m)) \in Nat /\ Cardinality(Holders(m)') \in Nat
           /\ (Holds(st[t], m) <=> Holds(st'[t], m))
                 => Cardinality(Holders(m)') = Cardinality(Holders(m))
           /\ ~Holds(st[t], m) /\ Holds(st'[t], m)
                 => Cardinality(Holders(m)') = Cardinality(Holders(m)) + 1
           /\ Holds(st[t], m) /\ ~Holds(st'[t], m)
                 => Cardinality(Holders(m)) = Cardinality(Holders(m)') + 1
  <1> DEFINE A == Holders(m)
             B == Holders(m)'
  <1>1. A \in SUBSET Threads /\ \A u \in Threads : u \in A <=> Holds(st[u], m)
    BY DEF Holders, Holds
  <1>2. B \in SUBSET Threads /\ \A u \in Threads : u \in B <=> Holds(st'[u], m)
    BY DEF Holders, Holds
  <1>3. \A u \in Threads \ {t} : Holds(st'[u], m) <=> Holds(st[u], m)
    BY SameUse DEF StateType, Others
  <1> HIDE DEF A, B
  <1>4. \A u \in Threads \ {t} : u \in A <=> u \in B
    BY <1>1, <1>2, <1>3
  <1>5. /\ Cardinality(A) \in Nat /\ Cardinality(B) \in Nat
        /\ (t \in A <=> t \in B) => Cardinality(B) = Cardinality(A)
        /\ t \notin A /\ t \in B => Cardinality(B) = Cardinality(A) + 1
        /\ t \in A /\ t \notin B => Cardinality(A) = Cardinality(B) + 1
    BY <1>1, <1>2, <1>4, OneOff
  <1>6. /\ Cardinality(A) \in Nat /\ Cardinality(B) \in Nat
        /\ (Holds(st[t], m) <=> Holds(st'[t], m)) => Cardinality(B) = Cardinality(A)
        /\ ~Holds(st[t], m) /\ Holds(st'[t], m) => Cardinality(B) = Cardinality(A) + 1
        /\ Holds(st[t], m) /\ ~Holds(st'[t], m) => Cardinality(A) = Cardinality(B) + 1
    BY <1>1, <1>2, <1>5
  <1> QED
    BY <1>6 DEF A, B

LEMMA MappersStep ==
    ASSUME StateType, NEW t \in Threads, Others(t), NEW m
    PROVE  /\ Cardinality(Mappers(m)) \in Nat /\ Cardinality(Mappers(m)') \in Nat
           /\ (Maps(st[t], m) <=> Maps(st'[t], m))
                 => Cardinality(Mappers(m)') = Cardinality(Mappers(m))
           /\ ~Maps(st[t], m) /\ Maps(st'[t], m)
                 => Cardinality(Mappers(m)') = Cardinality(Mappers(m)) + 1
           /\ Maps(st[t], m) /\ ~Maps(st'[t], m)
                 => Cardinality(Mappers(m)) = Cardinality(Mappers(m)') + 1
  <1> DEFINE A == Mappers(m)
             B == Mappers(m)'
  <1>1. A \in SUBSET Threads /\ \A u \in Threads : u \in A <=> Maps(st[u], m)
    BY DEF Mappers, Maps
  <1>2. B \in SUBSET Threads /\ \A u \in Threads : u \in B <=> Maps(st'[u], m)
    BY DEF Mappers, Maps
  <1>3. \A u \in Threads \ {t} : Maps(st'[u], m) <=> Maps(st[u], m)
    BY SameUse DEF StateType, Others
  <1> HIDE DEF A, B
  <1>4. \A u \in Threads \ {t} : u \in A <=> u \in B
    BY <1>1, <1>2, <1>3
  <1>5. /\ Cardinality(A) \in Nat /\ Cardinality(B) \in Nat
        /\ (t \in A <=> t \in B) => Cardinality(B) = Cardinality(A)
        /\ t \notin A /\ t \in B => Cardinality(B) = Cardinality(A) + 1
        /\ t \in A /\ t \notin B => Cardinality(A) = Cardinality(B) + 1
    BY <1>1, <1>2, <1>4, OneOff
  <1>6. /\ Cardinality(A) \in Nat /\ Cardinality(B) \in Nat
        /\ (Maps(st[t], m) <=> Maps(st'[t], m)) => Cardinality(B) = Cardinality(A)
        /\ ~Maps(st[t], m) /\ Maps(st'[t], m) => Cardinality(B) = Cardinality(A) + 1
        /\ Maps(st[t], m) /\ ~Maps(st'[t], m) => Cardinality(A) = Cardinality(B) + 1
    BY <1>1, <1>2, <1>5
  <1> QED
    BY <1>6 DEF A, B

LEMMA WaitersStep ==
    ASSUME StateType, NEW t \in Threads, Others(t)
    PROVE  /\ Cardinality(Waiters) \in Nat /\ Cardinality(Waiters') \in Nat
           /\ (Waits(st[t]) <=> Waits(st'[t])) => Cardinality(Waiters') = Cardinality(Waiters)
           /\ ~Waits(st[t]) /\ Waits(st'[t]) => Cardinality(Waiters') = Cardinality(Waiters) + 1
           /\ Waits(st[t]) /\ ~Waits(st'[t]) => Cardinality(Waiters) = Cardinality(Waiters') + 1
  <1> DEFINE A == Waiters
             B == Waiters'
  <1>1. A \in SUBSET Threads /\ \A u \in Threads : u \in A <=> Waits(st[u])
    BY DEF Waiters
  <1>2. B \in SUBSET Threads /\ \A u \in Threads : u \in B <=> Waits(st'[u])
    BY DEF Waiters
  <1>3. \A u \in Threads \ {t} : Waits(st'[u]) <=> Waits(st[u])
    BY SameUse DEF StateType, Others
  <1> HIDE DEF A, B
  <1>4. \A u \in Threads \ {t} : u \in A <=> u \in B
    BY <1>1, <1>2, <1>3
  <1>5. /\ Cardinality(A) \in Nat /\ Cardinality(B) \in Nat
        /\ (t \in A <=> t \in B) => Cardinality(B) = Cardinality(A)
        /\ t \notin A /\ t \in B => Cardinality(B) = Cardinality(A) + 1
        /\ t \in A /\ t \notin B => Cardinality(A) = Cardinality(B) + 1
    BY <1>1, <1>2, <1>4, OneOff
  <1>6. /\ Cardinality(A) \in Nat /\ Cardinality(B) \in Nat
        /\ (Waits(st[t]) <=> Waits(st'[t])) => Cardinality(B) = Cardinality(A)
        /\ ~Waits(st[t]) /\ Waits(st'[t]) => Cardinality(B) = Cardinality(A) + 1
        /\ Waits(st[t]) /\ ~Waits(st'[t]) => Cardinality(A) = Cardinality(B) + 1
    BY <1>1, <1>2, <1>5
  <1> QED
    BY <1>6 DEF A, B

-----------------------------------------------------------------------------
(* One cell *)

HeapType == mobj \in [Mobjs -> MobjType \cup {NULL}]

HoldsN(r, m) == IF Holds(r, m) THEN 1 ELSE 0
MapsN(r, m) == IF Maps(r, m) THEN 1 ELSE 0
OwnRef(c) == IF c.guarded \/ c.releasing THEN 0 ELSE 1

\* Thread r becomes s and object c becomes d: the references of the object
\* follow what the thread does, and the mapping is counted at least as often.
Balanced(r, s, c, d, m) ==
    /\ d.refc + HoldsN(r, m) + OwnRef(c) = c.refc + HoldsN(s, m) + OwnRef(d)
    /\ d.mapcount + MapsN(r, m) >= c.mapcount + MapsN(s, m)

LEMMA CountsStep ==
    ASSUME HeapType, StateType, NEW t \in Threads, Others(t), NEW m \in Mobjs,
           NEW c \in MobjType, NEW d \in MobjType, mobj[m] = c, mobj'[m] = d, CountsOK(m),
           Balanced(st[t], st'[t], c, d, m)
    PROVE  CountsOK(m)'
  <1>1. /\ Cardinality(Holders(m)) \in Nat /\ Cardinality(Holders(m)') \in Nat
        /\ Cardinality(Holders(m)') + HoldsN(st[t], m)
              = Cardinality(Holders(m)) + HoldsN(st'[t], m)
    BY HoldersStep DEF HoldsN
  <1>2. /\ Cardinality(Mappers(m)) \in Nat /\ Cardinality(Mappers(m)') \in Nat
        /\ Cardinality(Mappers(m)') + MapsN(st[t], m)
              = Cardinality(Mappers(m)) + MapsN(st'[t], m)
    BY MappersStep DEF MapsN
  <1>3. /\ HoldsN(st[t], m) \in Nat /\ HoldsN(st'[t], m) \in Nat
        /\ MapsN(st[t], m) \in Nat /\ MapsN(st'[t], m) \in Nat
        /\ OwnRef(c) \in Nat /\ OwnRef(d) \in Nat
    BY DEF HoldsN, MapsN, OwnRef
  <1>4. /\ c.refc \in Nat /\ d.refc \in Nat /\ c.mapcount \in Nat /\ d.mapcount \in Nat
    BY DEF MobjType
  <1>5. /\ c.refc = Cardinality(Holders(m)) + OwnRef(c)
        /\ c.mapcount >= Cardinality(Mappers(m))
    BY DEF CountsOK, OwnRef
  <1>6. /\ d.refc = Cardinality(Holders(m)') + OwnRef(d)
        /\ d.mapcount >= Cardinality(Mappers(m)')
    BY <1>1, <1>2, <1>3, <1>4, <1>5 DEF Balanced
  <1> QED
    BY <1>6 DEF CountsOK, OwnRef

\* The counters of a cell no step of thread t concerns
LEMMA CountsStay ==
    ASSUME HeapType, StateType, NEW t \in Threads, Others(t), NEW m \in Mobjs,
           mobj'[m] = mobj[m], st[t].o # m, st'[t].o # m, CountsOK(m)
    PROVE  CountsOK(m)'
  <1>1. ~Holds(st[t], m) /\ ~Holds(st'[t], m) /\ ~Maps(st[t], m) /\ ~Maps(st'[t], m)
    BY DEF Holds, Maps
  <1>2. /\ Cardinality(Holders(m)') = Cardinality(Holders(m))
        /\ Cardinality(Mappers(m)') = Cardinality(Mappers(m))
    BY <1>1, HoldersStep, MappersStep
  <1> QED
    BY <1>2 DEF CountsOK

\* Thread t, which names no cell or cell m, can become s with d in cell m, as
\* far as it and the other threads that name the cell are concerned.
Fits(t, s, m, d) ==
    /\ st[t].o \in {m, NULL} /\ s.o \in {m, NULL}
    /\ s.o = m => UserOK(s, d)
    /\ \A u \in Threads \ {t} : st[u].o = m =>
          UserOK(st[u], d) /\ (s.o = m => Alone(s, st[u]))

LEMMA CellStep ==
    ASSUME HeapType, StateType, CellsOK, NEW t \in Threads, NEW m \in Mobjs,
           StateType', Others(t), NEW s, st'[t] = s, NEW d \in MobjType \cup {NULL},
           mobj' = [mobj EXCEPT ![m] = d], Fits(t, s, m, d),
           d # NULL => CountsOK(m)' /\ FlagsOK(d)
    PROVE  HeapType' /\ CellsOK'
  <1>0. /\ st[t].o \in {m, NULL} /\ s.o \in {m, NULL}
        /\ s.o = m => UserOK(s, d)
        /\ \A u \in Threads \ {t} : st[u].o = m =>
              UserOK(st[u], d) /\ (s.o = m => Alone(s, st[u]))
    BY DEF Fits
  <1>1. /\ HeapType' /\ mobj'[m] = d
        /\ \A x \in Mobjs \ {m} : mobj'[x] = mobj[x]
    BY DEF HeapType
  <1>2. \A u \in Threads \ {t} : /\ st[u] \in ThreadType /\ Same(st[u], st'[u])
                                 /\ st'[u].o = st[u].o
    BY SameFacts DEF StateType, Others
  <1>3. \A u \in Threads \ {t} : \A c : UserOK(st[u], c) => UserOK(st'[u], c)
    BY <1>2, SameUse
  <1>4. \A u, v \in Threads \ {t} : Alone(st[u], st[v]) => Alone(st'[u], st'[v])
    BY <1>2, SameUse DEF Alone
  <1>5. \A u \in Threads \ {t} : Alone(s, st[u]) => Alone(s, st'[u]) /\ Alone(st'[u], s)
    BY <1>2, SameUse DEF Alone
  <1>6. CellOK(m)'
    <2>1. mobj'[m] # NULL => CountsOK(m)' /\ FlagsOK(mobj'[m])
      BY <1>1
    <2>2. ASSUME NEW u \in Threads, st'[u].o = m
          PROVE  UserOK(st'[u], mobj'[m])
      <3>1. CASE u = t
        BY <1>0, <1>1, <2>2, <3>1
      <3>2. CASE u # t
        <4>1. UserOK(st[u], d)
          BY <1>0, <1>2, <2>2, <3>2
        <4> QED
          BY <1>1, <1>3, <3>2, <4>1
      <3> QED
        BY <3>1, <3>2
    <2>3. ASSUME NEW u \in Threads, NEW v \in Threads, u # v, st'[u].o = m, st'[v].o = m
          PROVE  Alone(st'[u], st'[v])
      <3>1. CASE u # t /\ v # t
        <4>1. Alone(st[u], st[v])
          BY <1>2, <2>3, <3>1 DEF CellsOK, CellOK
        <4> QED
          BY <1>4, <3>1, <4>1
      <3>2. CASE u = t
        BY <1>0, <1>2, <1>5, <2>3, <3>2
      <3>3. CASE v = t
        BY <1>0, <1>2, <1>5, <2>3, <3>3
      <3> QED
        BY <3>1, <3>2, <3>3
    <2> QED
      BY <2>1, <2>2, <2>3 DEF CellOK
  <1>7. ASSUME NEW x \in Mobjs, x # m
        PROVE  CellOK(x)'
    <2>1. CellOK(x) /\ mobj'[x] = mobj[x] /\ x # NULL
      BY <1>1, <1>7, ShmAssumption DEF CellsOK
    <2>2. st[t].o # x /\ st'[t].o # x
      BY <1>0, <1>7, <2>1
    <2>3. mobj'[x] # NULL => CountsOK(x)' /\ FlagsOK(mobj'[x])
      BY <2>1, <2>2, CountsStay DEF CellOK
    <2>4. ASSUME NEW u \in Threads, st'[u].o = x
          PROVE  UserOK(st'[u], mobj'[x])
      BY <1>2, <1>3, <2>1, <2>2, <2>4 DEF CellOK
    <2>5. ASSUME NEW u \in Threads, NEW v \in Threads, u # v, st'[u].o = x, st'[v].o = x
          PROVE  Alone(st'[u], st'[v])
      BY <1>2, <1>4, <2>1, <2>2, <2>5 DEF CellOK
    <2> QED
      BY <2>3, <2>4, <2>5 DEF CellOK
  <1> QED
    BY <1>1, <1>6, <1>7 DEF CellsOK

-----------------------------------------------------------------------------
(* The steps *)

CoreInv == HeapType /\ StateType /\ CellsOK /\ FormsOK

\* What is known of a thread that names a cell
LEMMA OnCell ==
    ASSUME CoreInv, NEW t \in Threads, ~At(t, "idle")
    PROVE  /\ st[t] \in ThreadType /\ FormOK(st[t]) /\ st[t].o \in Mobjs
           /\ UserOK(st[t], mobj[st[t].o])
           /\ mobj[st[t].o] \in MobjType \cup {NULL}
           /\ mobj[st[t].o] # NULL =>
                 CountsOK(st[t].o) /\ FlagsOK(mobj[st[t].o]) /\ mobj[st[t].o] \in MobjType
  <1>1. st[t] \in ThreadType /\ FormOK(st[t])
    BY DEF CoreInv, StateType, FormsOK
  <1>2. st[t].o \in Mobjs
    BY <1>1 DEF ThreadType, FormOK, At
  <1>3. CellOK(st[t].o) /\ mobj[st[t].o] \in MobjType \cup {NULL}
    BY <1>2 DEF CoreInv, CellsOK, HeapType
  <1> QED
    BY <1>1, <1>2, <1>3 DEF CellOK

\* The state of the threads after a step that changes one of them
LEMMA OneThreadMoves ==
    ASSUME StateType, FormsOK, NEW t \in Threads, NEW s \in ThreadType, FormOK(s),
           st' = [st EXCEPT ![t] = s]
    PROVE  StateType' /\ FormsOK' /\ Others(t) /\ st'[t] = s
  <1>1. st'[t] = s /\ \A u \in Threads \ {t} : st'[u] = st[u]
    BY DEF StateType
  <1>2. StateType'
    <2>1. st' \in [Threads -> ThreadType]
      BY DEF StateType
    <2> QED
      BY <2>1 DEF StateType, ThreadType
  <1>3. FormsOK'
    BY <1>1 DEF FormsOK
  <1>4. Others(t)
    BY <1>1 DEF Others, Same
  <1> QED
    BY <1>1, <1>2, <1>3, <1>4

\* Objects that are not allocated or freed keep their memory.
SameMemory(c, d) == d.kind = c.kind /\ d.page = c.page
SamePages == \A x \in Mobjs : \/ mobj'[x] = mobj[x]
                              \/ /\ mobj[x] # NULL /\ mobj'[x] # NULL
                                 /\ SameMemory(mobj[x], mobj'[x])

\* A step of one thread on an object that stays
LEMMA ObjectStep ==
    ASSUME CoreInv, NEW t \in Threads, NEW m \in Mobjs, NEW c \in MobjType, mobj[m] = c,
           NEW s \in ThreadType, FormOK(s), NEW d \in MobjType,
           mobj' = [mobj EXCEPT ![m] = d], st' = [st EXCEPT ![t] = s],
           Balanced(st[t], s, c, d, m), FlagsOK(d), Fits(t, s, m, d),
           SameMemory(c, d)
    PROVE  CoreInv' /\ SamePages
  <1>1. StateType' /\ FormsOK' /\ Others(t) /\ st'[t] = s
    BY OneThreadMoves DEF CoreInv
  <1>2. mobj'[m] = d /\ CountsOK(m)
    BY ShmAssumption DEF CoreInv, HeapType, CellsOK, CellOK
  <1>3. CountsOK(m)'
    BY <1>1, <1>2, CountsStep DEF CoreInv
  <1>4. HeapType' /\ CellsOK'
    BY <1>1, <1>3, CellStep DEF CoreInv
  <1>5. SamePages
    <2>1. \A x \in Mobjs \ {m} : mobj'[x] = mobj[x]
      BY DEF CoreInv, HeapType
    <2>2. mobj[m] # NULL /\ mobj'[m] # NULL
      BY <1>2, ShmAssumption
    <2> QED
      BY <1>2, <2>1, <2>2 DEF SamePages
  <1> QED
    BY <1>1, <1>4, <1>5 DEF CoreInv

\* A step of one thread that leaves a cell empty
LEMMA EmptyStep ==
    ASSUME CoreInv, NEW t \in Threads, NEW m \in Mobjs,
           NEW s \in ThreadType, FormOK(s),
           mobj' = [mobj EXCEPT ![m] = NULL], st' = [st EXCEPT ![t] = s],
           Fits(t, s, m, NULL)
    PROVE  CoreInv'
  <1>1. StateType' /\ FormsOK' /\ Others(t) /\ st'[t] = s
    BY OneThreadMoves DEF CoreInv
  <1>2. HeapType' /\ CellsOK'
    BY <1>1, CellStep DEF CoreInv
  <1> QED
    BY <1>1, <1>2 DEF CoreInv

\* What a thread relies on does not depend on the mapping of its object.
SameRefs(c, d) == /\ SameMemory(c, d) /\ d.refc = c.refc /\ d.guarded = c.guarded
                  /\ d.releasing = c.releasing /\ d.release_frees = c.release_frees

LEMMA SameRefsUse ==
    ASSUME NEW c \in MobjType, NEW d \in MobjType, SameRefs(c, d), NEW r, UserOK(r, c)
    PROVE  UserOK(r, d)
  BY ShmAssumption DEF SameRefs, UserOK

\* Thread r becomes s and changes no more of its object than the mapping, which
\* is counted at least as often as it is used.
Remaps(r, s, c, d, m) ==
    /\ SameRefs(c, d) /\ (d.mapcount > 0 => d.mm)
    /\ d.mapcount + MapsN(r, m) >= c.mapcount + MapsN(s, m)

\* A thread with a reference goes on with it: inc_map, dec_map and the end of
\* a call
LEMMA MapStep ==
    ASSUME CoreInv, NEW t \in Threads, NEW m, m = st[t].o,
           st[t].pc \in Holding \ {"unguard"}, NEW p \in Holding \ {"unguard"},
           NEW s, s = [st[t] EXCEPT !.pc = p],
           NEW d \in MobjType, Remaps(st[t], s, mobj[m], d, m),
           mobj' = [mobj EXCEPT ![m] = d], st' = [st EXCEPT ![t] = s]
    PROVE  CoreInv' /\ SamePages
  <1>0. /\ SameRefs(mobj[m], d) /\ (d.mapcount > 0 => d.mm)
        /\ d.mapcount + MapsN(st[t], m) >= mobj[m].mapcount + MapsN(s, m)
    BY DEF Remaps
  <1>1. ~At(t, "idle")
    BY DEF At, Holding
  <1>2. /\ st[t] \in ThreadType /\ FormOK(st[t]) /\ m \in Mobjs /\ UserOK(st[t], mobj[m])
    BY <1>1, OnCell
  <1>3. mobj[m] # NULL
    BY <1>2 DEF UserOK
  <1>4. CountsOK(m) /\ FlagsOK(mobj[m]) /\ mobj[m] \in MobjType
    BY <1>1, <1>3, OnCell
  <1>5. s.pc = p /\ s.job = st[t].job /\ s.o = m
    BY <1>2 DEF ThreadType
  <1>6. p \in PCs /\ p # "idle" /\ p # "wait" /\ ~Waits(s) /\ p # "free" /\ p # "leave"
        /\ p # "unguard"
    BY <1>5 DEF PCs, Waits, Holding
  <1>7. s \in ThreadType
    BY <1>2, <1>6 DEF ThreadType
  <1>8. m # NULL
    BY <1>2, ShmAssumption
  <1>9. FormOK(s)
    BY <1>5, <1>6, <1>8 DEF FormOK
  <1>10. InRelease(s) <=> InRelease(st[t])
    <2>1. st[t].pc # "leave"
      BY DEF Holding
    <2> QED
      BY <2>1, <1>5, <1>6 DEF InRelease
  <1>11. UserOK(s, mobj[m])
    BY <1>2, <1>3, <1>5, <1>6, <1>10 DEF UserOK
  <1>12. UserOK(s, d)
    BY <1>0, <1>4, <1>11, SameRefsUse
  <1>13. Balanced(st[t], s, mobj[m], d, m)
    <2>1. HoldsN(st[t], m) = 1 /\ HoldsN(s, m) = 1
      BY <1>5 DEF HoldsN, Holds
    <2>2. OwnRef(d) = OwnRef(mobj[m]) /\ d.refc = mobj[m].refc
      BY <1>0 DEF OwnRef, SameRefs
    <2> QED
      BY <1>0, <2>1, <2>2 DEF Balanced
  <1>14. FlagsOK(d)
    BY <1>0, <1>4 DEF FlagsOK, SameRefs
  <1>15. ASSUME NEW u \in Threads \ {t}, st[u].o = m
         PROVE  UserOK(st[u], d) /\ Alone(s, st[u])
    <2>1. UserOK(st[u], mobj[m]) /\ Alone(st[t], st[u])
      BY <1>2, <1>15 DEF CoreInv, CellsOK, CellOK
    <2>2. UserOK(st[u], d)
      BY <1>0, <1>4, <2>1, SameRefsUse
    <2>3. Alone(s, st[u])
      BY <2>1, <1>5, <1>6, <1>10 DEF Alone
    <2> QED
      BY <2>2, <2>3
  <1>16. Fits(t, s, m, d)
    BY <1>5, <1>12, <1>15 DEF Fits
  <1>17. SameMemory(mobj[m], d)
    BY <1>0 DEF SameRefs
  <1> QED
    BY <1>17, <1>2, <1>4, <1>7, <1>9, <1>13, <1>14, <1>16, ObjectStep

\* What is known of a thread with a reference
LEMMA HolderFacts ==
    ASSUME CoreInv, NEW t \in Threads, st[t].pc \in Holding, NEW m, m = st[t].o
    PROVE  /\ st[t] \in ThreadType /\ FormOK(st[t]) /\ m \in Mobjs /\ m # NULL
           /\ mobj[m] \in MobjType /\ mobj[m] # NULL
           /\ UserOK(st[t], mobj[m]) /\ CountsOK(m) /\ FlagsOK(mobj[m])
           /\ mobj[m].refc >= 1
           /\ Maps(st[t], m) => mobj[m].mapcount >= 1
  <1>1. ~At(t, "idle")
    BY DEF At, Holding
  <1>2. /\ st[t] \in ThreadType /\ FormOK(st[t]) /\ m \in Mobjs /\ UserOK(st[t], mobj[m])
        /\ m # NULL
    BY <1>1, OnCell, ShmAssumption
  <1>3. mobj[m] # NULL
    BY <1>2 DEF UserOK
  <1>4. CountsOK(m) /\ FlagsOK(mobj[m]) /\ mobj[m] \in MobjType
    BY <1>1, <1>3, OnCell
  <1>5. /\ Holders(m) \in SUBSET Threads /\ t \in Holders(m)
        /\ Mappers(m) \in SUBSET Threads /\ (Maps(st[t], m) => t \in Mappers(m))
    BY DEF Holders, Mappers, Maps
  <1>6. /\ Cardinality(Holders(m)) \in Nat /\ Cardinality(Holders(m)) >= 1
        /\ Cardinality(Mappers(m)) \in Nat
        /\ Maps(st[t], m) => Cardinality(Mappers(m)) >= 1
    BY <1>5, CountBounds
  <1>7. mobj[m].mapcount \in Nat /\ mobj[m].refc \in Nat
    BY <1>4 DEF MobjType
  <1> QED
    BY <1>2, <1>3, <1>4, <1>6, <1>7 DEF CountsOK

LEMMA HeapStays ==
    ASSUME HeapType, UNCHANGED mobj, NEW m \in Mobjs
    PROVE  mobj' = [mobj EXCEPT ![m] = mobj[m]]
  BY DEF HeapType

\* A thread with a reference goes on, with the same mapping or none.
LEMMA GoOn ==
    ASSUME CoreInv, NEW t \in Threads, st[t].pc \in Holding \ {"unguard"},
           NEW p \in Holding \ {"unguard"}, NEW s, s = [st[t] EXCEPT !.pc = p],
           MapsN(st[t], st[t].o) >= MapsN(s, st[t].o),
           st' = [st EXCEPT ![t] = s], UNCHANGED mobj
    PROVE  CoreInv' /\ SamePages
  <1>1. PICK m : m = st[t].o
    OBVIOUS
  <1>2. st[t] \in ThreadType /\ m \in Mobjs /\ mobj[m] \in MobjType /\ FlagsOK(mobj[m])
    BY <1>1, HolderFacts
  <1>4. mobj[m].mapcount \in Nat /\ SameRefs(mobj[m], mobj[m])
    BY <1>2 DEF MobjType, SameRefs, SameMemory
  <1>5. MapsN(st[t], m) \in Nat /\ MapsN(s, m) \in Nat
    BY DEF MapsN
  <1>6. mobj[m].mapcount + MapsN(st[t], m) >= mobj[m].mapcount + MapsN(s, m)
    BY <1>1, <1>4, <1>5
  <1>7. mobj' = [mobj EXCEPT ![m] = mobj[m]]
    BY <1>2, HeapStays DEF CoreInv
  <1>8. mobj[m].mapcount > 0 => mobj[m].mm
    BY <1>2 DEF FlagsOK
  <1>9. Remaps(st[t], s, mobj[m], mobj[m], m)
    BY <1>4, <1>6, <1>8 DEF Remaps
  <1> QED
    BY <1>1, <1>2, <1>7, <1>9, MapStep

\* Whether a thread uses the mapping
LEMMA MapsAt ==
    ASSUME NEW r \in ThreadType, NEW m, m = r.o, NEW p
    PROVE  /\ MapsN(r, m) \in {0, 1} /\ MapsN([r EXCEPT !.pc = p], m) \in {0, 1}
           /\ r.pc \notin {"using", "unmap"} => MapsN(r, m) = 0
           /\ r.pc = "unmap" \/ (r.pc = "using" /\ r.job = "regd") => MapsN(r, m) = 1
           /\ p \notin {"using", "unmap"} => MapsN([r EXCEPT !.pc = p], m) = 0
  <1>1. PICK s : s = [r EXCEPT !.pc = p]
    OBVIOUS
  <1>2. s.pc = p
    BY <1>1 DEF ThreadType
  <1>3. /\ MapsN(s, m) \in {0, 1} /\ (p \notin {"using", "unmap"} => MapsN(s, m) = 0)
    BY <1>2 DEF MapsN, Maps
  <1>4. /\ MapsN(r, m) \in {0, 1}
        /\ r.pc \notin {"using", "unmap"} => MapsN(r, m) = 0
        /\ r.pc = "unmap" \/ (r.pc = "using" /\ r.job = "regd") => MapsN(r, m) = 1
    BY DEF MapsN, Maps
  <1> QED
    BY <1>1, <1>3, <1>4

LEMMA IncMapStep ==
    ASSUME CoreInv, NEW t \in Threads, inc_map(t) \/ inc_map_locked(t)
    PROVE  CoreInv' /\ SamePages
  <1>1. PICK m : m = st[t].o
    OBVIOUS
  <1>2. /\ st[t].pc \in {"map", "maplock"} /\ st[t].pc \in Holding \ {"unguard"}
    BY DEF inc_map, inc_map_locked, At, Holding
  <1>3. st[t] \in ThreadType /\ m \in Mobjs /\ mobj[m] \in MobjType /\ FlagsOK(mobj[m])
    BY <1>1, <1>2, HolderFacts
  <1>4. mobj[m].mapcount \in Nat /\ mobj[m].mm \in BOOLEAN
    BY <1>3 DEF MobjType
  <1>5. /\ MapsN(st[t], m) = 0 /\ MapsN([st[t] EXCEPT !.pc = "put"], m) = 0
        /\ MapsN([st[t] EXCEPT !.pc = "maplock"], m) = 0
        /\ MapsN([st[t] EXCEPT !.pc = "map"], m) = 0
        /\ MapsN([st[t] EXCEPT !.pc = "using"], m) \in {0, 1}
    BY <1>1, <1>2, <1>3, MapsAt
  <1>6. "put" \in Holding \ {"unguard"} /\ "maplock" \in Holding \ {"unguard"}
        /\ "map" \in Holding \ {"unguard"} /\ "using" \in Holding \ {"unguard"}
    BY DEF Holding
  <1>7. ASSUME NEW p \in {"put", "maplock", "map"}, st' = [st EXCEPT ![t].pc = p],
               UNCHANGED mobj
        PROVE  CoreInv' /\ SamePages
    <2>1. PICK s : s = [st[t] EXCEPT !.pc = p]
      OBVIOUS
    <2>2. st' = [st EXCEPT ![t] = s] /\ MapsN(s, m) = 0
      BY <1>5, <1>7, <2>1
    <2>3. p \in Holding \ {"unguard"} /\ MapsN(st[t], m) >= MapsN(s, m)
      BY <1>5, <1>6, <2>2
    <2> QED
      BY <1>1, <1>2, <1>7, <2>1, <2>2, <2>3, GoOn
  <1>8. ASSUME NEW d \in MobjType, SameRefs(mobj[m], d), d.mm,
               d.mapcount = mobj[m].mapcount + 1,
               mobj' = [mobj EXCEPT ![m] = d], st' = [st EXCEPT ![t].pc = "using"]
        PROVE  CoreInv' /\ SamePages
    <2>1. PICK s : s = [st[t] EXCEPT !.pc = "using"]
      OBVIOUS
    <2>2. st' = [st EXCEPT ![t] = s] /\ MapsN(s, m) \in {0, 1}
      BY <1>5, <1>8, <2>1
    <2>3. d.mapcount + MapsN(st[t], m) >= mobj[m].mapcount + MapsN(s, m)
      BY <1>4, <1>5, <1>8, <2>2
    <2>4. Remaps(st[t], s, mobj[m], d, m)
      BY <1>8, <2>3 DEF Remaps
    <2> QED
      BY <1>1, <1>2, <1>6, <1>8, <2>1, <2>2, <2>4, MapStep
  <1>9. CASE /\ st' = [st EXCEPT ![t].pc = "using"] /\ mobj[m].mapcount > 0
             /\ mobj' = [mobj EXCEPT ![m].mapcount = @ + 1]
    <2>1. PICK d : d = [mobj[m] EXCEPT !.mapcount = mobj[m].mapcount + 1]
      OBVIOUS
    <2>2. /\ d \in MobjType /\ SameRefs(mobj[m], d) /\ d.mm = mobj[m].mm
          /\ d.mapcount = mobj[m].mapcount + 1
      BY <1>3, <2>1 DEF MobjType, SameRefs, SameMemory
    <2>3. mobj[m].mm
      BY <1>3, <1>9 DEF FlagsOK
    <2>4. mobj' = [mobj EXCEPT ![m] = d]
      BY <1>9, <2>1
    <2> QED
      BY <1>8, <1>9, <2>2, <2>3, <2>4
  <1>10. CASE /\ st' = [st EXCEPT ![t].pc = "using"] /\ mobj[m].mapcount = 0
              /\ mobj' = [mobj EXCEPT ![m].mm = TRUE, ![m].mapcount = 1]
    <2>1. PICK d : d = [mobj[m] EXCEPT !.mm = TRUE, !.mapcount = 1]
      OBVIOUS
    <2>2. /\ d \in MobjType /\ SameRefs(mobj[m], d) /\ d.mm = TRUE
          /\ d.mapcount = 1
      BY <1>3, <2>1 DEF MobjType, SameRefs, SameMemory
    <2>3. d.mapcount = mobj[m].mapcount + 1
      BY <1>10, <2>2
    <2>4. mobj' = [mobj EXCEPT ![m] = d]
      BY <1>3, <1>10, <2>1 DEF CoreInv, HeapType
    <2> QED
      BY <1>8, <1>10, <2>2, <2>3, <2>4
  <1>11. CASE inc_map(t)
    BY <1>1, <1>7, <1>9, <1>11 DEF inc_map, GoTo
  <1>12. CASE inc_map_locked(t)
    BY <1>1, <1>7, <1>10, <1>12 DEF inc_map_locked, GoTo
  <1> QED
    BY <1>11, <1>12

\* Unmapping, and the end of the use of an object
LEMMA DecMapStep ==
    ASSUME CoreInv, NEW t \in Threads, EndUse(t) \/ dec_map(t) \/ dec_map_locked(t)
    PROVE  CoreInv' /\ SamePages
  <1>1. PICK m : m = st[t].o
    OBVIOUS
  <1>2. /\ st[t].pc \in {"using", "unmap", "unmaplock"} /\ st[t].pc \in Holding \ {"unguard"}
    BY DEF EndUse, dec_map, dec_map_locked, At, Holding
  <1>3. /\ st[t] \in ThreadType /\ m \in Mobjs /\ mobj[m] \in MobjType /\ FlagsOK(mobj[m])
        /\ Maps(st[t], m) => mobj[m].mapcount >= 1
    BY <1>1, <1>2, HolderFacts
  <1>4. mobj[m].mapcount \in Nat /\ mobj[m].mm \in BOOLEAN
    BY <1>3 DEF MobjType
  <1>5. "put" \in Holding \ {"unguard"} /\ "unmaplock" \in Holding \ {"unguard"}
        /\ "unmap" \in Holding \ {"unguard"}
    BY DEF Holding
  <1>6. CASE EndUse(t)
    <2>1. PICK p \in {"unmap", "put"} : /\ st' = [st EXCEPT ![t].pc = p]
                                        /\ p = "unmap" => st[t].job = "regd"
      BY <1>6 DEF EndUse, GoTo
    <2>2. st[t].pc = "using" /\ UNCHANGED mobj
      BY <1>6 DEF EndUse, At
    <2>3. PICK s : s = [st[t] EXCEPT !.pc = p]
      OBVIOUS
    <2>4. s.pc = p /\ s.job = st[t].job /\ s.o = m
      BY <1>1, <1>3, <2>3 DEF ThreadType
    <2>5. MapsN(st[t], m) >= MapsN(s, m)
      BY <1>1, <2>1, <2>2, <2>4 DEF MapsN, Maps
    <2>6. st' = [st EXCEPT ![t] = s]
      BY <2>1, <2>3
    <2> QED
      BY <1>1, <1>2, <1>5, <2>2, <2>3, <2>5, <2>6, GoOn
  <1>7. CASE dec_map(t)
    <2>1. PICK p \in {"unmaplock", "put"} : st' = [st EXCEPT ![t].pc = p]
      BY <1>7 DEF dec_map, GoTo
    <2>2. st[t].pc = "unmap" /\ mobj' = [mobj EXCEPT ![m].mapcount = @ - 1]
      BY <1>1, <1>7 DEF dec_map, At
    <2>3. PICK s : s = [st[t] EXCEPT !.pc = p]
      OBVIOUS
    <2>4. s.pc = p
      BY <1>3, <2>3 DEF ThreadType
    <2>5. MapsN(st[t], m) = 1 /\ MapsN(s, m) = 0 /\ mobj[m].mapcount >= 1
      BY <1>1, <1>3, <2>2, <2>4 DEF MapsN, Maps
    <2>6. PICK d : d = [mobj[m] EXCEPT !.mapcount = mobj[m].mapcount - 1]
      OBVIOUS
    <2>7. mobj[m].mapcount - 1 \in Nat
      BY <1>4, <2>5
    <2>8. /\ d \in MobjType /\ SameRefs(mobj[m], d) /\ d.mm = mobj[m].mm
          /\ d.mapcount = mobj[m].mapcount - 1
      BY <1>3, <2>6, <2>7 DEF MobjType, SameRefs, SameMemory
    <2>9. Remaps(st[t], s, mobj[m], d, m)
      BY <1>3, <1>4, <2>5, <2>8 DEF Remaps, FlagsOK
    <2>10. st' = [st EXCEPT ![t] = s] /\ mobj' = [mobj EXCEPT ![m] = d]
      BY <2>1, <2>2, <2>3, <2>6
    <2> QED
      BY <1>1, <1>2, <1>5, <2>3, <2>8, <2>9, <2>10, MapStep
  <1>8. CASE dec_map_locked(t)
    <2>1. /\ st[t].pc = "unmaplock" /\ st' = [st EXCEPT ![t].pc = "put"]
          /\ mobj' = [mobj EXCEPT ![m].mm = @ /\ mobj[m].mapcount > 0]
      BY <1>1, <1>8 DEF dec_map_locked, At, GoTo
    <2>3. PICK s : s = [st[t] EXCEPT !.pc = "put"]
      OBVIOUS
    <2>4. s.pc = "put"
      BY <1>3, <2>3 DEF ThreadType
    <2>5. MapsN(st[t], m) = 0 /\ MapsN(s, m) = 0
      BY <2>1, <2>4 DEF MapsN, Maps
    <2>6. PICK d : d = [mobj[m] EXCEPT !.mm = mobj[m].mm /\ mobj[m].mapcount > 0]
      OBVIOUS
    <2>7. /\ d \in MobjType /\ SameRefs(mobj[m], d)
          /\ d.mm = (mobj[m].mm /\ mobj[m].mapcount > 0) /\ d.mapcount = mobj[m].mapcount
      BY <1>3, <2>6 DEF MobjType, SameRefs, SameMemory
    <2>8. Remaps(st[t], s, mobj[m], d, m)
      BY <1>3, <1>4, <2>5, <2>7 DEF Remaps, FlagsOK
    <2>10. st' = [st EXCEPT ![t] = s] /\ mobj' = [mobj EXCEPT ![m] = d]
      BY <2>1, <2>3, <2>6
    <2> QED
      BY <1>1, <1>2, <1>5, <2>3, <2>7, <2>8, <2>10, MapStep
  <1> QED
    BY <1>6, <1>7, <1>8

\* What threads that name an empty cell do not rely on
LEMMA EmptyCell ==
    ASSUME CoreInv, NEW m \in Mobjs, mobj[m] = NULL
    PROVE  /\ \A u \in Threads : st[u].o = m => UserOK(st[u], NULL)
           /\ Cardinality(Holders(m)) = 0 /\ Cardinality(Mappers(m)) = 0
  <1>1. \A u \in Threads : st[u].o = m => UserOK(st[u], NULL)
    BY DEF CoreInv, CellsOK, CellOK
  <1>2. \A u \in Threads : ~Holds(st[u], m) /\ ~Maps(st[u], m)
    BY <1>1 DEF Holds, Maps, UserOK, Holding
  <1>3. Holders(m) = {} /\ Mappers(m) = {}
    BY <1>2 DEF Holders, Mappers, Holds, Maps
  <1> QED
    BY <1>1, <1>3, FS_EmptySet

\* An idle thread names no cell.
LEMMA IdleFacts ==
    ASSUME CoreInv, NEW t \in Threads, At(t, "idle")
    PROVE  st[t].o = NULL /\ st[t] \in ThreadType /\ st[t].job = "none"
  BY DEF CoreInv, StateType, FormsOK, FormOK, At

\* A new object, with the reference of the thread that allocates it or, lent,
\* of its own
LEMMA NewStep ==
    ASSUME CoreInv, NEW t \in Threads, At(t, "idle"), NEW m \in Mobjs, mobj[m] = NULL,
           NEW d \in MobjType, d.refc = 1, d.mapcount = 0, ~d.releasing, ~d.release_frees,
           NEW s \in ThreadType, FormOK(s),
           \/ /\ d.guarded /\ s.o = m /\ s.pc \in {"unguard", "map", "using"}
              /\ s.job \in {"register", "arg", "temp"} /\ ~Maps(s, m)
           \/ ~d.guarded /\ s = st[t],
           mobj' = [mobj EXCEPT ![m] = d], st' = [st EXCEPT ![t] = s]
    PROVE  CoreInv'
  <1>1. StateType' /\ FormsOK' /\ Others(t) /\ st'[t] = s
    BY OneThreadMoves DEF CoreInv
  <1>2. st[t].o = NULL /\ m # NULL /\ st[t].pc = "idle" /\ d # NULL
    BY IdleFacts, ShmAssumption DEF At
  <1>3. /\ \A u \in Threads : st[u].o = m => UserOK(st[u], NULL)
        /\ Cardinality(Holders(m)) = 0 /\ Cardinality(Mappers(m)) = 0
    BY EmptyCell
  <1>4. ~Holds(st[t], m) /\ ~Maps(st[t], m) /\ ~Maps(s, m)
    BY <1>2 DEF Holds, Maps
  <1>5. Holds(s, m) <=> d.guarded
    BY <1>2 DEF Holds, Holding
  <1>6. mobj'[m] = d
    BY DEF CoreInv, HeapType
  <1>7. /\ Cardinality(Holders(m)') = IF d.guarded THEN 1 ELSE 0
        /\ Cardinality(Mappers(m)') = 0
    BY <1>1, <1>3, <1>4, <1>5, HoldersStep, MappersStep DEF CoreInv
  <1>8. CountsOK(m)'
    BY <1>6, <1>7 DEF CountsOK
  <1>9. FlagsOK(d)
    BY DEF FlagsOK
  <1>10. s.o = m => UserOK(s, d)
    BY <1>2 DEF UserOK, InRelease
  <1>11. ASSUME NEW u \in Threads \ {t}, st[u].o = m
         PROVE  UserOK(st[u], d) /\ (s.o = m => Alone(s, st[u]))
    <2>1. /\ st[u].pc \notin Holding /\ st[u].pc # "free" /\ ~InRelease(st[u])
          /\ st[u].pc # "unguard"
      BY <1>3, <1>11 DEF UserOK, Holding
    <2> QED
      BY <2>1 DEF UserOK, Alone
  <1>12. Fits(t, s, m, d)
    BY <1>2, <1>10, <1>11 DEF Fits
  <1>13. HeapType' /\ CellsOK'
    BY <1>1, <1>8, <1>9, <1>12, CellStep DEF CoreInv
  <1> QED
    BY <1>1, <1>13 DEF CoreInv

LEMMA AllocStep ==
    ASSUME CoreInv, NEW t \in Threads,
           register_shm(t) \/ TemporaryShm(t) \/ mobj_protmem_alloc(t)
    PROVE  CoreInv'
  <1>1. At(t, "idle")
    BY DEF register_shm, TemporaryShm, mobj_protmem_alloc, Call
  <1>2. ASSUME NEW k \in {"shm", "protmem"}, NEW c \in Cookies, NEW p \in Pages
        PROVE  /\ New(k, c, p) \in MobjType /\ New(k, c, p).refc = 1
               /\ New(k, c, p).mapcount = 0 /\ ~New(k, c, p).releasing
               /\ ~New(k, c, p).release_frees
               /\ New(k, c, p).guarded = (k = "shm")
    BY DEF New, MobjType
  <1>3. ASSUME NEW m \in Mobjs, NEW c \in Cookies, NEW p \in Pages,
               mobj_reg_shm_alloc(m, c, p), NEW pc, NEW job,
               <<pc, job>> \in {<<"unguard", "register">>, <<"map", "arg">>, <<"using", "temp">>},
               Go(t, pc, job, m)
        PROVE  CoreInv'
    <2>1. PICK s : s = [pc |-> pc, job |-> job, o |-> m]
      OBVIOUS
    <2>2. s.pc = pc /\ s.job = job /\ s.o = m
      BY <2>1
    <2>3. /\ pc \in {"unguard", "map", "using"} /\ job \in {"register", "arg", "temp"}
          /\ pc = "using" => job = "temp"
      BY <1>3
    <2>4. m # NULL
      BY ShmAssumption
    <2>5. s \in ThreadType
      BY <2>1, <2>3 DEF ThreadType, PCs, Jobs
    <2>6. FormOK(s) /\ ~Maps(s, m)
      BY <2>2, <2>3, <2>4 DEF FormOK, Waits, Maps
    <2>7. PICK d : d = New("shm", c, p)
      OBVIOUS
    <2>8. /\ d \in MobjType /\ d.refc = 1 /\ d.mapcount = 0 /\ ~d.releasing
          /\ ~d.release_frees /\ d.guarded
      BY <1>2, <2>7
    <2>9. /\ mobj[m] = NULL /\ mobj' = [mobj EXCEPT ![m] = d]
          /\ st' = [st EXCEPT ![t] = s]
      BY <1>3, <2>1, <2>7 DEF mobj_reg_shm_alloc, Go
    <2> QED
      BY <1>1, <2>2, <2>3, <2>5, <2>6, <2>8, <2>9, NewStep
  <1>4. CASE register_shm(t)
    BY <1>3, <1>4 DEF register_shm
  <1>5. CASE TemporaryShm(t)
    BY <1>3, <1>5 DEF TemporaryShm
  <1>6. CASE mobj_protmem_alloc(t)
    <2>1. PICK m \in Mobjs, c \in Cookies, p \in Pages :
             mobj[m] = NULL /\ mobj' = [mobj EXCEPT ![m] = New("protmem", c, p)]
      BY <1>6 DEF mobj_protmem_alloc
    <2>2. PICK d : d = New("protmem", c, p)
      OBVIOUS
    <2>3. /\ d \in MobjType /\ d.refc = 1 /\ d.mapcount = 0 /\ ~d.releasing
          /\ ~d.release_frees /\ ~d.guarded
      BY <1>2, <2>2
    <2>4. PICK s : s = st[t]
      OBVIOUS
    <2>5. s \in ThreadType /\ FormOK(s)
      BY <2>4 DEF CoreInv, StateType, FormsOK
    <2>6. st' = st
      BY <1>6 DEF mobj_protmem_alloc
    <2>7. st' = [st EXCEPT ![t] = s] /\ mobj' = [mobj EXCEPT ![m] = d]
      BY <2>1, <2>2, <2>4, <2>6 DEF CoreInv, StateType
    <2> QED
      BY <1>1, <2>1, <2>3, <2>4, <2>5, <2>7, NewStep
  <1> QED
    BY <1>4, <1>5, <1>6

\* What is known of a live object
LEMMA LiveFacts ==
    ASSUME CoreInv, NEW m \in Allocated
    PROVE  /\ m \in Mobjs /\ m # NULL /\ mobj[m] # NULL /\ mobj[m] \in MobjType
           /\ CellOK(m) /\ CountsOK(m) /\ FlagsOK(mobj[m])
           /\ mobj[m].refc \in Nat /\ mobj[m].mapcount \in Nat
  <1>1. m \in Mobjs /\ mobj[m] # NULL
    BY DEF Allocated, Live
  <1>2. m # NULL /\ mobj[m] \in MobjType /\ CellOK(m)
    BY <1>1, ShmAssumption DEF CoreInv, HeapType, CellsOK
  <1> QED
    BY <1>1, <1>2 DEF CellOK, MobjType

\* An idle thread takes an object: it gets a reference or, while the counter
\* is zero, panics.
LEMMA GetStep ==
    ASSUME CoreInv, NEW t \in Threads, At(t, "idle"), NEW m \in Allocated,
           NEW job \in {"regd", "param"}, mobj_get(t, job, m)
    PROVE  CoreInv' /\ SamePages
  <1>1. /\ m \in Mobjs /\ m # NULL /\ mobj[m] # NULL /\ mobj[m] \in MobjType
        /\ CellOK(m) /\ CountsOK(m) /\ FlagsOK(mobj[m])
        /\ mobj[m].refc \in Nat /\ mobj[m].mapcount \in Nat
    BY LiveFacts
  <1>2. st[t].o = NULL
    BY IdleFacts
  <1>3. HoldsN(st[t], m) = 0 /\ MapsN(st[t], m) = 0
    BY <1>1, <1>2 DEF HoldsN, Holds, MapsN, Maps
  <1>4. CASE mobj[m].refc = 0
    <2>1. PICK s : s = [pc |-> "panic", job |-> job, o |-> m]
      OBVIOUS
    <2>2. /\ s \in ThreadType /\ s.pc = "panic" /\ s.job = job /\ s.o = m
      BY <1>1, <2>1 DEF ThreadType, PCs, Jobs
    <2>3. FormOK(s) /\ UserOK(s, mobj[m]) /\ \A u : Alone(s, u)
      BY <1>1, <2>2 DEF FormOK, Waits, UserOK, Alone, InRelease, Holding
    <2>4. st' = [st EXCEPT ![t] = s] /\ mobj' = [mobj EXCEPT ![m] = mobj[m]]
      BY <1>1, <1>4, <2>1, HeapStays DEF mobj_get, Go, CoreInv
    <2>5. HoldsN(s, m) = 0 /\ MapsN(s, m) = 0
      BY <2>2 DEF HoldsN, Holds, MapsN, Maps, Holding
    <2>6. Balanced(st[t], s, mobj[m], mobj[m], m)
      BY <1>1, <1>3, <2>5 DEF Balanced, OwnRef
    <2>7. \A u \in Threads : st[u].o = m => UserOK(st[u], mobj[m])
      BY <1>1 DEF CellOK
    <2>8. Fits(t, s, m, mobj[m])
      BY <1>2, <2>2, <2>3, <2>7 DEF Fits
    <2>9. SameMemory(mobj[m], mobj[m])
      BY DEF SameMemory
    <2> QED
      BY <1>1, <2>2, <2>3, <2>4, <2>6, <2>8, <2>9, ObjectStep
  <1>5. CASE mobj[m].refc # 0
    <2>1. PICK pc \in {"map", "using"} : /\ pc = "using" => job = "param"
                                         /\ Go(t, pc, job, m)
      BY <1>5 DEF mobj_get
    <2>2. PICK s : s = [pc |-> pc, job |-> job, o |-> m]
      OBVIOUS
    <2>3. /\ s \in ThreadType /\ s.pc = pc /\ s.job = job /\ s.o = m
      BY <1>1, <2>2 DEF ThreadType, PCs, Jobs
    <2>4. PICK d : d = [mobj[m] EXCEPT !.refc = mobj[m].refc + 1]
      OBVIOUS
    <2>5. /\ d \in MobjType /\ d.refc = mobj[m].refc + 1 /\ d.mapcount = mobj[m].mapcount
          /\ d.mm = mobj[m].mm /\ d.guarded = mobj[m].guarded
          /\ d.releasing = mobj[m].releasing /\ d.release_frees = mobj[m].release_frees /\ SameMemory(mobj[m], d)
      BY <1>1, <2>4 DEF MobjType, SameMemory
    <2>6. st' = [st EXCEPT ![t] = s] /\ mobj' = [mobj EXCEPT ![m] = d]
      BY <1>5, <2>1, <2>2, <2>4 DEF mobj_get, Go
    <2>7. HoldsN(s, m) = 1 /\ MapsN(s, m) = 0
      BY <2>1, <2>3 DEF HoldsN, Holds, MapsN, Maps, Holding
    <2>8. Balanced(st[t], s, mobj[m], d, m)
      <3>1. OwnRef(d) = OwnRef(mobj[m]) /\ OwnRef(d) \in Nat
        BY <2>5 DEF OwnRef
      <3> QED
        BY <1>1, <1>3, <2>5, <2>7, <3>1 DEF Balanced
    <2>9. FlagsOK(d)
      BY <1>1, <1>5, <2>5 DEF FlagsOK
    <2>10. d # NULL
      BY <2>5, ShmAssumption
    <2>11. FormOK(s) /\ UserOK(s, d) /\ \A u : Alone(s, u)
      BY <1>1, <2>1, <2>3, <2>10 DEF FormOK, Waits, UserOK, Alone, InRelease
    <2>12. ASSUME NEW u \in Threads \ {t}, st[u].o = m
           PROVE  UserOK(st[u], d)
      <3>1. UserOK(st[u], mobj[m])
        BY <1>1, <2>12 DEF CellOK
      <3> QED
        BY <1>5, <2>5, <2>10, <3>1 DEF UserOK
    <2>13. Fits(t, s, m, d)
      BY <1>2, <2>3, <2>11, <2>12 DEF Fits
    <2> QED
      BY <1>1, <2>3, <2>5, <2>6, <2>8, <2>9, <2>11, <2>13, ObjectStep
  <1> QED
    BY <1>4, <1>5

\* The lookups give an object that is not being released.
LEMMA FoundObject ==
    ASSUME NEW t \in Threads,
           mobj_reg_shm_get_by_cookie(t) \/ mobj_protmem_get_by_pa(t)
    PROVE  /\ At(t, "idle")
           /\ \E m \in Allocated, job \in {"regd", "param"} :
                 ~mobj[m].releasing /\ mobj_get(t, job, m)
  <1>1. CASE mobj_reg_shm_get_by_cookie(t)
    <2>1. PICK c \in Cookies, job \in {"regd", "param"} : \E m \in FindByCookie(c) :
             ~mobj[m].releasing /\ mobj_get(t, job, m)
      BY <1>1 DEF mobj_reg_shm_get_by_cookie
    <2>2. FindByCookie(c) \subseteq Allocated
      BY DEF FindByCookie, Allocated
    <2> QED
      BY <1>1, <2>1, <2>2 DEF mobj_reg_shm_get_by_cookie, Call
  <1>2. CASE mobj_protmem_get_by_pa(t)
    BY <1>2 DEF mobj_protmem_get_by_pa, Call, Allocated
  <1> QED
    BY <1>1, <1>2

LEMMA FindStep ==
    ASSUME CoreInv, NEW t \in Threads,
           mobj_reg_shm_get_by_cookie(t) \/ mobj_protmem_get_by_pa(t)
    PROVE  CoreInv' /\ SamePages
  BY FoundObject, GetStep

LEMMA IdleThread ==
    /\ Idle \in ThreadType /\ FormOK(Idle) /\ Idle.o = NULL /\ Idle.pc = "idle"
    /\ \A m \in Mobjs : HoldsN(Idle, m) = 0 /\ MapsN(Idle, m) = 0
  <1>1. Idle \in ThreadType /\ Idle.o = NULL /\ Idle.pc = "idle" /\ Idle.job = "none"
    BY DEF Idle, ThreadType, PCs, Jobs
  <1>2. FormOK(Idle)
    BY <1>1 DEF FormOK, Waits
  <1>3. \A m \in Mobjs : HoldsN(Idle, m) = 0 /\ MapsN(Idle, m) = 0
    BY <1>1, ShmAssumption DEF HoldsN, MapsN, Holds, Maps
  <1> QED
    BY <1>1, <1>2, <1>3

\* The reference of the thread becomes the one of the registration.
LEMMA UnguardStep ==
    ASSUME CoreInv, NEW t \in Threads, mobj_reg_shm_unguard(t)
    PROVE  CoreInv' /\ SamePages
  <1>1. PICK m : m = st[t].o
    OBVIOUS
  <1>2. st[t].pc = "unguard" /\ st[t].pc \in Holding
    BY DEF mobj_reg_shm_unguard, At, Holding
  <1>3. /\ st[t] \in ThreadType /\ m \in Mobjs /\ m # NULL /\ mobj[m] \in MobjType
        /\ FlagsOK(mobj[m]) /\ UserOK(st[t], mobj[m])
    BY <1>1, <1>2, HolderFacts
  <1>4. mobj[m].guarded /\ ~mobj[m].releasing /\ mobj[m].refc \in Nat /\ mobj[m].mapcount \in Nat
    BY <1>2, <1>3 DEF FlagsOK, UserOK, MobjType
  <1>5. PICK d : d = [mobj[m] EXCEPT !.guarded = FALSE]
    OBVIOUS
  <1>6. /\ d \in MobjType /\ d.refc = mobj[m].refc /\ d.mapcount = mobj[m].mapcount
        /\ d.mm = mobj[m].mm /\ d.guarded = FALSE
        /\ d.releasing = mobj[m].releasing /\ d.release_frees = mobj[m].release_frees /\ SameMemory(mobj[m], d)
    BY <1>3, <1>5 DEF MobjType, SameMemory
  <1>7. d # NULL
    BY <1>6, ShmAssumption
  <1>8. HoldsN(st[t], m) = 1 /\ MapsN(st[t], m) = 0 /\ HoldsN(Idle, m) = 0 /\ MapsN(Idle, m) = 0
    BY <1>1, <1>2, <1>3, IdleThread DEF HoldsN, Holds, MapsN, Maps
  <1>9. Balanced(st[t], Idle, mobj[m], d, m)
    BY <1>4, <1>6, <1>8 DEF Balanced, OwnRef
  <1>10. FlagsOK(d)
    BY <1>3, <1>6 DEF FlagsOK
  <1>11. ASSUME NEW u \in Threads \ {t}, st[u].o = m
         PROVE  UserOK(st[u], d)
    <2>1. UserOK(st[u], mobj[m]) /\ Alone(st[t], st[u])
      BY <1>1, <1>3, <1>11 DEF CoreInv, CellsOK, CellOK
    <2>2. st[u].pc # "unguard"
      BY <1>2, <2>1 DEF Alone
    <2> QED
      BY <1>6, <1>7, <2>1, <2>2 DEF UserOK
  <1>12. Fits(t, Idle, m, d)
    BY <1>1, <1>3, <1>11, IdleThread DEF Fits
  <1>13. mobj' = [mobj EXCEPT ![m] = d] /\ st' = [st EXCEPT ![t] = Idle]
    BY <1>1, <1>5 DEF mobj_reg_shm_unguard
  <1> QED
    BY <1>3, <1>6, <1>9, <1>10, <1>12, <1>13, IdleThread, ObjectStep

\* A release takes the reference of the registration over.
LEMMA ReleaseStep ==
    ASSUME CoreInv, NEW t \in Threads, release_by_cookie(t)
    PROVE  CoreInv' /\ SamePages
  <1>1. PICK m \in Allocated :
           /\ ~mobj[m].guarded /\ ~mobj[m].releasing
           /\ mobj' = [mobj EXCEPT ![m].releasing = TRUE]
           /\ Go(t, "put", "release", m)
    BY DEF release_by_cookie, Allocated
  <1>2. /\ m \in Mobjs /\ m # NULL /\ mobj[m] # NULL /\ mobj[m] \in MobjType
        /\ CellOK(m) /\ CountsOK(m) /\ FlagsOK(mobj[m])
        /\ mobj[m].refc \in Nat /\ mobj[m].mapcount \in Nat
    BY LiveFacts
  <1>3. st[t].o = NULL
    BY IdleFacts DEF release_by_cookie, Call
  <1>4. HoldsN(st[t], m) = 0 /\ MapsN(st[t], m) = 0
    BY <1>2, <1>3 DEF HoldsN, Holds, MapsN, Maps
  <1>5. PICK d : d = [mobj[m] EXCEPT !.releasing = TRUE]
    OBVIOUS
  <1>6. /\ d \in MobjType /\ d.refc = mobj[m].refc /\ d.mapcount = mobj[m].mapcount
        /\ d.mm = mobj[m].mm /\ d.guarded = mobj[m].guarded
        /\ d.releasing = TRUE /\ d.release_frees = mobj[m].release_frees /\ SameMemory(mobj[m], d)
    BY <1>2, <1>5 DEF MobjType, SameMemory
  <1>7. d # NULL
    BY <1>6, ShmAssumption
  <1>8. PICK s : s = [pc |-> "put", job |-> "release", o |-> m]
    OBVIOUS
  <1>9. s \in ThreadType /\ s.pc = "put" /\ s.job = "release" /\ s.o = m
    BY <1>2, <1>8 DEF ThreadType, PCs, Jobs
  <1>10. HoldsN(s, m) = 1 /\ MapsN(s, m) = 0
    BY <1>9 DEF HoldsN, Holds, MapsN, Maps, Holding
  <1>11. Balanced(st[t], s, mobj[m], d, m)
    BY <1>1, <1>2, <1>4, <1>6, <1>10 DEF Balanced, OwnRef
  <1>12. FlagsOK(d)
    BY <1>1, <1>2, <1>6 DEF FlagsOK
  <1>13. FormOK(s) /\ UserOK(s, d)
    BY <1>2, <1>6, <1>7, <1>9 DEF FormOK, Waits, UserOK, InRelease
  <1>14. ASSUME NEW u \in Threads \ {t}, st[u].o = m
         PROVE  UserOK(st[u], d) /\ Alone(s, st[u])
    <2>1. UserOK(st[u], mobj[m])
      BY <1>2, <1>14 DEF CellOK
    <2>2. ~InRelease(st[u])
      BY <1>1, <2>1 DEF UserOK
    <2> QED
      BY <1>6, <1>7, <1>9, <2>1, <2>2 DEF UserOK, Alone
  <1>15. Fits(t, s, m, d)
    BY <1>3, <1>9, <1>13, <1>14 DEF Fits
  <1>16. mobj' = [mobj EXCEPT ![m] = d] /\ st' = [st EXCEPT ![t] = s]
    BY <1>1, <1>5, <1>8 DEF Go
  <1> QED
    BY <1>2, <1>6, <1>9, <1>11, <1>12, <1>13, <1>15, <1>16, ObjectStep

\* Where a thread goes after mobj_put
LEMMA AfterPutFacts ==
    ASSUME CoreInv, NEW t \in Threads, NEW m \in Mobjs, st[t].o = m,
           st[t].pc \in {"put", "free", "broadcast"}, NEW s, s = AfterPut(t)
    PROVE  /\ s \in ThreadType /\ FormOK(s) /\ s.o \in {m, NULL}
           /\ s.o = m => s.pc = "wait" /\ InRelease(s) /\ InRelease(st[t])
           /\ HoldsN(s, m) = 0 /\ MapsN(s, m) = 0
           /\ ~Waits(s) /\ (st[t].job # "release" => s = Idle)
  <1>1. st[t] \in ThreadType /\ m # NULL
    BY ShmAssumption DEF CoreInv, StateType
  <1>2. CASE st[t].job = "release"
    <2>1. s = [st[t] EXCEPT !.pc = "wait"]
      BY <1>2 DEF AfterPut
    <2>2. s \in ThreadType /\ s.pc = "wait" /\ s.job = "release" /\ s.o = m
      BY <1>1, <1>2, <2>1 DEF ThreadType, PCs
    <2> QED
      BY <1>1, <1>2, <2>2 DEF FormOK, Waits, InRelease, HoldsN, Holds, MapsN, Maps, Holding
  <1>3. CASE st[t].job # "release"
    <2>1. s = Idle
      BY <1>3 DEF AfterPut
    <2> QED
      BY <1>1, <2>1, IdleThread DEF Waits
  <1> QED
    BY <1>2, <1>3

\* A reference is given back.
LEMMA PutStep ==
    ASSUME CoreInv, NEW t \in Threads, mobj_put(t)
    PROVE  CoreInv' /\ SamePages
  <1>1. PICK m : m = st[t].o
    OBVIOUS
  <1>2. st[t].pc = "put" /\ st[t].pc \in Holding
    BY DEF mobj_put, At, Holding
  <1>3. /\ st[t] \in ThreadType /\ FormOK(st[t]) /\ m \in Mobjs /\ m # NULL
        /\ mobj[m] \in MobjType /\ mobj[m] # NULL
        /\ UserOK(st[t], mobj[m]) /\ FlagsOK(mobj[m]) /\ mobj[m].refc >= 1
    BY <1>1, <1>2, HolderFacts
  <1>4. mobj[m].refc \in Nat /\ mobj[m].mapcount \in Nat /\ mobj[m].refc - 1 \in Nat
    <2>1. mobj[m].refc \in Nat /\ mobj[m].mapcount \in Nat
      BY <1>3 DEF MobjType
    <2> QED
      BY <1>3, <2>1
  <1>5. PICK d : d = [mobj[m] EXCEPT !.refc = mobj[m].refc - 1]
    OBVIOUS
  <1>6. /\ d \in MobjType /\ d.refc = mobj[m].refc - 1 /\ d.mapcount = mobj[m].mapcount
        /\ d.mm = mobj[m].mm /\ d.guarded = mobj[m].guarded
        /\ d.releasing = mobj[m].releasing /\ d.release_frees = mobj[m].release_frees /\ SameMemory(mobj[m], d)
    BY <1>3, <1>4, <1>5 DEF MobjType, SameMemory
  <1>7. d # NULL /\ ~d.release_frees
    BY <1>3, <1>4, <1>6, ShmAssumption DEF FlagsOK
  <1>8. FlagsOK(d)
    BY <1>3, <1>6, <1>7 DEF FlagsOK
  <1>9. HoldsN(st[t], m) = 1 /\ MapsN(st[t], m) = 0
    BY <1>1, <1>2 DEF HoldsN, Holds, MapsN, Maps
  <1>10. ASSUME NEW s, HoldsN(s, m) = 0, MapsN(s, m) = 0
         PROVE  Balanced(st[t], s, mobj[m], d, m)
    <2>1. OwnRef(d) = OwnRef(mobj[m]) /\ OwnRef(d) \in Nat
      BY <1>6 DEF OwnRef
    <2> QED
      BY <1>4, <1>6, <1>9, <1>10, <2>1 DEF Balanced
  <1>11. ASSUME NEW u \in Threads \ {t}, st[u].o = m
         PROVE  UserOK(st[u], d) /\ Alone(st[t], st[u]) /\ st[u].pc # "free"
    <2>1. UserOK(st[u], mobj[m]) /\ Alone(st[t], st[u])
      BY <1>1, <1>3, <1>11 DEF CoreInv, CellsOK, CellOK
    <2>2. st[u].pc # "free"
      BY <1>3, <1>4, <2>1 DEF UserOK
    <2> QED
      BY <1>6, <1>7, <2>1, <2>2 DEF UserOK
  <1>12. mobj' = [mobj EXCEPT ![m] = d]
    BY <1>1, <1>5 DEF mobj_put
  <1>13. CASE mobj[m].refc = 1
    <2>1. PICK s : s = [st[t] EXCEPT !.pc = "free"]
      OBVIOUS
    <2>2. /\ s \in ThreadType /\ s.pc = "free" /\ s.job = st[t].job /\ s.o = m
      BY <1>1, <1>3, <2>1 DEF ThreadType, PCs
    <2>3. FormOK(s) /\ HoldsN(s, m) = 0 /\ MapsN(s, m) = 0
      BY <1>3, <2>2 DEF FormOK, Waits, HoldsN, Holds, MapsN, Maps, Holding
    <2>4. InRelease(s) <=> InRelease(st[t])
      BY <1>2, <2>2 DEF InRelease
    <2>5. UserOK(s, d)
      BY <1>3, <1>6, <1>7, <1>13, <2>2, <2>4 DEF UserOK
    <2>6. \A u \in Threads \ {t} : st[u].o = m => Alone(s, st[u])
      BY <1>11, <2>2, <2>4 DEF Alone
    <2>7. Fits(t, s, m, d)
      BY <1>1, <1>11, <2>2, <2>5, <2>6 DEF Fits
    <2>8. st' = [st EXCEPT ![t] = s]
      BY <1>1, <1>13, <2>1 DEF mobj_put, GoTo
    <2> QED
      BY <1>3, <1>6, <1>8, <1>10, <1>12, <2>2, <2>3, <2>7, <2>8, ObjectStep
  <1>14. CASE mobj[m].refc # 1
    <2>1. PICK s : s = AfterPut(t)
      OBVIOUS
    <2>2. /\ s \in ThreadType /\ FormOK(s) /\ s.o \in {m, NULL}
          /\ s.o = m => s.pc = "wait" /\ InRelease(s) /\ InRelease(st[t])
          /\ HoldsN(s, m) = 0 /\ MapsN(s, m) = 0
      BY <1>1, <1>2, <1>3, <2>1, AfterPutFacts
    <2>3. s.o = m => UserOK(s, d)
      BY <1>3, <1>6, <1>7, <2>2 DEF UserOK, Holding
    <2>4. \A u \in Threads \ {t} : st[u].o = m => (s.o = m => Alone(s, st[u]))
      BY <1>11, <2>2 DEF Alone
    <2>5. Fits(t, s, m, d)
      BY <1>1, <1>11, <2>2, <2>3, <2>4 DEF Fits
    <2>6. st' = [st EXCEPT ![t] = s]
      BY <1>1, <1>14, <2>1 DEF mobj_put
    <2> QED
      BY <1>3, <1>6, <1>8, <1>10, <1>12, <2>2, <2>5, <2>6, ObjectStep
  <1> QED
    BY <1>13, <1>14

\* What is known when the last reference was given back
LEMMA LastFacts ==
    ASSUME CoreInv, NEW m \in Mobjs, mobj[m] # NULL, mobj[m].refc = 0
    PROVE  /\ mobj[m].guarded \/ mobj[m].releasing
           /\ \A u \in Threads : st[u].o = m => st[u].pc \notin Holding
  <1>1. CountsOK(m)
    BY DEF CoreInv, CellsOK, CellOK
  <1>2. Holders(m) \in SUBSET Threads
    BY DEF Holders
  <1>3. Cardinality(Holders(m)) \in Nat /\ (Holders(m) = {} <=> Cardinality(Holders(m)) = 0)
    BY <1>2, CountBounds
  <1>4. /\ Cardinality(Holders(m)) = 0 /\ (mobj[m].guarded \/ mobj[m].releasing)
    BY <1>1, <1>3 DEF CountsOK
  <1> QED
    BY <1>3, <1>4 DEF Holders

\* The object is freed, or left to the release that waits for it.
LEMMA FreeStep ==
    ASSUME CoreInv, NEW t \in Threads, mobj_free(t)
    PROVE  /\ CoreInv'
           /\ \/ free_helper(st[t].o)
              \/ SamePages /\ UNCHANGED protected
  <1>1. PICK m : m = st[t].o
    OBVIOUS
  <1>2. st[t].pc = "free" /\ ~At(t, "idle")
    BY DEF mobj_free, At
  <1>3. /\ st[t] \in ThreadType /\ FormOK(st[t]) /\ m \in Mobjs /\ m # NULL
        /\ UserOK(st[t], mobj[m])
    BY <1>1, <1>2, OnCell, ShmAssumption
  <1>4. mobj[m] # NULL /\ mobj[m].refc = 0
    BY <1>2, <1>3 DEF UserOK
  <1>5. mobj[m] \in MobjType /\ FlagsOK(mobj[m])
    BY <1>1, <1>2, <1>4, OnCell
  <1>6. /\ mobj[m].guarded \/ mobj[m].releasing
        /\ \A u \in Threads : st[u].o = m => st[u].pc \notin Holding
    BY <1>3, <1>4, LastFacts
  <1>7. \A u \in Threads \ {t} : st[u].o = m =>
           UserOK(st[u], mobj[m]) /\ Alone(st[t], st[u])
    BY <1>1, <1>3 DEF CoreInv, CellsOK, CellOK
  <1>8. CASE (mobj[m].kind = "shm" => mobj[m].guarded) /\ ~mobj[m].releasing
    <2>1. PICK s : s = AfterPut(t)
      OBVIOUS
    <2>2. st[t].job # "release"
      BY <1>2, <1>3, <1>8 DEF UserOK, InRelease
    <2>3. s = Idle
      BY <2>1, <2>2 DEF AfterPut
    <2>4. ASSUME NEW u \in Threads \ {t}, st[u].o = m
          PROVE  UserOK(st[u], NULL)
      <3>1. ~InRelease(st[u])
        BY <1>7, <1>8, <2>4 DEF UserOK
      <3>2. st[u].pc # "free" /\ st[u].pc \notin Holding /\ st[u].pc # "unguard"
        BY <1>2, <1>6, <1>7, <2>4 DEF Alone, Holding
      <3> QED
        BY <3>1, <3>2 DEF UserOK
    <2>5. Fits(t, Idle, m, NULL)
      BY <1>1, <1>3, <2>4, IdleThread DEF Fits
    <2>6. mobj' = [mobj EXCEPT ![m] = NULL] /\ st' = [st EXCEPT ![t] = Idle]
      BY <1>1, <1>8, <2>1, <2>3 DEF mobj_free, free_helper
    <2>7. free_helper(st[t].o)
      BY <1>1, <1>8 DEF mobj_free
    <2> QED
      BY <1>3, <2>5, <2>6, <2>7, IdleThread, EmptyStep
  <1>9. CASE ~((mobj[m].kind = "shm" => mobj[m].guarded) /\ ~mobj[m].releasing)
    <2>1. mobj[m].releasing
      BY <1>6, <1>9
    <2>2. PICK d : d = [mobj[m] EXCEPT !.release_frees = TRUE]
      OBVIOUS
    <2>3. /\ d \in MobjType /\ d.refc = mobj[m].refc /\ d.mapcount = mobj[m].mapcount
          /\ d.mm = mobj[m].mm /\ d.guarded = mobj[m].guarded
          /\ d.releasing = mobj[m].releasing /\ d.release_frees = TRUE /\ SameMemory(mobj[m], d)
      BY <1>5, <2>2 DEF MobjType, SameMemory
    <2>4. d # NULL
      BY <2>3, ShmAssumption
    <2>5. PICK s : s = [st[t] EXCEPT !.pc = "broadcast"]
      OBVIOUS
    <2>6. /\ s \in ThreadType /\ s.pc = "broadcast" /\ s.job = st[t].job /\ s.o = m
      BY <1>1, <1>3, <2>5 DEF ThreadType, PCs
    <2>7. /\ FormOK(s) /\ HoldsN(s, m) = 0 /\ MapsN(s, m) = 0
          /\ HoldsN(st[t], m) = 0 /\ MapsN(st[t], m) = 0
      BY <1>2, <1>3, <2>6 DEF FormOK, Waits, HoldsN, Holds, MapsN, Maps, Holding
    <2>8. InRelease(s) <=> InRelease(st[t])
      BY <1>2, <2>6 DEF InRelease
    <2>9. UserOK(s, d)
      BY <2>1, <2>3, <2>4, <2>6 DEF UserOK, Holding
    <2>10. FlagsOK(d)
      BY <1>4, <1>5, <2>1, <2>3 DEF FlagsOK
    <2>11. Balanced(st[t], s, mobj[m], d, m)
      <3>1. OwnRef(d) = OwnRef(mobj[m]) /\ OwnRef(d) \in Nat
        BY <2>3 DEF OwnRef
      <3>2. mobj[m].mapcount \in Nat
        BY <1>5 DEF MobjType
      <3> QED
        BY <1>4, <2>3, <2>7, <3>1, <3>2 DEF Balanced
    <2>12. ASSUME NEW u \in Threads \ {t}, st[u].o = m
           PROVE  UserOK(st[u], d) /\ Alone(s, st[u])
      <3>1. st[u].pc # "free"
        BY <1>2, <1>7, <2>12 DEF Alone
      <3>2. UserOK(st[u], d)
        BY <1>7, <2>3, <2>4, <2>12, <3>1 DEF UserOK
      <3>3. Alone(s, st[u])
        BY <1>7, <2>6, <2>8, <2>12 DEF Alone
      <3> QED
        BY <3>2, <3>3
    <2>13. Fits(t, s, m, d)
      BY <1>1, <2>6, <2>9, <2>12 DEF Fits
    <2>14. mobj' = [mobj EXCEPT ![m] = d] /\ st' = [st EXCEPT ![t] = s]
      BY <1>1, <1>9, <2>2, <2>5 DEF mobj_free, GoTo
    <2>15. UNCHANGED protected
      BY <1>1, <1>9 DEF mobj_free
    <2> QED
      BY <1>3, <1>5, <2>15, <2>3, <2>6, <2>7, <2>10, <2>11, <2>13, <2>14, ObjectStep
  <1> QED
    BY <1>8, <1>9

\* A thread without a reference does a step that leaves all objects as they are.
LEMMA QuietStep ==
    ASSUME CoreInv, NEW t \in Threads, ~At(t, "idle"), NEW m, m = st[t].o,
           UNCHANGED mobj, Others(t), StateType', FormsOK', NEW s, s = st'[t],
           s.o \in {m, NULL},
           st[t].pc \notin Holding, s.pc \notin Holding \cup {"free"},
           s.o = m => (InRelease(s) => InRelease(st[t]))
    PROVE  CoreInv'
  <1>1. /\ st[t] \in ThreadType /\ m \in Mobjs /\ UserOK(st[t], mobj[m])
        /\ mobj[m] \in MobjType \cup {NULL}
        /\ mobj[m] # NULL => CountsOK(m) /\ FlagsOK(mobj[m]) /\ mobj[m] \in MobjType
    BY OnCell
  <1>2. s.pc # "unguard" /\ s.pc # "using" /\ s.pc # "unmap"
        /\ st[t].pc # "using" /\ st[t].pc # "unmap"
    BY DEF Holding
  <1>3. /\ HoldsN(st[t], m) = 0 /\ MapsN(st[t], m) = 0
        /\ HoldsN(s, m) = 0 /\ MapsN(s, m) = 0
    BY <1>2 DEF HoldsN, Holds, MapsN, Maps
  <1>4. ASSUME mobj[m] # NULL PROVE CountsOK(m)'
    <2>1. mobj[m] \in MobjType /\ CountsOK(m)
      BY <1>1, <1>4
    <2>2. Balanced(st[t], s, mobj[m], mobj[m], m)
      <3>1. mobj[m].refc \in Nat /\ mobj[m].mapcount \in Nat
        BY <2>1 DEF MobjType
      <3> QED
        BY <1>3, <3>1 DEF Balanced, OwnRef
    <2> QED
      BY <1>1, <2>1, <2>2, CountsStep DEF CoreInv
  <1>5. s.o = m => UserOK(s, mobj[m])
    BY <1>1, <1>2 DEF UserOK
  <1>6. ASSUME NEW u \in Threads \ {t}, st[u].o = m
        PROVE  UserOK(st[u], mobj[m]) /\ (s.o = m => Alone(s, st[u]))
    <2>1. UserOK(st[u], mobj[m]) /\ Alone(st[t], st[u])
      BY <1>1, <1>6 DEF CoreInv, CellsOK, CellOK
    <2> QED
      BY <1>2, <2>1 DEF Alone
  <1>7. Fits(t, s, m, mobj[m])
    BY <1>5, <1>6 DEF Fits
  <1>8. mobj' = [mobj EXCEPT ![m] = mobj[m]]
    BY <1>1, HeapStays DEF CoreInv
  <1>9. HeapType' /\ CellsOK'
    BY <1>1, <1>4, <1>7, <1>8, CellStep DEF CoreInv
  <1> QED
    BY <1>9 DEF CoreInv

\* The waiters are woken.
LEMMA BroadcastMoves ==
    ASSUME CoreInv, NEW t \in Threads, free_broadcast(t)
    PROVE  StateType' /\ FormsOK' /\ Others(t) /\ st'[t] = AfterPut(t)
  <1> DEFINE W == IF shm_release_waiters > 0 THEN Woken ELSE st
  <1>1. st' = [W EXCEPT ![t] = AfterPut(t)] /\ st[t].pc = "broadcast"
    BY DEF free_broadcast, At
  <1>2. st[t].o \in Mobjs
    BY <1>1, OnCell DEF At
  <1>3. AfterPut(t) \in ThreadType /\ FormOK(AfterPut(t))
    BY <1>1, <1>2, AfterPutFacts
  <1>4. ASSUME NEW u \in Threads PROVE W[u] \in ThreadType /\ FormOK(W[u]) /\ Same(st[u], W[u])
    <2>1. st[u] \in ThreadType /\ FormOK(st[u])
      BY DEF CoreInv, StateType, FormsOK
    <2>2. Same(st[u], W[u])
      BY DEF Woken, Same, At
    <2> HIDE DEF W
    <2> QED
      BY <2>1, <2>2, SameFacts, SameUse
  <1>5. DOMAIN W = Threads /\ W = [u \in Threads |-> W[u]]
    BY DEF Woken, CoreInv, StateType
  <1> HIDE DEF W
  <1>6. /\ st'[t] = AfterPut(t) /\ \A u \in Threads \ {t} : st'[u] = W[u]
        /\ st' \in [Threads -> ThreadType]
    BY <1>1, <1>3, <1>4, <1>5
  <1>7. StateType'
    BY <1>6 DEF StateType, ThreadType
  <1>8. FormsOK'
    BY <1>3, <1>4, <1>6 DEF FormsOK
  <1>9. Others(t)
    BY <1>4, <1>6 DEF Others
  <1> QED
    BY <1>6, <1>7, <1>8, <1>9

LEMMA BroadcastStep ==
    ASSUME CoreInv, NEW t \in Threads, free_broadcast(t)
    PROVE  CoreInv'
  <1>1. PICK m : m = st[t].o
    OBVIOUS
  <1>2. st[t].pc = "broadcast" /\ ~At(t, "idle") /\ UNCHANGED mobj
    BY DEF free_broadcast, At
  <1>3. m \in Mobjs
    BY <1>1, <1>2, OnCell
  <1>4. StateType' /\ FormsOK' /\ Others(t) /\ st'[t] = AfterPut(t)
    BY BroadcastMoves
  <1>5. PICK s : s = st'[t]
    OBVIOUS
  <1>6. /\ s.o \in {m, NULL}
        /\ s.o = m => s.pc = "wait" /\ InRelease(s) /\ InRelease(st[t])
        /\ st[t].job # "release" => s = Idle
    BY <1>1, <1>2, <1>3, <1>4, <1>5, AfterPutFacts
  <1>7. s.pc \in {"wait", "idle"}
    BY <1>4, <1>5, IdleThread, OnCell, <1>2 DEF AfterPut, ThreadType
  <1>8. s.pc \notin Holding \cup {"free"} /\ st[t].pc \notin Holding
    BY <1>2, <1>7 DEF Holding
  <1> QED
    BY <1>1, <1>2, <1>4, <1>5, <1>6, <1>8, QuietStep

\* A release waits, and frees its object once it may.
LEMMA WaitStep ==
    ASSUME CoreInv, NEW t \in Threads,
           \/ release_lock(t) \/ release_check(t) \/ release_wait(t)
           \/ release_relock(t) \/ release_leave(t)
    PROVE  CoreInv'
  <1>1. PICK m : m = st[t].o
    OBVIOUS
  <1>2. /\ st[t].pc \in {"wait", "check", "sleep", "relock", "leave"} /\ ~At(t, "idle")
        /\ st[t].pc \notin Holding
    BY DEF release_lock, release_check, release_wait, release_relock, release_leave, At, Holding
  <1>3. /\ st[t] \in ThreadType /\ FormOK(st[t]) /\ m \in Mobjs /\ m # NULL
        /\ UserOK(st[t], mobj[m])
    BY <1>1, <1>2, OnCell, ShmAssumption
  <1>4. st[t].job = "release"
    BY <1>2, <1>3 DEF FormOK, Waits
  <1>5. ASSUME NEW p \in {"check", "sleep", "asleep"}, st[t].pc # "leave",
               st' = [st EXCEPT ![t].pc = p], UNCHANGED mobj
        PROVE  CoreInv'
    <2>1. PICK s : s = [st[t] EXCEPT !.pc = p]
      OBVIOUS
    <2>2. s \in ThreadType /\ s.pc = p /\ s.job = "release" /\ s.o = m
      BY <1>1, <1>3, <1>4, <2>1 DEF ThreadType, PCs
    <2>3. FormOK(s)
      BY <1>3, <2>2 DEF FormOK, Waits
    <2>4. StateType' /\ FormsOK' /\ Others(t) /\ st'[t] = s
      <3>1. st' = [st EXCEPT ![t] = s]
        BY <1>5, <2>1
      <3> QED
        BY <2>2, <2>3, <3>1, OneThreadMoves DEF CoreInv
    <2>5. s.pc \notin Holding \cup {"free"} /\ InRelease(st[t])
      BY <1>4, <1>5, <2>2 DEF Holding, InRelease
    <2> QED
      BY <1>1, <1>2, <1>5, <2>2, <2>4, <2>5, QuietStep
  <1>6. CASE release_lock(t) \/ release_wait(t) \/ release_relock(t)
    BY <1>5, <1>6 DEF release_lock, release_wait, release_relock, At, GoTo
  <1>7. CASE release_leave(t)
    <2>1. st' = [st EXCEPT ![t] = Idle] /\ UNCHANGED mobj
      BY <1>7 DEF release_leave
    <2>2. StateType' /\ FormsOK' /\ Others(t) /\ st'[t] = Idle
      BY <2>1, IdleThread, OneThreadMoves DEF CoreInv
    <2>3. PICK s : s = st'[t]
      OBVIOUS
    <2>4. s.o = NULL /\ s.pc = "idle"
      BY <2>2, <2>3, IdleThread
    <2>5. s.pc \notin Holding \cup {"free"}
      BY <2>4 DEF Holding
    <2>6. s.o \in {m, NULL} /\ s.o # m
      BY <1>3, <2>4
    <2> QED
      BY <1>1, <1>2, <2>1, <2>2, <2>3, <2>5, <2>6, QuietStep
  <1>8. CASE release_check(t) /\ ~mobj[m].release_frees
    BY <1>1, <1>5, <1>8 DEF release_check, At, GoTo
  <1>9. CASE release_check(t) /\ mobj[m].release_frees
    <2>1. st[t].pc = "check" /\ InRelease(st[t])
      BY <1>4, <1>9 DEF release_check, At, InRelease
    <2>2. mobj[m] # NULL
      BY <1>3, <2>1 DEF UserOK
    <2>3. FlagsOK(mobj[m])
      BY <1>1, <1>2, <2>2, OnCell
    <2>4. mobj[m].refc = 0
      BY <1>9, <2>3 DEF FlagsOK
    <2>5. \A u \in Threads : st[u].o = m => st[u].pc \notin Holding
      BY <1>3, <2>2, <2>4, LastFacts
    <2>6. PICK s : s = [st[t] EXCEPT !.pc = "leave"]
      OBVIOUS
    <2>7. s \in ThreadType /\ s.pc = "leave" /\ s.job = "release" /\ s.o = m
      BY <1>1, <1>3, <1>4, <2>6 DEF ThreadType, PCs
    <2>8. FormOK(s) /\ UserOK(s, NULL) /\ \A u : Alone(s, u)
      BY <1>3, <2>7 DEF FormOK, Waits, UserOK, Alone, InRelease, Holding
    <2>9. ASSUME NEW u \in Threads \ {t}, st[u].o = m
          PROVE  UserOK(st[u], NULL)
      <3>1. UserOK(st[u], mobj[m]) /\ Alone(st[t], st[u])
        BY <1>1, <1>3, <2>9 DEF CoreInv, CellsOK, CellOK
      <3>2. ~InRelease(st[u]) /\ st[u].pc # "free"
        BY <1>9, <2>1, <3>1 DEF Alone, UserOK
      <3>3. st[u].pc \notin Holding /\ st[u].pc # "unguard"
        BY <2>5, <2>9 DEF Holding
      <3> QED
        BY <3>2, <3>3 DEF UserOK
    <2>10. Fits(t, s, m, NULL)
      BY <1>1, <2>7, <2>8, <2>9 DEF Fits
    <2>11. mobj' = [mobj EXCEPT ![m] = NULL] /\ st' = [st EXCEPT ![t] = s]
      BY <1>1, <1>9, <2>6 DEF release_check, free_helper, GoTo
    <2> QED
      BY <1>3, <2>7, <2>8, <2>10, <2>11, EmptyStep
  <1> QED
    BY <1>6, <1>7, <1>8, <1>9

-----------------------------------------------------------------------------
(* Waiters, and pages *)

LEMMA WaitersStay ==
    ASSUME StateType, WaitersExact, NEW t \in Threads, NEW s, st' = [st EXCEPT ![t] = s],
           Waits(s) <=> Waits(st[t]), UNCHANGED shm_release_waiters
    PROVE  WaitersExact'
  <1>1. st'[t] = s /\ Others(t)
    BY DEF StateType, Others, Same
  <1> QED
    BY <1>1, WaitersStep DEF WaitersExact

\* A step of a thread that only moves it
LEMMA WaitersGoTo ==
    ASSUME StateType, WaitersExact, NEW t \in Threads, NEW p, st' = [st EXCEPT ![t].pc = p],
           p \in {"check", "sleep", "asleep", "relock", "leave"} <=> Waits(st[t]),
           UNCHANGED shm_release_waiters
    PROVE  WaitersExact'
  <1>1. PICK s : s = [st[t] EXCEPT !.pc = p]
    OBVIOUS
  <1>2. s.pc = p
    BY <1>1 DEF StateType, ThreadType
  <1>3. Waits(s) <=> Waits(st[t])
    BY <1>2 DEF Waits
  <1>4. st' = [st EXCEPT ![t] = s]
    BY <1>1
  <1> QED
    BY <1>3, <1>4, WaitersStay

\* A thread that does not wait takes an object or goes idle.
LEMMA WaitersGo ==
    ASSUME StateType, WaitersExact, NEW t \in Threads, ~Waits(st[t]), NEW p, NEW job, NEW m,
           p \notin {"check", "sleep", "asleep", "relock", "leave"},
           st' = [st EXCEPT ![t] = [pc |-> p, job |-> job, o |-> m]],
           UNCHANGED shm_release_waiters
    PROVE  WaitersExact'
  <1>1. PICK s : s = [pc |-> p, job |-> job, o |-> m]
    OBVIOUS
  <1>2. ~Waits(s)
    BY <1>1 DEF Waits
  <1> QED
    BY <1>1, <1>2, WaitersStay

LEMMA WaitersInv ==
    ASSUME CoreInv, WaitersExact, NEW t \in Threads, Step(t) \/ Request(t)
    PROVE  WaitersExact'
  <1>0. StateType /\ st[t] \in ThreadType
    BY DEF CoreInv, StateType
  <1>1. CASE inc_map(t) \/ inc_map_locked(t) \/ EndUse(t) \/ dec_map(t) \/ dec_map_locked(t)
    <2>1. PICK p \in {"put", "maplock", "map", "using", "unmap", "unmaplock"} :
             st' = [st EXCEPT ![t].pc = p]
      BY <1>1 DEF inc_map, inc_map_locked, EndUse, dec_map, dec_map_locked, GoTo
    <2>2. ~Waits(st[t]) /\ UNCHANGED shm_release_waiters
      BY <1>1 DEF inc_map, inc_map_locked, EndUse, dec_map, dec_map_locked, At, Waits, Locks
    <2> QED
      BY <1>0, <2>1, <2>2, WaitersGoTo
  <1>2. CASE /\ \/ register_shm(t) \/ TemporaryShm(t) \/ mobj_reg_shm_get_by_cookie(t)
                \/ mobj_protmem_get_by_pa(t) \/ release_by_cookie(t)
    <2>1. ~Waits(st[t]) /\ UNCHANGED shm_release_waiters
      BY <1>2 DEF register_shm, TemporaryShm, mobj_reg_shm_get_by_cookie,
           mobj_protmem_get_by_pa, release_by_cookie, Call, At, Waits, Locks
    <2>2. PICK p \in {"unguard", "map", "using", "panic", "put"} : \E job, m :
             st' = [st EXCEPT ![t] = [pc |-> p, job |-> job, o |-> m]]
      <3>1. CASE register_shm(t) \/ TemporaryShm(t) \/ release_by_cookie(t)
        BY <3>1 DEF register_shm, TemporaryShm, release_by_cookie, Go
      <3>2. CASE mobj_reg_shm_get_by_cookie(t) \/ mobj_protmem_get_by_pa(t)
        BY <3>2, FoundObject DEF mobj_get, Go
      <3> QED
        BY <1>2, <3>1, <3>2
    <2>3. PICK job, m : st' = [st EXCEPT ![t] = [pc |-> p, job |-> job, o |-> m]]
      BY <2>2
    <2> QED
      BY <1>0, <2>1, <2>3, WaitersGo
  <1>3. CASE mobj_protmem_alloc(t)
    BY <1>3 DEF mobj_protmem_alloc, Locks, WaitersExact, Waiters
  <1>4. CASE mobj_reg_shm_unguard(t)
    <2>1. /\ st' = [st EXCEPT ![t] = Idle] /\ ~Waits(st[t])
          /\ UNCHANGED shm_release_waiters
      BY <1>4 DEF mobj_reg_shm_unguard, At, Waits, Locks
    <2>2. ~Waits(Idle)
      BY IdleThread DEF Waits
    <2> QED
      BY <1>0, <2>1, <2>2, WaitersStay
  <1>5. CASE mobj_put(t) \/ mobj_free(t)
    <2>1. /\ st[t].pc \in {"put", "free"} /\ ~Waits(st[t]) /\ ~At(t, "idle")
          /\ UNCHANGED shm_release_waiters
      BY <1>5 DEF mobj_put, mobj_free, At, Waits, Locks
    <2>2. st[t].o \in Mobjs
      BY <2>1, OnCell
    <2>3. PICK s : s = AfterPut(t)
      OBVIOUS
    <2>4. ~Waits(s)
      BY <2>1, <2>2, <2>3, AfterPutFacts
    <2>5. CASE st' = [st EXCEPT ![t] = AfterPut(t)]
      BY <1>0, <2>1, <2>3, <2>4, <2>5, WaitersStay
    <2>6. ASSUME NEW p \in {"free", "broadcast"}, st' = [st EXCEPT ![t].pc = p]
          PROVE  WaitersExact'
      BY <1>0, <2>1, <2>6, WaitersGoTo
    <2> QED
      BY <1>5, <2>5, <2>6 DEF mobj_put, mobj_free, GoTo
  <1>6. CASE free_broadcast(t)
    <2>1. Others(t) /\ st'[t] = AfterPut(t)
      BY <1>6, BroadcastMoves
    <2>2. /\ st[t].pc = "broadcast" /\ ~Waits(st[t]) /\ ~At(t, "idle")
          /\ UNCHANGED shm_release_waiters
      BY <1>6 DEF free_broadcast, At, Waits, Locks
    <2>3. st[t].o \in Mobjs
      BY <2>2, OnCell
    <2>4. ~Waits(st'[t])
      BY <2>1, <2>2, <2>3, AfterPutFacts
    <2> QED
      BY <1>0, <2>1, <2>2, <2>4, WaitersStep DEF WaitersExact
  <1>7. CASE release_check(t) \/ release_wait(t) \/ release_relock(t)
    <2>1. PICK p \in {"leave", "sleep", "asleep", "check"} : st' = [st EXCEPT ![t].pc = p]
      BY <1>7 DEF release_check, release_wait, release_relock, GoTo
    <2>2. Waits(st[t]) /\ UNCHANGED shm_release_waiters
      BY <1>7 DEF release_check, release_wait, release_relock, At, Waits, Locks
    <2> QED
      BY <1>0, <2>1, <2>2, WaitersGoTo
  <1>8. CASE release_lock(t)
    <2>1. /\ st' = [st EXCEPT ![t].pc = "check"] /\ ~Waits(st[t])
          /\ shm_release_waiters' = shm_release_waiters + 1
      BY <1>8 DEF release_lock, GoTo, At, Waits
    <2>2. Others(t) /\ st'[t].pc = "check"
      BY <1>0, <2>1 DEF StateType, ThreadType, Others, Same
    <2>3. Waits(st'[t])
      BY <2>2 DEF Waits
    <2>4. Cardinality(Waiters') = Cardinality(Waiters) + 1
      BY <1>0, <2>1, <2>2, <2>3, WaitersStep
    <2> QED
      BY <2>1, <2>4 DEF WaitersExact
  <1>9. CASE release_leave(t)
    <2>1. /\ st' = [st EXCEPT ![t] = Idle] /\ Waits(st[t])
          /\ shm_release_waiters' = shm_release_waiters - 1
      BY <1>9 DEF release_leave, At, Waits
    <2>2. Others(t) /\ st'[t] = Idle
      BY <1>0, <2>1 DEF StateType, Others, Same
    <2>3. ~Waits(st'[t])
      BY <2>2, IdleThread DEF Waits
    <2>4. /\ Cardinality(Waiters) = Cardinality(Waiters') + 1
          /\ Cardinality(Waiters') \in Nat
      BY <1>0, <2>1, <2>2, <2>3, WaitersStep
    <2> QED
      BY <2>1, <2>4 DEF WaitersExact
  <1> QED
    BY <1>1, <1>2, <1>3, <1>4, <1>5, <1>6, <1>7, <1>8, <1>9 DEF Step, Request

LEMMA PagesStay ==
    ASSUME PagesOK, SamePages, UNCHANGED protected
    PROVE  PagesOK'
  <1>1. \A k : \A x \in Mobjs : x \in Live(k)' <=> x \in Live(k)
    BY DEF SamePages, SameMemory, Live
  <1>2. \A k : Live(k)' = Live(k) /\ Live(k) \subseteq Mobjs
    BY <1>1 DEF Live
  <1>3. \A x \in Mobjs : x \in Live("shm") \/ x \in Live("protmem") => mobj'[x].page = mobj[x].page
    BY DEF SamePages, SameMemory, Live
  <1> QED
    BY <1>2, <1>3 DEF PagesOK

LEMMA PagesFree ==
    ASSUME HeapType, PagesOK, NEW m \in Mobjs, free_helper(m)
    PROVE  PagesOK' /\ protected' \subseteq protected
  <1>1. mobj'[m] = NULL /\ \A x \in Mobjs \ {m} : mobj'[x] = mobj[x]
    BY DEF HeapType, free_helper
  <1>2. \A k : \A x : x \in Live(k)' <=> x \in Live(k) \ {m}
    BY <1>1 DEF Live
  <1>3. protected' = IF mobj[m].kind = "protmem" THEN protected \ {mobj[m].page} ELSE protected
    BY DEF free_helper
  <1>4. ASSUME NEW p \in protected'
        PROVE  \E o \in Live("protmem")' : mobj'[o].page = p
    <2>1. PICK o \in Live("protmem") : mobj[o].page = p
      BY <1>3 DEF PagesOK
    <2>2. o # m /\ o \in Mobjs
      BY <1>3, <2>1 DEF Live
    <2> QED
      BY <1>1, <1>2, <2>1, <2>2
  <1>5. ASSUME NEW o \in Live("shm")', NEW q \in Live("protmem")'
        PROVE  mobj'[o].page # mobj'[q].page
    <2>1. o \in Live("shm") \ {m} /\ q \in Live("protmem") \ {m}
      BY <1>2
    <2>2. mobj'[o] = mobj[o] /\ mobj'[q] = mobj[q]
      BY <1>1, <2>1 DEF Live
    <2> QED
      BY <2>1, <2>2 DEF PagesOK
  <1>6. PagesOK'
    BY <1>4, <1>5 DEF PagesOK
  <1> QED
    BY <1>3, <1>6

\* A new object for a page no object of the other kind is for
LEMMA PagesNew ==
    ASSUME HeapType, PagesOK, NEW m \in Mobjs, mobj[m] = NULL, NEW c \in Cookies,
           NEW p \in Pages,
           \/ /\ mobj' = [mobj EXCEPT ![m] = New("shm", c, p)]
              /\ NoConflict("protmem", p) /\ UNCHANGED protected
           \/ /\ mobj' = [mobj EXCEPT ![m] = New("protmem", c, p)]
              /\ NoConflict("shm", p) /\ protected' = protected \cup {p}
    PROVE  PagesOK'
  <1>1. PICK k \in {"shm", "protmem"} :
           /\ mobj' = [mobj EXCEPT ![m] = New(k, c, p)]
           /\ k = "shm" => NoConflict("protmem", p) /\ UNCHANGED protected
           /\ k = "protmem" => NoConflict("shm", p) /\ protected' = protected \cup {p}
    OBVIOUS
  <1>2. PICK d : d = New(k, c, p)
    OBVIOUS
  <1>3. d \in MobjType /\ d.kind = k /\ d.page = p
    BY <1>2 DEF New, MobjType
  <1>4. d # NULL
    BY <1>3, ShmAssumption
  <1>5. mobj'[m] = d /\ \A x \in Mobjs \ {m} : mobj'[x] = mobj[x]
    BY <1>1, <1>2 DEF HeapType
  <1>6. \A j : \A x : x \in Live(j)' <=> x \in Live(j) \/ (x = m /\ j = k)
    BY <1>3, <1>4, <1>5 DEF Live
  <1>7. \A j : \A x \in Live(j) : x # m /\ x \in Mobjs /\ mobj'[x] = mobj[x]
    BY <1>5 DEF Live
  <1>8. ASSUME NEW x \in protected'
        PROVE  \E o \in Live("protmem")' : mobj'[o].page = x
    <2>1. CASE x \in protected
      <3>1. PICK o \in Live("protmem") : mobj[o].page = x
        BY <2>1 DEF PagesOK
      <3> QED
        BY <1>6, <1>7, <3>1
    <2>2. CASE x \notin protected
      <3>1. k = "protmem" /\ x = p
        BY <1>1, <2>2
      <3> QED
        BY <1>3, <1>5, <1>6, <3>1
    <2> QED
      BY <2>1, <2>2
  <1>9. ASSUME NEW o \in Live("shm")', NEW q \in Live("protmem")'
        PROVE  mobj'[o].page # mobj'[q].page
    <2>1. CASE o = m
      <3>1. k = "shm" /\ q \in Live("protmem")
        BY <1>6, <1>7, <1>9, <2>1
      <3> QED
        BY <1>1, <1>3, <1>5, <1>7, <2>1, <3>1 DEF NoConflict
    <2>2. CASE q = m
      <3>1. k = "protmem" /\ o \in Live("shm")
        BY <1>6, <1>7, <1>9, <2>2
      <3> QED
        BY <1>1, <1>3, <1>5, <1>7, <2>2, <3>1 DEF NoConflict
    <2>3. CASE o # m /\ q # m
      <3>1. o \in Live("shm") /\ q \in Live("protmem")
        BY <1>6, <2>3
      <3> QED
        BY <1>7, <3>1 DEF PagesOK
    <2> QED
      BY <2>1, <2>2, <2>3
  <1> QED
    BY <1>8, <1>9 DEF PagesOK

-----------------------------------------------------------------------------
(* Every step *)

Scalars == /\ protected \subseteq Pages /\ shm_mu \in Threads \cup {NULL}
           /\ calls \in 0 .. MaxCalls

LEMMA CoreStep ==
    ASSUME CoreInv, PagesOK, NEW t \in Threads, Step(t) \/ Request(t)
    PROVE  CoreInv' /\ PagesOK'
  <1>0. HeapType
    BY DEF CoreInv
  <1>1. CASE \/ inc_map(t) \/ inc_map_locked(t) \/ EndUse(t) \/ dec_map(t)
             \/ dec_map_locked(t) \/ mobj_reg_shm_get_by_cookie(t)
             \/ mobj_protmem_get_by_pa(t) \/ release_by_cookie(t)
             \/ mobj_reg_shm_unguard(t) \/ mobj_put(t)
    <2>1. CoreInv' /\ SamePages
      BY <1>1, IncMapStep, DecMapStep, FindStep, ReleaseStep, UnguardStep, PutStep
    <2>2. UNCHANGED protected
      BY <1>1 DEF inc_map, inc_map_locked, EndUse, dec_map, dec_map_locked,
           mobj_reg_shm_get_by_cookie, mobj_protmem_get_by_pa, release_by_cookie,
           mobj_reg_shm_unguard, mobj_put
    <2> QED
      BY <2>1, <2>2, PagesStay
  <1>2. CASE register_shm(t) \/ TemporaryShm(t) \/ mobj_protmem_alloc(t)
    <2>1. CoreInv'
      BY <1>2, AllocStep
    <2>2. PICK m \in Mobjs, c \in Cookies, p \in Pages :
             /\ mobj[m] = NULL
             /\ \/ /\ mobj' = [mobj EXCEPT ![m] = New("shm", c, p)]
                   /\ NoConflict("protmem", p) /\ UNCHANGED protected
                \/ /\ mobj' = [mobj EXCEPT ![m] = New("protmem", c, p)]
                   /\ NoConflict("shm", p) /\ protected' = protected \cup {p}
      BY <1>2 DEF register_shm, TemporaryShm, mobj_protmem_alloc, mobj_reg_shm_alloc
    <2> QED
      BY <1>0, <2>1, <2>2, PagesNew
  <1>3. CASE mobj_free(t)
    <2>1. /\ CoreInv'
          /\ free_helper(st[t].o) \/ (SamePages /\ UNCHANGED protected)
      BY <1>3, FreeStep
    <2>2. st[t].o \in Mobjs
      BY <1>3, OnCell DEF mobj_free, At
    <2> QED
      BY <1>0, <2>1, <2>2, PagesFree, PagesStay
  <1>4. CASE free_broadcast(t)
    <2>1. CoreInv' /\ UNCHANGED <<mobj, protected>>
      BY <1>4, BroadcastStep DEF free_broadcast
    <2> QED
      BY <2>1, PagesStay DEF SamePages
  <1>5. CASE \/ release_lock(t) \/ release_check(t) \/ release_wait(t)
             \/ release_relock(t) \/ release_leave(t)
    <2>1. CoreInv'
      BY <1>5, WaitStep
    <2>2. st[t].o \in Mobjs
      BY <1>5, OnCell DEF release_lock, release_check, release_wait, release_relock,
           release_leave, At
    <2>3. free_helper(st[t].o) \/ UNCHANGED <<mobj, protected>>
      BY <1>5 DEF release_lock, release_check, release_wait, release_relock, release_leave
    <2> QED
      BY <1>0, <2>1, <2>2, <2>3, PagesFree, PagesStay DEF SamePages
  <1> QED
    BY <1>1, <1>2, <1>3, <1>4, <1>5 DEF Step, Request

LEMMA ScalarsStep ==
    ASSUME CoreInv, PagesOK, Scalars, NEW t \in Threads, Step(t) \/ Request(t)
    PROVE  Scalars'
  <1>1. CASE Request(t)
    <2>1. UNCHANGED shm_mu
      BY <1>1 DEF Request, register_shm, TemporaryShm, mobj_protmem_alloc,
           mobj_reg_shm_get_by_cookie, mobj_protmem_get_by_pa, release_by_cookie, EndUse, Locks
    <2>2. calls' \in 0 .. MaxCalls
      <3>1. calls' = calls \/ (calls < MaxCalls /\ calls' = calls + 1)
        BY <1>1 DEF Request, register_shm, TemporaryShm, mobj_protmem_alloc,
             mobj_reg_shm_get_by_cookie, mobj_protmem_get_by_pa, release_by_cookie, EndUse, Call
      <3> QED
        BY <3>1, ShmAssumption DEF Scalars
    <2>3. protected' \subseteq Pages
      <3>1. protected' = protected \/ \E p \in Pages : protected' = protected \cup {p}
        BY <1>1 DEF Request, register_shm, TemporaryShm, mobj_protmem_alloc,
             mobj_reg_shm_get_by_cookie, mobj_protmem_get_by_pa, release_by_cookie, EndUse
      <3> QED
        BY <3>1 DEF Scalars
    <2> QED
      BY <2>1, <2>2, <2>3 DEF Scalars
  <1>2. CASE Step(t)
    <2>1. UNCHANGED calls /\ shm_mu' \in {shm_mu, t, NULL}
      BY <1>2 DEF Step, mobj_reg_shm_unguard, inc_map, inc_map_locked, dec_map, dec_map_locked,
           mobj_put, mobj_free, free_broadcast, release_lock, release_check, release_wait,
           release_relock, release_leave, Locks
    <2>2. protected' \subseteq protected
      <3>1. protected' = protected \/ free_helper(st[t].o)
        BY <1>2 DEF Step, mobj_reg_shm_unguard, inc_map, inc_map_locked, dec_map, dec_map_locked,
             mobj_put, mobj_free, free_broadcast, release_lock, release_check, release_wait,
             release_relock, release_leave
      <3> QED
        BY <3>1 DEF free_helper
    <2> QED
      BY <2>1, <2>2 DEF Scalars
  <1> QED
    BY <1>1, <1>2

-----------------------------------------------------------------------------
(* The invariant *)

AllInv == CoreInv /\ WaitersExact /\ PagesOK /\ Scalars

\* The number of waiters is a natural number because it is exact.
LEMMA InvParts == AllInv => ShmInv
  <1> SUFFICES ASSUME AllInv PROVE ShmInv
    OBVIOUS
  <1>1. Waiters \in SUBSET Threads
    BY DEF Waiters
  <1>2. shm_release_waiters \in Nat
    BY <1>1, CountBounds DEF AllInv, WaitersExact
  <1> QED
    BY <1>2 DEF AllInv, CoreInv, Scalars, ShmInv, ShmTypeOK, HeapType, StateType, ThreadType

LEMMA ShmInvInit == ShmInit => AllInv
  <1> SUFFICES ASSUME ShmInit PROVE AllInv
    OBVIOUS
  <1>1. st \in [Threads -> ThreadType] /\ \A t \in Threads : st[t] = Idle
    BY IdleThread DEF ShmInit
  <1>2. mobj \in [Mobjs -> MobjType \cup {NULL}] /\ \A m \in Mobjs : mobj[m] = NULL
    BY DEF ShmInit
  <1>3. FormsOK
    BY <1>1, IdleThread DEF FormsOK
  <1>4. CellsOK
    BY <1>1, <1>2, IdleThread, ShmAssumption DEF CellsOK, CellOK
  <1>5. CoreInv
    BY <1>1, <1>2, <1>3, <1>4 DEF CoreInv, HeapType, StateType
  <1>6. Waiters = {}
    BY <1>1, IdleThread DEF Waiters, Waits
  <1>7. WaitersExact
    BY <1>6, FS_EmptySet DEF WaitersExact, ShmInit
  <1>8. PagesOK
    BY <1>2 DEF PagesOK, Live, ShmInit
  <1>9. Scalars
    BY ShmAssumption DEF Scalars, ShmInit
  <1> QED
    BY <1>5, <1>7, <1>8, <1>9 DEF AllInv

LEMMA ShmInvStep == AllInv /\ [ShmNext]_ShmVars => AllInv'
  <1> SUFFICES ASSUME AllInv, [ShmNext]_ShmVars PROVE AllInv'
    OBVIOUS
  <1>0. CoreInv /\ WaitersExact /\ PagesOK /\ Scalars
    BY DEF AllInv
  <1>1. CASE UNCHANGED ShmVars
    <2>1. UNCHANGED <<mobj, st>> /\ UNCHANGED <<protected, shm_mu, shm_release_waiters, calls>>
      BY <1>1 DEF ShmVars
    <2>2. HeapType' /\ StateType' /\ FormsOK'
      BY <1>0, <2>1 DEF CoreInv, HeapType, StateType, FormsOK, ThreadType
    <2>3. CellsOK'
      BY <1>0, <2>1 DEF CoreInv, CellsOK, CellOK, CountsOK, Holders, Mappers
    <2>4. WaitersExact' /\ PagesOK' /\ Scalars'
      BY <1>0, <2>1 DEF WaitersExact, Waiters, PagesOK, Live, Scalars
    <2> QED
      BY <2>2, <2>3, <2>4 DEF AllInv, CoreInv
  <1>2. ASSUME NEW t \in Threads, Step(t) \/ Request(t)
        PROVE  AllInv'
    <2>1. CoreInv' /\ PagesOK'
      BY <1>0, <1>2, CoreStep
    <2>2. WaitersExact'
      BY <1>0, <1>2, WaitersInv
    <2>3. Scalars'
      BY <1>0, <1>2, ScalarsStep
    <2> QED
      BY <2>1, <2>2, <2>3 DEF AllInv
  <1> QED
    BY <1>1, <1>2 DEF ShmNext

LEMMA AllInvAlways == ShmSpec => []AllInv
  BY ShmInvInit, ShmInvStep, PTL DEF ShmSpec

-----------------------------------------------------------------------------
(* The theorems *)

\* Objects, counters and threads stay of their types; no counter of an object
\* and no count of waiters goes below zero (refcount_dec, shm_release_waiters).
THEOREM ShmTypeCorrect == ShmSpec => []ShmTypeOK
  <1>1. ShmInv => ShmTypeOK
    BY DEF ShmInv
  <1> QED
    BY <1>1, InvParts, AllInvAlways, PTL

\* The reference counter of an object is the number of its users plus the
\* registration until a release takes that one over, for any number of threads
\* that look up, use, release and lose the object at the same time
\* (mobj_reg_shm_get_by_cookie, mobj_reg_shm_release_by_cookie, mobj_put).
THEOREM ReferencesStayExact == ShmSpec => []RefsExact
  <1>1. AllInv => RefsExact
    <2> SUFFICES ASSUME AllInv, NEW o \in Allocated
                 PROVE  mobj[o].refc = Cardinality(Holders(o))
                           + (IF mobj[o].guarded \/ mobj[o].releasing THEN 0 ELSE 1)
      BY DEF RefsExact
    <2>1. CountsOK(o)
      BY LiveFacts DEF AllInv
    <2> QED
      BY <2>1 DEF CountsOK
  <1> QED
    BY <1>1, AllInvAlways, PTL

\* No thread that goes on to use its object finds the cell freed or reused, at
\* most one is about to free it, and whoever uses the mapping finds it
\* (mobj_reg_shm_free, release_by_cookie, mobj_reg_shm_inc_map).
THEOREM NothingUsedAfterFree == ShmSpec => []NoUseAfterFree
  <1>1. AllInv => NoUseAfterFree
    <2> SUFFICES ASSUME AllInv PROVE NoUseAfterFree
      OBVIOUS
    <2>0. CoreInv
      BY DEF AllInv
    <2>1. ASSUME NEW t \in Threads,
                 st[t].pc \in Holding \cup {"free", "wait", "check", "sleep", "asleep", "relock"}
          PROVE  st[t].o \in Allocated
      <3>1. ~At(t, "idle")
        BY <2>1 DEF At, Holding
      <3>2. /\ FormOK(st[t]) /\ st[t].o \in Mobjs /\ UserOK(st[t], mobj[st[t].o])
            /\ mobj[st[t].o] \in MobjType \cup {NULL}
        BY <2>0, <3>1, OnCell
      <3>3. st[t].pc \in Holding \cup {"free"} \/ InRelease(st[t])
        BY <2>1, <3>2 DEF FormOK, Waits, InRelease
      <3>4. mobj[st[t].o] # NULL /\ mobj[st[t].o] \in MobjType
        BY <3>2, <3>3 DEF UserOK
      <3>5. mobj[st[t].o].kind \in {"shm", "protmem"}
        BY <3>4 DEF MobjType
      <3> QED
        BY <3>2, <3>4, <3>5 DEF Allocated, Live
    <2>2. ASSUME NEW t \in Threads, At(t, "free")
          PROVE  /\ mobj[st[t].o].refc = 0
                 /\ \A u \in Threads \ {t} :
                       st[u].o = st[t].o => st[u].pc \in
                          {"broadcast", "wait", "check", "sleep", "asleep",
                           "relock", "leave", "panic"}
      <3>1. st[t].pc = "free" /\ ~At(t, "idle")
        BY <2>2 DEF At
      <3>2. st[t].o \in Mobjs /\ UserOK(st[t], mobj[st[t].o]) /\ st[t].o # NULL
        BY <2>0, <3>1, OnCell, ShmAssumption
      <3>3. mobj[st[t].o] # NULL /\ mobj[st[t].o].refc = 0
        BY <3>1, <3>2 DEF UserOK
      <3>4. \A u \in Threads : st[u].o = st[t].o => st[u].pc \notin Holding
        BY <2>0, <3>2, <3>3, LastFacts
      <3>5. ASSUME NEW u \in Threads \ {t}, st[u].o = st[t].o
            PROVE  st[u].pc \in {"broadcast", "wait", "check", "sleep", "asleep",
                                 "relock", "leave", "panic"}
        <4>1. Alone(st[t], st[u])
          BY <2>0, <3>2, <3>5 DEF CoreInv, CellsOK, CellOK
        <4>2. st[u].pc # "free" /\ st[u].pc \notin Holding
          BY <3>1, <3>4, <3>5, <4>1 DEF Alone
        <4>3. st[u].pc # "idle" /\ st[u].pc \in PCs
          BY <2>0, <3>2, <3>5 DEF CoreInv, StateType, ThreadType, FormsOK, FormOK
        <4> QED
          BY <4>2, <4>3 DEF PCs, Holding
      <3> QED
        BY <3>3, <3>5
    <2>3. ASSUME NEW o \in Mobjs, NEW t \in Mappers(o)
          PROVE  mobj[o] # NULL /\ mobj[o].mm
      <3>1. t \in Threads /\ st[t].o = o /\ Maps(st[t], o) /\ st[t].pc \in Holding
        BY DEF Mappers, Maps, Holding
      <3>2. /\ mobj[o] # NULL /\ mobj[o] \in MobjType /\ FlagsOK(mobj[o])
            /\ mobj[o].mapcount >= 1
        BY <2>0, <3>1, HolderFacts
      <3>3. mobj[o].mapcount > 0
        BY <3>2 DEF MobjType
      <3> QED
        BY <3>2, <3>3 DEF FlagsOK
    <2> QED
      BY <2>1, <2>2, <2>3 DEF NoUseAfterFree
  <1> QED
    BY <1>1, AllInvAlways, PTL

\* As long as an object for a page of shared memory exists the page is open to
\* normal world, whatever is registered, lent, reclaimed and freed in between
\* (check_protmem_conflict, check_reg_shm_list_conflict, protmem_free_helper).
THEOREM SharedStaysOpen == ShmSpec => []SharedIsNotProtected
  <1>1. AllInv => SharedIsNotProtected
    BY DEF AllInv, PagesOK, SharedIsNotProtected
  <1> QED
    BY <1>1, AllInvAlways, PTL

\* Only the two lookups can panic.
LEMMA NoOtherPanic ==
  ASSUME StateType, NEW u \in Threads, NEW t \in Threads, Step(u) \/ Request(u),
         ~mobj_reg_shm_get_by_cookie(u), ~mobj_protmem_get_by_pa(u),
         st[t].pc # "panic"
  PROVE  st'[t].pc # "panic"
  <1>0. st \in [Threads -> ThreadType] /\ AfterPut(u).pc \in {"wait", "idle"}
    <2>1. st \in [Threads -> ThreadType]
      BY DEF StateType
    <2>2. st[u] \in ThreadType
      BY <2>1
    <2> QED
      BY <2>1, <2>2 DEF AfterPut, Idle, ThreadType
  <1>1. ASSUME NEW p, p # "panic", st' = [st EXCEPT ![u].pc = p]
        PROVE  st'[t].pc # "panic"
    <2>1. st[u] \in ThreadType /\ st[t] \in ThreadType
      BY <1>0
    <2>2. CASE t = u
      <3>1. st'[t] = [st[t] EXCEPT !.pc = p]
        BY <1>0, <1>1, <2>2
      <3> QED
        BY <1>1, <2>1, <3>1 DEF ThreadType
    <2>3. CASE t # u
      BY <1>0, <1>1, <2>3
    <2> QED
      BY <2>2, <2>3
  <1>2. ASSUME NEW s, s.pc # "panic", st' = [st EXCEPT ![u] = s]
        PROVE  st'[t].pc # "panic"
    BY <1>0, <1>2
  <1>3. CASE inc_map(u) \/ inc_map_locked(u) \/ EndUse(u) \/ dec_map(u)
             \/ dec_map_locked(u)
    <2>1. PICK p \in {"put", "using", "maplock", "map", "unmap", "unmaplock"} :
             st' = [st EXCEPT ![u].pc = p]
      BY <1>3 DEF inc_map, inc_map_locked, EndUse, dec_map, dec_map_locked, GoTo
    <2> QED
      BY <1>1, <2>1
  <1>4. CASE release_lock(u) \/ release_check(u) \/ release_wait(u)
             \/ release_relock(u)
    <2>1. PICK p \in {"check", "leave", "sleep", "asleep"} :
             st' = [st EXCEPT ![u].pc = p]
      BY <1>4 DEF release_lock, release_check, release_wait, release_relock, GoTo
    <2> QED
      BY <1>1, <2>1
  <1>5. CASE mobj_put(u) \/ mobj_free(u)
    <2>1. \/ st' = [st EXCEPT ![u] = AfterPut(u)]
          \/ \E p \in {"free", "broadcast"} : st' = [st EXCEPT ![u].pc = p]
      BY <1>5 DEF mobj_put, mobj_free, GoTo
    <2>2. CASE st' = [st EXCEPT ![u] = AfterPut(u)]
      BY <1>0, <1>2, <2>2
    <2>3. CASE \E p \in {"free", "broadcast"} : st' = [st EXCEPT ![u].pc = p]
      BY <1>1, <2>3
    <2> QED
      BY <2>1, <2>2, <2>3
  <1>6. CASE mobj_reg_shm_unguard(u) \/ release_leave(u)
    <2>1. st' = [st EXCEPT ![u] = Idle] /\ Idle.pc # "panic"
      BY <1>6 DEF mobj_reg_shm_unguard, release_leave, Idle
    <2> QED
      BY <1>2, <2>1
  <1>7. CASE register_shm(u) \/ TemporaryShm(u) \/ release_by_cookie(u)
    <2>1. PICK p \in {"unguard", "map", "using", "put"}, job \in Jobs, o \in Mobjs :
             st' = [st EXCEPT ![u] = [pc |-> p, job |-> job, o |-> o]]
      BY <1>7 DEF register_shm, TemporaryShm, release_by_cookie, Go, Jobs, Live
    <2>2. [pc |-> p, job |-> job, o |-> o].pc # "panic"
      OBVIOUS
    <2> QED
      BY <1>2, <2>1, <2>2
  <1>8. CASE free_broadcast(u)
    <2>1. PICK f \in {Woken, st} : st' = [f EXCEPT ![u] = AfterPut(u)]
      BY <1>8 DEF free_broadcast
    <2>2. f \in [Threads -> ThreadType] /\ f[t].pc # "panic"
      <3>1. CASE f = st
        BY <1>0, <3>1
      <3>2. CASE f = Woken
        <4>1. ASSUME NEW v \in Threads
              PROVE  f[v] \in ThreadType /\ (st[v].pc # "panic" => f[v].pc # "panic")
          <5>1. /\ st[v] \in ThreadType
                /\ f[v] \in {st[v], [st[v] EXCEPT !.pc = "relock"]}
            BY <1>0, <3>2 DEF Woken
          <5> QED
            BY <5>1 DEF ThreadType, PCs
        <4>2. f = [v \in Threads |-> f[v]]
          BY <3>2 DEF Woken
        <4> QED
          BY <4>1, <4>2
      <3> QED
        BY <2>1, <3>1, <3>2
    <2>3. CASE t = u
      BY <1>0, <2>1, <2>2, <2>3
    <2>4. CASE t # u
      BY <2>1, <2>2, <2>4
    <2> QED
      BY <2>3, <2>4
  <1>9. CASE mobj_protmem_alloc(u)
    BY <1>9 DEF mobj_protmem_alloc
  <1> QED
    BY <1>3, <1>4, <1>5, <1>6, <1>7, <1>8, <1>9 DEF Step, Request

\* A thread panics only when it looks up a temporary object: the counter of a
\* registered or lent one that no release has taken is never zero (mobj_get in
\* mobj_reg_shm_get_by_cookie and mobj_protmem_get_by_pa).
THEOREM PanicsOnlyOnTemporary == ShmSpec => PanicOnlyOnTemporary
  <1>1. ASSUME AllInv, ShmNext, NEW t \in Threads, ~At(t, "panic"), At(t, "panic")'
        PROVE  mobj[st'[t].o].guarded
    <2>0. CoreInv /\ st[t] \in ThreadType
      BY <1>1 DEF AllInv, CoreInv, StateType
    <2>1. st[t].pc # "panic" /\ st'[t].pc = "panic"
      BY <1>1 DEF At
    <2>2. PICK u \in Threads : Step(u) \/ Request(u)
      BY <1>1 DEF ShmNext
    <2>3. CASE mobj_reg_shm_get_by_cookie(u) \/ mobj_protmem_get_by_pa(u)
      <3>1. PICK m \in Allocated, job \in {"regd", "param"} :
               ~mobj[m].releasing /\ mobj_get(u, job, m)
        BY <2>3, FoundObject
      <3>2. mobj[m].refc = 0 /\ u = t /\ st'[t].o = m
        <4>1. CASE mobj[m].refc = 0
          <5>1. st' = [st EXCEPT ![u] = [pc |-> "panic", job |-> job, o |-> m]]
            BY <3>1, <4>1 DEF mobj_get, Go
          <5> QED
            BY <2>0, <2>1, <4>1, <5>1 DEF CoreInv, StateType
        <4>2. CASE mobj[m].refc # 0
          <5>1. PICK p \in {"map", "using"} :
                   st' = [st EXCEPT ![u] = [pc |-> p, job |-> job, o |-> m]]
            BY <3>1, <4>2 DEF mobj_get, Go
          <5> QED
            BY <2>0, <2>1, <5>1 DEF CoreInv, StateType
        <4> QED
          BY <4>1, <4>2
      <3>3. m \in Mobjs /\ mobj[m] # NULL
        BY <2>0, LiveFacts
      <3>4. mobj[m].guarded \/ mobj[m].releasing
        BY <2>0, <3>2, <3>3, LastFacts
      <3> QED
        BY <3>1, <3>2, <3>4
    <2>4. CASE ~(mobj_reg_shm_get_by_cookie(u) \/ mobj_protmem_get_by_pa(u))
      BY <2>0, <2>1, <2>2, <2>4, NoOtherPanic DEF CoreInv
    <2> QED
      BY <2>3, <2>4
  <1>2. AllInv /\ [ShmNext]_ShmVars =>
           [\A t \in Threads : ~At(t, "panic") /\ At(t, "panic")' =>
               mobj[st'[t].o].guarded]_ShmVars
    BY <1>1
  <1> QED
    BY <1>2, AllInvAlways, PTL DEF ShmSpec, PanicOnlyOnTemporary
=============================================================================
