--------------------------- MODULE TaManagerProofs --------------------------
(***************************************************************************)
(* Proofs about TaManager for any number of threads, contexts, sessions    *)
(* and trusted applications, whatever their flags, whom they call and what *)
(* goes wrong, in a core without the statistics of CFG_TA_STATS.  The      *)
(* reference counts of sessions and contexts are exact, and so is what     *)
(* tells who is in a TA, up to the step in which a session that fails to   *)
(* open is freed under those who name it early (the memory is no longer in *)
(* order then, and the model stops); and those who lose it then have not   *)
(* locked it.                                                              *)
(***************************************************************************)
EXTENDS TaManager, FiniteSetTheorems, SequenceTheorems, WellFoundedInduction, TLAPS

\* No TA calls tee_ta_instance_stats().
NoStatistics == \A u \in Uuids : "STATS" \notin Flags[u]

Ops == {"open", "invoke", "close", "cancel"}
PCs == {"lookup", "load", "initfail", "locking", "enter", "inTA", "panicked", "release",
        "clear", "unlink", "unlinking", "drop", "destroy", "put"}
FrameType == [op : Ops, key : Keys, uuid : Uuids \cup {NULL}, ctx : Ctxs \cup {NULL},
              pc : PCs, busy : BOOLEAN, ok : BOOLEAN, todo : {<<>>}]

CoreType ==
    /\ setup \in Setups
    /\ ctx \in [Ctxs -> CtxType \cup {NULL}]
    /\ \A c \in Ctxs : ctx[c] # NULL => ctx[c].uuid \in Uuids
    /\ sess \in [Keys -> SessType \cup {NULL}]
    /\ tee_ctxes \in Seq(Ctxs)
    /\ open_sessions \in [Lists -> Seq(Ids)]
    /\ si_thread \in Threads \cup {NULL} /\ si_count \in Nat
    /\ waitq \in [CondVars -> Seq(Threads)]
    /\ stack \in [Threads -> Seq(FrameType)]
    /\ halted \in BOOLEAN

\* Which fields of a call go together: it has a context when it has found and
\* locked its session, and has the context busy while it visits the TA.
FormOK(f) ==
    /\ f.pc \in {"lookup", "load", "initfail"} => f.op = "open"
    /\ f.pc \in {"unlink", "unlinking", "drop", "destroy"} => f.op = "close"
    /\ f.pc \in {"panicked", "release", "put"} => f.op # "close"
    /\ f.pc = "locking" => f.op # "open"
    /\ f.op = "cancel" => f.pc = "put" /\ f.key[1] = NW
    /\ f.pc \in {"inTA", "panicked", "release", "clear"} => f.busy
    /\ f.busy => f.pc \in {"inTA", "panicked", "release", "clear", "unlink", "unlinking"}
    /\ f.ctx = NULL <=> (f.pc \in {"lookup", "initfail", "locking"} \/ f.op = "cancel")
    /\ f.pc = "lookup" => f.uuid \in Uuids

\* The call has its session locked.
Owns(f) == Refers(f) /\ f.op # "cancel" /\ f.pc # "locking"

\* What call f of thread t relies on when s is its session
SessFor(t, f, s) ==
    Refers(f) => /\ s # NULL
                 /\ f.ctx # NULL => s.ctx = f.ctx
                 /\ f.op = "open" => ~s.given
                 /\ f.pc \in {"lookup", "initfail"} => s.ctx = NULL
                 /\ Owns(f) => s.lock = t

\* A TA with the flags fl that has panicked does not stay.
NotKept(fl) == ~({"SI", "KA", "KC"} \subseteq fl)

\* What call f relies on when d is its context
CtxFor(f, d) ==
    /\ d # NULL
    /\ f.pc = "load" => d.init /\ d.ref = 1
    /\ f.pc = "destroy" => d.releasing /\ d.ref = 0
    /\ f.pc = "inTA" => ~d.panicked
    /\ f.pc \in {"panicked", "release"} => d.panicked /\ NotKept(Flags[d.uuid])

\* A call from within another: a TA that runs, or has stopped, is its client.
Below(p) == <<p[1], p[2] - 1>>
InCall(g) == g.pc \in {"inTA", "release", "destroy"}
BelowOK(p) ==
    IF p[2] = 1 THEN Call(p).key[1] = NW
    ELSE /\ InCall(Call(Below(p)))
         /\ Call(p).key[1] = Call(Below(p)).ctx
         /\ Call(Below(p)).pc # "destroy" => ~Has(Call(Below(p)).ctx, "PTA")

FrameOK(p) ==
    /\ FormOK(Call(p))
    /\ SessFor(p[1], Call(p), sess[Call(p).key])
    /\ Call(p).ctx # NULL => CtxFor(Call(p), ctx[Call(p).ctx])

\* What two calls never do at the same time: have the session that one of them
\* opens, unless it is named early; have its lock; be in a TA that is not
\* concurrent; free a context.
Occupies(f) == f.busy /\ ~Has(f.ctx, "CC")
Apart(f, g) ==
    /\ Refers(f) /\ Refers(g) /\ f.key = g.key =>
          /\ f.op = "open" \/ g.op = "open" => Early
          /\ ~(Owns(f) /\ Owns(g))
    /\ f.ctx = g.ctx => /\ ~(Occupies(f) /\ Occupies(g))
                        /\ ~(f.pc = "destroy" /\ g.pc = "destroy")

FramesOK ==
    /\ \A p \in Calls : FrameOK(p) /\ BelowOK(p)
    /\ \A p, q \in Calls : p # q => Apart(Call(p), Call(q))

\* The references to a session, and to a context
CountOf(x) == IF x = NULL THEN 0 ELSE x.ref
Referers(k) == {p \in Calls : Call(p).key = k /\ Refers(Call(p))}
SessionsOf(c) == {k \in Keys : sess[k] # NULL /\ sess[k].ctx = c}
Closing(f, c) == f.ctx = c /\ ~Refers(f) /\ f.pc # "destroy"
Closers(c) == {p \in Calls : Closing(Call(p), c)}
CountsOK ==
    /\ \A k \in Keys : CountOf(sess[k]) = Cardinality(Referers(k))
    /\ \A c \in Ctxs : CountOf(ctx[c]) = Cardinality(SessionsOf(c)) + Cardinality(Closers(c))

\* A session is on the list of its client, and lacks a context only while it is
\* being opened.
SessionsOK ==
    \A k \in Keys : sess[k] # NULL =>
        /\ Contains(open_sessions[k[1]], k[2])
        /\ sess[k].ctx = NULL =>
              \E p \in Calls : Call(p).key = k /\ Call(p).pc \in {"lookup", "initfail"}

\* A context is on the list until it is released, which only one that stays
\* unused or has panicked is.
ContextOK(c) ==
    LET d == ctx[c]
        fl == Flags[d.uuid]
    IN  /\ Contains(tee_ctxes, c) <=> ~d.releasing
        /\ d.releasing /\ d.ref # 0 => d.panicked /\ NotKept(fl)
        /\ "PTA" \in fl => ~d.panicked
        /\ d.ref = 0 => \/ {"SI", "KA"} \subseteq fl /\ ~d.releasing
                        \/ \E p \in Calls : Call(p).ctx = c /\ Call(p).pc = "destroy"
        /\ ~({"SI", "MS"} \subseteq fl) => d.ref <= 1
        /\ d.busy <=> \E p \in Calls : Call(p).ctx = c /\ Occupies(Call(p))
ContextsOK ==
    /\ \A c \in Ctxs : ctx[c] # NULL => ContextOK(c)
    /\ \A c \in Ctxs : ctx[c] = NULL => ~Contains(tee_ctxes, c)

\* The lists have no element twice, and the one of the contexts has one of each
\* single-instance TA.
Distinct(s) == \A i, j \in 1..Len(s) : s[i] = s[j] => i = j
ListsOK ==
    /\ Distinct(tee_ctxes)
    /\ \A l \in Lists : Distinct(open_sessions[l])
    /\ \A c, d \in Ctxs :
          /\ Contains(tee_ctxes, c) /\ Contains(tee_ctxes, d)
          /\ Has(c, "SI") /\ ctx[c].uuid = ctx[d].uuid
          => c = d

\* The single-instance lock
InSingle(f) == Occupies(f) /\ Has(f.ctx, "SI")
Singles == {p \in Calls : InSingle(Call(p))}
LockOK ==
    /\ si_count = Cardinality(Singles)
    /\ \A p \in Singles : p[1] = si_thread
    /\ si_count = 0 <=> si_thread = NULL

\* A thread that waits is in a call, and waits for the context it wants to enter.
WaitsOK ==
    \A t \in Threads, cv \in CondVars : WaitsFor(t, cv) =>
        /\ stack[t] # <<>>
        /\ cv[1] = "busy" => Top(t).pc = "enter" /\ Top(t).ctx = cv[2]

\* The inductive invariant
TaInv == /\ CoreType /\ FramesOK /\ CountsOK /\ SessionsOK /\ ContextsOK /\ ListsOK
         /\ LockOK /\ WaitsOK /\ PanicOnlyOnReentry

-----------------------------------------------------------------------------
(* Sequences and counting *)

LEMMA MinIsLeast ==
    ASSUME NEW S \in SUBSET Nat, S # {}
    PROVE  Min(S) \in S /\ \A y \in S : Min(S) <= y
  <1> DEFINE R == OpToRel(<, Nat)
  <1>1. IsWellFoundedOn(R, Nat)
    BY NatLessThanWellFounded
  <1> HIDE DEF R
  <1>2. PICK x \in S : \A y \in S : <<y, x>> \notin R
    BY <1>1, WFMin
  <1>3. ASSUME NEW y \in S
        PROVE  x <= y
    <2>1. y < x => <<y, x>> \in R
      BY DEF R, OpToRel
    <2> QED
      BY <1>2, <2>1
  <1> QED
    BY <1>3 DEF Min

\* Without the element at place i
LEMMA RemoveAtFacts ==
    ASSUME NEW S, NEW s \in Seq(S), NEW i \in 1 .. Len(s)
    PROVE  /\ RemoveAt(s, i) \in Seq(S)
           /\ Len(RemoveAt(s, i)) = Len(s) - 1
           /\ \A j \in 1 .. (Len(s) - 1) :
                 RemoveAt(s, i)[j] = IF j < i THEN s[j] ELSE s[j + 1]
  <1> DEFINE a == SubSeq(s, 1, i - 1)
             b == SubSeq(s, i + 1, Len(s))
  <1>1. /\ a \in Seq(S) /\ Len(a) = i - 1
        /\ \A j \in 1 .. (i - 1) : a[j] = s[j]
    OBVIOUS
  <1>2. /\ b \in Seq(S) /\ Len(b) = Len(s) - i
        /\ \A j \in 1 .. (Len(s) - i) : b[j] = s[i + j]
    OBVIOUS
  <1>3. RemoveAt(s, i) = a \o b
    BY DEF RemoveAt
  <1> HIDE DEF a, b
  <1>4. /\ a \o b \in Seq(S) /\ Len(a \o b) = Len(s) - 1
        /\ \A j \in 1 .. (Len(s) - 1) :
              (a \o b)[j] = IF j <= i - 1 THEN a[j] ELSE b[j - (i - 1)]
    <2>1. /\ Len(a \o b) = Len(a) + Len(b) /\ a \o b \in Seq(S)
          /\ \A j \in 1 .. (Len(a) + Len(b)) :
                (a \o b)[j] = IF j <= Len(a) THEN a[j] ELSE b[j - Len(a)]
      BY <1>1, <1>2, ConcatProperties
    <2>2. Len(a) + Len(b) = Len(s) - 1
      BY <1>1, <1>2
    <2> QED
      BY <1>1, <2>1, <2>2
  <1>5. ASSUME NEW j \in 1 .. (Len(s) - 1)
        PROVE  (a \o b)[j] = IF j < i THEN s[j] ELSE s[j + 1]
    <2>1. CASE j < i
      BY <1>1, <1>4, <2>1
    <2>2. CASE ~(j < i)
      <3>1. j - (i - 1) \in 1 .. (Len(s) - i) /\ i + (j - (i - 1)) = j + 1
        BY <2>2
      <3>2. b[j - (i - 1)] = s[i + (j - (i - 1))]
        BY <1>2, <3>1
      <3> QED
        BY <1>4, <2>2, <3>1, <3>2
    <2> QED
      BY <2>1, <2>2
  <1> QED
    BY <1>3, <1>4, <1>5

LEMMA RemoveFirstFacts ==
    ASSUME NEW S, NEW s \in Seq(S), NEW e
    PROVE  /\ RemoveFirst(s, e) \in Seq(S)
           /\ \A x : Contains(RemoveFirst(s, e), x) => Contains(s, x)
           /\ \A x : x # e /\ Contains(s, x) => Contains(RemoveFirst(s, e), x)
           /\ Distinct(s) => Distinct(RemoveFirst(s, e)) /\ ~Contains(RemoveFirst(s, e), e)
  <1>1. CASE \E i \in 1 .. Len(s) : s[i] = e
    <2>1. PICK I : I = {i \in 1 .. Len(s) : s[i] = e}
      OBVIOUS
    <2>2. I \in SUBSET Nat /\ I # {}
      BY <1>1, <2>1
    <2>3. PICK n : n = Min(I)
      OBVIOUS
    <2>4. n \in 1 .. Len(s) /\ s[n] = e
      BY <2>1, <2>2, <2>3, MinIsLeast
    <2>5. RemoveFirst(s, e) = RemoveAt(s, n)
      BY <1>1, <2>1, <2>2, <2>3 DEF RemoveFirst, SelectInSeq
    <2>6. PICK r : r = RemoveAt(s, n)
      OBVIOUS
    <2>7. /\ r \in Seq(S) /\ Len(r) = Len(s) - 1
          /\ \A j \in 1 .. (Len(s) - 1) : r[j] = IF j < n THEN s[j] ELSE s[j + 1]
      BY <2>4, <2>6, RemoveAtFacts
    <2>8. ASSUME NEW x, Contains(r, x)
          PROVE  Contains(s, x)
      BY <2>4, <2>7, <2>8 DEF Contains
    <2>9. ASSUME NEW x, x # e, Contains(s, x)
          PROVE  Contains(r, x)
      <3>1. PICK i \in 1 .. Len(s) : s[i] = x
        BY <2>9 DEF Contains
      <3>2. i # n
        BY <2>4, <2>9, <3>1
      <3>3. CASE i < n
        <4>1. i \in 1 .. (Len(s) - 1)
          BY <2>4, <3>3
        <4>2. r[i] = x
          BY <2>7, <3>1, <3>3, <4>1
        <4> QED
          BY <2>7, <4>1, <4>2 DEF Contains
      <3>4. CASE i > n
        <4>1. i - 1 \in 1 .. (Len(s) - 1) /\ ~(i - 1 < n) /\ (i - 1) + 1 = i
          BY <2>4, <3>4
        <4>2. r[i - 1] = x
          BY <2>7, <3>1, <4>1
        <4> QED
          BY <2>7, <4>1, <4>2 DEF Contains
      <3> QED
        BY <2>4, <3>1, <3>2, <3>3, <3>4
    <2>10. ASSUME Distinct(s)
           PROVE  Distinct(r) /\ ~Contains(r, e)
      <3>1. ASSUME NEW i \in 1 .. Len(r), NEW j \in 1 .. Len(r), r[i] = r[j]
            PROVE  i = j
        BY <2>4, <2>7, <2>10, <3>1 DEF Distinct
      <3>2. ASSUME NEW i \in 1 .. Len(r)
            PROVE  r[i] # e
        BY <2>4, <2>7, <2>10 DEF Distinct
      <3> QED
        BY <3>1, <3>2 DEF Distinct, Contains
    <2> QED
      BY <2>5, <2>6, <2>7, <2>8, <2>9, <2>10
  <1>2. CASE ~\E i \in 1 .. Len(s) : s[i] = e
    <2>1. RemoveFirst(s, e) = s
      BY <1>2 DEF RemoveFirst
    <2>2. ~Contains(s, e)
      BY <1>2 DEF Contains
    <2> QED
      BY <2>1, <2>2
  <1> QED
    BY <1>1, <1>2

LEMMA AppendFacts ==
    ASSUME NEW S, NEW s \in Seq(S), NEW e \in S
    PROVE  /\ Append(s, e) \in Seq(S)
           /\ \A x : Contains(Append(s, e), x) <=> (Contains(s, x) \/ x = e)
           /\ Distinct(s) /\ ~Contains(s, e) => Distinct(Append(s, e))
  <1>1. PICK r : r = Append(s, e)
    OBVIOUS
  <1>2. /\ r \in Seq(S) /\ Len(r) = Len(s) + 1 /\ Len(s) \in Nat
        /\ \A i \in 1 .. Len(s) : r[i] = s[i]
        /\ r[Len(s) + 1] = e
    BY <1>1
  <1>3. \A i \in 1 .. Len(r) : i \in 1 .. Len(s) \/ i = Len(s) + 1
    BY <1>2
  <1>4. \A x : Contains(r, x) <=> (Contains(s, x) \/ x = e)
    <2>1. ASSUME NEW x, Contains(s, x) PROVE Contains(r, x)
      BY <1>2, <2>1 DEF Contains
    <2>2. Contains(r, e)
      BY <1>2 DEF Contains
    <2>3. ASSUME NEW x, Contains(r, x) PROVE Contains(s, x) \/ x = e
      BY <1>2, <1>3, <2>3 DEF Contains
    <2> QED
      BY <2>1, <2>2, <2>3
  <1>5. ASSUME Distinct(s), ~Contains(s, e) PROVE Distinct(r)
    BY <1>2, <1>3, <1>5 DEF Distinct, Contains
  <1> QED
    BY <1>1, <1>2, <1>4, <1>5

LEMMA TailFacts ==
    ASSUME NEW S, NEW s \in Seq(S), s # <<>>
    PROVE  Tail(s) \in Seq(S) /\ \A x : Contains(Tail(s), x) => Contains(s, x)
  <1>1. PICK r : r = Tail(s)
    OBVIOUS
  <1>2. /\ r \in Seq(S) /\ Len(r) = Len(s) - 1 /\ Len(s) \in Nat
        /\ \A i \in 1 .. (Len(s) - 1) : r[i] = s[i + 1]
    BY <1>1
  <1>3. ASSUME NEW x, Contains(r, x) PROVE Contains(s, x)
    <2>1. PICK i \in 1 .. Len(r) : r[i] = x
      BY <1>3 DEF Contains
    <2>2. i + 1 \in 1 .. Len(s) /\ s[i + 1] = x
      BY <1>2, <2>1
    <2> QED
      BY <2>2 DEF Contains
  <1> QED
    BY <1>1, <1>2, <1>3

\* new_session_id() finds an id that is not in use.
LEMMA NewIdFacts ==
    ASSUME NEW q \in Seq(Ids)
    PROVE  new_session_id(q) # 0 =>
               new_session_id(q) \in Ids /\ ~Contains(q, new_session_id(q))
  <1> DEFINE start == IF q = <<>> \/ Last(q) = MaxId THEN 1 ELSE Last(q) + 1
             nth(i) == ((start - 1 + i) % MaxId) + 1
             free == {i \in 0..(MaxId - 1) : ~Contains(q, nth(i))}
  <1>1. MaxId \in Nat \ {0}
    BY TaManagerAssumption
  <1>2. start \in Nat \ {0}
    <2>1. q # <<>> => Last(q) \in Ids
      BY DEF Last
    <2> QED
      BY <2>1 DEF Ids
  <1>3. new_session_id(q) = IF free = {} THEN 0 ELSE nth(Min(free))
    BY DEF new_session_id
  <1>4. free \in SUBSET Nat
    BY <1>1
  <1>5. ASSUME NEW i \in Nat PROVE nth(i) \in Ids
    <2> HIDE DEF start
    <2>1. PICK n \in Nat : n = start - 1 + i
      BY <1>2
    <2>2. n % MaxId \in 0..(MaxId - 1)
      BY <1>1
    <2> QED
      BY <1>1, <2>1, <2>2 DEF Ids
  <1>6. ASSUME NEW i \in free PROVE nth(i) \in Ids /\ ~Contains(q, nth(i))
    <2>1. i \in Nat
      BY <1>4
    <2> QED
      BY <1>5, <2>1
  <1>7. free # {} => Min(free) \in free
    BY <1>4, MinIsLeast
  <1> HIDE DEF nth, free, start
  <1> QED
    BY <1>3, <1>6, <1>7

\* Sets that differ in one element at most differ by that in size.
N(b) == IF b THEN 1 ELSE 0
LEMMA OneOff ==
    ASSUME NEW A, NEW B, NEW x, IsFiniteSet(A), IsFiniteSet(B),
           \A y : y # x => (y \in A <=> y \in B)
    PROVE  /\ Cardinality(A) \in Nat /\ Cardinality(B) \in Nat
           /\ Cardinality(B) + N(x \in A) = Cardinality(A) + N(x \in B)
  <1>1. Cardinality(A) \in Nat /\ Cardinality(B) \in Nat
    BY FS_CardinalityType
  <1>2. (x \in A <=> x \in B) => A = B
    OBVIOUS
  <1>3. ASSUME x \notin A, x \in B PROVE Cardinality(B) = Cardinality(A) + 1
    <2>1. B = A \cup {x}
      BY <1>3
    <2> QED
      BY <1>3, <2>1, FS_AddElement
  <1>4. ASSUME x \in A, x \notin B PROVE Cardinality(A) = Cardinality(B) + 1
    <2>1. A = B \cup {x}
      BY <1>4
    <2> QED
      BY <1>4, <2>1, FS_AddElement
  <1> QED
    BY <1>1, <1>2, <1>3, <1>4 DEF N

LEMMA SomeIsCounted ==
    ASSUME NEW A, IsFiniteSet(A), NEW x \in A
    PROVE  Cardinality(A) \in Nat /\ Cardinality(A) > 0
  <1>1. Cardinality(A) \in Nat
    BY FS_CardinalityType
  <1>2. Cardinality(A) # 0
    BY FS_EmptySet
  <1> QED
    BY <1>1, <1>2

LEMMA OneIsAlone ==
    ASSUME NEW A, IsFiniteSet(A), Cardinality(A) = 1, NEW x \in A, NEW y \in A
    PROVE  x = y
  <1>1. IsFiniteSet(A \ {x}) /\ Cardinality(A \ {x}) = 0
    BY FS_RemoveElement
  <1>2. A \ {x} = {}
    BY <1>1, FS_EmptySet
  <1> QED
    BY <1>2

-----------------------------------------------------------------------------
(* The places on the stacks *)

PlacesOf(st) == UNION {{t} \X (1..Len(st[t])) : t \in Threads}
FrameAt(st, p) == st[p[1]][Len(st[p[1]]) + 1 - p[2]]

LEMMA PlacesFacts ==
    ASSUME NEW T, NEW st \in [Threads -> Seq(T)]
    PROVE  /\ \A t \in Threads : Len(st[t]) \in Nat
           /\ \A t, i : <<t, i>> \in PlacesOf(st) <=> (t \in Threads /\ i \in 1..Len(st[t]))
           /\ \A p \in PlacesOf(st) :
                 /\ p = <<p[1], p[2]>> /\ p[1] \in Threads /\ p[2] \in Nat \ {0}
                 /\ FrameAt(st, p) \in T
           /\ IsFiniteSet(PlacesOf(st))
  <1>1. \A t \in Threads : Len(st[t]) \in Nat /\ st[t] \in Seq(T)
    OBVIOUS
  <1>2. \A p : p \in PlacesOf(st) <=> \E t \in Threads : p \in {t} \X (1..Len(st[t]))
    BY DEF PlacesOf
  <1>3. \A t, i : <<t, i>> \in PlacesOf(st) <=> (t \in Threads /\ i \in 1..Len(st[t]))
    BY <1>2
  <1>4. ASSUME NEW p \in PlacesOf(st)
        PROVE  /\ p = <<p[1], p[2]>> /\ p[1] \in Threads /\ p[2] \in Nat \ {0}
               /\ FrameAt(st, p) \in T
    <2>1. PICK t \in Threads : p \in {t} \X (1..Len(st[t]))
      BY <1>2
    <2>2. p = <<p[1], p[2]>> /\ p[1] = t /\ p[2] \in 1..Len(st[t])
      BY <2>1
    <2>3. Len(st[t]) + 1 - p[2] \in 1..Len(st[t])
      BY <1>1, <2>2
    <2> QED
      BY <1>1, <2>2, <2>3 DEF FrameAt
  <1>5. IsFiniteSet(PlacesOf(st))
    <2> DEFINE C(t) == {t} \X (1..Len(st[t]))
               D == {C(t) : t \in Threads}
    <2>1. IsFiniteSet(D)
      <3>1. PICK f : f = [t \in Threads |-> C(t)]
        OBVIOUS
      <3>2. f \in Surjection(Threads, D)
        BY <3>1 DEF Surjection
      <3> QED
        BY <3>2, FS_Surjection, TaManagerAssumption
    <2>2. ASSUME NEW t \in Threads PROVE IsFiniteSet(C(t))
      <3>1. 1 \in Int /\ Len(st[t]) \in Int
        BY <1>1
      <3>2. IsFiniteSet(1..Len(st[t]))
        BY <3>1, FS_Interval
      <3>3. IsFiniteSet({t})
        BY FS_Singleton
      <3> QED
        BY <3>2, <3>3, FS_Product
    <2>3. PlacesOf(st) = UNION D
      BY DEF PlacesOf
    <2> QED
      BY <2>1, <2>2, <2>3, FS_UNION
  <1> QED
    BY <1>1, <1>3, <1>4, <1>5

\* The places before and after a step
StackType == stack \in [Threads -> Seq(FrameType)]
StackStep == setup' = setup /\ stack' \in [Threads -> Seq(FrameType)]
LEMMA CallsFacts ==
    ASSUME StackType
    PROVE  /\ \A t \in Threads : Len(stack[t]) \in Nat
           /\ \A t, i : <<t, i>> \in Calls <=> (t \in Threads /\ i \in 1..Len(stack[t]))
           /\ \A p \in Calls :
                 /\ p = <<p[1], p[2]>> /\ p[1] \in Threads /\ p[2] \in Nat \ {0}
                 /\ Call(p) \in FrameType
           /\ IsFiniteSet(Calls)
  <1>1. Calls = PlacesOf(stack) /\ \A p : Call(p) = FrameAt(stack, p)
    BY DEF Calls, Call, PlacesOf, FrameAt
  <1> QED
    BY <1>1, PlacesFacts DEF StackType

LEMMA CallsFactsNext ==
    ASSUME StackStep
    PROVE  /\ \A t \in Threads : Len(stack'[t]) \in Nat
           /\ \A t, i : <<t, i>> \in Calls' <=> (t \in Threads /\ i \in 1..Len(stack'[t]))
           /\ \A p \in Calls' :
                 /\ p = <<p[1], p[2]>> /\ p[1] \in Threads /\ p[2] \in Nat \ {0}
                 /\ Call(p)' \in FrameType
           /\ IsFiniteSet(Calls')
  <1>1. Calls' = PlacesOf(stack') /\ \A p : Call(p)' = FrameAt(stack', p)
    BY DEF Calls, Call, PlacesOf, FrameAt
  <1> QED
    BY <1>1, PlacesFacts DEF StackStep

\* A step changes the call at place p from f to g, where NoCall stands for none
\* and p is where the stack of a thread ends.
NoCall == [op |-> "none", key |-> NULL, uuid |-> NULL, ctx |-> NULL, pc |-> "destroy",
           busy |-> FALSE, ok |-> FALSE, todo |-> <<>>]
Step(p, f, g) ==
    /\ \A q : q # p => (q \in Calls' <=> q \in Calls)
    /\ \A q \in Calls : q # p => Call(q)' = Call(q)
    /\ IF p \in Calls THEN Call(p) = f ELSE f = NoCall
    /\ IF p \in Calls' THEN Call(p)' = g ELSE g = NoCall
    /\ \A q \in Calls : Below(q) # p
    /\ \A q \in Calls' : Below(q) # p

LEMMA StackEnds ==
    ASSUME StackType, StackStep, NEW t \in Threads, NEW n \in Nat \ {0}, NEW p, p = <<t, n>>,
           Len(stack[t]) \in {n - 1, n}, Len(stack'[t]) \in {n - 1, n},
           \A u \in Threads \ {t} : stack'[u] = stack[u],
           \A i \in 1..(n - 1) :
              stack'[t][Len(stack'[t]) + 1 - i] = stack[t][Len(stack[t]) + 1 - i]
    PROVE  /\ p \in Calls <=> Len(stack[t]) = n
           /\ p \in Calls' <=> Len(stack'[t]) = n
           /\ Step(p, IF Len(stack[t]) = n THEN stack[t][1] ELSE NoCall,
                      IF Len(stack'[t]) = n THEN stack'[t][1] ELSE NoCall)
  <1>1. Len(stack[t]) \in Nat /\ Len(stack'[t]) \in Nat
    BY CallsFacts, CallsFactsNext
  <1>2. (p \in Calls <=> Len(stack[t]) = n) /\ (p \in Calls' <=> Len(stack'[t]) = n)
    BY <1>1, CallsFacts, CallsFactsNext
  <1>3. /\ Len(stack[t]) = n => Call(p) = stack[t][1]
        /\ Len(stack'[t]) = n => Call(p)' = stack'[t][1]
    BY <1>1 DEF Call
  <1>4. ASSUME NEW u, NEW j, <<u, j>> # p
        PROVE  /\ <<u, j>> \in Calls' <=> <<u, j>> \in Calls
               /\ <<u, j>> \in Calls => Call(<<u, j>>)' = Call(<<u, j>>)
    <2>1. CASE u # t \/ u \notin Threads
      BY <2>1, CallsFacts, CallsFactsNext DEF Call
    <2>2. CASE u = t
      <3>1. j # n
        BY <1>4, <2>2
      <3>2. <<t, j>> \in Calls <=> j \in 1..(n - 1)
        BY <1>1, <3>1, CallsFacts
      <3>3. <<t, j>> \in Calls' <=> j \in 1..(n - 1)
        BY <1>1, <3>1, CallsFactsNext
      <3> QED
        BY <2>2, <3>2, <3>3 DEF Call
    <2> QED
      BY <2>1, <2>2
  <1>5. ASSUME NEW q, q # p
        PROVE  /\ q \in Calls' <=> q \in Calls
               /\ q \in Calls => Call(q)' = Call(q)
    <2>1. q \in Calls => q = <<q[1], q[2]>>
      BY CallsFacts
    <2>2. q \in Calls' => q = <<q[1], q[2]>>
      BY CallsFactsNext
    <2>3. q = <<q[1], q[2]>> => (q \in Calls' <=> q \in Calls)
                                /\ (q \in Calls => Call(q)' = Call(q))
      BY <1>4, <1>5
    <2> QED
      BY <2>1, <2>2, <2>3
  <1>6. ASSUME NEW q \in Calls PROVE Below(q) # p
    <2>1. q = <<q[1], q[2]>> /\ q[2] \in Nat /\ q[1] \in Threads /\ q[2] \in 1..Len(stack[q[1]])
      BY CallsFacts
    <2>2. Below(q) = p => q[1] = t /\ q[2] - 1 = n
      BY DEF Below
    <2> QED
      BY <1>1, <2>1, <2>2
  <1>7. ASSUME NEW q \in Calls' PROVE Below(q) # p
    <2>1. q = <<q[1], q[2]>> /\ q[2] \in Nat /\ q[1] \in Threads /\ q[2] \in 1..Len(stack'[q[1]])
      BY CallsFactsNext
    <2>2. Below(q) = p => q[1] = t /\ q[2] - 1 = n
      BY DEF Below
    <2> QED
      BY <1>1, <2>1, <2>2
  <1>8. PICK f, g : /\ f = IF Len(stack[t]) = n THEN stack[t][1] ELSE NoCall
                    /\ g = IF Len(stack'[t]) = n THEN stack'[t][1] ELSE NoCall
    OBVIOUS
  <1>9. Step(p, f, g)
    BY <1>2, <1>3, <1>5, <1>6, <1>7, <1>8 DEF Step
  <1> QED
    BY <1>2, <1>8, <1>9

\* The innermost call of thread t is at place p.
LEMMA TopFacts ==
    ASSUME StackType, NEW t \in Threads, stack[t] # <<>>, NEW p, p = <<t, Len(stack[t])>>
    PROVE  p \in Calls /\ p[1] = t /\ Call(p) = Top(t) /\ Top(t) \in FrameType
  <1>1. stack[t] \in Seq(FrameType) /\ Len(stack[t]) \in Nat \ {0}
    BY DEF StackType
  <1>2. p \in Calls
    BY <1>1, CallsFacts
  <1>3. Top(t) = stack[t][1] /\ Call(p) = stack[t][1]
    BY <1>1 DEF Top, Call
  <1> QED
    BY <1>1, <1>2, <1>3

\* It changes,
LEMMA SetStep ==
    ASSUME StackType, setup' = setup, NEW t \in Threads, stack[t] # <<>>, NEW g \in FrameType,
           stack' = [stack EXCEPT ![t][1] = g], NEW p, p = <<t, Len(stack[t])>>
    PROVE  /\ StackStep /\ p \in Calls' /\ Step(p, Top(t), g)
           /\ stack'[t] # <<>> /\ Head(stack'[t]) = g
           /\ \A u \in Threads \ {t} : stack'[u] = stack[u]
  <1>1. /\ stack[t] \in Seq(FrameType) /\ Len(stack[t]) \in Nat \ {0}
        /\ stack'[t] = [stack[t] EXCEPT ![1] = g] /\ \A u \in Threads \ {t} : stack'[u] = stack[u]
    BY DEF StackType
  <1>2. /\ stack'[t] \in Seq(FrameType) /\ Len(stack'[t]) = Len(stack[t])
        /\ stack'[t][1] = g /\ \A i \in 2..Len(stack[t]) : stack'[t][i] = stack[t][i]
    BY <1>1
  <1>3. StackStep
    BY <1>1, <1>2 DEF StackType, StackStep
  <1>4. Top(t) = stack[t][1] /\ Head(stack'[t]) = g /\ stack'[t] # <<>>
    BY <1>1, <1>2 DEF Top
  <1>5. PICK n : n = Len(stack[t])
    OBVIOUS
  <1>6. \A i \in 1..(n - 1) :
           stack'[t][Len(stack'[t]) + 1 - i] = stack[t][Len(stack[t]) + 1 - i]
    BY <1>1, <1>2, <1>5
  <1>7. p \in Calls' /\ Step(p, stack[t][1], stack'[t][1])
    BY <1>1, <1>2, <1>3, <1>5, <1>6, StackEnds
  <1> QED
    BY <1>1, <1>2, <1>3, <1>4, <1>7

\* returns,
LEMMA PopStep ==
    ASSUME StackType, setup' = setup, NEW t \in Threads, stack[t] # <<>>,
           stack' = [stack EXCEPT ![t] = Tail(@)], NEW p, p = <<t, Len(stack[t])>>
    PROVE  /\ StackStep /\ p \notin Calls' /\ Step(p, Top(t), NoCall)
           /\ \A u \in Threads \ {t} : stack'[u] = stack[u]
  <1>1. /\ stack[t] \in Seq(FrameType) /\ Len(stack[t]) \in Nat \ {0}
        /\ stack'[t] = Tail(stack[t]) /\ \A u \in Threads \ {t} : stack'[u] = stack[u]
    BY DEF StackType
  <1>2. /\ stack'[t] \in Seq(FrameType) /\ Len(stack'[t]) = Len(stack[t]) - 1
        /\ \A i \in 1..(Len(stack[t]) - 1) : stack'[t][i] = stack[t][i + 1]
    <2>1. PICK s : s = stack[t]
      OBVIOUS
    <2>2. s \in Seq(FrameType) /\ s # <<>> /\ Len(s) \in Nat
      BY <1>1, <2>1
    <2>3. /\ Tail(s) \in Seq(FrameType) /\ Len(Tail(s)) = Len(s) - 1
          /\ \A i \in 1..Len(Tail(s)) : Tail(s)[i] = s[i + 1]
      BY <2>2, HeadTailProperties
    <2> QED
      BY <1>1, <2>1, <2>2, <2>3
  <1>3. StackStep
    BY <1>1, <1>2 DEF StackType, StackStep
  <1>4. Top(t) = stack[t][1]
    BY <1>1 DEF Top
  <1>5. PICK n : n = Len(stack[t])
    OBVIOUS
  <1>6. \A i \in 1..(n - 1) :
           stack'[t][Len(stack'[t]) + 1 - i] = stack[t][Len(stack[t]) + 1 - i]
    BY <1>1, <1>2, <1>5
  <1>7. p \notin Calls' /\ Step(p, stack[t][1], NoCall)
    BY <1>1, <1>2, <1>3, <1>5, <1>6, StackEnds
  <1> QED
    BY <1>1, <1>3, <1>4, <1>7

\* or calls f.
LEMMA PushStep ==
    ASSUME StackType, setup' = setup, NEW t \in Threads, NEW f \in FrameType,
           stack' = [stack EXCEPT ![t] = <<f>> \o @], NEW p, p = <<t, Len(stack[t]) + 1>>
    PROVE  /\ StackStep /\ p \notin Calls /\ p \in Calls' /\ Step(p, NoCall, f)
           /\ stack'[t] # <<>> /\ Head(stack'[t]) = f
           /\ \A u \in Threads \ {t} : stack'[u] = stack[u]
  <1>1. /\ stack[t] \in Seq(FrameType) /\ Len(stack[t]) \in Nat
        /\ stack'[t] = <<f>> \o stack[t] /\ \A u \in Threads \ {t} : stack'[u] = stack[u]
    BY DEF StackType
  <1>2. /\ stack'[t] \in Seq(FrameType) /\ Len(stack'[t]) = Len(stack[t]) + 1
        /\ stack'[t][1] = f
        /\ \A i \in 1..Len(stack[t]) : stack'[t][i + 1] = stack[t][i]
    <2>1. <<f>> \in Seq(FrameType) /\ Len(<<f>>) = 1 /\ <<f>>[1] = f
      OBVIOUS
    <2>2. /\ Len(stack'[t]) = 1 + Len(stack[t]) /\ stack'[t] \in Seq(FrameType)
          /\ \A i \in 1..(1 + Len(stack[t])) :
                stack'[t][i] = IF i <= 1 THEN <<f>>[i] ELSE stack[t][i - 1]
      BY <1>1, <2>1, ConcatProperties
    <2> QED
      BY <1>1, <2>1, <2>2
  <1>3. StackStep
    BY <1>1, <1>2 DEF StackType, StackStep
  <1>4. Head(stack'[t]) = f /\ stack'[t] # <<>>
    BY <1>1, <1>2
  <1>5. PICK n : n = Len(stack[t]) + 1
    OBVIOUS
  <1>6. \A i \in 1..(n - 1) :
           stack'[t][Len(stack'[t]) + 1 - i] = stack[t][Len(stack[t]) + 1 - i]
    <2>1. ASSUME NEW i \in 1..(n - 1)
          PROVE  stack'[t][Len(stack'[t]) + 1 - i] = stack[t][Len(stack[t]) + 1 - i]
      <3>1. /\ Len(stack[t]) + 1 - i \in 1..Len(stack[t])
            /\ Len(stack'[t]) + 1 - i = (Len(stack[t]) + 1 - i) + 1
        BY <1>1, <1>2, <1>5
      <3> QED
        BY <1>2, <3>1
    <2> QED
      BY <2>1
  <1>7. n \in Nat \ {0} /\ Len(stack[t]) = n - 1 /\ Len(stack'[t]) = n /\ Len(stack[t]) # n
    BY <1>1, <1>2, <1>5
  <1>8. p \notin Calls /\ p \in Calls' /\ Step(p, NoCall, stack'[t][1])
    BY <1>1, <1>3, <1>5, <1>6, <1>7, StackEnds
  <1> QED
    BY <1>1, <1>2, <1>3, <1>4, <1>8

-----------------------------------------------------------------------------
(* Counting calls and sessions *)

RefersTo(f, k) == f.key = k /\ Refers(f)

LEMMA ReferersStep ==
    ASSUME StackType, StackStep, NEW p, NEW f, NEW g, Step(p, f, g), NEW k
    PROVE  /\ Cardinality(Referers(k)) \in Nat /\ Cardinality(Referers(k)') \in Nat
           /\ Cardinality(Referers(k)') + N(RefersTo(f, k))
              = Cardinality(Referers(k)) + N(RefersTo(g, k))
  <1>1. PICK A, B : A = Referers(k) /\ B = Referers(k)'
    OBVIOUS
  <1>2. /\ A \subseteq Calls /\ B \subseteq Calls'
        /\ \A q \in Calls : q \in A <=> RefersTo(Call(q), k)
        /\ \A q \in Calls' : q \in B <=> RefersTo(Call(q)', k)
    BY <1>1 DEF Referers, RefersTo, Refers
  <1>3. IsFiniteSet(A) /\ IsFiniteSet(B)
    BY <1>2, FS_Subset, CallsFacts, CallsFactsNext
  <1>4. \A q : q # p => (q \in A <=> q \in B)
    BY <1>2 DEF Step
  <1>5. ~RefersTo(NoCall, k)
    BY DEF RefersTo, Refers, NoCall
  <1>6. p \in A <=> RefersTo(f, k)
    BY <1>2, <1>5 DEF Step
  <1>7. p \in B <=> RefersTo(g, k)
    BY <1>2, <1>5 DEF Step
  <1>8. /\ Cardinality(A) \in Nat /\ Cardinality(B) \in Nat
        /\ Cardinality(B) + N(p \in A) = Cardinality(A) + N(p \in B)
    BY <1>3, <1>4, OneOff
  <1> QED
    BY <1>1, <1>6, <1>7, <1>8 DEF N

LEMMA ClosersStep ==
    ASSUME StackType, StackStep, NEW p, NEW f, NEW g, Step(p, f, g), NEW c
    PROVE  /\ Cardinality(Closers(c)) \in Nat /\ Cardinality(Closers(c)') \in Nat
           /\ Cardinality(Closers(c)') + N(Closing(f, c))
              = Cardinality(Closers(c)) + N(Closing(g, c))
  <1>1. PICK A, B : A = Closers(c) /\ B = Closers(c)'
    OBVIOUS
  <1>2. /\ A \subseteq Calls /\ B \subseteq Calls'
        /\ \A q \in Calls : q \in A <=> Closing(Call(q), c)
        /\ \A q \in Calls' : q \in B <=> Closing(Call(q)', c)
    BY <1>1 DEF Closers, Closing, Refers
  <1>3. IsFiniteSet(A) /\ IsFiniteSet(B)
    BY <1>2, FS_Subset, CallsFacts, CallsFactsNext
  <1>4. \A q : q # p => (q \in A <=> q \in B)
    BY <1>2 DEF Step
  <1>5. ~Closing(NoCall, c)
    BY DEF Closing, NoCall
  <1>6. p \in A <=> Closing(f, c)
    BY <1>2, <1>5 DEF Step
  <1>7. p \in B <=> Closing(g, c)
    BY <1>2, <1>5 DEF Step
  <1>8. /\ Cardinality(A) \in Nat /\ Cardinality(B) \in Nat
        /\ Cardinality(B) + N(p \in A) = Cardinality(A) + N(p \in B)
    BY <1>3, <1>4, OneOff
  <1> QED
    BY <1>1, <1>6, <1>7, <1>8 DEF N

LEMMA KeysFinite == IsFiniteSet(Keys)
  <1>1. IsFiniteSet(Lists)
    BY FS_AddElement, TaManagerAssumption DEF Lists
  <1>2. 1 \in Int /\ MaxId \in Int
    BY TaManagerAssumption
  <1>3. IsFiniteSet(Ids)
    BY <1>2, FS_Interval DEF Ids
  <1> QED
    BY <1>1, <1>3, FS_Product DEF Keys

IsOf(s, c) == s # NULL /\ s.ctx = c

LEMMA SessionsStep ==
    ASSUME NEW k, NEW c, k \in Keys, \A j \in Keys : j # k => sess'[j] = sess[j]
    PROVE  /\ Cardinality(SessionsOf(c)) \in Nat /\ Cardinality(SessionsOf(c)') \in Nat
           /\ Cardinality(SessionsOf(c)') + N(IsOf(sess[k], c))
              = Cardinality(SessionsOf(c)) + N(IsOf(sess'[k], c))
  <1>1. PICK A, B : A = SessionsOf(c) /\ B = SessionsOf(c)'
    OBVIOUS
  <1>2. /\ A \subseteq Keys /\ B \subseteq Keys
        /\ \A j \in Keys : j \in A <=> IsOf(sess[j], c)
        /\ \A j \in Keys : j \in B <=> IsOf(sess'[j], c)
    BY <1>1 DEF SessionsOf, IsOf
  <1>3. IsFiniteSet(A) /\ IsFiniteSet(B)
    BY <1>2, FS_Subset, KeysFinite
  <1>4. \A j : j # k => (j \in A <=> j \in B)
    BY <1>2
  <1>5. /\ Cardinality(A) \in Nat /\ Cardinality(B) \in Nat
        /\ Cardinality(B) + N(k \in A) = Cardinality(A) + N(k \in B)
    BY <1>3, <1>4, OneOff
  <1> QED
    BY <1>1, <1>2, <1>5 DEF N

\* A step that changes a call and a session keeps the counts when it changes
\* them with the calls.
LEMMA CountsStep ==
    ASSUME StackType, StackStep, CountsOK, NEW p, NEW f, NEW g, Step(p, f, g),
           NEW k \in Keys, \A j \in Keys : j # k => sess'[j] = sess[j],
           \A j \in Keys : /\ CountOf(sess'[j]) \in Nat
                           /\ CountOf(sess'[j]) + N(RefersTo(f, j))
                              = CountOf(sess[j]) + N(RefersTo(g, j)),
           \A c \in Ctxs : /\ CountOf(ctx'[c]) \in Nat
                           /\ CountOf(ctx'[c]) + N(IsOf(sess[k], c)) + N(Closing(f, c))
                              = CountOf(ctx[c]) + N(IsOf(sess'[k], c)) + N(Closing(g, c))
    PROVE  CountsOK'
  <1>1. ASSUME NEW j \in Keys
        PROVE  CountOf(sess'[j]) = Cardinality(Referers(j)')
    <2>1. PICK a, b, m, n, u, v :
              /\ a = CountOf(sess[j]) /\ b = CountOf(sess'[j])
              /\ m = Cardinality(Referers(j)) /\ n = Cardinality(Referers(j)')
              /\ u = N(RefersTo(f, j)) /\ v = N(RefersTo(g, j))
      OBVIOUS
    <2>2. m \in Nat /\ n \in Nat /\ u \in Nat /\ v \in Nat /\ n + u = m + v
      BY <2>1, ReferersStep DEF N
    <2>3. a = m
      BY <2>1 DEF CountsOK
    <2>4. b \in Nat /\ b + u = a + v
      BY <2>1
    <2>5. b = n
      BY <2>2, <2>3, <2>4
    <2> QED
      BY <2>1, <2>5
  <1>2. ASSUME NEW c \in Ctxs
        PROVE  CountOf(ctx'[c]) = Cardinality(SessionsOf(c)') + Cardinality(Closers(c)')
    <2>1. PICK a, b, m, n, u, v, mm, nn, uu, vv :
              /\ a = CountOf(ctx[c]) /\ b = CountOf(ctx'[c])
              /\ m = Cardinality(SessionsOf(c)) /\ n = Cardinality(SessionsOf(c)')
              /\ u = N(IsOf(sess[k], c)) /\ v = N(IsOf(sess'[k], c))
              /\ mm = Cardinality(Closers(c)) /\ nn = Cardinality(Closers(c)')
              /\ uu = N(Closing(f, c)) /\ vv = N(Closing(g, c))
      OBVIOUS
    <2>2. m \in Nat /\ n \in Nat /\ u \in Nat /\ v \in Nat /\ n + u = m + v
      BY <2>1, SessionsStep DEF N
    <2>3. mm \in Nat /\ nn \in Nat /\ uu \in Nat /\ vv \in Nat /\ nn + uu = mm + vv
      BY <2>1, ClosersStep DEF N
    <2>4. a = m + mm
      BY <2>1 DEF CountsOK
    <2>5. b \in Nat /\ b + u + uu = a + v + vv
      BY <2>1
    <2>6. b = n + nn
      BY <2>2, <2>3, <2>4, <2>5
    <2> QED
      BY <2>1, <2>6
  <1> QED
    BY <1>1, <1>2 DEF CountsOK, CountOf

-----------------------------------------------------------------------------
(* What a step leaves of the calls it does not change *)

OthersSess(p) ==
    \A q \in Calls : q # p => SessFor(q[1], Call(q), sess'[Call(q).key])
OthersCtx(p) ==
    \A q \in Calls : q # p /\ Call(q).ctx # NULL =>
        /\ CtxFor(Call(q), ctx'[Call(q).ctx])
        /\ ctx'[Call(q).ctx].uuid = ctx[Call(q).ctx].uuid

\* The call under another one
LEMMA BelowFacts ==
    ASSUME StackType, FramesOK, NEW q \in Calls, q[2] # 1
    PROVE  /\ Below(q) \in Calls /\ Below(q) # q /\ Below(q)[1] = q[1]
           /\ InCall(Call(Below(q))) /\ Call(Below(q)).ctx # NULL
           /\ Call(q).key[1] = Call(Below(q)).ctx
           /\ Call(Below(q)).pc # "destroy" => ~Has(Call(Below(q)).ctx, "PTA")
  <1>1. /\ q = <<q[1], q[2]>> /\ q[1] \in Threads /\ q[2] \in Nat \ {0}
        /\ q[2] \in 1..Len(stack[q[1]]) /\ Len(stack[q[1]]) \in Nat
    BY CallsFacts
  <1>2. q[2] - 1 \in 1..Len(stack[q[1]])
    BY <1>1
  <1>3. Below(q) \in Calls /\ Below(q)[1] = q[1]
    BY <1>1, <1>2, CallsFacts DEF Below
  <1>4. Below(q) # q
    BY <1>1 DEF Below
  <1>5. BelowOK(q) /\ FrameOK(Below(q))
    BY <1>3 DEF FramesOK
  <1>6. InCall(Call(Below(q))) /\ FormOK(Call(Below(q)))
    BY <1>5 DEF BelowOK, FrameOK
  <1>7. Call(Below(q)).ctx # NULL
    BY <1>6 DEF InCall, FormOK
  <1> QED
    BY <1>3, <1>4, <1>5, <1>7 DEF BelowOK

LEMMA FlagsStay ==
    ASSUME NEW c, UNCHANGED setup, ctx'[c].uuid = ctx[c].uuid, NEW x
    PROVE  Has(c, x)' <=> Has(c, x)
  BY DEF Has, Flags

LEMMA EarlyStays ==
    ASSUME UNCHANGED setup
    PROVE  Early' = Early
  BY DEF Early

\* Calls of other places stay as they are.
LEMMA FramesStep ==
    ASSUME StackType, StackStep, FramesOK, NEW p, NEW f, NEW g, Step(p, f, g),
           OthersSess(p), OthersCtx(p),
           p \in Calls' => /\ FormOK(g)
                           /\ SessFor(p[1], g, sess'[g.key])
                           /\ g.ctx # NULL => CtxFor(g, ctx'[g.ctx])
                           /\ BelowOK(p)'
                           /\ \A q \in Calls : q # p => Apart(g, Call(q))'
    PROVE  FramesOK'
  <1>1. UNCHANGED setup
    BY DEF StackStep
  <1>2. ASSUME NEW q \in Calls, q # p, NEW h, h = Call(q)
        PROVE  /\ q \in Calls' /\ Call(q)' = h
               /\ h.busy => (Has(h.ctx, "CC")' <=> Has(h.ctx, "CC"))
               /\ FrameOK(q)' /\ BelowOK(q)'
    <2>1. q \in Calls' /\ Call(q)' = h
      BY <1>2 DEF Step
    <2>2. FormOK(h) /\ FrameOK(q) /\ BelowOK(q)
      BY <1>2 DEF FramesOK, FrameOK
    <2>3. FormOK(h)'
      BY <1>1, <1>2, <2>2 DEF FormOK, Uuids, Flags
    <2>4. SessFor(q[1], h, sess'[h.key])
      BY <1>2 DEF OthersSess
    <2>5. h.ctx # NULL => /\ CtxFor(h, ctx'[h.ctx])
                          /\ ctx'[h.ctx].uuid = ctx[h.ctx].uuid
      BY <1>2 DEF OthersCtx
    <2>6. (h.ctx # NULL => CtxFor(h, ctx[h.ctx])')
      BY <1>1, <2>5 DEF CtxFor, Flags
    <2>7. FrameOK(q)'
      BY <2>1, <2>3, <2>4, <2>6 DEF FrameOK, SessFor, Refers, Owns
    <2>8. h.busy => h.ctx # NULL
      BY <2>2 DEF FormOK
    <2>9. h.busy => (Has(h.ctx, "CC")' <=> Has(h.ctx, "CC"))
      BY <1>1, <2>5, <2>8, FlagsStay
    <2>10. BelowOK(q)'
      <3>1. CASE q[2] = 1
        BY <1>2, <2>1, <2>2, <3>1 DEF BelowOK
      <3>2. CASE q[2] # 1
        <4>1. PICK b : b = Below(q)
          OBVIOUS
        <4>2. PICK i : i = Call(b)
          OBVIOUS
        <4>3. /\ b \in Calls /\ InCall(i) /\ i.ctx # NULL /\ h.key[1] = i.ctx
              /\ i.pc # "destroy" => ~Has(i.ctx, "PTA")
          BY <1>2, <3>2, <4>1, <4>2, BelowFacts
        <4>4. b # p
          BY <4>1 DEF Step
        <4>5. Call(b)' = i
          BY <4>2, <4>3, <4>4 DEF Step
        <4>6. ctx'[i.ctx].uuid = ctx[i.ctx].uuid
          BY <4>2, <4>3, <4>4 DEF OthersCtx
        <4>7. Has(i.ctx, "PTA")' <=> Has(i.ctx, "PTA")
          BY <1>1, <4>6, FlagsStay
        <4>8. Call(Below(q))' = i
          BY <4>1, <4>5
        <4> QED
          BY <2>1, <3>2, <4>3, <4>7, <4>8 DEF BelowOK, InCall
      <3> QED
        BY <3>1, <3>2
    <2> QED
      BY <2>1, <2>7, <2>9, <2>10
  <1>3. ASSUME p \in Calls'
        PROVE  FrameOK(p)' /\ BelowOK(p)'
    <2>1. Call(p)' = g
      BY <1>3 DEF Step
    <2>2. FormOK(g) /\ SessFor(p[1], g, sess'[g.key]) /\ (g.ctx # NULL => CtxFor(g, ctx'[g.ctx]))
      BY <1>3
    <2>3. FormOK(g)'
      BY <1>1, <2>2 DEF FormOK, Uuids, Flags
    <2>4. g.ctx # NULL => CtxFor(g, ctx[g.ctx])'
      BY <1>1, <2>2 DEF CtxFor, Flags
    <2> QED
      BY <1>3, <2>1, <2>2, <2>3, <2>4 DEF FrameOK, SessFor, Refers, Owns
  <1>4. ASSUME NEW q \in Calls'
        PROVE  FrameOK(q)' /\ BelowOK(q)'
    <2>1. CASE q = p
      BY <1>3, <2>1
    <2>2. CASE q # p
      <3>1. q \in Calls
        BY <2>2 DEF Step
      <3> QED
        BY <1>2, <2>2, <3>1
    <2> QED
      BY <2>1, <2>2
  <1>5. ASSUME NEW q \in Calls', NEW r \in Calls', q # r
        PROVE  Apart(Call(q), Call(r))'
    <2>1. PICK h, i : h = Call(q)' /\ i = Call(r)'
      OBVIOUS
    <2>2. Apart(Call(q), Call(r))' <=> Apart(h, i)'
      BY <2>1 DEF Apart, Refers, Owns, Occupies, Has, Flags
    <2>3. Apart(h, i)' <=> Apart(i, h)'
      BY DEF Apart, Occupies
    <2>4. CASE q # p /\ r # p
      <3>1. q \in Calls /\ r \in Calls /\ h = Call(q) /\ i = Call(r)
        BY <2>1, <2>4 DEF Step
      <3>2. Apart(h, i)
        BY <1>5, <3>1 DEF FramesOK
      <3>3. /\ h.busy => (Has(h.ctx, "CC")' <=> Has(h.ctx, "CC"))
            /\ i.busy => (Has(i.ctx, "CC")' <=> Has(i.ctx, "CC"))
        BY <1>2, <2>4, <3>1
      <3>4. Apart(h, i)'
        BY <1>1, <3>2, <3>3, EarlyStays DEF Apart, Occupies, Refers, Owns
      <3> QED
        BY <2>2, <3>4
    <2>5. CASE q = p
      <3>1. r \in Calls /\ i = Call(r) /\ h = g
        BY <1>5, <2>1, <2>5 DEF Step
      <3>2. Apart(g, Call(r))'
        BY <1>5, <2>5, <3>1
      <3>3. Apart(h, i)'
        BY <2>1, <3>1, <3>2 DEF Apart, Refers, Owns, Occupies, Has, Flags
      <3> QED
        BY <2>2, <3>3
    <2>6. CASE r = p
      <3>1. q \in Calls /\ h = Call(q) /\ i = g
        BY <1>5, <2>1, <2>6 DEF Step
      <3>2. Apart(g, Call(q))'
        BY <1>5, <2>6, <3>1
      <3>3. Apart(i, h)'
        BY <2>1, <3>1, <3>2 DEF Apart, Refers, Owns, Occupies, Has, Flags
      <3> QED
        BY <2>2, <2>3, <3>3
    <2> QED
      BY <2>4, <2>5, <2>6
  <1> QED
    BY <1>4, <1>5 DEF FramesOK

\* A session or context as others see it
SessLike(s, r) == /\ r # NULL
                  /\ r.ctx = s.ctx /\ r.given = s.given /\ r.lock = s.lock
CtxLike(d, e) == /\ e # NULL
                 /\ e.uuid = d.uuid /\ e.ref = d.ref /\ e.init = d.init
                 /\ e.panicked = d.panicked /\ e.releasing = d.releasing

LEMMA OthersSessStay ==
    ASSUME FramesOK, NEW p,
           \A q \in Calls : q # p /\ Refers(Call(q)) =>
               \/ SessLike(sess[Call(q).key], sess'[Call(q).key])
               \/ ~Owns(Call(q)) /\ sess'[Call(q).key] # NULL
    PROVE  OthersSess(p)
  <1>1. ASSUME NEW q \in Calls, q # p
        PROVE  SessFor(q[1], Call(q), sess'[Call(q).key])
    <2>1. PICK h : h = Call(q)
      OBVIOUS
    <2>2. SessFor(q[1], h, sess[h.key]) /\ FormOK(h)
      BY <2>1 DEF FramesOK, FrameOK
    <2>3. Refers(h) => \/ SessLike(sess[h.key], sess'[h.key])
                       \/ ~Owns(h) /\ sess'[h.key] # NULL
      BY <1>1, <2>1
    <2>4. ASSUME Refers(h), ~Owns(h)
          PROVE  h.ctx = NULL /\ h.op # "open" /\ h.pc \notin {"lookup", "initfail"}
      BY <2>2, <2>4 DEF FormOK, Owns
    <2>5. SessFor(q[1], h, sess'[h.key])
      BY <2>2, <2>3, <2>4 DEF SessFor, SessLike
    <2> QED
      BY <2>1, <2>5
  <1> QED
    BY <1>1 DEF OthersSess

LEMMA OthersCtxStay ==
    ASSUME FramesOK, NEW p,
           \A q \in Calls : q # p /\ Call(q).ctx # NULL =>
               CtxLike(ctx[Call(q).ctx], ctx'[Call(q).ctx])
    PROVE  OthersCtx(p)
  <1>1. ASSUME NEW q \in Calls, q # p, Call(q).ctx # NULL
        PROVE  /\ CtxFor(Call(q), ctx'[Call(q).ctx])
               /\ ctx'[Call(q).ctx].uuid = ctx[Call(q).ctx].uuid
    <2>1. PICK h : h = Call(q)
      OBVIOUS
    <2>2. CtxFor(h, ctx[h.ctx])
      BY <1>1, <2>1 DEF FramesOK, FrameOK
    <2>3. CtxLike(ctx[h.ctx], ctx'[h.ctx])
      BY <1>1, <2>1
    <2>4. CtxFor(h, ctx'[h.ctx]) /\ ctx'[h.ctx].uuid = ctx[h.ctx].uuid
      BY <2>2, <2>3 DEF CtxFor, CtxLike
    <2> QED
      BY <2>1, <2>4
  <1> QED
    BY <1>1 DEF OthersCtx

\* g claims no more than f did.
Weaker(f, g) ==
    /\ g.key = f.key /\ g.ctx = f.ctx
    /\ Refers(g) => Refers(f)
    /\ Owns(g) => Owns(f)
    /\ g.op = "open" => f.op = "open"
    /\ g.busy => f.busy
    /\ g.pc = "destroy" => f.pc = "destroy"

LEMMA WeakerApart ==
    ASSUME StackType, StackStep, FramesOK, NEW p, NEW f, NEW g, Step(p, f, g), OthersCtx(p),
           p \in Calls, Weaker(f, g), NEW q \in Calls, q # p
    PROVE  Apart(g, Call(q))'
  <1>1. PICK h : h = Call(q)
    OBVIOUS
  <1>2. Call(q)' = h /\ Call(p) = f
    BY <1>1 DEF Step
  <1>3. Apart(f, h) /\ FormOK(h) /\ FormOK(f)
    BY <1>1, <1>2 DEF FramesOK, FrameOK
  <1>4. h.busy => h.ctx # NULL
    BY <1>3 DEF FormOK
  <1>5. h.ctx # NULL => ctx'[h.ctx].uuid = ctx[h.ctx].uuid
    BY <1>1 DEF OthersCtx
  <1>6. h.busy => (Has(h.ctx, "CC")' <=> Has(h.ctx, "CC"))
    BY <1>4, <1>5, FlagsStay DEF StackStep
  <1>7. Apart(g, h)'
    BY <1>3, <1>6, EarlyStays DEF Apart, Weaker, Occupies, Refers, Owns, StackStep
  <1> QED
    BY <1>2, <1>7 DEF Apart, Refers, Owns, Occupies, Has, Flags

LEMMA SetBelow ==
    ASSUME StackType, StackStep, FramesOK, NEW p, NEW f, NEW g, Step(p, f, g), OthersCtx(p),
           p \in Calls, p \in Calls', g.key = f.key
    PROVE  BelowOK(p)'
  <1>1. Call(p) = f /\ Call(p)' = g /\ BelowOK(p)
    BY DEF Step, FramesOK
  <1>2. CASE p[2] = 1
    BY <1>1, <1>2 DEF BelowOK
  <1>3. CASE p[2] # 1
    <2>1. PICK b : b = Below(p)
      OBVIOUS
    <2>2. PICK i : i = Call(b)
      OBVIOUS
    <2>3. /\ b \in Calls /\ b # p /\ InCall(i) /\ i.ctx # NULL /\ f.key[1] = i.ctx
          /\ i.pc # "destroy" => ~Has(i.ctx, "PTA")
      BY <1>1, <1>3, <2>1, <2>2, BelowFacts
    <2>4. Call(b)' = i
      BY <2>2, <2>3 DEF Step
    <2>5. ctx'[i.ctx].uuid = ctx[i.ctx].uuid
      BY <2>2, <2>3 DEF OthersCtx
    <2>6. Has(i.ctx, "PTA")' <=> Has(i.ctx, "PTA")
      BY <2>5, FlagsStay DEF StackStep
    <2>7. Call(Below(p))' = i
      BY <2>1, <2>4
    <2> QED
      BY <1>1, <1>3, <2>3, <2>6, <2>7 DEF BelowOK, InCall
  <1> QED
    BY <1>2, <1>3

\* A call that goes on with the same session and context, and claims no more
LEMMA WeakerStep ==
    ASSUME StackType, StackStep, FramesOK, NEW p, NEW f, NEW g, Step(p, f, g),
           OthersSess(p), OthersCtx(p), p \in Calls, p \in Calls', Weaker(f, g),
           FormOK(g), SessFor(p[1], g, sess'[g.key]),
           g.ctx # NULL => CtxFor(g, ctx'[g.ctx])
    PROVE  FramesOK'
  <1>1. \A q \in Calls : q # p => Apart(g, Call(q))'
    BY WeakerApart
  <1>2. BelowOK(p)'
    BY SetBelow DEF Weaker
  <1> QED
    BY <1>1, <1>2, FramesStep

-----------------------------------------------------------------------------
(* Contexts, sessions, the single-instance lock and the waits after a step *)

OccAt(f, c) == f.ctx = c /\ f.busy /\ "CC" \notin Flags[ctx[c].uuid]
Frees(f, c) == f.ctx = c /\ f.pc = "destroy"

LEMMA ContextStep ==
    ASSUME StackType, StackStep, FramesOK, NEW p, NEW f, NEW g, Step(p, f, g), OthersCtx(p),
           NEW c \in Ctxs, NEW d, d = ctx[c], NEW e, e = ctx'[c], NEW fl, fl = Flags[d.uuid],
           d # NULL, e # NULL, e.uuid = d.uuid, ContextOK(c),
           Contains(tee_ctxes', c) <=> ~e.releasing,
           e.releasing /\ e.ref # 0 => e.panicked /\ NotKept(fl),
           "PTA" \in fl => ~e.panicked,
           e.ref = 0 => \/ {"SI", "KA"} \subseteq fl /\ ~e.releasing
                        \/ Frees(g, c)
                        \/ d.ref = 0 /\ d.releasing /\ ~Frees(f, c),
           ~({"SI", "MS"} \subseteq fl) => e.ref <= 1,
           e.busy <=> (OccAt(g, c) \/ (d.busy /\ ~OccAt(f, c)))
    PROVE  ContextOK(c)'
  <1>1. UNCHANGED setup /\ Flags' = Flags
    BY DEF StackStep, Flags
  <1>2. NULL \notin Ctxs
    BY TaManagerAssumption
  <1>3. ASSUME NEW q \in Calls, q # p
        PROVE  /\ q \in Calls' /\ Call(q)' = Call(q)
               /\ Call(q).ctx = c => (Occupies(Call(q))' <=> Occupies(Call(q)))
    <2>1. q \in Calls' /\ Call(q)' = Call(q)
      BY <1>3 DEF Step
    <2> QED
      BY <1>1, <2>1 DEF Occupies, Has
  <1>4. ASSUME NEW q \in Calls
        PROVE  (Call(q).ctx = c /\ Occupies(Call(q))) <=> OccAt(Call(q), c)
    BY DEF Occupies, OccAt, Has
  <1>5. (\E q \in Calls' : Call(q)'.ctx = c /\ Occupies(Call(q))')
        <=> (OccAt(g, c) \/ (d.busy /\ ~OccAt(f, c)))
    <2>1. d.busy <=> \E q \in Calls : Call(q).ctx = c /\ Occupies(Call(q))
      BY DEF ContextOK
    <2>2. ASSUME NEW q \in Calls', Call(q)'.ctx = c, Occupies(Call(q))'
          PROVE  OccAt(g, c) \/ (d.busy /\ ~OccAt(f, c))
      <3>1. CASE q = p
        <4>1. Call(q)' = g
          BY <2>2, <3>1 DEF Step
        <4> QED
          BY <1>1, <2>2, <4>1 DEF OccAt, Occupies, Has
      <3>2. CASE q # p
        <4>1. q \in Calls
          BY <3>2 DEF Step
        <4>2. Call(q).ctx = c /\ Occupies(Call(q))
          BY <1>3, <2>2, <3>2, <4>1
        <4>3. d.busy
          BY <2>1, <4>1, <4>2
        <4>4. ~OccAt(f, c)
          <5>1. ASSUME OccAt(f, c) PROVE FALSE
            <6>1. p \in Calls /\ Call(p) = f
              BY <1>2, <5>1 DEF Step, OccAt, NoCall
            <6>2. Apart(Call(p), Call(q))
              BY <3>2, <4>1, <6>1 DEF FramesOK
            <6> QED
              BY <1>4, <4>2, <5>1, <6>1, <6>2 DEF Apart, OccAt
          <5> QED
            BY <5>1
        <4> QED
          BY <4>3, <4>4
      <3> QED
        BY <3>1, <3>2
    <2>3. ASSUME OccAt(g, c)
          PROVE  \E q \in Calls' : Call(q)'.ctx = c /\ Occupies(Call(q))'
      <3>1. p \in Calls' /\ Call(p)' = g
        BY <1>2, <2>3 DEF Step, OccAt, NoCall
      <3>2. Call(p)'.ctx = c /\ Occupies(Call(p))'
        BY <1>1, <2>3, <3>1 DEF OccAt, Occupies, Has
      <3> QED
        BY <3>1, <3>2
    <2>4. ASSUME d.busy, ~OccAt(f, c)
          PROVE  \E q \in Calls' : Call(q)'.ctx = c /\ Occupies(Call(q))'
      <3>1. PICK q \in Calls : Call(q).ctx = c /\ Occupies(Call(q))
        BY <2>1, <2>4
      <3>2. q # p
        BY <1>4, <2>4, <3>1 DEF Step
      <3> QED
        BY <1>3, <3>1, <3>2
    <2> QED
      BY <2>2, <2>3, <2>4
  <1>6. ASSUME e.ref = 0
        PROVE  \/ {"SI", "KA"} \subseteq fl /\ ~e.releasing
               \/ \E q \in Calls' : Call(q)'.ctx = c /\ Call(q)'.pc = "destroy"
    <2>1. CASE Frees(g, c)
      <3>1. p \in Calls' /\ Call(p)' = g
        BY <1>2, <2>1 DEF Step, Frees, NoCall
      <3> QED
        BY <2>1, <3>1 DEF Frees
    <2>2. CASE d.ref = 0 /\ d.releasing /\ ~Frees(f, c)
      <3>1. PICK q \in Calls : Call(q).ctx = c /\ Call(q).pc = "destroy"
        BY <2>2 DEF ContextOK
      <3>2. q # p
        BY <2>2, <3>1 DEF Frees, Step
      <3> QED
        BY <1>3, <3>1, <3>2
    <2> QED
      BY <1>6, <2>1, <2>2
  <1> QED
    BY <1>1, <1>5, <1>6 DEF ContextOK

\* A context that the step does not change
LEMMA ContextStays ==
    ASSUME StackType, StackStep, FramesOK, NEW p, NEW f, NEW g, Step(p, f, g), OthersCtx(p),
           NEW c \in Ctxs, ctx[c] # NULL, ctx'[c] = ctx[c], ContextOK(c),
           Contains(tee_ctxes', c) <=> Contains(tee_ctxes, c),
           OccAt(g, c) <=> OccAt(f, c), Frees(f, c) => Frees(g, c)
    PROVE  ContextOK(c)'
  <1>1. PICK d, fl : d = ctx[c] /\ fl = Flags[d.uuid]
    OBVIOUS
  <1>2. OccAt(f, c) => d.busy
    <2>1. ASSUME OccAt(f, c) PROVE d.busy
      <3>1. p \in Calls /\ Call(p) = f
        BY <2>1, TaManagerAssumption DEF Step, OccAt, NoCall
      <3>2. Call(p).ctx = c /\ Occupies(Call(p))
        BY <2>1, <3>1 DEF OccAt, Occupies, Has
      <3> QED
        BY <1>1, <3>1, <3>2 DEF ContextOK
    <2> QED
      BY <2>1
  <1>4. /\ Contains(tee_ctxes', c) <=> ~d.releasing
        /\ d.releasing /\ d.ref # 0 => d.panicked /\ NotKept(fl)
        /\ "PTA" \in fl => ~d.panicked
        /\ ~({"SI", "MS"} \subseteq fl) => d.ref <= 1
        /\ d.ref = 0 => \/ {"SI", "KA"} \subseteq fl /\ ~d.releasing
                        \/ Frees(g, c)
                        \/ d.ref = 0 /\ d.releasing /\ ~Frees(f, c)
    <2>1. ASSUME NEW q \in Calls, Call(q).ctx = c, Call(q).pc = "destroy"
          PROVE  d.releasing
      <3>1. CtxFor(Call(q), d)
        BY <1>1, <2>1, TaManagerAssumption DEF FramesOK, FrameOK
      <3> QED
        BY <2>1, <3>1 DEF CtxFor
    <2> QED
      BY <1>1, <2>1 DEF ContextOK
  <1>5. d.busy <=> (OccAt(g, c) \/ (d.busy /\ ~OccAt(f, c)))
    BY <1>2
  <1> QED
    BY <1>1, <1>4, <1>5, ContextStep

LEMMA SinglesStep ==
    ASSUME StackType, StackStep, FramesOK, NEW p, NEW f, NEW g, Step(p, f, g), OthersCtx(p)
    PROVE  /\ Cardinality(Singles) \in Nat /\ Cardinality(Singles') \in Nat
           /\ Cardinality(Singles') + N(InSingle(f)) = Cardinality(Singles) + N(InSingle(g)')
           /\ \A q : q # p => (q \in Singles' <=> q \in Singles)
           /\ p \in Singles <=> InSingle(f)
           /\ p \in Singles' <=> InSingle(g)'
  <1>1. PICK A, B : A = Singles /\ B = Singles'
    OBVIOUS
  <1>2. /\ A \subseteq Calls /\ B \subseteq Calls'
        /\ \A q \in Calls : q \in A <=> InSingle(Call(q))
        /\ \A q \in Calls' : q \in B <=> InSingle(Call(q))'
    BY <1>1 DEF Singles
  <1>3. IsFiniteSet(A) /\ IsFiniteSet(B)
    BY <1>2, FS_Subset, CallsFacts, CallsFactsNext
  <1>4. ASSUME NEW q \in Calls, q # p
        PROVE  InSingle(Call(q))' <=> InSingle(Call(q))
    <2>1. PICK h : h = Call(q)
      OBVIOUS
    <2>2. Call(q)' = h /\ FormOK(h)
      BY <1>4, <2>1 DEF Step, FramesOK, FrameOK
    <2>3. h.busy => h.ctx # NULL
      BY <2>2 DEF FormOK
    <2>4. h.busy => ctx'[h.ctx].uuid = ctx[h.ctx].uuid
      BY <1>4, <2>1, <2>3 DEF OthersCtx
    <2> QED
      BY <2>1, <2>2, <2>4 DEF InSingle, Occupies, Has, Flags, StackStep
  <1>5. \A q : q # p => (q \in A <=> q \in B)
    BY <1>2, <1>4 DEF Step
  <1>6. ~InSingle(NoCall) /\ ~InSingle(NoCall)'
    BY DEF InSingle, Occupies, NoCall
  <1>7. p \in A <=> InSingle(f)
    BY <1>2, <1>6 DEF Step
  <1>8. p \in B <=> InSingle(g)'
    <2>1. CASE p \in Calls'
      <3>1. Call(p)' = g
        BY <2>1 DEF Step
      <3>2. InSingle(Call(p))' <=> InSingle(g)'
        BY <3>1 DEF InSingle, Occupies, Has, Flags
      <3> QED
        BY <1>2, <2>1, <3>2
    <2>2. CASE p \notin Calls'
      BY <1>2, <1>6, <2>2 DEF Step
    <2> QED
      BY <2>1, <2>2
  <1>9. /\ Cardinality(A) \in Nat /\ Cardinality(B) \in Nat
        /\ Cardinality(B) + N(p \in A) = Cardinality(A) + N(p \in B)
    BY <1>3, <1>5, OneOff
  <1> QED
    BY <1>1, <1>5, <1>7, <1>8, <1>9 DEF N

\* The lock is taken, released or left alone.
LEMMA LockStep ==
    ASSUME StackType, StackStep, FramesOK, LockOK, NEW p, NEW f, NEW g, Step(p, f, g),
           OthersCtx(p), si_count \in Nat,
           \/ (InSingle(g)' <=> InSingle(f)) /\ UNCHANGED siVars
           \/ /\ ~InSingle(f) /\ InSingle(g)' /\ si_thread \in {p[1], NULL} /\ p[1] # NULL
              /\ si_thread' = p[1] /\ si_count' = si_count + 1
           \/ /\ InSingle(f) /\ ~InSingle(g)'
              /\ si_thread' = (IF si_count = 1 THEN NULL ELSE si_thread)
              /\ si_count' = si_count - 1
    PROVE  LockOK' /\ si_count' \in Nat
  <1>1. PICK a, b : a = Cardinality(Singles) /\ b = Cardinality(Singles')
    OBVIOUS
  <1>2. /\ a \in Nat /\ b \in Nat /\ b + N(InSingle(f)) = a + N(InSingle(g)')
        /\ \A q : q # p => (q \in Singles' <=> q \in Singles)
        /\ p \in Singles <=> InSingle(f)
        /\ p \in Singles' <=> InSingle(g)'
    BY <1>1, SinglesStep
  <1>3. /\ si_count = a /\ \A q \in Singles : q[1] = si_thread
        /\ si_count = 0 <=> si_thread = NULL
    BY <1>1 DEF LockOK
  <1>4. a = 0 => Singles = {}
    <2>1. IsFiniteSet(Singles)
      <3>1. Singles \subseteq Calls
        BY DEF Singles
      <3> QED
        BY <3>1, FS_Subset, CallsFacts
    <2> QED
      BY <1>1, <2>1, FS_EmptySet
  <1>5. CASE (InSingle(g)' <=> InSingle(f)) /\ UNCHANGED siVars
    <2>1. b = a
      BY <1>2, <1>5 DEF N
    <2>2. \A q \in Singles' : q \in Singles
      BY <1>2, <1>5
    <2> QED
      BY <1>1, <1>3, <1>5, <2>1, <2>2 DEF LockOK, siVars
  <1>6. CASE /\ ~InSingle(f) /\ InSingle(g)' /\ si_thread \in {p[1], NULL} /\ p[1] # NULL
             /\ si_thread' = p[1] /\ si_count' = si_count + 1
    <2>1. b = a + 1
      BY <1>2, <1>6 DEF N
    <2>2. ASSUME NEW q \in Singles' PROVE q[1] = p[1]
      <3>1. CASE q = p
        BY <3>1
      <3>2. CASE q # p
        <4>1. q \in Singles
          BY <1>2, <3>2
        <4>2. si_thread # NULL
          BY <1>2, <1>3, <1>4, <4>1
        <4> QED
          BY <1>3, <1>6, <4>1, <4>2
      <3> QED
        BY <3>1, <3>2
    <2> QED
      BY <1>1, <1>2, <1>3, <1>6, <2>1, <2>2 DEF LockOK
  <1>7. CASE /\ InSingle(f) /\ ~InSingle(g)'
             /\ si_thread' = (IF si_count = 1 THEN NULL ELSE si_thread)
             /\ si_count' = si_count - 1
    <2>1. a = b + 1
      BY <1>2, <1>7 DEF N
    <2>2. b = 0 => Singles' = {}
      <3>1. Singles' \subseteq Calls'
        BY DEF Singles
      <3>2. IsFiniteSet(Singles')
        BY <3>1, FS_Subset, CallsFactsNext
      <3> QED
        BY <1>1, <3>2, FS_EmptySet
    <2>3. ASSUME NEW q \in Singles' PROVE q[1] = si_thread'
      <3>1. q # p
        BY <1>2, <1>7
      <3>2. q \in Singles
        BY <1>2, <3>1
      <3>3. si_count # 1
        BY <1>2, <1>3, <2>1, <2>2
      <3> QED
        BY <1>3, <1>7, <3>2, <3>3
    <2>4. si_count' = b
      BY <1>2, <1>3, <1>7, <2>1
    <2>5. si_count' = 0 <=> si_thread' = NULL
      BY <1>2, <1>3, <1>7, <2>1
    <2> QED
      BY <1>1, <1>2, <2>3, <2>4, <2>5 DEF LockOK
  <1> QED
    BY <1>5, <1>6, <1>7

LEMMA WaitsStep ==
    ASSUME WaitsOK, NEW t \in Threads, \A u \in Threads \ {t} : stack'[u] = stack[u],
           \A cv \in CondVars, u \in Threads : Contains(waitq'[cv], u) =>
              \/ u # t /\ Contains(waitq[cv], u)
              \/ /\ u = t /\ stack'[t] # <<>>
                 /\ cv[1] = "busy" => /\ Head(stack'[t]).pc = "enter"
                                      /\ Head(stack'[t]).ctx = cv[2]
    PROVE  WaitsOK'
  <1>1. ASSUME NEW u \in Threads, NEW cv \in CondVars, Contains(waitq'[cv], u)
        PROVE  /\ stack'[u] # <<>>
               /\ cv[1] = "busy" => Head(stack'[u]).pc = "enter" /\ Head(stack'[u]).ctx = cv[2]
    <2>1. CASE u # t /\ Contains(waitq[cv], u)
      BY <2>1 DEF WaitsOK, WaitsFor, Top
    <2> QED
      BY <1>1, <2>1
  <1>2. CondVars' = CondVars
    BY DEF CondVars
  <1> QED
    BY <1>1, <1>2 DEF WaitsOK, WaitsFor, Top

\* A session that stays
Unready(f, k) == f.key = k /\ f.pc \in {"lookup", "initfail"}
SessionOK(k) ==
    sess[k] # NULL =>
        /\ Contains(open_sessions[k[1]], k[2])
        /\ sess[k].ctx = NULL => \E p \in Calls : Unready(Call(p), k)
LEMMA SessionStep ==
    ASSUME NEW p, NEW f, NEW g, Step(p, f, g), SessionsOK, NEW k \in Keys,
           sess'[k] # NULL =>
              /\ Contains(open_sessions'[k[1]], k[2])
              /\ sess'[k].ctx = NULL =>
                    \/ Unready(g, k) /\ p \in Calls'
                    \/ sess[k] # NULL /\ sess[k].ctx = NULL /\ ~Unready(f, k)
    PROVE  SessionOK(k)'
  <1>1. ASSUME sess'[k] # NULL, sess'[k].ctx = NULL
        PROVE  \E q \in Calls' : Unready(Call(q)', k)
    <2>1. CASE Unready(g, k) /\ p \in Calls'
      BY <2>1 DEF Step
    <2>2. CASE sess[k] # NULL /\ sess[k].ctx = NULL /\ ~Unready(f, k)
      <3>1. PICK q \in Calls : Unready(Call(q), k)
        BY <2>2 DEF SessionsOK, Unready
      <3>2. q # p
        BY <2>2, <3>1 DEF Step
      <3> QED
        BY <3>1, <3>2 DEF Step
    <2> QED
      BY <1>1, <2>1, <2>2
  <1> QED
    BY <1>1 DEF SessionOK, Unready

LEMMA SessionsFromAll ==
    (\A k \in Keys : SessionOK(k)') => SessionsOK'
  BY DEF SessionOK, SessionsOK, Unready

-----------------------------------------------------------------------------
(* What follows from the invariant *)

LEMMA TypeFacts ==
    ASSUME CoreType
    PROVE  /\ StackType /\ SetupOK(setup)
           /\ \A c \in Ctxs : ctx[c] # NULL => ctx[c] \in CtxType /\ ctx[c].uuid \in Uuids
           /\ \A k \in Keys : sess[k] # NULL => sess[k] \in SessType
           /\ NULL \notin Ctxs /\ NULL \notin Threads
           /\ \A u \in Uuids : "CC" \in Flags[u] => "PTA" \in Flags[u]
           /\ \A u \in Uuids : "PTA" \in Flags[u] => {"SI", "MS", "KA"} \subseteq Flags[u]
  <1>1. SetupOK(setup)
    BY TaManagerAssumption DEF CoreType
  <1>2. /\ \A u \in Uuids : "CC" \in Flags[u] => "PTA" \in Flags[u]
        /\ \A u \in Uuids : "PTA" \in Flags[u] => {"SI", "MS", "KA"} \subseteq Flags[u]
    BY <1>1 DEF SetupOK, Uuids, Flags
  <1> QED
    BY <1>1, <1>2, TaManagerAssumption DEF CoreType, StackType

\* A call with what it has
LEMMA CallFacts ==
    ASSUME CoreType, FramesOK, NEW q \in Calls, NEW h, h = Call(q)
    PROVE  /\ h \in FrameType /\ FormOK(h) /\ q[1] \in Threads
           /\ Refers(h) => /\ h.key \in Keys /\ sess[h.key] # NULL
                           /\ sess[h.key] \in SessType
                           /\ h.ctx # NULL => sess[h.key].ctx = h.ctx
                           /\ h.op = "open" => ~sess[h.key].given
                           /\ Owns(h) => sess[h.key].lock = q[1]
                           /\ h.pc \in {"lookup", "initfail"} => sess[h.key].ctx = NULL
           /\ h.ctx # NULL => /\ h.ctx \in Ctxs /\ ctx[h.ctx] # NULL
                              /\ ctx[h.ctx] \in CtxType /\ ctx[h.ctx].uuid \in Uuids
                              /\ CtxFor(h, ctx[h.ctx])
  <1>1. h \in FrameType /\ q[1] \in Threads
    BY TypeFacts, CallsFacts
  <1>2. FormOK(h) /\ SessFor(q[1], h, sess[h.key]) /\ (h.ctx # NULL => CtxFor(h, ctx[h.ctx]))
    BY DEF FramesOK, FrameOK
  <1>3. h.key \in Keys /\ h.ctx \in Ctxs \cup {NULL}
    BY <1>1 DEF FrameType
  <1> QED
    BY <1>1, <1>2, <1>3, TypeFacts DEF SessFor, CtxFor

\* An opener is the only one to have its session; others refer to it only when
\* they name it early, and have not got further.
LEMMA OpenersRefer ==
    ASSUME NEW h, FormOK(h), h.op = "open"
    PROVE  Refers(h) /\ Owns(h)
  BY DEF FormOK, Refers, Owns

LEMMA OpenerIsAlone ==
    ASSUME FramesOK, NEW p \in Calls, Call(p).op = "open", NEW q \in Calls, q # p,
           Refers(Call(q)), Call(q).key = Call(p).key
    PROVE  /\ Early /\ ~Owns(Call(q)) /\ Call(q).op # "open" /\ Call(q).ctx = NULL
           /\ Call(q).op = "cancel" \/ Call(q).pc = "locking"
  <1>1. PICK f, h : f = Call(p) /\ h = Call(q)
    OBVIOUS
  <1>2. FormOK(f) /\ FormOK(h) /\ Apart(f, h)
    BY <1>1 DEF FramesOK, FrameOK
  <1>3. Refers(f) /\ Owns(f)
    BY <1>1, <1>2, OpenersRefer
  <1>4. Early /\ ~Owns(h)
    BY <1>1, <1>2, <1>3 DEF Apart
  <1>5. h.op = "cancel" \/ h.pc = "locking"
    BY <1>1, <1>4 DEF Owns
  <1>6. h.op # "open" /\ h.ctx = NULL
    BY <1>2, <1>5 DEF FormOK
  <1> QED
    BY <1>1, <1>4, <1>5, <1>6

LEMMA ReferersFacts ==
    ASSUME CoreType, CountsOK, NEW k \in Keys
    PROVE  /\ IsFiniteSet(Referers(k)) /\ CountOf(sess[k]) = Cardinality(Referers(k))
           /\ CountOf(sess[k]) \in Nat
           /\ \A q \in Referers(k) : sess[k] # NULL /\ sess[k].ref \in Nat /\ sess[k].ref > 0
           /\ CountOf(sess[k]) = 1 => \A q, r \in Referers(k) : q = r
  <1>1. Referers(k) \subseteq Calls
    BY DEF Referers
  <1>2. IsFiniteSet(Referers(k))
    BY <1>1, FS_Subset, CallsFacts, TypeFacts
  <1>3. CountOf(sess[k]) = Cardinality(Referers(k))
    BY DEF CountsOK
  <1>4. CountOf(sess[k]) \in Nat
    BY <1>2, <1>3, FS_CardinalityType
  <1>5. ASSUME NEW q \in Referers(k)
        PROVE  sess[k] # NULL /\ sess[k].ref \in Nat /\ sess[k].ref > 0
    <2>1. CountOf(sess[k]) > 0
      BY <1>2, <1>3, SomeIsCounted
    <2> QED
      BY <1>4, <2>1 DEF CountOf
  <1>6. CountOf(sess[k]) = 1 => \A q, r \in Referers(k) : q = r
    BY <1>2, <1>3, OneIsAlone
  <1> QED
    BY <1>2, <1>3, <1>4, <1>5, <1>6

\* A context has as many references as sessions and calls that close one.
LEMMA UsersFacts ==
    ASSUME CoreType, CountsOK, NEW c \in Ctxs
    PROVE  /\ IsFiniteSet(SessionsOf(c)) /\ IsFiniteSet(Closers(c))
           /\ CountOf(ctx[c]) \in Nat
           /\ SessionsOf(c) # {} => CountOf(ctx[c]) > 0
           /\ Closers(c) # {} => CountOf(ctx[c]) > 0
           /\ CountOf(ctx[c]) = 1 =>
                 /\ SessionsOf(c) # {} => Closers(c) = {}
                 /\ \A k, j \in SessionsOf(c) : k = j
                 /\ \A q, r \in Closers(c) : q = r
  <1>1. SessionsOf(c) \subseteq Keys /\ Closers(c) \subseteq Calls
    BY DEF SessionsOf, Closers
  <1>2. IsFiniteSet(SessionsOf(c)) /\ IsFiniteSet(Closers(c))
    BY <1>1, FS_Subset, KeysFinite, CallsFacts, TypeFacts
  <1>3. PICK m, n : m = Cardinality(SessionsOf(c)) /\ n = Cardinality(Closers(c))
    OBVIOUS
  <1>4. m \in Nat /\ n \in Nat
    BY <1>2, <1>3, FS_CardinalityType
  <1>5. CountOf(ctx[c]) = m + n
    BY <1>3 DEF CountsOK
  <1>6. (m = 0 <=> SessionsOf(c) = {}) /\ (n = 0 <=> Closers(c) = {})
    BY <1>2, <1>3, FS_EmptySet
  <1>7. m = 1 => \A k, j \in SessionsOf(c) : k = j
    BY <1>2, <1>3, OneIsAlone
  <1>8. n = 1 => \A q, r \in Closers(c) : q = r
    BY <1>2, <1>3, OneIsAlone
  <1>9. m + n \in Nat /\ (m # 0 \/ n # 0 => m + n > 0)
    BY <1>4
  <1>10. m + n = 1 => /\ m # 0 => n = 0
                      /\ m = 0 \/ m = 1
                      /\ n = 0 \/ n = 1
    BY <1>4
  <1> QED
    BY <1>2, <1>5, <1>6, <1>7, <1>8, <1>9, <1>10

\* A context in use has a reference.
LEMMA InUseCounts ==
    ASSUME CoreType, FramesOK, CountsOK, NEW q \in Calls, Call(q).ctx # NULL,
           Call(q).pc # "destroy"
    PROVE  LET c == Call(q).ctx
           IN  /\ ctx[c] # NULL /\ ctx[c].ref \in Nat /\ ctx[c].ref > 0
               /\ Refers(Call(q)) => Call(q).key \in SessionsOf(c)
               /\ ~Refers(Call(q)) => q \in Closers(c)
  <1>1. PICK h : h = Call(q)
    OBVIOUS
  <1>2. PICK c : c = h.ctx
    OBVIOUS
  <1>3. c \in Ctxs /\ ctx[c] # NULL
    BY <1>1, <1>2, CallFacts
  <1>4. Refers(h) => h.key \in SessionsOf(c)
    BY <1>1, <1>2, CallFacts DEF SessionsOf
  <1>5. ~Refers(h) => q \in Closers(c)
    BY <1>1, <1>2 DEF Closers, Closing
  <1>6. CountOf(ctx[c]) \in Nat /\ CountOf(ctx[c]) > 0
    BY <1>3, <1>4, <1>5, UsersFacts
  <1>7. ctx[c].ref \in Nat /\ ctx[c].ref > 0
    BY <1>3, <1>6 DEF CountOf
  <1> QED
    BY <1>1, <1>2, <1>3, <1>4, <1>5, <1>7

\* Nobody uses a context that is being freed, but the call that frees it.
LEMMA DestroyerIsAlone ==
    ASSUME CoreType, FramesOK, CountsOK, NEW p \in Calls, Call(p).pc = "destroy",
           NEW q \in Calls, q # p
    PROVE  Call(q).ctx # Call(p).ctx
  <1>1. PICK f, h : f = Call(p) /\ h = Call(q)
    OBVIOUS
  <1>2. f.ctx # NULL /\ ctx[f.ctx].ref = 0
    <2>1. FormOK(f)
      BY <1>1, CallFacts
    <2>2. f.ctx # NULL
      BY <1>1, <2>1 DEF FormOK
    <2>3. CtxFor(f, ctx[f.ctx])
      BY <1>1, <2>2, CallFacts
    <2> QED
      BY <1>1, <2>2, <2>3 DEF CtxFor
  <1>3. ASSUME h.ctx = f.ctx PROVE FALSE
    <2>1. CASE h.pc = "destroy"
      <3>1. Apart(f, h)
        BY <1>1 DEF FramesOK
      <3> QED
        BY <1>1, <1>3, <2>1, <3>1 DEF Apart
    <2>2. CASE h.pc # "destroy"
      BY <1>1, <1>2, <1>3, <2>2, InUseCounts
    <2> QED
      BY <2>1, <2>2
  <1> QED
    BY <1>1, <1>3

\* Nobody uses a context that is being loaded, but the call that loads it.
LEMMA LoaderIsAlone ==
    ASSUME CoreType, FramesOK, CountsOK, NEW p \in Calls, Call(p).pc = "load",
           NEW q \in Calls, q # p
    PROVE  Call(q).ctx # Call(p).ctx
  <1>1. PICK f, h : f = Call(p) /\ h = Call(q)
    OBVIOUS
  <1>2. f.ctx # NULL /\ f.op = "open" /\ FormOK(f)
    <2>1. FormOK(f)
      BY <1>1, CallFacts
    <2> QED
      BY <1>1, <2>1 DEF FormOK
  <1>3. f.ctx \in Ctxs /\ ctx[f.ctx] # NULL /\ ctx[f.ctx].ref = 1 /\ Refers(f)
    BY <1>1, <1>2, CallFacts, OpenersRefer DEF CtxFor
  <1>4. CountOf(ctx[f.ctx]) = 1
    BY <1>3 DEF CountOf
  <1>5. f.key \in SessionsOf(f.ctx)
    BY <1>1, <1>2, <1>3, InUseCounts
  <1>6. ASSUME h.ctx = f.ctx PROVE FALSE
    <2>1. CASE h.pc = "destroy"
      BY <1>1, <1>6, <2>1, DestroyerIsAlone
    <2>2. CASE h.pc # "destroy" /\ Refers(h)
      <3>1. h.key \in SessionsOf(f.ctx)
        BY <1>1, <1>2, <1>6, <2>2, InUseCounts
      <3>2. h.key = f.key
        BY <1>3, <1>4, <1>5, <3>1, UsersFacts
      <3> QED
        BY <1>1, <1>2, <1>6, <2>2, <3>2, OpenerIsAlone
    <2>3. CASE h.pc # "destroy" /\ ~Refers(h)
      <3>1. q \in Closers(f.ctx)
        BY <1>1, <1>2, <1>6, <2>3, InUseCounts
      <3> QED
        BY <1>3, <1>4, <1>5, <3>1, UsersFacts
    <2> QED
      BY <2>1, <2>2, <2>3
  <1> QED
    BY <1>1, <1>6

\* While a thread releases what the TA of context c has, no other call is made
\* on behalf of that TA.
LEMMA ReleaserIsAlone ==
    ASSUME CoreType, FramesOK, CountsOK, NEW p \in Calls, Call(p).pc \in {"release", "destroy"},
           \A q \in Calls : Below(q) # p, NEW r \in Calls
    PROVE  Call(r).key[1] # Call(p).ctx
  <1>1. PICK f, h, b : f = Call(p) /\ h = Call(r) /\ b = Below(r)
    OBVIOUS
  <1>2. FormOK(f) /\ f.ctx # NULL /\ f.ctx \in Ctxs /\ ctx[f.ctx].uuid \in Uuids
    <2>1. FormOK(f)
      BY <1>1, CallFacts
    <2>2. f.ctx # NULL
      BY <1>1, <2>1 DEF FormOK
    <2> QED
      BY <1>1, <2>1, <2>2, CallFacts
  <1>3. CASE r[2] = 1
    <2>1. h.key[1] = NW
      BY <1>1, <1>3 DEF FramesOK, BelowOK
    <2> QED
      BY <1>1, <1>2, <2>1, TaManagerAssumption
  <1>4. CASE r[2] # 1
    <2>1. PICK i : i = Call(b)
      OBVIOUS
    <2>2. /\ b \in Calls /\ InCall(i) /\ i.ctx # NULL /\ h.key[1] = i.ctx
          /\ i.pc # "destroy" => ~Has(i.ctx, "PTA")
      BY <1>1, <1>4, <2>1, BelowFacts, TypeFacts
    <2>3. b # p
      BY <1>1
    <2>4. ASSUME i.ctx = f.ctx PROVE FALSE
      <3>1. f.pc # "destroy"
        BY <1>1, <2>1, <2>2, <2>3, <2>4, DestroyerIsAlone
      <3>2. i.pc # "destroy"
        BY <1>1, <2>1, <2>2, <2>3, <2>4, DestroyerIsAlone
      <3>3. f.busy /\ i.busy
        <4>1. FormOK(i)
          BY <2>1, <2>2, CallFacts
        <4> QED
          BY <1>1, <1>2, <2>2, <3>1, <3>2, <4>1 DEF FormOK, InCall
      <3>4. ~Has(f.ctx, "CC")
        BY <1>2, <2>2, <2>4, <3>2, TypeFacts DEF Has
      <3>5. Apart(i, f)
        BY <1>1, <2>1, <2>2, <2>3 DEF FramesOK
      <3> QED
        BY <2>4, <3>3, <3>4, <3>5 DEF Apart, Occupies
    <2> QED
      BY <1>1, <2>2, <2>4
  <1> QED
    BY <1>3, <1>4

-----------------------------------------------------------------------------
(* Steps of a call that goes on in the same context *)

SessSame(s, r) ==
    /\ r = NULL <=> s = NULL
    /\ s # NULL => r.ctx = s.ctx /\ r.ref = s.ref /\ r.given = s.given /\ r.lock = s.lock

\* Who waits afterwards: others who did before, and t where its call is.
WaitsKept(t) ==
    /\ waitq' \in [CondVars -> Seq(Threads)]
    /\ \A cv \in CondVars, u \in Threads : Contains(waitq'[cv], u) =>
          \/ u # t /\ Contains(waitq[cv], u)
          \/ /\ u = t /\ stack'[t] # <<>>
             /\ cv[1] = "busy" => /\ Head(stack'[t]).pc = "enter"
                                  /\ Head(stack'[t]).ctx = cv[2]

\* How the single-instance lock changes with the call at p
LockKept(p, f, g) ==
    \/ (InSingle(g)' <=> InSingle(f)) /\ UNCHANGED siVars
    \/ /\ ~InSingle(f) /\ InSingle(g)' /\ si_thread \in {p[1], NULL} /\ p[1] # NULL
       /\ si_thread' = p[1] /\ si_count' = si_count + 1
    \/ /\ InSingle(f) /\ ~InSingle(g)'
       /\ si_thread' = (IF si_count = 1 THEN NULL ELSE si_thread)
       /\ si_count' = si_count - 1

LEMMA SameCountsStep ==
    ASSUME TaInv, UNCHANGED <<setup, open_sessions>>, NEW t \in Threads, stack[t] # <<>>,
           NEW p, p = <<t, Len(stack[t])>>, NEW f, f = Top(t), NEW g \in FrameType,
           stack' = [stack EXCEPT ![t][1] = g],
           g.key = f.key, g.ctx = f.ctx, f.ctx # NULL, Refers(g) <=> Refers(f),
           Owns(g) => Owns(f), g.op = "open" => f.op = "open",
           f.pc # "destroy", g.pc # "destroy", FormOK(g),
           NEW c, c = f.ctx, NEW e \in CtxType, ctx' = [ctx EXCEPT ![c] = e],
           e.uuid = ctx[c].uuid, e.ref = ctx[c].ref, CtxFor(g, e),
           sess' \in [Keys -> SessType \cup {NULL}], \A j \in Keys : SessSame(sess[j], sess'[j]),
           OthersCtx(p), \A q \in Calls : q # p => Apart(g, Call(q))',
           tee_ctxes' \in Seq(Ctxs),
           \A d \in Ctxs : d # c => (Contains(tee_ctxes', d) <=> Contains(tee_ctxes, d)),
           ContextOK(c)', ListsOK', LockKept(p, f, g), WaitsKept(t),
           halted' \in BOOLEAN, PanicOnlyOnReentry'
    PROVE  TaInv'
  <1>1. CoreType /\ FramesOK /\ CountsOK /\ SessionsOK /\ ContextsOK /\ LockOK /\ WaitsOK
    BY DEF TaInv
  <1>2. StackType
    BY <1>1, TypeFacts
  <1>3. p \in Calls /\ p[1] = t /\ Call(p) = f /\ f \in FrameType
    BY <1>2, TopFacts
  <1>4. /\ StackStep /\ p \in Calls' /\ Step(p, f, g)
        /\ \A u \in Threads \ {t} : stack'[u] = stack[u]
    BY <1>2, SetStep
  <1>5. /\ FormOK(f) /\ c \in Ctxs /\ ctx[c] # NULL /\ ctx[c] \in CtxType /\ ctx[c].uuid \in Uuids
        /\ f.key \in Keys
    BY <1>1, <1>3, CallFacts DEF FrameType
  <1>6. /\ NULL \notin CtxType /\ e # NULL /\ ctx'[c] = e
        /\ \A d \in Ctxs : d # c => ctx'[d] = ctx[d]
    BY <1>1, <1>5, TaManagerAssumption DEF CoreType
  <1>7. OthersSess(p)
    <2>1. ASSUME NEW q \in Calls, q # p, Refers(Call(q))
          PROVE  SessLike(sess[Call(q).key], sess'[Call(q).key])
      <3>1. Call(q).key \in Keys /\ sess[Call(q).key] # NULL
        BY <1>1, <2>1, CallFacts
      <3> QED
        BY <3>1 DEF SessSame, SessLike
    <2> QED
      BY <1>1, <2>1, OthersSessStay
  <1>8. FramesOK'
    <2>1. SessFor(p[1], g, sess'[g.key])
      <3>1. SessFor(p[1], f, sess[f.key])
        BY <1>1, <1>3 DEF FramesOK, FrameOK
      <3>2. SessSame(sess[f.key], sess'[f.key])
        BY <1>5
      <3>3. g.pc \notin {"lookup", "initfail"}
        BY DEF FormOK
      <3> QED
        BY <3>1, <3>2, <3>3 DEF SessFor, SessSame
    <2>2. BelowOK(p)'
      BY <1>1, <1>2, <1>3, <1>4, SetBelow
    <2>3. g.ctx # NULL => CtxFor(g, ctx'[g.ctx])
      BY <1>6
    <2> QED
      BY <1>1, <1>2, <1>4, <1>7, <2>1, <2>2, <2>3, FramesStep
  <1>9. CountsOK'
    <2>1. ASSUME NEW j \in Keys PROVE CountOf(sess'[j]) = CountOf(sess[j])
      BY DEF SessSame, CountOf
    <2>2. ASSUME NEW d \in Ctxs PROVE CountOf(ctx'[d]) = CountOf(ctx[d])
      BY <1>5, <1>6 DEF CountOf
    <2>3. ASSUME NEW j \in Keys PROVE Cardinality(Referers(j)') = Cardinality(Referers(j))
      <3>1. RefersTo(g, j) <=> RefersTo(f, j)
        BY DEF RefersTo
      <3>2. PICK m, n : m = Cardinality(Referers(j)) /\ n = Cardinality(Referers(j)')
        OBVIOUS
      <3>3. m \in Nat /\ n \in Nat /\ n + N(RefersTo(f, j)) = m + N(RefersTo(g, j))
        BY <1>2, <1>4, <3>2, ReferersStep
      <3>4. n = m
        BY <3>1, <3>3 DEF N
      <3> QED
        BY <3>2, <3>4
    <2>4. ASSUME NEW d \in Ctxs PROVE Cardinality(Closers(d)') = Cardinality(Closers(d))
      <3>1. Closing(g, d) <=> Closing(f, d)
        BY DEF Closing
      <3>2. PICK m, n : m = Cardinality(Closers(d)) /\ n = Cardinality(Closers(d)')
        OBVIOUS
      <3>3. m \in Nat /\ n \in Nat /\ n + N(Closing(f, d)) = m + N(Closing(g, d))
        BY <1>2, <1>4, <3>2, ClosersStep
      <3>4. n = m
        BY <3>1, <3>3 DEF N
      <3> QED
        BY <3>2, <3>4
    <2>5. ASSUME NEW d \in Ctxs PROVE SessionsOf(d)' = SessionsOf(d)
      BY DEF SessionsOf, SessSame
    <2>6. /\ \A j \in Keys : CountOf(sess'[j]) = Cardinality(Referers(j)')
          /\ \A d \in Ctxs : CountOf(ctx'[d]) = Cardinality(SessionsOf(d)') + Cardinality(Closers(d)')
      BY <1>1, <2>1, <2>2, <2>3, <2>4, <2>5 DEF CountsOK
    <2> QED
      BY <2>6 DEF CountsOK, CountOf
  <1>10. SessionsOK'
    <2>1. ASSUME NEW j \in Keys PROVE SessionOK(j)'
      <3>1. ~Unready(f, j)
        BY <1>5 DEF Unready, FormOK
      <3>2. sess'[j] # NULL => sess[j] # NULL /\ sess'[j].ctx = sess[j].ctx
        BY DEF SessSame
      <3>3. sess'[j] # NULL => Contains(open_sessions'[j[1]], j[2])
        BY <1>1, <3>2 DEF SessionsOK
      <3> QED
        BY <1>1, <1>4, <3>1, <3>2, <3>3, SessionStep
    <2> QED
      BY <2>1, SessionsFromAll
  <1>11. ContextsOK'
    <2>1. ASSUME NEW d \in Ctxs, d # c, ctx'[d] # NULL PROVE ContextOK(d)'
      <3>1. ctx'[d] = ctx[d] /\ ContextOK(d)
        BY <1>1, <1>6, <2>1 DEF ContextsOK
      <3>2. ~OccAt(g, d) /\ ~OccAt(f, d) /\ ~Frees(f, d)
        BY <2>1 DEF OccAt, Frees
      <3> QED
        BY <1>1, <1>2, <1>4, <2>1, <3>1, <3>2, ContextStays
    <2>2. ASSUME NEW d \in Ctxs, ctx'[d] = NULL PROVE ~Contains(tee_ctxes', d)
      BY <1>1, <1>6, <2>2 DEF ContextsOK
    <2> QED
      BY <2>1, <2>2 DEF ContextsOK
  <1>12. LockOK' /\ si_count' \in Nat
    <2>1. si_count \in Nat
      BY <1>1 DEF CoreType
    <2>2. \/ (InSingle(g)' <=> InSingle(f)) /\ UNCHANGED siVars
          \/ /\ ~InSingle(f) /\ InSingle(g)' /\ si_thread \in {p[1], NULL} /\ p[1] # NULL
             /\ si_thread' = p[1] /\ si_count' = si_count + 1
          \/ /\ InSingle(f) /\ ~InSingle(g)'
             /\ si_thread' = (IF si_count = 1 THEN NULL ELSE si_thread)
             /\ si_count' = si_count - 1
      BY DEF LockKept
    <2> QED
      BY <1>1, <1>2, <1>4, <2>1, <2>2, LockStep
  <1>13. WaitsOK'
    BY <1>1, <1>4, WaitsStep DEF WaitsKept
  <1>14. CoreType'
    <2>1. ctx' \in [Ctxs -> CtxType \cup {NULL}]
      BY <1>1 DEF CoreType
    <2>2. \A d \in Ctxs : ctx'[d] # NULL => ctx'[d].uuid \in Uuids
      BY <1>1, <1>5, <1>6 DEF CoreType
    <2>3. si_thread' \in Threads \cup {NULL}
      BY <1>1, <1>3 DEF CoreType, LockKept, siVars
    <2>4. Uuids' = Uuids /\ FrameType' = FrameType /\ CondVars' = CondVars
      BY DEF Uuids, Flags, FrameType, CondVars
    <2>5. setup' \in Setups /\ open_sessions' \in [Lists -> Seq(Ids)]
      BY <1>1 DEF CoreType
    <2> QED
      BY <1>4, <1>12, <2>1, <2>2, <2>3, <2>4, <2>5 DEF CoreType, StackStep, WaitsKept
  <1> QED
    BY <1>8, <1>9, <1>10, <1>11, <1>12, <1>13, <1>14 DEF TaInv

LEMMA ListsStep ==
    ASSUME ListsOK, Distinct(tee_ctxes'), \A l \in Lists : Distinct(open_sessions'[l]),
           UNCHANGED setup,
           \A d \in Ctxs : Contains(tee_ctxes', d) =>
               Contains(tee_ctxes, d) /\ ctx'[d].uuid = ctx[d].uuid
    PROVE  ListsOK'
  BY DEF ListsOK, Distinct, Contains, Has, Flags

\* Condition variables: fewer threads wait in r than in q.
QueueType == [CondVars -> Seq(Threads)]
Fewer(q, r) ==
    /\ r \in QueueType
    /\ \A cv \in CondVars, u \in Threads : Contains(r[cv], u) => Contains(q[cv], u)
NotWaiting(t) == \A cv \in CondVars : ~Contains(waitq[cv], t)

LEMMA SignalFewer ==
    ASSUME NEW q \in QueueType, NEW cv \in CondVars
    PROVE  Fewer(q, Signal(q, cv))
  <1>1. CASE q[cv] = <<>>
    BY <1>1 DEF Signal, Fewer
  <1>2. CASE q[cv] # <<>>
    <2>1. Signal(q, cv) = [q EXCEPT ![cv] = Tail(q[cv])]
      BY <1>2 DEF Signal
    <2>2. q[cv] \in Seq(Threads)
      BY DEF QueueType
    <2>3. Tail(q[cv]) \in Seq(Threads) /\ \A x : Contains(Tail(q[cv]), x) => Contains(q[cv], x)
      BY <1>2, <2>2, TailFacts
    <2>4. Signal(q, cv) \in QueueType
      BY <2>1, <2>3 DEF QueueType
    <2>5. /\ Signal(q, cv)[cv] = Tail(q[cv])
          /\ \A x \in CondVars : x # cv => Signal(q, cv)[x] = q[x]
      BY <2>1 DEF QueueType
    <2> QED
      BY <2>3, <2>4, <2>5 DEF Fewer
  <1> QED
    BY <1>1, <1>2

LEMMA BroadcastFewer ==
    ASSUME NEW q \in QueueType, NEW cv \in CondVars
    PROVE  Fewer(q, Broadcast(q, cv))
  <1>1. <<>> \in Seq(Threads) /\ \A x : ~Contains(<<>>, x)
    BY DEF Contains
  <1>2. Broadcast(q, cv) = [q EXCEPT ![cv] = <<>>]
    BY DEF Broadcast
  <1>3. Broadcast(q, cv) \in QueueType
    BY <1>1, <1>2 DEF QueueType
  <1>4. /\ Broadcast(q, cv)[cv] = <<>>
        /\ \A x \in CondVars : x # cv => Broadcast(q, cv)[x] = q[x]
    BY <1>2 DEF QueueType
  <1> QED
    BY <1>1, <1>3, <1>4 DEF Fewer

LEMMA FewerTwice ==
    ASSUME NEW q, NEW r, NEW s, Fewer(q, r), Fewer(r, s)
    PROVE  Fewer(q, s)
  BY DEF Fewer

LEMMA FewerSame ==
    ASSUME NEW q \in QueueType
    PROVE  Fewer(q, q)
  BY DEF Fewer

LEMMA WaitsFewer ==
    ASSUME NEW t \in Threads, NotWaiting(t), Fewer(waitq, waitq')
    PROVE  WaitsKept(t)
  BY DEF WaitsKept, NotWaiting, Fewer, QueueType

LEMMA WaitsAdd ==
    ASSUME NEW t \in Threads, NotWaiting(t), NEW q, Fewer(waitq, q), NEW cv \in CondVars,
           waitq' = [q EXCEPT ![cv] = Append(@, t)], stack'[t] # <<>>,
           cv[1] = "busy" => Head(stack'[t]).pc = "enter" /\ Head(stack'[t]).ctx = cv[2]
    PROVE  WaitsKept(t)
  <1>1. q \in QueueType /\ q[cv] \in Seq(Threads)
    BY DEF Fewer, QueueType
  <1>2. PICK s : s = Append(q[cv], t)
    OBVIOUS
  <1>3. s \in Seq(Threads) /\ \A x : Contains(s, x) <=> (Contains(q[cv], x) \/ x = t)
    BY <1>1, <1>2, AppendFacts
  <1>4. /\ waitq' \in QueueType /\ waitq'[cv] = s
        /\ \A x \in CondVars : x # cv => waitq'[x] = q[x]
    BY <1>1, <1>2, <1>3 DEF QueueType
  <1>5. ASSUME NEW x \in CondVars, NEW u \in Threads, Contains(waitq'[x], u)
        PROVE  \/ u # t /\ Contains(waitq[x], u)
               \/ u = t /\ x = cv
    BY <1>3, <1>4, <1>5 DEF Fewer, NotWaiting
  <1> QED
    BY <1>4, <1>5 DEF WaitsKept, QueueType

LEMMA CondVarsFacts ==
    /\ tee_ta_cv \in CondVars /\ tee_ta_init_cv \in CondVars
    /\ \A c \in Ctxs : busy_cv(c) \in CondVars /\ busy_cv(c)[1] = "busy" /\ busy_cv(c)[2] = c
    /\ \A k \in Keys : /\ lock_cv(k) \in CondVars /\ lock_cv(k)[1] # "busy"
                       /\ refc_cv(k) \in CondVars /\ refc_cv(k)[1] # "busy"
    /\ tee_ta_cv[1] # "busy" /\ tee_ta_init_cv[1] # "busy"
  BY DEF CondVars, tee_ta_cv, tee_ta_init_cv, busy_cv, lock_cv, refc_cv

\* The thread that acts
LEMMA AtFacts ==
    ASSUME TaInv, NEW t \in Threads, NEW l, At(t, l), NEW p, p = <<t, Len(stack[t])>>,
           NEW f, f = Top(t)
    PROVE  /\ stack[t] # <<>> /\ f.pc = l /\ NotWaiting(t) /\ waitq \in QueueType
           /\ p \in Calls /\ p[1] = t /\ Call(p) = f /\ f \in FrameType /\ f.key \in Keys
           /\ FormOK(f)
           /\ f.ctx # NULL => /\ f.ctx \in Ctxs /\ ctx[f.ctx] # NULL /\ ctx[f.ctx] \in CtxType
                              /\ ctx[f.ctx].uuid \in Uuids /\ CtxFor(f, ctx[f.ctx])
                              /\ ContextOK(f.ctx)
           /\ Refers(f) => sess[f.key] # NULL /\ sess[f.key] \in SessType
  <1>1. stack[t] # <<>> /\ f.pc = l /\ NotWaiting(t)
    BY DEF At, Waiting, WaitsFor, NotWaiting
  <1>2. CoreType /\ FramesOK /\ ContextsOK /\ waitq \in QueueType
    BY DEF TaInv, CoreType, QueueType
  <1>3. p \in Calls /\ p[1] = t /\ Call(p) = f /\ f \in FrameType
    BY <1>1, <1>2, TypeFacts, TopFacts
  <1>4. f.key \in Keys
    BY <1>3 DEF FrameType
  <1> QED
    BY <1>1, <1>2, <1>3, <1>4, CallFacts DEF ContextsOK

LEMMA GotoIs ==
    ASSUME StackType, NEW t \in Threads, stack[t] # <<>>, NEW l
    PROVE  [stack EXCEPT ![t][1].pc = l] = [stack EXCEPT ![t][1] = [Top(t) EXCEPT !.pc = l]]
  <1>1. stack[t] \in Seq(FrameType) /\ Len(stack[t]) \in Nat \ {0}
    BY DEF StackType
  <1>2. Top(t) = stack[t][1]
    BY <1>1 DEF Top
  <1> QED
    BY <1>1, <1>2

\* A step that changes nothing of sessions and contexts that matters here
LEMMA QuietStep ==
    ASSUME TaInv, UNCHANGED <<setup, ctx, listVars, siVars>>, NEW t \in Threads, stack[t] # <<>>,
           NEW p, p = <<t, Len(stack[t])>>, NEW f, f = Top(t), NEW g \in FrameType,
           stack' = [stack EXCEPT ![t][1] = g],
           Weaker(f, g), f.ctx # NULL, Refers(f) => Refers(g), g.busy <=> f.busy,
           f.pc # "destroy", g.pc # "destroy", FormOK(g), CtxFor(g, ctx[g.ctx]),
           sess' \in [Keys -> SessType \cup {NULL}], \A j \in Keys : SessSame(sess[j], sess'[j]),
           WaitsKept(t), halted' \in BOOLEAN, PanicOnlyOnReentry'
    PROVE  TaInv'
  <1>1. CoreType /\ FramesOK /\ ContextsOK /\ ListsOK /\ StackType
    BY TypeFacts DEF TaInv
  <1>2. p \in Calls /\ p[1] = t /\ Call(p) = f /\ f \in FrameType
    BY <1>1, TopFacts
  <1>3. PICK c, e : c = f.ctx /\ e = ctx[c]
    OBVIOUS
  <1>4. /\ c \in Ctxs /\ e # NULL /\ e \in CtxType
        /\ ctx' = [ctx EXCEPT ![c] = e]
    BY <1>1, <1>2, <1>3, CallFacts DEF CoreType
  <1>5. StackStep /\ p \in Calls' /\ Step(p, f, g)
    BY <1>1, SetStep
  <1>6. OthersCtx(p)
    <2>1. ASSUME NEW q \in Calls, Call(q).ctx # NULL
          PROVE  CtxLike(ctx[Call(q).ctx], ctx'[Call(q).ctx])
      BY <1>1, <2>1, CallFacts DEF CtxLike
    <2> QED
      BY <1>1, <2>1, OthersCtxStay
  <1>7. \A q \in Calls : q # p => Apart(g, Call(q))'
    BY <1>1, <1>2, <1>5, <1>6, WeakerApart
  <1>8. ListsOK'
    BY <1>1 DEF ListsOK, listVars, Distinct, Contains, Has, Flags
  <1>9. ContextOK(c)'
    <2>1. ContextOK(c) /\ ctx[c] # NULL /\ ctx'[c] = ctx[c]
      BY <1>1, <1>3, <1>4 DEF ContextsOK
    <2>2. (OccAt(g, c) <=> OccAt(f, c)) /\ ~Frees(f, c)
      BY DEF OccAt, Frees, Weaker
    <2>3. Contains(tee_ctxes', c) <=> Contains(tee_ctxes, c)
      BY DEF listVars
    <2> QED
      BY <1>1, <1>4, <1>5, <1>6, <2>1, <2>2, <2>3, ContextStays
  <1>10. LockKept(p, f, g)
    <2>1. InSingle(g)' <=> InSingle(f)
      BY DEF InSingle, Occupies, Has, Flags, Weaker
    <2> QED
      BY <2>1 DEF LockKept
  <1>11. /\ tee_ctxes' \in Seq(Ctxs) /\ UNCHANGED open_sessions
         /\ \A d \in Ctxs : Contains(tee_ctxes', d) <=> Contains(tee_ctxes, d)
    BY <1>1 DEF CoreType, listVars
  <1>12. g.key = f.key /\ g.ctx = f.ctx /\ (Refers(g) <=> Refers(f)) /\ (Owns(g) => Owns(f))
         /\ (g.op = "open" => f.op = "open") /\ CtxFor(g, e)
    BY <1>3 DEF Weaker
  <1> QED
    BY <1>3, <1>4, <1>6, <1>7, <1>8, <1>9, <1>10, <1>11, <1>12, SameCountsStep

\* The flags of a context decide what KeepCrashed() says.
LEMMA NotKeptIs ==
    ASSUME NEW c
    PROVE  NotKept(Flags[ctx[c].uuid]) <=> ~KeepCrashed(c)
  BY DEF NotKept, KeepCrashed, Keep, Has

LEMMA NotHalted ==
    ASSUME CoreType, ~halted, UNCHANGED halted
    PROVE  halted' \in BOOLEAN /\ PanicOnlyOnReentry'
  <1>1. halted' = FALSE
    BY DEF CoreType
  <1> QED
    BY <1>1 DEF PanicOnlyOnReentry

LEMMA BadParametersKeeps ==
    ASSUME TaInv, ~halted, UNCHANGED setup, NEW t \in Threads, BadParameters(t)
    PROVE  TaInv'
  <1>1. PICK p, f : p = <<t, Len(stack[t])>> /\ f = Top(t)
    OBVIOUS
  <1>2. At(t, "enter")
    BY DEF BadParameters
  <1>3. /\ stack[t] # <<>> /\ f.pc = "enter" /\ NotWaiting(t) /\ waitq \in QueueType
        /\ f \in FrameType /\ FormOK(f)
        /\ f.ctx # NULL => CtxFor(f, ctx[f.ctx])
    BY <1>1, <1>2, AtFacts
  <1>4. CoreType /\ StackType /\ f.ctx # NULL
    BY <1>3, TypeFacts DEF TaInv, FormOK
  <1>5. UNCHANGED <<ctx, listVars, sess, siVars, waitq, halted>>
    BY DEF BadParameters
  <1>6. WaitsKept(t)
    BY <1>3, <1>5, FewerSame, WaitsFewer
  <1>7. halted' \in BOOLEAN /\ PanicOnlyOnReentry'
    BY <1>4, <1>5, NotHalted
  <1>8. sess' \in [Keys -> SessType \cup {NULL}] /\ \A j \in Keys : SessSame(sess[j], sess'[j])
    BY <1>4, <1>5 DEF CoreType, SessSame
  <1>9. CASE f.op = "open" /\ stack' = [stack EXCEPT ![t][1].op = "close"]
    <2>1. PICK g : g = [f EXCEPT !.op = "close"]
      OBVIOUS
    <2>2. stack' = [stack EXCEPT ![t][1] = g]
      <3>1. stack[t] \in Seq(FrameType) /\ Len(stack[t]) \in Nat \ {0}
        BY <1>3, <1>4 DEF StackType
      <3>2. f = stack[t][1]
        BY <1>1, <3>1 DEF Top
      <3> QED
        BY <1>9, <2>1, <3>1, <3>2
    <2>3. g \in FrameType
      BY <1>3, <2>1 DEF FrameType, Ops
    <2>4. /\ g.key = f.key /\ g.ctx = f.ctx /\ g.pc = "enter" /\ g.op = "close" /\ g.busy = f.busy
          /\ g.uuid = f.uuid
      BY <1>3, <2>1 DEF FrameType
    <2>5. Weaker(f, g) /\ Refers(g) /\ FormOK(g) /\ CtxFor(g, ctx[g.ctx])
      BY <1>3, <1>4, <1>9, <2>4 DEF Weaker, Refers, Owns, FormOK, CtxFor
    <2> QED
      BY <1>1, <1>3, <1>4, <1>5, <1>6, <1>7, <1>8, <2>2, <2>3, <2>4, <2>5, QuietStep
  <1>10. CASE f.op = "invoke" /\ Goto(t, "put")
    <2>1. PICK g : g = [f EXCEPT !.pc = "put"]
      OBVIOUS
    <2>2. stack' = [stack EXCEPT ![t][1] = g]
      BY <1>1, <1>3, <1>4, <1>10, <2>1, GotoIs DEF Goto
    <2>3. g \in FrameType
      BY <1>3, <2>1 DEF FrameType, PCs
    <2>4. /\ g.key = f.key /\ g.ctx = f.ctx /\ g.pc = "put" /\ g.op = "invoke" /\ g.busy = f.busy
          /\ g.uuid = f.uuid
      BY <1>3, <1>10, <2>1 DEF FrameType
    <2>5. Weaker(f, g) /\ Refers(g) /\ FormOK(g) /\ CtxFor(g, ctx[g.ctx])
      BY <1>3, <1>4, <1>10, <2>4 DEF Weaker, Refers, Owns, FormOK, CtxFor
    <2> QED
      BY <1>1, <1>3, <1>4, <1>5, <1>6, <1>7, <1>8, <2>2, <2>3, <2>4, <2>5, QuietStep
  <1> QED
    BY <1>1, <1>9, <1>10 DEF BadParameters

LEMMA ReleaseStateKeeps ==
    ASSUME TaInv, ~halted, UNCHANGED setup, NEW t \in Threads, release_utc_state(t)
    PROVE  TaInv'
  <1>1. PICK p, f : p = <<t, Len(stack[t])>> /\ f = Top(t)
    OBVIOUS
  <1>2. At(t, "release")
    BY DEF release_utc_state
  <1>3. /\ stack[t] # <<>> /\ f.pc = "release" /\ NotWaiting(t) /\ waitq \in QueueType
        /\ f \in FrameType /\ FormOK(f)
        /\ f.ctx # NULL => CtxFor(f, ctx[f.ctx])
    BY <1>1, <1>2, AtFacts
  <1>4. CoreType /\ StackType /\ f.ctx # NULL
    BY <1>3, TypeFacts DEF TaInv, FormOK
  <1>5. UNCHANGED <<ctx, listVars, sess, siVars, waitq, halted>> /\ Goto(t, "clear")
    BY DEF release_utc_state
  <1>6. WaitsKept(t)
    BY <1>3, <1>5, FewerSame, WaitsFewer
  <1>7. halted' \in BOOLEAN /\ PanicOnlyOnReentry'
    BY <1>4, <1>5, NotHalted
  <1>8. sess' \in [Keys -> SessType \cup {NULL}] /\ \A j \in Keys : SessSame(sess[j], sess'[j])
    BY <1>4, <1>5 DEF CoreType, SessSame
  <1>9. PICK g : g = [f EXCEPT !.pc = "clear"]
    OBVIOUS
  <1>10. stack' = [stack EXCEPT ![t][1] = g]
    BY <1>1, <1>3, <1>4, <1>5, <1>9, GotoIs DEF Goto
  <1>11. g \in FrameType
    BY <1>3, <1>9 DEF FrameType, PCs
  <1>12. /\ g.key = f.key /\ g.ctx = f.ctx /\ g.pc = "clear" /\ g.op = f.op /\ g.busy = f.busy
         /\ g.uuid = f.uuid
    BY <1>3, <1>9 DEF FrameType
  <1>13. Weaker(f, g) /\ Refers(g) /\ FormOK(g) /\ CtxFor(g, ctx[g.ctx])
    BY <1>3, <1>4, <1>12 DEF Weaker, Refers, Owns, FormOK, CtxFor
  <1> QED
    BY <1>1, <1>3, <1>4, <1>5, <1>6, <1>7, <1>8, <1>10, <1>11, <1>12, <1>13, QuietStep

\* What is left of an invariant about others when a context changes
LEMMA CtxUpdate ==
    ASSUME CoreType, NEW c \in Ctxs, ctx[c] # NULL, NEW e \in CtxType, e.uuid = ctx[c].uuid,
           ctx' = [ctx EXCEPT ![c] = e]
    PROVE  /\ ctx' \in [Ctxs -> CtxType \cup {NULL}] /\ ctx'[c] = e /\ e # NULL
           /\ \A d \in Ctxs : d # c => ctx'[d] = ctx[d]
           /\ \A d \in Ctxs : ctx'[d] # NULL => ctx'[d].uuid \in Uuids
           /\ \A d \in Ctxs : ctx[d] # NULL => ctx'[d] # NULL /\ ctx'[d].uuid = ctx[d].uuid
  BY TaManagerAssumption DEF CoreType

LEMMA GotoSet ==
    ASSUME StackType, NEW t \in Threads, stack[t] # <<>>, NEW l \in PCs, Goto(t, l)
    PROVE  \E g \in FrameType :
               /\ stack' = [stack EXCEPT ![t][1] = g]
               /\ g.op = Top(t).op /\ g.key = Top(t).key /\ g.uuid = Top(t).uuid
               /\ g.ctx = Top(t).ctx /\ g.pc = l /\ g.busy = Top(t).busy /\ g.ok = Top(t).ok
  <1>1. PICK g : g = [Top(t) EXCEPT !.pc = l]
    OBVIOUS
  <1>2. Top(t) \in FrameType
    BY TopFacts
  <1>3. /\ g \in FrameType
        /\ g.op = Top(t).op /\ g.key = Top(t).key /\ g.uuid = Top(t).uuid
        /\ g.ctx = Top(t).ctx /\ g.pc = l /\ g.busy = Top(t).busy /\ g.ok = Top(t).ok
    BY <1>1, <1>2 DEF FrameType
  <1>4. stack' = [stack EXCEPT ![t][1] = g]
    BY <1>1, GotoIs DEF Goto
  <1> QED
    BY <1>3, <1>4

\* A step of a call that changes what its context c says of the TA
LEMMA TouchStep ==
    ASSUME TaInv, UNCHANGED <<setup, open_sessions, siVars>>, NEW t \in Threads, stack[t] # <<>>,
           NEW p, p = <<t, Len(stack[t])>>, NEW f, f = Top(t), NEW g \in FrameType,
           stack' = [stack EXCEPT ![t][1] = g],
           Weaker(f, g), f.ctx # NULL, Refers(f) => Refers(g), g.busy <=> f.busy,
           f.pc # "destroy", g.pc # "destroy", FormOK(g),
           NEW c, c = f.ctx, NEW e \in CtxType, ctx' = [ctx EXCEPT ![c] = e],
           e.uuid = ctx[c].uuid, e.ref = ctx[c].ref, e.busy = ctx[c].busy, CtxFor(g, e),
           OthersCtx(p), e.releasing => e.panicked /\ NotKept(Flags[e.uuid]),
           "PTA" \in Flags[e.uuid] => ~e.panicked,
           tee_ctxes' \in Seq(Ctxs), Distinct(tee_ctxes'),
           \A d \in Ctxs : d # c => (Contains(tee_ctxes', d) <=> Contains(tee_ctxes, d)),
           Contains(tee_ctxes', c) <=> ~e.releasing,
           Contains(tee_ctxes', c) => Contains(tee_ctxes, c),
           sess' \in [Keys -> SessType \cup {NULL}], \A j \in Keys : SessSame(sess[j], sess'[j]),
           WaitsKept(t), halted' \in BOOLEAN, PanicOnlyOnReentry'
    PROVE  TaInv'
  <1>1. CoreType /\ FramesOK /\ ContextsOK /\ ListsOK /\ CountsOK /\ StackType
    BY TypeFacts DEF TaInv
  <1>2. p \in Calls /\ p[1] = t /\ Call(p) = f /\ f \in FrameType
    BY <1>1, TopFacts
  <1>3. c \in Ctxs /\ ctx[c] # NULL /\ ctx[c] \in CtxType /\ ContextOK(c)
    BY <1>1, <1>2, CallFacts DEF ContextsOK
  <1>4. ctx'[c] = e /\ e # NULL /\ \A d \in Ctxs : ctx[d] # NULL => ctx'[d].uuid = ctx[d].uuid
    BY <1>1, <1>3, CtxUpdate
  <1>5. StackStep /\ p \in Calls' /\ Step(p, f, g)
    BY <1>1, SetStep
  <1>6. e.ref \in Nat /\ e.ref > 0
    BY <1>1, <1>2, InUseCounts
  <1>7. \A q \in Calls : q # p => Apart(g, Call(q))'
    BY <1>1, <1>2, <1>5, WeakerApart
  <1>8. ListsOK'
    <2>1. \A d \in Ctxs : Contains(tee_ctxes', d) =>
              Contains(tee_ctxes, d) /\ ctx'[d].uuid = ctx[d].uuid
      BY <1>1, <1>4 DEF ContextsOK
    <2>2. \A l \in Lists : Distinct(open_sessions'[l])
      BY <1>1 DEF ListsOK
    <2> QED
      BY <1>1, <2>1, <2>2, ListsStep
  <1>9. ContextOK(c)'
    <2>1. OccAt(g, c) <=> OccAt(f, c)
      BY DEF OccAt, Weaker
    <2>2. PICK d, fl : d = ctx[c] /\ fl = Flags[d.uuid]
      OBVIOUS
    <2>3. OccAt(f, c) => d.busy
      BY <1>2, <1>3, <2>2 DEF ContextOK, OccAt, Occupies, Has
    <2>4. /\ e.releasing /\ e.ref # 0 => e.panicked /\ NotKept(fl)
          /\ "PTA" \in fl => ~e.panicked
          /\ ~({"SI", "MS"} \subseteq fl) => e.ref <= 1
      BY <1>3, <2>2 DEF ContextOK
    <2>5. e.busy <=> (OccAt(g, c) \/ (d.busy /\ ~OccAt(f, c)))
      BY <1>3, <2>1, <2>2, <2>3 DEF CtxType
    <2>6. e.ref # 0
      BY <1>6
    <2>7. d # NULL /\ e.uuid = d.uuid /\ e = ctx'[c]
      BY <1>3, <1>4, <2>2
    <2> QED
      BY <1>1, <1>3, <1>4, <1>5, <2>2, <2>4, <2>5, <2>6, <2>7, ContextStep
  <1>10. LockKept(p, f, g)
    <2>1. InSingle(g)' <=> InSingle(f)
      <3>1. ctx'[c].uuid = ctx[c].uuid
        BY <1>4
      <3> QED
        BY <3>1 DEF InSingle, Occupies, Has, Flags, Weaker
    <2> QED
      BY <2>1 DEF LockKept
  <1>11. g.key = f.key /\ g.ctx = f.ctx /\ (Refers(g) <=> Refers(f)) /\ (Owns(g) => Owns(f))
         /\ (g.op = "open" => f.op = "open")
    BY DEF Weaker
  <1> QED
    BY <1>7, <1>8, <1>9, <1>10, <1>11, SameCountsStep

-----------------------------------------------------------------------------
(* Steps that change what a call refers to *)

\* The types of what such a step may change
TypesKept ==
    /\ ctx' \in [Ctxs -> CtxType \cup {NULL}]
    /\ \A c \in Ctxs : ctx'[c] # NULL => ctx'[c].uuid \in Uuids
    /\ sess' \in [Keys -> SessType \cup {NULL}]
    /\ tee_ctxes' \in Seq(Ctxs)
    /\ open_sessions' \in [Lists -> Seq(Ids)]

\* The counts change with the call.
CountsKept(k, f, g) ==
    /\ \A j \in Keys : j # k => sess'[j] = sess[j]
    /\ Refers(f) => f.key = k
    /\ Refers(g) => g.key = k
    /\ CountOf(sess'[k]) \in Nat
    /\ CountOf(sess'[k]) + N(Refers(f)) = CountOf(sess[k]) + N(Refers(g))
    /\ \A c \in Ctxs :
          /\ CountOf(ctx'[c]) \in Nat
          /\ CountOf(ctx'[c]) + N(IsOf(sess[k], c)) + N(Closing(f, c))
             = CountOf(ctx[c]) + N(IsOf(sess'[k], c)) + N(Closing(g, c))

\* The call that g is after the step has what it relies on.
CallKept(p, g) ==
    /\ FormOK(g)
    /\ SessFor(p[1], g, sess'[g.key])
    /\ g.ctx # NULL => CtxFor(g, ctx'[g.ctx])
    /\ BelowOK(p)'
    /\ \A q \in Calls : q # p => Apart(g, Call(q))'

\* The sessions stay on the lists of their clients.
ListedKept(p, f, g) ==
    \A k \in Keys : sess'[k] # NULL =>
        /\ Contains(open_sessions'[k[1]], k[2])
        /\ sess'[k].ctx = NULL =>
              \/ Unready(g, k) /\ p \in Calls'
              \/ sess[k] # NULL /\ sess[k].ctx = NULL /\ ~Unready(f, k)

LEMMA GeneralStep ==
    ASSUME TaInv, UNCHANGED <<setup, siVars>>, StackStep, NEW t \in Threads, NEW p, p[1] = t,
           NEW f, NEW g, Step(p, f, g), \A u \in Threads \ {t} : stack'[u] = stack[u],
           TypesKept, OthersSess(p), OthersCtx(p), p \in Calls' => CallKept(p, g),
           NEW k \in Keys, CountsKept(k, f, g), ListedKept(p, f, g), ContextsOK', ListsOK',
           InSingle(g)' <=> InSingle(f), WaitsKept(t), halted' \in BOOLEAN, PanicOnlyOnReentry'
    PROVE  TaInv'
  <1>1. CoreType /\ FramesOK /\ CountsOK /\ SessionsOK /\ LockOK /\ WaitsOK /\ StackType
    BY TypeFacts DEF TaInv
  <1>2. FramesOK'
    BY <1>1, FramesStep DEF CallKept
  <1>3. CountsOK'
    <2>1. \A j \in Keys : j # k => sess'[j] = sess[j]
      BY DEF CountsKept
    <2>2. ASSUME NEW j \in Keys
          PROVE  /\ CountOf(sess'[j]) \in Nat
                 /\ CountOf(sess'[j]) + N(RefersTo(f, j)) = CountOf(sess[j]) + N(RefersTo(g, j))
      <3>1. CASE j = k
        <4>1. (RefersTo(f, j) <=> Refers(f)) /\ (RefersTo(g, j) <=> Refers(g))
          BY <3>1 DEF RefersTo, CountsKept
        <4> QED
          BY <3>1, <4>1 DEF CountsKept, N
      <3>2. CASE j # k
        <4>1. ~RefersTo(f, j) /\ ~RefersTo(g, j)
          BY <3>2 DEF RefersTo, CountsKept
        <4>2. CountOf(sess[j]) \in Nat /\ sess'[j] = sess[j]
          BY <1>1, <2>1, <3>2, ReferersFacts
        <4> QED
          BY <4>1, <4>2 DEF N
      <3> QED
        BY <3>1, <3>2
    <2>3. \A c \in Ctxs : /\ CountOf(ctx'[c]) \in Nat
                          /\ CountOf(ctx'[c]) + N(IsOf(sess[k], c)) + N(Closing(f, c))
                             = CountOf(ctx[c]) + N(IsOf(sess'[k], c)) + N(Closing(g, c))
      BY DEF CountsKept
    <2> QED
      BY <1>1, <2>1, <2>2, <2>3, CountsStep
  <1>4. SessionsOK'
    <2>1. ASSUME NEW j \in Keys PROVE SessionOK(j)'
      <3>1. sess'[j] # NULL =>
                /\ Contains(open_sessions'[j[1]], j[2])
                /\ sess'[j].ctx = NULL =>
                      \/ Unready(g, j) /\ p \in Calls'
                      \/ sess[j] # NULL /\ sess[j].ctx = NULL /\ ~Unready(f, j)
        BY DEF ListedKept
      <3> QED
        BY <1>1, <3>1, SessionStep
    <2> QED
      BY <2>1, SessionsFromAll
  <1>5. LockOK' /\ si_count' \in Nat
    <2>1. si_count \in Nat
      BY <1>1 DEF CoreType
    <2> QED
      BY <1>1, <2>1, LockStep
  <1>6. WaitsOK'
    BY <1>1, WaitsStep DEF WaitsKept
  <1>7. CoreType'
    <2>1. si_thread' \in Threads \cup {NULL}
      BY <1>1 DEF CoreType, siVars
    <2>2. Uuids' = Uuids /\ FrameType' = FrameType /\ CondVars' = CondVars
      BY DEF Uuids, Flags, FrameType, CondVars
    <2>3. setup' \in Setups
      BY <1>1 DEF CoreType
    <2> QED
      BY <1>5, <2>1, <2>2, <2>3 DEF CoreType, StackStep, WaitsKept, TypesKept
  <1> QED
    BY <1>2, <1>3, <1>4, <1>5, <1>6, <1>7 DEF TaInv

\* Contexts other than c are as they were.
LEMMA ContextsStep ==
    ASSUME StackType, StackStep, FramesOK, ContextsOK, NEW p, NEW f, NEW g, Step(p, f, g),
           OthersCtx(p), NEW c,
           \A d \in Ctxs : d # c =>
               /\ ctx'[d] = ctx[d]
               /\ Contains(tee_ctxes', d) <=> Contains(tee_ctxes, d)
               /\ OccAt(g, d) <=> OccAt(f, d)
               /\ Frees(f, d) => Frees(g, d),
           c \in Ctxs => /\ ctx'[c] # NULL => ContextOK(c)'
                         /\ ctx'[c] = NULL => ~Contains(tee_ctxes', c)
    PROVE  ContextsOK'
  <1>1. ASSUME NEW d \in Ctxs, d # c, ctx'[d] # NULL PROVE ContextOK(d)'
    <2>1. ctx'[d] = ctx[d] /\ ctx[d] # NULL /\ ContextOK(d)
      BY <1>1 DEF ContextsOK
    <2> QED
      BY <1>1, <2>1, ContextStays
  <1>2. ASSUME NEW d \in Ctxs, d # c, ctx'[d] = NULL PROVE ~Contains(tee_ctxes', d)
    BY <1>2 DEF ContextsOK
  <1>3. /\ \A d \in Ctxs : ctx'[d] # NULL => ContextOK(d)'
        /\ \A d \in Ctxs : ctx'[d] = NULL => ~Contains(tee_ctxes', d)
    BY <1>1, <1>2
  <1> QED
    BY <1>3 DEF ContextsOK

LEMMA OthersCtxStep ==
    ASSUME CoreType, FramesOK, NEW p, NEW c, \A d \in Ctxs : d # c => ctx'[d] = ctx[d],
           \A q \in Calls : q # p => Call(q).ctx # c
    PROVE  OthersCtx(p)
  <1>1. ASSUME NEW q \in Calls, q # p, Call(q).ctx # NULL
        PROVE  CtxLike(ctx[Call(q).ctx], ctx'[Call(q).ctx])
    <2>1. Call(q).ctx \in Ctxs /\ ctx[Call(q).ctx] # NULL /\ Call(q).ctx # c
      BY <1>1, CallFacts
    <2> QED
      BY <2>1 DEF CtxLike
  <1> QED
    BY <1>1, OthersCtxStay

LEMMA OthersCtxSame ==
    ASSUME CoreType, FramesOK, NEW p, ctx' = ctx
    PROVE  OthersCtx(p)
  <1>1. ASSUME NEW q \in Calls, q # p, Call(q).ctx # NULL
        PROVE  CtxLike(ctx[Call(q).ctx], ctx'[Call(q).ctx])
    BY <1>1, CallFacts DEF CtxLike
  <1> QED
    BY <1>1, OthersCtxStay

LEMMA OthersSessStep ==
    ASSUME CoreType, FramesOK, NEW p, NEW k, \A j \in Keys : j # k => sess'[j] = sess[j],
           \A q \in Calls : q # p /\ Refers(Call(q)) /\ Call(q).key = k =>
               SessLike(sess[k], sess'[k]) \/ (~Owns(Call(q)) /\ sess'[k] # NULL)
    PROVE  OthersSess(p)
  <1>1. ASSUME NEW q \in Calls, q # p, Refers(Call(q))
        PROVE  \/ SessLike(sess[Call(q).key], sess'[Call(q).key])
               \/ ~Owns(Call(q)) /\ sess'[Call(q).key] # NULL
    <2>1. Call(q).key \in Keys /\ sess[Call(q).key] # NULL
      BY <1>1, CallFacts
    <2> QED
      BY <1>1, <2>1 DEF SessLike
  <1> QED
    BY <1>1, OthersSessStay

\* A call from within the call of thread t that was the innermost
LEMMA PushBelow ==
    ASSUME StackType, StackStep, NEW t \in Threads, NEW p, p = <<t, Len(stack[t]) + 1>>,
           NEW g, Step(p, NoCall, g), p \in Calls', OthersCtx(p),
           stack[t] = <<>> => g.key[1] = NW,
           stack[t] # <<>> => /\ InCall(Top(t)) /\ Top(t).ctx # NULL
                              /\ g.key[1] = Top(t).ctx
                              /\ Top(t).pc # "destroy" => ~Has(Top(t).ctx, "PTA")
    PROVE  BelowOK(p)'
  <1>1. Call(p)' = g
    BY DEF Step
  <1>2. stack[t] \in Seq(FrameType) /\ Len(stack[t]) \in Nat
    BY DEF StackType
  <1>3. CASE stack[t] = <<>>
    <2>1. p[2] = 1
      BY <1>3
    <2> QED
      BY <1>1, <1>3, <2>1 DEF BelowOK
  <1>4. CASE stack[t] # <<>>
    <2>1. PICK q : q = <<t, Len(stack[t])>>
      OBVIOUS
    <2>2. q \in Calls /\ Call(q) = Top(t)
      BY <1>4, <2>1, TopFacts
    <2>3. q = Below(p) /\ q # p /\ p[2] # 1
      <3>1. Len(stack[t]) # 0
        BY <1>2, <1>4
      <3> QED
        BY <1>2, <2>1, <3>1 DEF Below
    <2>4. Call(q)' = Top(t)
      BY <2>2, <2>3 DEF Step
    <2>5. ctx'[Top(t).ctx].uuid = ctx[Top(t).ctx].uuid
      BY <1>4, <2>2, <2>3 DEF OthersCtx
    <2>6. PICK h : h = Top(t)
      OBVIOUS
    <2>7. h.pc # "destroy" => "PTA" \notin Flags'[ctx'[h.ctx].uuid]
      <3>1. Flags' = Flags
        BY DEF Flags, StackStep
      <3> QED
        BY <1>4, <2>5, <2>6, <3>1 DEF Has
    <2>8. Call(Below(p))' = h
      BY <2>3, <2>4, <2>6 DEF Below
    <2>9. InCall(h) /\ g.key[1] = h.ctx
      BY <1>4, <2>6
    <2> QED
      BY <1>1, <2>3, <2>7, <2>8, <2>9 DEF BelowOK, InCall, Has, Below
  <1> QED
    BY <1>3, <1>4

\* Who is the only one to refer to a session has its one reference.
LEMMA AloneCount ==
    ASSUME CoreType, FramesOK, CountsOK, NEW p \in Calls, Refers(Call(p)),
           \A q \in Calls : q # p /\ Refers(Call(q)) => Call(q).key # Call(p).key
    PROVE  sess[Call(p).key] # NULL /\ sess[Call(p).key].ref = 1
  <1>1. PICK k : k = Call(p).key
    OBVIOUS
  <1>2. k \in Keys /\ sess[k] # NULL
    BY <1>1, CallFacts
  <1>3. Referers(k) = {p}
    BY <1>1, <1>2 DEF Referers
  <1>4. Cardinality(Referers(k)) = 1
    BY <1>3, FS_Singleton
  <1> QED
    BY <1>1, <1>2, <1>4 DEF CountsOK, CountOf

\* The id of session k is taken off the list of its client.
LEMMA Unlisting ==
    ASSUME CoreType, ListsOK, SessionsOK, NEW k \in Keys,
           open_sessions' = [open_sessions EXCEPT ![k[1]] = RemoveFirst(@, k[2])]
    PROVE  /\ open_sessions' \in [Lists -> Seq(Ids)]
           /\ \A l \in Lists : Distinct(open_sessions'[l])
           /\ \A j \in Keys : j # k /\ sess[j] # NULL => Contains(open_sessions'[j[1]], j[2])
  <1>1. PICK l, i : l = k[1] /\ i = k[2]
    OBVIOUS
  <1>2. l \in Lists /\ k = <<l, i>> /\ open_sessions \in [Lists -> Seq(Ids)]
    BY <1>1 DEF Keys, CoreType
  <1>3. PICK s, r : s = open_sessions[l] /\ r = RemoveFirst(s, i)
    OBVIOUS
  <1>4. /\ s \in Seq(Ids) /\ r \in Seq(Ids)
        /\ \A x : x # i /\ Contains(s, x) => Contains(r, x)
        /\ Distinct(s) => Distinct(r)
    BY <1>2, <1>3, RemoveFirstFacts
  <1>5. open_sessions' = [open_sessions EXCEPT ![l] = r]
    BY <1>1, <1>2, <1>3
  <1>6. open_sessions'[l] = r /\ \A x \in Lists : x # l => open_sessions'[x] = open_sessions[x]
    BY <1>2, <1>5
  <1>7. open_sessions' \in [Lists -> Seq(Ids)]
    BY <1>2, <1>4, <1>5
  <1>8. \A x \in Lists : Distinct(open_sessions'[x])
    BY <1>2, <1>3, <1>4, <1>6 DEF ListsOK
  <1>9. ASSUME NEW j \in Keys, j # k, sess[j] # NULL
        PROVE  Contains(open_sessions'[j[1]], j[2])
    <2>1. j[1] \in Lists /\ j = <<j[1], j[2]>> /\ Contains(open_sessions[j[1]], j[2])
      BY <1>9 DEF Keys, SessionsOK
    <2>2. CASE j[1] = l
      <3>1. j[2] # i
        BY <1>2, <1>9, <2>1, <2>2
      <3> QED
        BY <1>3, <1>4, <1>6, <2>1, <2>2, <3>1
    <2>3. CASE j[1] # l
      BY <1>6, <2>1, <2>3
    <2> QED
      BY <2>2, <2>3
  <1> QED
    BY <1>7, <1>8, <1>9

LEMMA NoCallFacts ==
    /\ ~Refers(NoCall) /\ ~NoCall.busy /\ NoCall.ctx = NULL
    /\ \A c \in Ctxs : ~Closing(NoCall, c) /\ ~OccAt(NoCall, c) /\ ~Frees(NoCall, c)
    /\ ~InSingle(NoCall)
    /\ \A k : Unready(NoCall, k) = FALSE
  BY TaManagerAssumption DEF NoCall, Refers, Closing, OccAt, Frees, InSingle, Occupies, Unready

\* A session fails to open that nobody else refers to.
LEMMA InitFailKeeps ==
    ASSUME TaInv, ~halted, UNCHANGED setup, NEW t \in Threads, InitFail(t),
           \A q \in Calls : q # <<t, Len(stack[t])>> /\ Refers(Call(q)) =>
               Call(q).key # Top(t).key
    PROVE  TaInv'
  <1>1. PICK p, f, k : p = <<t, Len(stack[t])>> /\ f = Top(t) /\ k = f.key
    OBVIOUS
  <1>2. At(t, "initfail") /\ UNCHANGED <<ctx, tee_ctxes, siVars, waitq, halted>>
    BY DEF InitFail
  <1>3. /\ stack[t] # <<>> /\ f.pc = "initfail" /\ NotWaiting(t) /\ waitq \in QueueType
        /\ p \in Calls /\ p[1] = t /\ Call(p) = f /\ f \in FrameType /\ k \in Keys
        /\ FormOK(f)
    BY <1>1, <1>2, AtFacts
  <1>4. /\ CoreType /\ StackType /\ FramesOK /\ CountsOK /\ ListsOK /\ SessionsOK /\ ContextsOK
        /\ f.ctx = NULL /\ f.op = "open" /\ ~f.busy /\ Refers(f)
    BY <1>3, TypeFacts, OpenersRefer DEF TaInv, FormOK
  <1>5. sess[k] # NULL /\ sess[k].ref = 1 /\ sess[k].ctx = NULL
    BY <1>1, <1>3, <1>4, AloneCount, CallFacts
  <1>6. open_sessions' = [open_sessions EXCEPT ![k[1]] = RemoveFirst(@, k[2])]
    BY <1>1 DEF InitFail
  <1>7. /\ sess' \in [Keys -> SessType \cup {NULL}] /\ sess'[k] = NULL
        /\ \A j \in Keys : j # k => sess'[j] = sess[j]
    <2>1. sess' = [sess EXCEPT ![k] = NULL]
      BY <1>1 DEF InitFail
    <2> QED
      BY <1>3, <1>4, <2>1 DEF CoreType
  <1>8. /\ StackStep /\ p \notin Calls' /\ Step(p, f, NoCall)
        /\ \A u \in Threads \ {t} : stack'[u] = stack[u]
    <2>1. stack' = [stack EXCEPT ![t] = Tail(@)]
      BY DEF InitFail, Return
    <2> QED
      BY <1>1, <1>3, <1>4, <2>1, PopStep
  <1>9. /\ open_sessions' \in [Lists -> Seq(Ids)]
        /\ \A l \in Lists : Distinct(open_sessions'[l])
        /\ \A j \in Keys : j # k /\ sess[j] # NULL => Contains(open_sessions'[j[1]], j[2])
    BY <1>3, <1>4, <1>6, Unlisting
  <1>10. TypesKept
    BY <1>2, <1>4, <1>7, <1>9 DEF TypesKept, CoreType
  <1>11. OthersSess(p)
    <2>1. ASSUME NEW q \in Calls, q # p, Refers(Call(q)) PROVE Call(q).key # k
      BY <1>1, <2>1
    <2> QED
      BY <1>4, <1>7, <2>1, OthersSessStep
  <1>12. OthersCtx(p)
    BY <1>2, <1>4, OthersCtxSame
  <1>13. CountsKept(k, f, NoCall)
    <2>1. ASSUME NEW c \in Ctxs
          PROVE  /\ CountOf(ctx'[c]) = CountOf(ctx[c]) /\ CountOf(ctx[c]) \in Nat
                 /\ ~IsOf(sess[k], c) /\ ~Closing(f, c) /\ ~IsOf(sess'[k], c)
                 /\ ~Closing(NoCall, c)
      BY <1>2, <1>4, <1>5, <1>7, NoCallFacts, UsersFacts, TypeFacts DEF IsOf, Closing
    <2>2. CountOf(sess'[k]) = 0 /\ CountOf(sess[k]) = 1
      BY <1>5, <1>7 DEF CountOf
    <2> QED
      BY <1>1, <1>4, <1>7, <2>1, <2>2, NoCallFacts DEF CountsKept, N
  <1>14. ListedKept(p, f, NoCall)
    <2>1. ASSUME NEW j \in Keys, sess'[j] # NULL
          PROVE  /\ Contains(open_sessions'[j[1]], j[2])
                 /\ sess[j] = sess'[j] /\ ~Unready(f, j)
      BY <1>1, <1>7, <1>9, <2>1 DEF Unready
    <2> QED
      BY <2>1 DEF ListedKept
  <1>15. ContextsOK'
    <2>1. ASSUME NEW d \in Ctxs
          PROVE  ~OccAt(NoCall, d) /\ ~OccAt(f, d) /\ ~Frees(f, d)
      BY <1>3, <1>4, NoCallFacts DEF OccAt, Frees
    <2>2. NULL \notin Ctxs
      BY TaManagerAssumption
    <2> QED
      BY <1>2, <1>4, <1>8, <1>12, <2>1, <2>2, ContextsStep
  <1>16. ListsOK'
    BY <1>2, <1>4, <1>9, ListsStep DEF ListsOK
  <1>17. InSingle(NoCall)' <=> InSingle(f)
    BY <1>4 DEF InSingle, Occupies, NoCall
  <1>18. WaitsKept(t)
    BY <1>2, <1>3, FewerSame, WaitsFewer
  <1>19. halted' \in BOOLEAN /\ PanicOnlyOnReentry'
    BY <1>2, <1>4, NotHalted
  <1> QED
    BY <1>2, <1>3, <1>8, <1>10, <1>11, <1>12, <1>13, <1>14, <1>15, <1>16, <1>17, <1>18, <1>19,
       GeneralStep

\* A call refers to session k, and has it locked when it owns it.
GetSession(k, t, f, g) ==
    /\ sess' \in [Keys -> SessType \cup {NULL}]
    /\ \A j \in Keys : j # k => sess'[j] = sess[j]
    /\ sess'[k] # NULL /\ sess'[k].ctx = sess[k].ctx /\ sess'[k].given = sess[k].given
    /\ sess'[k].ref = IF Refers(f) THEN sess[k].ref ELSE sess[k].ref + 1
    /\ \/ ~Owns(g) /\ sess'[k].lock = sess[k].lock
       \/ sess[k].lock = NULL /\ sess'[k].lock = t

LEMMA GetStep ==
    ASSUME TaInv, UNCHANGED <<setup, ctx, listVars, siVars>>, StackStep, NEW t \in Threads,
           NEW p, p[1] = t, p \in Calls', NEW f, NEW g \in FrameType, Step(p, f, g),
           \A u \in Threads \ {t} : stack'[u] = stack[u], BelowOK(p)',
           f.ctx = NULL, ~f.busy, \A j : ~Unready(f, j),
           NEW k \in Keys, Refers(f) => f.key = k,
           g.key = k, g.op # "open", ~g.busy, Refers(g), FormOK(g), g.pc \in {"enter", "put", "locking"},
           sess[k] # NULL, g.ctx # NULL => g.ctx = sess[k].ctx,
           \A q \in Calls : q # p /\ Refers(Call(q)) /\ Call(q).key = k =>
               Call(q).op # "open" \/ Early,
           GetSession(k, t, f, g),
           WaitsKept(t), halted' \in BOOLEAN, PanicOnlyOnReentry'
    PROVE  TaInv'
  <1>1. CoreType /\ StackType /\ FramesOK /\ CountsOK /\ ListsOK /\ SessionsOK /\ ContextsOK
    BY TypeFacts DEF TaInv
  <1>0. PICK r : r = sess'[k]
    OBVIOUS
  <1>2. /\ sess' \in [Keys -> SessType \cup {NULL}] /\ sess'[k] = r /\ r # NULL /\ r \in SessType
        /\ \A j \in Keys : j # k => sess'[j] = sess[j]
        /\ r.ctx = sess[k].ctx /\ r.given = sess[k].given
        /\ r.ref = IF Refers(f) THEN sess[k].ref ELSE sess[k].ref + 1
        /\ \/ ~Owns(g) /\ r.lock = sess[k].lock
           \/ sess[k].lock = NULL /\ r.lock = t
    BY <1>0 DEF GetSession
  <1>3. ASSUME sess[k].ctx # NULL
        PROVE  sess[k].ctx \in Ctxs /\ ctx[sess[k].ctx] # NULL
    <2>1. PICK c : c = sess[k].ctx
      OBVIOUS
    <2>2. sess[k] \in SessType
      BY <1>1, TypeFacts
    <2>3. c \in Ctxs /\ k \in SessionsOf(c)
      BY <1>3, <2>1, <2>2 DEF SessType, SessionsOf
    <2>4. CountOf(ctx[c]) > 0
      BY <1>1, <2>3, UsersFacts
    <2>5. ctx[c] # NULL
      BY <2>4 DEF CountOf
    <2> QED
      BY <2>1, <2>3, <2>5
  <1>4. ASSUME NEW q \in Calls, q # p, Refers(Call(q)), Call(q).key = k
        PROVE  SessLike(sess[k], sess'[k]) \/ (r.lock = t /\ sess[k].lock = NULL /\ ~Owns(Call(q)))
    <2>1. Owns(Call(q)) => sess[k].lock \in Threads
      BY <1>1, <1>4, CallFacts
    <2>2. NULL \notin Threads
      BY TaManagerAssumption
    <2> QED
      BY <1>2, <2>1, <2>2 DEF SessLike
  <1>5. OthersSess(p)
    <2>1. ASSUME NEW q \in Calls, q # p PROVE SessFor(q[1], Call(q), sess'[Call(q).key])
      <3>1. SessFor(q[1], Call(q), sess[Call(q).key]) /\ Call(q).key \in Keys
        BY <1>1, CallFacts DEF FramesOK, FrameOK, FrameType
      <3>2. CASE Call(q).key # k
        BY <1>2, <3>1, <3>2
      <3>3. CASE Call(q).key = k
        BY <1>2, <1>4, <2>1, <3>1, <3>3 DEF SessFor, SessLike
      <3> QED
        BY <3>2, <3>3
    <2> QED
      BY <2>1 DEF OthersSess
  <1>6. OthersCtx(p)
    BY <1>1, OthersCtxSame
  <1>7. CallKept(p, g)
    <2>1. SessFor(p[1], g, sess'[g.key])
      BY <1>2 DEF SessFor
    <2>2. g.ctx # NULL => CtxFor(g, ctx'[g.ctx])
      BY <1>3 DEF CtxFor
    <2>3. ASSUME NEW q \in Calls, q # p PROVE Apart(g, Call(q))'
      <3>1. Call(q)' = Call(q)
        BY <2>3 DEF Step
      <3>2. PICK h : h = Call(q)
        OBVIOUS
      <3>3. Refers(h) /\ h.key = k => (h.op # "open" \/ Early) /\ ~(Owns(g) /\ Owns(h))
        <4>1. ASSUME Refers(h), h.key = k, Owns(h) PROVE ~Owns(g)
          <5>1. sess[k].lock \in Threads
            BY <1>1, <3>2, <4>1, CallFacts
          <5>2. NULL \notin Threads
            BY TaManagerAssumption
          <5> QED
            BY <1>2, <5>1, <5>2
        <4> QED
          BY <3>2, <2>3, <4>1
      <3> QED
        BY <3>1, <3>2, <3>3, EarlyStays DEF Apart, Occupies, Refers, Owns
    <2> QED
      BY <2>1, <2>2, <2>3 DEF CallKept
  <1>8. CountsKept(k, f, g)
    <2>1. ASSUME NEW c \in Ctxs
          PROVE  /\ CountOf(ctx'[c]) = CountOf(ctx[c]) /\ CountOf(ctx[c]) \in Nat
                 /\ IsOf(sess[k], c) <=> IsOf(sess'[k], c)
                 /\ ~Closing(f, c) /\ ~Closing(g, c)
      BY <1>1, <1>2, UsersFacts, TypeFacts DEF IsOf, Closing
    <2>2. CountOf(sess'[k]) = r.ref /\ CountOf(sess[k]) = sess[k].ref /\ r.ref \in Nat
      BY <1>2 DEF CountOf, SessType
    <2>3. sess[k].ref \in Nat
      BY <1>1, TypeFacts DEF SessType
    <2>4. r.ref + N(Refers(f)) = sess[k].ref + N(Refers(g))
      BY <1>2, <2>2, <2>3 DEF N
    <2> QED
      BY <1>2, <2>1, <2>2, <2>4 DEF CountsKept, N
  <1>9. ListedKept(p, f, g)
    <2>1. ASSUME NEW j \in Keys, sess'[j] # NULL
          PROVE  sess[j] # NULL /\ sess[j].ctx = sess'[j].ctx
      BY <1>2, <2>1
    <2>2. ASSUME NEW j \in Keys, sess'[j] # NULL
          PROVE  Contains(open_sessions'[j[1]], j[2])
      BY <1>1, <2>1, <2>2 DEF SessionsOK, listVars
    <2> QED
      BY <2>1, <2>2 DEF ListedKept
  <1>10. ContextsOK'
    <2>1. ASSUME NEW d \in Ctxs
          PROVE  ~OccAt(g, d) /\ ~OccAt(f, d) /\ ~Frees(f, d)
      BY TaManagerAssumption DEF OccAt, Frees
    <2>2. NULL \notin Ctxs
      BY TaManagerAssumption
    <2>3. tee_ctxes' = tee_ctxes
      BY DEF listVars
    <2> QED
      BY <1>1, <1>6, <2>1, <2>2, <2>3, ContextsStep
  <1>11. ListsOK'
    BY <1>1 DEF ListsOK, listVars, Distinct, Contains, Has, Flags
  <1>12. InSingle(g)' <=> InSingle(f)
    BY DEF InSingle, Occupies
  <1>13. TypesKept
    BY <1>1, <1>2 DEF TypesKept, CoreType, listVars
  <1> QED
    BY <1>5, <1>6, <1>7, <1>8, <1>9, <1>10, <1>11, <1>12, <1>13, GeneralStep

\* What tee_ta_get_session() is told of the call to be, h
RequestOK(h, k, exclusive) ==
    /\ h \in FrameType /\ h.key = k /\ h.ctx = NULL /\ ~h.busy
    /\ exclusive => h.op \in {"invoke", "close"} /\ h.pc = "enter"
    /\ ~exclusive => h.op = "cancel" /\ h.pc = "put" /\ k[1] = NW

\* A new call may be made for session k.
MayGet(t, k) ==
    /\ \A q \in Calls : Call(q).key = k => Call(q).op # "open" \/ Early
    /\ stack[t] = <<>> => k[1] = NW
    /\ stack[t] # <<>> => /\ InCall(Top(t)) /\ Top(t).ctx # NULL /\ k[1] = Top(t).ctx
                          /\ Top(t).pc # "destroy" => ~Has(Top(t).ctx, "PTA")

LEMMA GetPushes ==
    ASSUME TaInv, UNCHANGED <<setup, ctx, listVars, siVars>>, NEW t \in Threads, NEW k \in Keys,
           MayGet(t, k), NEW g \in FrameType, Push(t, g),
           g.key = k, g.op # "open", ~g.busy, Refers(g), FormOK(g), g.pc \in {"enter", "put", "locking"},
           sess[k] # NULL, g.ctx # NULL => g.ctx = sess[k].ctx,
           NEW r \in SessType, sess' = [sess EXCEPT ![k] = r], r.ctx = sess[k].ctx,
           r.given = sess[k].given, r.ref = sess[k].ref + 1,
           \/ ~Owns(g) /\ r.lock = sess[k].lock
           \/ sess[k].lock = NULL /\ r.lock = t,
           WaitsKept(t), halted' \in BOOLEAN, PanicOnlyOnReentry'
    PROVE  TaInv'
  <1>1. CoreType /\ StackType /\ FramesOK
    BY TypeFacts DEF TaInv
  <1>2. PICK p : p = <<t, Len(stack[t]) + 1>>
    OBVIOUS
  <1>3. /\ StackStep /\ p \in Calls' /\ Step(p, NoCall, g)
        /\ \A u \in Threads \ {t} : stack'[u] = stack[u]
    <2>1. stack' = [stack EXCEPT ![t] = <<g>> \o @]
      BY DEF Push
    <2> QED
      BY <1>1, <1>2, <2>1, PushStep
  <1>4. OthersCtx(p)
    BY <1>1, OthersCtxSame
  <1>5. BelowOK(p)'
    BY <1>1, <1>2, <1>3, <1>4, PushBelow DEF MayGet
  <1>6. \A q \in Calls : q # p /\ Refers(Call(q)) /\ Call(q).key = k =>
            Call(q).op # "open" \/ Early
    BY DEF MayGet
  <1>7. p[1] = t
    BY <1>2
  <1> QED
    <2>1. PICK f : f = NoCall
      OBVIOUS
    <2>2. /\ f.ctx = NULL /\ ~f.busy /\ ~Refers(f) /\ (\A j : ~Unready(f, j))
          /\ Step(p, f, g)
      BY <1>3, <2>1, NoCallFacts
    <2>3. GetSession(k, t, f, g)
      BY <1>1, <2>2, TaManagerAssumption DEF GetSession, CoreType
    <2> QED
      BY <1>3, <1>5, <1>6, <1>7, <2>2, <2>3, GetStep

\* A session that nobody has locked has its context.
LEMMA FreeIsReady ==
    ASSUME CoreType, FramesOK, SessionsOK, NEW k \in Keys, sess[k] # NULL, sess[k].lock = NULL
    PROVE  sess[k].ctx # NULL
  <1>1. ASSUME sess[k].ctx = NULL PROVE FALSE
    <2>1. PICK q \in Calls : Call(q).key = k /\ Call(q).pc \in {"lookup", "initfail"}
      BY <1>1 DEF SessionsOK
    <2>2. PICK h : h = Call(q)
      OBVIOUS
    <2>3. FormOK(h) /\ q[1] \in Threads
      BY <2>2, CallFacts
    <2>4. h.op = "open"
      BY <2>1, <2>2, <2>3 DEF FormOK
    <2>5. sess[k].lock = q[1]
      BY <2>1, <2>2, <2>3, <2>4, OpenersRefer, CallFacts
    <2> QED
      BY <2>3, <2>5, TaManagerAssumption
  <1> QED
    BY <1>1

LEMMA GetKeeps ==
    ASSUME TaInv, ~halted, UNCHANGED setup, NEW t \in Threads, NEW k \in Keys,
           NEW exclusive \in BOOLEAN, NEW h, tee_ta_get_session(t, k, exclusive, h),
           RequestOK(h, k, exclusive), MayGet(t, k), NotWaiting(t)
    PROVE  TaInv'
  <1>1. /\ CoreType /\ FramesOK /\ SessionsOK /\ StackType /\ waitq \in QueueType
        /\ UNCHANGED <<ctx, listVars, siVars, halted>>
    BY TypeFacts DEF TaInv, tee_ta_get_session, CoreType, QueueType
  <1>2. sess[k] # NULL /\ sess[k] \in SessType /\ sess[k].ref \in Nat
    BY <1>1, TypeFacts DEF tee_ta_get_session, SessType
  <1>3. sess[k].lock = NULL => sess[k].ctx # NULL
    BY <1>1, <1>2, FreeIsReady
  <1>4. halted' \in BOOLEAN /\ PanicOnlyOnReentry'
    BY <1>1, NotHalted
  <1>5. PICK n : n = sess[k].ref + 1
    OBVIOUS
  <1>6. n \in Nat
    BY <1>2, <1>5
  <1>7. PICK r : r = [sess[k] EXCEPT !.ref = n]
    OBVIOUS
  <1>8. /\ r \in SessType /\ r.ctx = sess[k].ctx /\ r.given = sess[k].given /\ r.ref = sess[k].ref + 1
        /\ r.lock = sess[k].lock
    BY <1>2, <1>5, <1>6, <1>7 DEF SessType
  <1>9. CASE /\ exclusive /\ sess[k].lock # NULL
             /\ sess' = [sess EXCEPT ![k].ref = @ + 1]
             /\ Wait(t, lock_cv(k))
             /\ Push(t, [h EXCEPT !.pc = "locking"])
    <2>1. PICK g : g = [h EXCEPT !.pc = "locking"]
      OBVIOUS
    <2>2. /\ g \in FrameType /\ g.key = k /\ g.op = h.op /\ g.ctx = NULL /\ ~g.busy
          /\ g.pc = "locking" /\ h.op \in {"invoke", "close"}
      BY <1>9, <2>1 DEF RequestOK, FrameType, PCs
    <2>3. g.op # "open" /\ Refers(g) /\ FormOK(g) /\ ~Owns(g)
      BY <2>2 DEF Refers, FormOK, Owns
    <2>4. Push(t, g)
      BY <1>9, <2>1
    <2>5. sess' = [sess EXCEPT ![k] = r]
      BY <1>1, <1>5, <1>7, <1>9 DEF CoreType
    <2>6. WaitsKept(t)
      <3>1. waitq' = [waitq EXCEPT ![lock_cv(k)] = Append(@, t)]
        BY <1>9 DEF Wait
      <3>2. stack'[t] # <<>>
        <4>1. PICK p : p = <<t, Len(stack[t]) + 1>>
          OBVIOUS
        <4>2. stack' = [stack EXCEPT ![t] = <<g>> \o @]
          BY <2>4 DEF Push
        <4> QED
          BY <1>1, <2>2, <4>1, <4>2, PushStep
      <3>3. lock_cv(k) \in CondVars /\ lock_cv(k)[1] # "busy"
        BY CondVarsFacts
      <3> QED
        BY <1>1, <3>1, <3>2, <3>3, FewerSame, WaitsAdd
    <2> QED
      BY <1>1, <1>2, <1>4, <1>8, <2>2, <2>3, <2>4, <2>5, <2>6, GetPushes
  <1>10. CASE /\ exclusive /\ sess[k].lock = NULL
              /\ sess' = [sess EXCEPT ![k].ref = @ + 1, ![k].lock = t]
              /\ Push(t, [h EXCEPT !.ctx = sess[k].ctx])
              /\ UNCHANGED waitq
    <2>1. PICK g, s : g = [h EXCEPT !.ctx = sess[k].ctx] /\ s = [r EXCEPT !.lock = t]
      OBVIOUS
    <2>2. /\ g \in FrameType /\ g.key = k /\ g.op = h.op /\ g.ctx = sess[k].ctx /\ ~g.busy
          /\ g.pc = "enter" /\ h.op \in {"invoke", "close"}
      BY <1>2, <1>10, <2>1 DEF RequestOK, FrameType, SessType
    <2>3. g.op # "open" /\ Refers(g) /\ FormOK(g)
      BY <1>3, <1>10, <2>2 DEF Refers, FormOK
    <2>4. Push(t, g)
      BY <1>10, <2>1
    <2>5. sess' = [sess EXCEPT ![k] = s]
      BY <1>1, <1>2, <1>5, <1>7, <1>10, <2>1 DEF CoreType, SessType
    <2>6. /\ s \in SessType /\ s.ctx = sess[k].ctx /\ s.given = sess[k].given
          /\ s.ref = sess[k].ref + 1 /\ s.lock = t /\ sess[k].lock = NULL
      BY <1>8, <1>10, <2>1 DEF SessType
    <2>7. WaitsKept(t)
      BY <1>1, <1>10, FewerSame, WaitsFewer
    <2> QED
      BY <1>1, <1>2, <1>4, <2>2, <2>3, <2>4, <2>5, <2>6, <2>7, GetPushes
  <1>11. CASE /\ ~exclusive
              /\ sess' = [sess EXCEPT ![k].ref = @ + 1]
              /\ Push(t, h)
              /\ UNCHANGED waitq
    <2>1. /\ h \in FrameType /\ h.key = k /\ h.op = "cancel" /\ h.ctx = NULL /\ ~h.busy
          /\ h.pc = "put" /\ k[1] = NW
      BY <1>11 DEF RequestOK
    <2>2. Refers(h) /\ FormOK(h) /\ ~Owns(h)
      BY <2>1 DEF Refers, FormOK, Owns
    <2>3. sess' = [sess EXCEPT ![k] = r]
      BY <1>1, <1>5, <1>7, <1>11 DEF CoreType
    <2>4. WaitsKept(t)
      BY <1>1, <1>11, FewerSame, WaitsFewer
    <2>5. Push(t, h)
      BY <1>11
    <2> QED
      BY <1>1, <1>2, <1>4, <1>8, <2>1, <2>2, <2>3, <2>4, <2>5, GetPushes
  <1> QED
    BY <1>9, <1>10, <1>11 DEF tee_ta_get_session

LEMMA TopIsLast ==
    ASSUME StackType, NEW t \in Threads, NEW p, p = <<t, Len(stack[t])>>, NEW q \in Calls
    PROVE  Below(q) # p
  <1>1. /\ q = <<q[1], q[2]>> /\ q[1] \in Threads /\ q[2] \in Nat \ {0}
        /\ Len(stack[q[1]]) \in Nat
    BY CallsFacts
  <1>2. q[2] \in 1..Len(stack[q[1]])
    BY <1>1, CallsFacts
  <1>3. ASSUME Below(q) = p PROVE FALSE
    <2>1. q[1] = t /\ q[2] - 1 = Len(stack[t])
      BY <1>3 DEF Below
    <2> QED
      BY <1>1, <1>2, <2>1
  <1> QED
    BY <1>3

\* The frame of a call that asks for a session
LEMMA FrameFacts ==
    ASSUME CoreType, NEW op \in {"invoke", "close", "cancel"}, NEW k \in Keys, NEW exclusive,
           exclusive <=> op # "cancel", op = "cancel" => k[1] = NW, NEW l,
           l = IF exclusive THEN "enter" ELSE "put"
    PROVE  RequestOK(Frame(op, k, NULL, NULL, l), k, exclusive)
  BY DEF RequestOK, Frame, FrameType, Ops, PCs

LEMMA RequestKeeps ==
    ASSUME TaInv, ~halted, UNCHANGED setup, NEW t \in Threads, NEW op \in Requests,
           NEW k \in Keys, Request(t, op, k)
    PROVE  TaInv'
  <1>1. CoreType /\ FramesOK /\ WaitsOK /\ StackType /\ SetupOK(setup)
    BY TypeFacts DEF TaInv
  <1>2. op \in {"invoke", "close", "cancel"}
    BY <1>1 DEF SetupOK, Requests
  <1>3. PICK exclusive, l : /\ exclusive = (op # "cancel")
                            /\ l = IF op = "cancel" THEN "put" ELSE "enter"
    OBVIOUS
  <1>4. /\ MayCall(t) /\ k[1] = Client(t) /\ sess[k] # NULL /\ (sess[k].given \/ Early)
        /\ op = "cancel" => k[1] = NW
        /\ tee_ta_get_session(t, k, exclusive, Frame(op, k, NULL, NULL, l))
    BY <1>3 DEF Request
  <1>5. RequestOK(Frame(op, k, NULL, NULL, l), k, exclusive)
    BY <1>1, <1>2, <1>3, <1>4, FrameFacts
  <1>6. \A q \in Calls : Call(q).key = k => Call(q).op # "open" \/ Early
    <2>1. ASSUME NEW q \in Calls, Call(q).key = k, Call(q).op = "open" PROVE Early
      <3>1. Refers(Call(q))
        BY <1>1, <2>1, CallFacts, OpenersRefer
      <3> QED
        BY <1>1, <1>4, <2>1, <3>1, CallFacts
    <2> QED
      BY <2>1
  <1>7. MayGet(t, k) /\ NotWaiting(t)
    <2>1. CASE stack[t] = <<>>
      BY <1>1, <1>4, <1>6, <2>1 DEF MayGet, NotWaiting, WaitsOK, WaitsFor, Client
    <2>2. CASE stack[t] # <<>>
      <3>1. At(t, "inTA") /\ ~Has(Top(t).ctx, "PTA") /\ k[1] = Top(t).ctx
        BY <1>4, <2>2 DEF MayCall, InUserTa, Client
      <3>2. PICK p, f : p = <<t, Len(stack[t])>> /\ f = Top(t)
        OBVIOUS
      <3>3. f.pc = "inTA" /\ NotWaiting(t) /\ FormOK(f)
        BY <3>1, <3>2, AtFacts
      <3>4. f.ctx # NULL /\ InCall(f)
        BY <3>3 DEF FormOK, InCall
      <3> QED
        BY <1>6, <2>2, <3>1, <3>2, <3>3, <3>4 DEF MayGet
    <2> QED
      BY <2>1, <2>2
  <1> QED
    BY <1>3, <1>4, <1>5, <1>7, GetKeeps

LEMMA CloseNextKeeps ==
    ASSUME TaInv, ~halted, UNCHANGED setup, NEW t \in Threads, CloseNext(t)
    PROVE  TaInv'
  <1>1. CoreType /\ FramesOK /\ CountsOK /\ StackType
    BY TypeFacts DEF TaInv
  <1>2. PICK p, f, c : p = <<t, Len(stack[t])>> /\ f = Top(t) /\ c = f.ctx
    OBVIOUS
  <1>3. PICK l \in {"release", "destroy"} : At(t, l)
    BY DEF CloseNext
  <1>4. /\ stack[t] # <<>> /\ f.pc = l /\ NotWaiting(t) /\ p \in Calls /\ Call(p) = f
        /\ FormOK(f)
        /\ f.ctx # NULL => /\ f.ctx \in Ctxs /\ ctx[f.ctx] # NULL
                           /\ CtxFor(f, ctx[f.ctx]) /\ ContextOK(f.ctx)
    BY <1>2, <1>3, AtFacts
  <1>5. c # NULL /\ c \in Ctxs /\ CtxFor(f, ctx[c]) /\ ContextOK(c)
    BY <1>2, <1>3, <1>4 DEF FormOK
  <1>6. l = "release" => ~Has(c, "PTA")
    BY <1>4, <1>5 DEF CtxFor, ContextOK, Has
  <1>7. PICK k : k = <<c, Head(open_sessions[c])>>
    OBVIOUS
  <1>8. /\ open_sessions[c] # <<>>
        /\ tee_ta_get_session(t, k, TRUE, Frame("close", k, NULL, NULL, "enter"))
    BY <1>2, <1>7 DEF CloseNext
  <1>9. k \in Keys /\ k[1] = c
    <2>1. open_sessions[c] \in Seq(Ids) /\ c \in Lists
      BY <1>1, <1>5 DEF CoreType, Lists
    <2>2. Head(open_sessions[c]) \in Ids
      BY <1>8, <2>1
    <2> QED
      BY <1>7, <2>1, <2>2 DEF Keys
  <1>10. \A q \in Calls : Call(q).key[1] # c
    <2>1. \A q \in Calls : Below(q) # p
      BY <1>1, <1>2, TopIsLast
    <2>2. Call(p).pc \in {"release", "destroy"}
      BY <1>4
    <2> QED
      BY <1>1, <1>2, <1>4, <2>1, <2>2, ReleaserIsAlone
  <1>11. MayGet(t, k)
    BY <1>2, <1>4, <1>5, <1>6, <1>9, <1>10 DEF MayGet, InCall
  <1>12. RequestOK(Frame("close", k, NULL, NULL, "enter"), k, TRUE)
    BY <1>1, <1>9, FrameFacts
  <1> QED
    BY <1>4, <1>8, <1>9, <1>11, <1>12, GetKeeps

\* Only who waits changes.
LEMMA WaitStep ==
    ASSUME TaInv, ~halted, UNCHANGED <<setup, ctx, listVars, sess, siVars, stack, halted>>,
           NEW t \in Threads, stack[t] # <<>>, WaitsKept(t)
    PROVE  TaInv'
  <1>1. /\ CoreType /\ StackType /\ FramesOK /\ CountsOK /\ ListsOK /\ SessionsOK /\ ContextsOK
    BY TypeFacts DEF TaInv
  <1>2. PICK p, f, k : p = <<t, Len(stack[t])>> /\ f = Top(t) /\ k = f.key
    OBVIOUS
  <1>3. p \in Calls /\ p[1] = t /\ Call(p) = f /\ f \in FrameType
    BY <1>1, <1>2, TopFacts
  <1>4. k \in Keys /\ FormOK(f)
    BY <1>1, <1>2, <1>3, CallFacts DEF FrameType
  <1>5. /\ StackStep /\ p \in Calls' /\ Step(p, f, f)
        /\ \A u \in Threads \ {t} : stack'[u] = stack[u]
    <2>1. Calls' = Calls /\ \A q : Call(q)' = Call(q)
      BY DEF Calls, Call
    <2>2. \A q \in Calls : Below(q) # p
      BY <1>1, <1>2, TopIsLast
    <2>3. Step(p, f, f)
      BY <1>3, <2>1, <2>2 DEF Step
    <2>4. StackStep
      BY <1>1 DEF StackStep, StackType
    <2> QED
      BY <1>3, <2>1, <2>3, <2>4
  <1>6. OthersCtx(p)
    BY <1>1, OthersCtxSame
  <1>7. OthersSess(p)
    <2>1. ASSUME NEW q \in Calls, q # p, Refers(Call(q)), Call(q).key = k
          PROVE  SessLike(sess[k], sess'[k])
      BY <1>1, <2>1, CallFacts DEF SessLike
    <2> QED
      BY <1>1, <2>1, OthersSessStep
  <1>8. CallKept(p, f)
    <2>1. SessFor(p[1], f, sess'[f.key]) /\ (f.ctx # NULL => CtxFor(f, ctx'[f.ctx]))
      BY <1>1, <1>3 DEF FramesOK, FrameOK
    <2>2. BelowOK(p)'
      BY <1>1, <1>3, <1>5, <1>6, SetBelow
    <2>3. Weaker(f, f)
      BY DEF Weaker
    <2>4. \A q \in Calls : q # p => Apart(f, Call(q))'
      BY <1>1, <1>3, <1>5, <1>6, <2>3, WeakerApart
    <2> QED
      BY <1>4, <2>1, <2>2, <2>4 DEF CallKept
  <1>9. CountsKept(k, f, f)
    <2>1. \A c \in Ctxs : CountOf(ctx'[c]) = CountOf(ctx[c]) /\ CountOf(ctx[c]) \in Nat
      BY <1>1, UsersFacts
    <2>2. CountOf(sess'[k]) = CountOf(sess[k]) /\ CountOf(sess[k]) \in Nat
      BY <1>1, <1>4, ReferersFacts
    <2>3. \A c : IsOf(sess'[k], c) <=> IsOf(sess[k], c)
      BY DEF IsOf
    <2> QED
      BY <1>2, <2>1, <2>2, <2>3 DEF CountsKept, N
  <1>10. ListedKept(p, f, f)
    BY <1>1, <1>5 DEF ListedKept, SessionsOK, listVars
  <1>11. ContextsOK'
    <2>1. NULL \notin Ctxs /\ tee_ctxes' = tee_ctxes
      BY TaManagerAssumption DEF listVars
    <2> QED
      BY <1>1, <1>5, <1>6, <2>1, ContextsStep
  <1>12. ListsOK'
    BY <1>1 DEF ListsOK, listVars, Distinct, Contains, Has, Flags
  <1>13. InSingle(f)' <=> InSingle(f)
    BY DEF InSingle, Occupies, Has, Flags
  <1>14. TypesKept
    BY <1>1 DEF TypesKept, CoreType, listVars
  <1>15. halted' \in BOOLEAN /\ PanicOnlyOnReentry'
    BY <1>1, NotHalted
  <1> QED
    BY <1>3, <1>4, <1>5, <1>6, <1>7, <1>8, <1>9, <1>10, <1>11, <1>12, <1>13, <1>14, <1>15,
       GeneralStep

LEMMA WaitKeeps ==
    ASSUME TaInv, ~halted, UNCHANGED <<setup, ctx, listVars, sess, siVars, stack, halted>>,
           NEW t \in Threads, stack[t] # <<>>, NotWaiting(t), NEW cv \in CondVars, Wait(t, cv),
           cv[1] = "busy" => Top(t).pc = "enter" /\ Top(t).ctx = cv[2]
    PROVE  TaInv'
  <1>1. waitq \in QueueType
    BY DEF TaInv, CoreType, QueueType
  <1>2. waitq' = [waitq EXCEPT ![cv] = Append(@, t)]
    BY DEF Wait
  <1>3. Head(stack'[t]) = Top(t)
    BY DEF Top
  <1>4. WaitsKept(t)
    BY <1>1, <1>2, <1>3, FewerSame, WaitsAdd
  <1> QED
    BY <1>4, WaitStep

\* The call comes to tee_ta_try_set_busy() and has to wait.
Waits(t, f, g) ==
    /\ stack' = [stack EXCEPT ![t][1] = g] /\ stack'[t] # <<>> /\ Head(stack'[t]) = g
    /\ g.op = f.op /\ g.key = f.key /\ g.uuid = f.uuid /\ g.ctx = f.ctx /\ g.pc = f.pc
    /\ g.busy <=> f.busy

LEMMA OkSet ==
    ASSUME TaInv, NEW t \in Threads, stack[t] # <<>>, NEW f, f = Top(t),
           stack' = [stack EXCEPT ![t][1].ok = FALSE]
    PROVE  \E g \in FrameType : Waits(t, f, g)
  <1>1. StackType
    BY TypeFacts DEF TaInv
  <1>2. stack \in [Threads -> Seq(FrameType)] /\ stack[t] \in Seq(FrameType)
        /\ Len(stack[t]) \in Nat \ {0}
    BY <1>1 DEF StackType
  <1>3. f = stack[t][1] /\ f \in FrameType
    BY <1>2 DEF Top
  <1>4. PICK g : g = [f EXCEPT !.ok = FALSE]
    OBVIOUS
  <1>5. g \in FrameType /\ g.op = f.op /\ g.key = f.key /\ g.uuid = f.uuid
        /\ g.ctx = f.ctx /\ g.pc = f.pc /\ g.busy = f.busy
    BY <1>3, <1>4 DEF FrameType
  <1>6. stack' = [stack EXCEPT ![t][1] = g]
    BY <1>2, <1>3, <1>4
  <1>7. stack'[t] = [stack[t] EXCEPT ![1] = g]
    BY <1>2, <1>6
  <1>8. stack'[t] # <<>> /\ Head(stack'[t]) = g
    BY <1>2, <1>5, <1>7
  <1> QED
    BY <1>5, <1>6, <1>8 DEF Waits

LEMMA SetBusyWaitKeeps ==
    ASSUME TaInv, ~halted, UNCHANGED setup, NEW t \in Threads, SetBusyWait(t)
    PROVE  TaInv'
  <1>1. /\ At(t, "enter") /\ UNCHANGED <<ctx, listVars, sess, siVars, halted>>
        /\ stack' = [stack EXCEPT ![t][1].ok = FALSE]
    BY DEF SetBusyWait
  <1>2. PICK p, f : p = <<t, Len(stack[t])>> /\ f = Top(t)
    OBVIOUS
  <1>3. /\ stack[t] # <<>> /\ f.pc = "enter" /\ NotWaiting(t) /\ waitq \in QueueType
        /\ FormOK(f)
        /\ f.ctx # NULL => f.ctx \in Ctxs /\ CtxFor(f, ctx[f.ctx])
    BY <1>1, <1>2, AtFacts
  <1>4. CoreType /\ f.ctx # NULL
    BY <1>3 DEF TaInv, FormOK
  <1>5. PICK g \in FrameType : Waits(t, f, g)
    <2>1. stack' = [stack EXCEPT ![t][1].ok = FALSE]
      BY <1>1
    <2> QED
      BY <1>2, <1>3, <2>1, OkSet
  <1>6. PICK cv \in CondVars : Wait(t, cv) /\ (cv[1] = "busy" => cv[2] = f.ctx)
    <2>1. Wait(t, tee_ta_cv) \/ Wait(t, busy_cv(f.ctx))
      BY <1>2 DEF SetBusyWait
    <2> QED
      BY <1>3, <1>4, <2>1, CondVarsFacts
  <1>7. WaitsKept(t)
    <2>1. waitq' = [waitq EXCEPT ![cv] = Append(@, t)] /\ Fewer(waitq, waitq)
      BY <1>3, <1>6, FewerSame DEF Wait
    <2>2. stack'[t] # <<>> /\ Head(stack'[t]).pc = "enter" /\ Head(stack'[t]).ctx = f.ctx
      BY <1>3, <1>5 DEF Waits
    <2> QED
      BY <1>3, <1>6, <2>1, <2>2, WaitsAdd
  <1>8. halted' \in BOOLEAN /\ PanicOnlyOnReentry'
    BY <1>1, <1>4, NotHalted
  <1>9. sess' \in [Keys -> SessType \cup {NULL}] /\ \A j \in Keys : SessSame(sess[j], sess'[j])
    BY <1>1, <1>4 DEF CoreType, SessSame
  <1>10. Weaker(f, g) /\ (Refers(f) => Refers(g)) /\ FormOK(g) /\ CtxFor(g, ctx[g.ctx])
    BY <1>3, <1>4, <1>5 DEF Waits, Weaker, Refers, Owns, FormOK, CtxFor
  <1>11. /\ stack' = [stack EXCEPT ![t][1] = g] /\ g.pc = "enter" /\ (g.busy <=> f.busy)
         /\ UNCHANGED <<setup, ctx, listVars, siVars>>
    BY <1>1, <1>3, <1>5 DEF Waits
  <1> QED
    BY <1>2, <1>3, <1>4, <1>7, <1>8, <1>9, <1>10, <1>11, QuietStep

LEMMA SpuriousKeeps ==
    ASSUME TaInv, ~halted, UNCHANGED setup, NEW t \in Threads, SpuriousWakeup(t)
    PROVE  TaInv'
  <1>1. /\ Waiting(t) /\ UNCHANGED <<ctx, listVars, sess, siVars, stack, halted>>
        /\ waitq' = [cv \in CondVars |-> RemoveFirst(waitq[cv], t)]
    BY DEF SpuriousWakeup
  <1>2. CoreType /\ WaitsOK /\ waitq \in QueueType
    BY DEF TaInv, CoreType, QueueType
  <1>3. stack[t] # <<>>
    BY <1>1, <1>2 DEF WaitsOK, Waiting
  <1>4. ASSUME NEW cv \in CondVars
        PROVE  /\ waitq'[cv] \in Seq(Threads)
               /\ \A u : Contains(waitq'[cv], u) => Contains(waitq[cv], u)
    <2>1. waitq[cv] \in Seq(Threads)
      BY <1>2 DEF QueueType
    <2> QED
      BY <1>1, <2>1, RemoveFirstFacts
  <1>5. waitq' \in [CondVars -> Seq(Threads)]
    BY <1>1, <1>4
  <1>6. ASSUME NEW cv \in CondVars, NEW u \in Threads, Contains(waitq'[cv], u)
        PROVE  \/ u # t /\ Contains(waitq[cv], u)
               \/ /\ u = t /\ stack'[t] # <<>>
                  /\ cv[1] = "busy" => /\ Head(stack'[t]).pc = "enter"
                                       /\ Head(stack'[t]).ctx = cv[2]
    <2>1. Contains(waitq[cv], u)
      BY <1>4, <1>6
    <2> QED
      BY <1>1, <1>2, <1>3, <2>1 DEF WaitsOK, WaitsFor, Top
  <1>7. WaitsKept(t)
    BY <1>5, <1>6 DEF WaitsKept
  <1> QED
    BY <1>1, <1>3, <1>7, WaitStep

\* A call returns and no longer refers to session k.
PutSession(k) ==
    /\ sess' \in [Keys -> SessType \cup {NULL}]
    /\ \A j \in Keys : j # k => sess'[j] = sess[j]
    /\ sess'[k] # NULL /\ sess'[k].ctx = sess[k].ctx /\ sess'[k].ref = sess[k].ref - 1

LEMMA PutStep ==
    ASSUME TaInv, UNCHANGED <<setup, ctx, listVars, siVars>>, NEW t \in Threads, stack[t] # <<>>,
           NEW p, p = <<t, Len(stack[t])>>, NEW f, f = Top(t), Return(t),
           ~f.busy, Refers(f), f.pc \notin {"lookup", "initfail"},
           NEW k, k = f.key, PutSession(k),
           \A q \in Calls : q # p /\ Refers(Call(q)) /\ Call(q).key = k =>
               /\ Call(q).op = "open" => sess'[k].given = sess[k].given
               /\ Owns(Call(q)) => sess'[k].lock = sess[k].lock,
           sess'[k].ref \in Nat, WaitsKept(t), halted' \in BOOLEAN, PanicOnlyOnReentry'
    PROVE  TaInv'
  <1>1. /\ CoreType /\ StackType /\ FramesOK /\ CountsOK /\ ListsOK /\ SessionsOK /\ ContextsOK
    BY TypeFacts DEF TaInv
  <1>2. p \in Calls /\ p[1] = t /\ Call(p) = f /\ f \in FrameType
    BY <1>1, TopFacts
  <1>3. k \in Keys /\ sess[k] # NULL /\ sess[k] \in SessType
    BY <1>1, <1>2, CallFacts
  <1>4. /\ StackStep /\ p \notin Calls' /\ Step(p, f, NoCall)
        /\ \A u \in Threads \ {t} : stack'[u] = stack[u]
    <2>1. stack' = [stack EXCEPT ![t] = Tail(@)]
      BY DEF Return
    <2> QED
      BY <1>1, <2>1, PopStep
  <1>5. OthersCtx(p)
    BY <1>1, OthersCtxSame
  <1>6. OthersSess(p)
    <2>1. ASSUME NEW q \in Calls, q # p PROVE SessFor(q[1], Call(q), sess'[Call(q).key])
      <3>1. SessFor(q[1], Call(q), sess[Call(q).key]) /\ Call(q).key \in Keys
        BY <1>1, CallFacts DEF FramesOK, FrameOK, FrameType
      <3>2. CASE Call(q).key # k
        BY <3>1, <3>2 DEF PutSession
      <3>3. CASE Call(q).key = k
        BY <2>1, <3>1, <3>3 DEF SessFor, PutSession
      <3> QED
        BY <3>2, <3>3
    <2> QED
      BY <2>1 DEF OthersSess
  <1>7. CountsKept(k, f, NoCall)
    <2>1. ASSUME NEW c \in Ctxs
          PROVE  /\ CountOf(ctx'[c]) = CountOf(ctx[c]) /\ CountOf(ctx[c]) \in Nat
                 /\ IsOf(sess[k], c) <=> IsOf(sess'[k], c)
                 /\ ~Closing(f, c) /\ ~Closing(NoCall, c)
      BY <1>1, <1>3, NoCallFacts, UsersFacts DEF IsOf, Closing, PutSession
    <2>2. CountOf(sess'[k]) = sess'[k].ref /\ CountOf(sess[k]) = sess[k].ref
      BY <1>3 DEF CountOf, PutSession
    <2>3. sess[k].ref \in Nat
      BY <1>3 DEF SessType
    <2>4. CountOf(sess'[k]) + N(Refers(f)) = CountOf(sess[k]) + N(Refers(NoCall))
      BY <2>2, <2>3, NoCallFacts DEF N, PutSession
    <2>5. \A c \in Ctxs :
             /\ CountOf(ctx'[c]) \in Nat
             /\ CountOf(ctx'[c]) + N(IsOf(sess[k], c)) + N(Closing(f, c))
                = CountOf(ctx[c]) + N(IsOf(sess'[k], c)) + N(Closing(NoCall, c))
      BY <2>1 DEF N
    <2> QED
      BY <2>2, <2>4, <2>5, NoCallFacts DEF CountsKept, PutSession
  <1>8. ListedKept(p, f, NoCall)
    <2>1. ASSUME NEW j \in Keys, sess'[j] # NULL
          PROVE  sess[j] # NULL /\ sess[j].ctx = sess'[j].ctx
      BY <1>3, <2>1 DEF PutSession
    <2>2. ASSUME NEW j \in Keys, sess'[j] # NULL
          PROVE  Contains(open_sessions'[j[1]], j[2])
      BY <1>1, <2>1, <2>2 DEF SessionsOK, listVars
    <2> QED
      BY <2>1, <2>2 DEF ListedKept, Unready
  <1>9. ContextsOK'
    <2>1. ASSUME NEW d \in Ctxs
          PROVE  ~OccAt(NoCall, d) /\ ~OccAt(f, d) /\ ~Frees(f, d)
      BY NoCallFacts DEF OccAt, Frees, Refers
    <2>2. NULL \notin Ctxs /\ tee_ctxes' = tee_ctxes
      BY TaManagerAssumption DEF listVars
    <2> QED
      BY <1>1, <1>4, <1>5, <2>1, <2>2, ContextsStep
  <1>10. ListsOK'
    BY <1>1 DEF ListsOK, listVars, Distinct, Contains, Has, Flags
  <1>11. InSingle(NoCall)' <=> InSingle(f)
    BY DEF InSingle, Occupies, NoCall
  <1>12. TypesKept
    BY <1>1 DEF TypesKept, CoreType, listVars, PutSession
  <1> QED
    BY <1>2, <1>3, <1>4, <1>5, <1>6, <1>7, <1>8, <1>9, <1>10, <1>11, <1>12, GeneralStep

LEMMA DecFewer ==
    ASSUME NEW q \in QueueType, NEW k \in Keys
    PROVE  Fewer(q, dec_session_ref_count(q, k))
  BY SignalFewer, FewerSame, CondVarsFacts DEF dec_session_ref_count

LEMMA GetLockKeeps ==
    ASSUME TaInv, ~halted, UNCHANGED setup, NEW t \in Threads, GetLock(t)
    PROVE  TaInv'
  <1>1. At(t, "locking") /\ UNCHANGED <<ctx, listVars, siVars, halted>>
    BY DEF GetLock
  <1>2. PICK p, f, k : p = <<t, Len(stack[t])>> /\ f = Top(t) /\ k = f.key
    OBVIOUS
  <1>3. /\ stack[t] # <<>> /\ f.pc = "locking" /\ NotWaiting(t) /\ waitq \in QueueType
        /\ p \in Calls /\ p[1] = t /\ Call(p) = f /\ f \in FrameType /\ k \in Keys
        /\ FormOK(f)
        /\ Refers(f) => sess[k] # NULL /\ sess[k] \in SessType
    BY <1>1, <1>2, AtFacts
  <1>4. /\ CoreType /\ StackType /\ FramesOK /\ CountsOK /\ SessionsOK
        /\ f.op \in {"invoke", "close"} /\ ~f.busy /\ f.ctx = NULL /\ Refers(f)
    BY <1>3, TypeFacts DEF TaInv, FormOK, Refers, FrameType, Ops
  <1>5. sess[k] # NULL /\ sess[k] \in SessType /\ sess[k].ref \in Nat /\ sess[k].ref > 0
    <2>1. p \in Referers(k)
      BY <1>2, <1>3, <1>4 DEF Referers
    <2> QED
      BY <1>3, <1>4, <2>1, ReferersFacts
  <1>6. halted' \in BOOLEAN /\ PanicOnlyOnReentry'
    BY <1>1, <1>4, NotHalted
  <1>7. CASE /\ sess' = [sess EXCEPT ![k].ref = @ - 1]
             /\ waitq' = dec_session_ref_count(waitq, k)
             /\ Return(t)
    <2>1. PICK n : n = sess[k].ref - 1
      OBVIOUS
    <2>2. PICK r : r = [sess[k] EXCEPT !.ref = n]
      OBVIOUS
    <2>3. /\ r \in SessType /\ r.ctx = sess[k].ctx /\ r.given = sess[k].given /\ r.ref = n
          /\ r.lock = sess[k].lock /\ n \in Nat /\ r # NULL
      BY <1>5, <2>1, <2>2, TaManagerAssumption DEF SessType
    <2>4. sess' = [sess EXCEPT ![k] = r]
      BY <1>3, <1>4, <1>7, <2>1, <2>2 DEF CoreType
    <2>5. PutSession(k) /\ sess'[k] = r
      BY <1>3, <1>4, <2>1, <2>3, <2>4 DEF CoreType, PutSession
    <2>6. WaitsKept(t) /\ Return(t)
      BY <1>3, <1>7, DecFewer, WaitsFewer
    <2>7. /\ sess'[k].given = sess[k].given /\ sess'[k].lock = sess[k].lock
          /\ sess'[k].ref \in Nat /\ f.pc \notin {"lookup", "initfail"}
      BY <1>3, <2>3, <2>5
    <2> QED
      BY <1>1, <1>2, <1>3, <1>4, <1>6, <2>5, <2>6, <2>7, PutStep
  <1>8. CASE Wait(t, lock_cv(k)) /\ UNCHANGED <<sess, stack>>
    <2>1. PICK cv : cv = lock_cv(k)
      OBVIOUS
    <2>2. cv \in CondVars /\ cv[1] # "busy"
      BY <1>3, <2>1, CondVarsFacts
    <2> QED
      BY <1>1, <1>3, <1>8, <2>1, <2>2, WaitKeeps
  <1>9. CASE /\ sess[k].lock = NULL
             /\ sess' = [sess EXCEPT ![k].lock = t]
             /\ stack' = [stack EXCEPT ![t][1].pc = "enter", ![t][1].ctx = sess[k].ctx]
             /\ UNCHANGED waitq
    <2>1. sess[k].ctx # NULL
      BY <1>3, <1>4, <1>5, <1>9, FreeIsReady
    <2>2. PICK g : g = [f EXCEPT !.pc = "enter", !.ctx = sess[k].ctx]
      OBVIOUS
    <2>3. /\ g \in FrameType /\ g.key = k /\ g.op = f.op /\ g.pc = "enter" /\ ~g.busy
          /\ g.ctx = sess[k].ctx
      BY <1>2, <1>3, <1>4, <1>5, <2>2 DEF FrameType, PCs, SessType
    <2>4. FormOK(g) /\ Refers(g) /\ Owns(g) /\ g.op # "open"
      BY <1>4, <2>1, <2>3 DEF FormOK, Refers, Owns
    <2>5. stack' = [stack EXCEPT ![t][1] = g]
      <3>1. stack[t] \in Seq(FrameType) /\ Len(stack[t]) \in Nat \ {0}
        BY <1>3, <1>4 DEF StackType
      <3>2. f = stack[t][1]
        BY <1>2, <3>1 DEF Top
      <3> QED
        BY <1>9, <2>2, <3>1, <3>2
    <2>6. /\ StackStep /\ p \in Calls' /\ Step(p, f, g)
          /\ \A u \in Threads \ {t} : stack'[u] = stack[u]
      <3>1. StackType /\ stack[t] # <<>> /\ g \in FrameType
        BY <1>3, <1>4, <2>3
      <3> QED
        BY <1>2, <2>5, <3>1, SetStep
    <2>7. OthersCtx(p)
      BY <1>1, <1>4, OthersCtxSame
    <2>8. BelowOK(p)'
      BY <1>2, <1>3, <1>4, <2>3, <2>6, <2>7, SetBelow
    <2>9. \A q \in Calls : q # p /\ Refers(Call(q)) /\ Call(q).key = k =>
              Call(q).op # "open" \/ Early
      BY <1>2, <1>3, <1>4, OpenerIsAlone
    <2>10. GetSession(k, t, f, g)
      BY <1>3, <1>4, <1>5, <1>9, TaManagerAssumption DEF GetSession, CoreType, SessType
    <2>11. \A j : ~Unready(f, j)
      BY <1>3 DEF Unready
    <2>12. WaitsKept(t)
      BY <1>3, <1>9, FewerSame, WaitsFewer
    <2>13. /\ UNCHANGED <<setup, ctx, listVars, siVars>> /\ p[1] = t /\ k \in Keys
           /\ f.ctx = NULL /\ ~f.busy /\ f.key = k /\ sess[k] # NULL
      BY <1>1, <1>2, <1>3, <1>4, <1>5
    <2> QED
      BY <1>6, <2>3, <2>4, <2>6, <2>8, <2>9, <2>10, <2>11, <2>12, <2>13, GetStep
  <1>10. f.op # "dump"
    BY <1>4
  <1> QED
    BY <1>2, <1>7, <1>8, <1>9, <1>10 DEF GetLock

\* A cancellation comes from normal world, and is all its thread does.
LEMMA CancelIsAlone ==
    ASSUME CoreType, FramesOK, NEW t \in Threads, NEW p \in Calls, p = <<t, Len(stack[t])>>,
           Call(p).op = "cancel", NEW q \in Calls, q[1] = t
    PROVE  q = p
  <1>1. StackType /\ Call(p).key[1] = NW
    BY TypeFacts, CallFacts DEF FormOK
  <1>2. Len(stack[t]) \in Nat /\ q = <<q[1], q[2]>> /\ q[2] \in 1..Len(stack[t])
    <2>1. q = <<q[1], q[2]>> /\ Len(stack[t]) \in Nat
      BY <1>1, CallsFacts
    <2> QED
      BY <1>1, <2>1, CallsFacts
  <1>3. p[2] = 1
    <2>1. ASSUME p[2] # 1 PROVE FALSE
      <3>1. Below(p) \in Calls /\ Call(Below(p)).ctx # NULL /\ Call(p).key[1] = Call(Below(p)).ctx
        BY <1>1, <2>1, BelowFacts
      <3>2. Call(Below(p)).ctx \in Ctxs
        BY <3>1, CallFacts
      <3> QED
        BY <1>1, <3>1, <3>2, TaManagerAssumption
    <2> QED
      BY <2>1
  <1>4. Len(stack[t]) = 1
    BY <1>3
  <1>5. q[2] = 1
    BY <1>2, <1>4
  <1> QED
    BY <1>2, <1>4, <1>5

LEMMA PutKeeps ==
    ASSUME TaInv, ~halted, UNCHANGED setup, NEW t \in Threads, tee_ta_put_session(t)
    PROVE  TaInv'
  <1>1. At(t, "put") /\ UNCHANGED <<ctx, listVars, siVars, halted>>
    BY DEF tee_ta_put_session
  <1>2. PICK p, f, k : p = <<t, Len(stack[t])>> /\ f = Top(t) /\ k = f.key
    OBVIOUS
  <1>3. /\ stack[t] # <<>> /\ f.pc = "put" /\ NotWaiting(t) /\ waitq \in QueueType
        /\ p \in Calls /\ p[1] = t /\ Call(p) = f /\ f \in FrameType /\ k \in Keys
        /\ FormOK(f)
    BY <1>1, <1>2, AtFacts
  <1>4. /\ CoreType /\ StackType /\ FramesOK /\ CountsOK
        /\ f.op \in {"open", "invoke", "cancel"} /\ ~f.busy /\ Refers(f)
        /\ f.op # "cancel" => Owns(f)
    BY <1>3, TypeFacts DEF TaInv, FormOK, Refers, FrameType, Ops, Owns
  <1>5. sess[k] # NULL /\ sess[k] \in SessType /\ sess[k].ref \in Nat /\ sess[k].ref > 0
    <2>1. p \in Referers(k)
      BY <1>2, <1>3, <1>4 DEF Referers
    <2> QED
      BY <1>3, <1>4, <2>1, ReferersFacts, TypeFacts
  <1>6. PICK mine : mine = (sess[k].lock = t)
    OBVIOUS
  <1>7. PICK l, n, x, y : /\ l = IF mine THEN NULL ELSE sess[k].lock
                          /\ n = sess[k].ref - 1
                          /\ x = (sess[k].cancel \/ f.op = "cancel")
                          /\ y = (sess[k].given \/ f.op = "open")
    OBVIOUS
  <1>8. l \in Threads \cup {NULL} /\ n \in Nat
    BY <1>5, <1>7 DEF SessType
  <1>9. x \in BOOLEAN /\ y \in BOOLEAN
    BY <1>7
  <1>10. PICK r : r = [sess[k] EXCEPT !.lock = l, !.ref = n, !.cancel = x, !.given = y]
    OBVIOUS
  <1>11. /\ r \in SessType /\ r.ctx = sess[k].ctx /\ r.ref = n /\ r # NULL /\ r.lock = l /\ r.given = y
    BY <1>5, <1>8, <1>9, <1>10, TaManagerAssumption DEF SessType
  <1>12. /\ PutSession(k) /\ sess'[k] = r
    <2>1. sess' = [sess EXCEPT ![k] = r]
      <3>1. sess' = [sess EXCEPT ![k].lock = IF mine THEN NULL ELSE @, ![k].ref = @ - 1,
                                 ![k].cancel = @ \/ f.op = "cancel",
                                 ![k].given = @ \/ f.op = "open"]
        BY <1>2, <1>6 DEF tee_ta_put_session
      <3> QED
        BY <1>3, <1>4, <1>5, <1>7, <1>10, <3>1 DEF CoreType, SessType
    <2> QED
      BY <1>3, <1>4, <1>7, <1>11, <2>1 DEF CoreType, PutSession
  <1>13. WaitsKept(t)
    <2>1. PICK q : q = IF mine THEN Signal(waitq, lock_cv(k)) ELSE waitq
      OBVIOUS
    <2>2. lock_cv(k) \in CondVars
      BY <1>3, CondVarsFacts
    <2>3. Fewer(waitq, q)
      BY <1>3, <2>1, <2>2, SignalFewer, FewerSame
    <2>4. waitq' = dec_session_ref_count(q, k)
      BY <1>2, <1>6, <2>1 DEF tee_ta_put_session
    <2>5. Fewer(q, waitq')
      BY <1>3, <2>3, <2>4, DecFewer DEF Fewer
    <2> QED
      BY <1>3, <2>3, <2>5, FewerTwice, WaitsFewer
  <1>14. Return(t)
    BY <1>2, <1>4 DEF tee_ta_put_session
  <1>15. halted' \in BOOLEAN /\ PanicOnlyOnReentry'
    BY <1>1, <1>4, NotHalted
  <1>16. ASSUME NEW q \in Calls, q # p, Refers(Call(q)), Call(q).key = k
         PROVE  /\ Call(q).op = "open" => sess'[k].given = sess[k].given
                /\ Owns(Call(q)) => sess'[k].lock = sess[k].lock
    <2>1. Call(q).op = "open" => f.op # "open"
      BY <1>2, <1>3, <1>4, <1>16, OpenerIsAlone
    <2>2. Call(q).op = "open" => sess'[k].given = sess[k].given
      BY <1>5, <1>7, <1>11, <1>12, <2>1 DEF SessType
    <2>3. ASSUME Owns(Call(q)), mine PROVE FALSE
      <3>1. sess[k].lock = q[1]
        BY <1>4, <1>16, <2>3, CallFacts
      <3>2. q[1] = t
        BY <1>6, <2>3, <3>1
      <3>3. f.op # "cancel"
        BY <1>2, <1>3, <1>4, <1>16, <3>2, CancelIsAlone
      <3>4. Apart(Call(p), Call(q))
        BY <1>3, <1>4, <1>16 DEF FramesOK
      <3> QED
        BY <1>2, <1>3, <1>4, <1>16, <2>3, <3>3, <3>4 DEF Apart
    <2> QED
      BY <1>7, <1>11, <1>12, <2>2, <2>3
  <1>17. sess'[k].ref \in Nat /\ f.pc \notin {"lookup", "initfail"}
    BY <1>3, <1>11, <1>12, <1>8
  <1> QED
    BY <1>1, <1>2, <1>3, <1>4, <1>12, <1>13, <1>14, <1>15, <1>16, <1>17, PutStep

\* The session of a call that closes it is freed.
LEMMA UnlinkedKeeps ==
    ASSUME TaInv, ~halted, UNCHANGED <<setup, ctx, tee_ctxes, siVars, halted>>, NEW t \in Threads,
           At(t, "unlink") \/ At(t, "unlinking"), LastReference(Top(t).key),
           Unlinked(t, Top(t).key), WaitsKept(t)
    PROVE  TaInv'
  <1>1. PICK p, f, k, c : p = <<t, Len(stack[t])>> /\ f = Top(t) /\ k = f.key /\ c = f.ctx
    OBVIOUS
  <1>2. /\ stack[t] # <<>> /\ f.pc \in {"unlink", "unlinking"}
        /\ p \in Calls /\ p[1] = t /\ Call(p) = f /\ f \in FrameType /\ k \in Keys /\ FormOK(f)
        /\ c # NULL => c \in Ctxs /\ ctx[c] # NULL
    <2>1. PICK l : At(t, l) /\ l \in {"unlink", "unlinking"}
      OBVIOUS
    <2> QED
      BY <1>1, <2>1, AtFacts
  <1>3. /\ CoreType /\ StackType /\ FramesOK /\ CountsOK /\ ListsOK /\ SessionsOK /\ ContextsOK
        /\ f.op = "close" /\ Refers(f) /\ c # NULL
    BY <1>1, <1>2, TypeFacts DEF TaInv, FormOK, Refers
  <1>4. sess[k] # NULL /\ sess[k].ctx = c /\ sess[k].ref = 1 /\ c \in Ctxs /\ ctx[c] # NULL
    BY <1>1, <1>2, <1>3, CallFacts DEF LastReference
  <1>5. \A q \in Calls : q # p /\ Refers(Call(q)) => Call(q).key # k
    <2>1. CountOf(sess[k]) = 1
      BY <1>4 DEF CountOf
    <2>2. \A q, r \in Referers(k) : q = r
      BY <1>2, <1>3, <2>1, ReferersFacts
    <2> QED
      BY <1>1, <1>2, <1>3, <2>2 DEF Referers
  <1>6. PICK l : l = IF f.busy THEN "clear" ELSE "drop"
    OBVIOUS
  <1>7. PICK g \in FrameType : /\ stack' = [stack EXCEPT ![t][1] = g]
                               /\ g.op = f.op /\ g.key = k /\ g.ctx = c /\ g.pc = l /\ g.busy = f.busy
    <2>1. Goto(t, l) /\ l \in PCs
      BY <1>1, <1>6 DEF Unlinked, PCs
    <2>2. StackType /\ stack[t] # <<>>
      BY <1>2, <1>3
    <2> QED
      BY <1>1, <2>1, <2>2, GotoSet
  <1>8. /\ StackStep /\ p \in Calls' /\ Step(p, f, g)
        /\ \A u \in Threads \ {t} : stack'[u] = stack[u]
    <2>1. StackType /\ stack[t] # <<>>
      BY <1>2, <1>3
    <2> QED
      BY <1>1, <1>7, <2>1, SetStep
  <1>9. FormOK(g) /\ ~Refers(g) /\ g.pc # "destroy" /\ Weaker(f, g)
    BY <1>1, <1>2, <1>3, <1>6, <1>7 DEF FormOK, Refers, Weaker, Owns
  <1>10. /\ sess' \in [Keys -> SessType \cup {NULL}] /\ sess'[k] = NULL
         /\ \A j \in Keys : j # k => sess'[j] = sess[j]
    <2>1. sess' = [sess EXCEPT ![k] = NULL]
      BY <1>1 DEF Unlinked
    <2> QED
      BY <1>2, <1>3, <2>1 DEF CoreType
  <1>11. /\ open_sessions' \in [Lists -> Seq(Ids)]
         /\ \A x \in Lists : Distinct(open_sessions'[x])
         /\ \A j \in Keys : j # k /\ sess[j] # NULL => Contains(open_sessions'[j[1]], j[2])
    <2>1. open_sessions' = [open_sessions EXCEPT ![k[1]] = RemoveFirst(@, k[2])]
      BY <1>1 DEF Unlinked
    <2> QED
      BY <1>2, <1>3, <2>1, Unlisting
  <1>12. TypesKept
    BY <1>3, <1>10, <1>11 DEF TypesKept, CoreType
  <1>13. OthersSess(p)
    BY <1>3, <1>5, <1>10, OthersSessStep
  <1>14. OthersCtx(p)
    BY <1>3, OthersCtxSame
  <1>15. CallKept(p, g)
    <2>1. SessFor(p[1], g, sess'[g.key])
      BY <1>9 DEF SessFor
    <2>2. CtxFor(g, ctx'[g.ctx])
      BY <1>4, <1>6, <1>7 DEF CtxFor
    <2>3. BelowOK(p)'
      BY <1>1, <1>2, <1>3, <1>7, <1>8, <1>14, SetBelow
    <2>4. \A q \in Calls : q # p => Apart(g, Call(q))'
      BY <1>2, <1>3, <1>8, <1>9, <1>14, WeakerApart
    <2> QED
      BY <1>9, <2>1, <2>2, <2>3, <2>4 DEF CallKept
  <1>16. CountsKept(k, f, g)
    <2>1. ASSUME NEW d \in Ctxs
          PROVE  /\ CountOf(ctx'[d]) = CountOf(ctx[d]) /\ CountOf(ctx[d]) \in Nat
                 /\ IsOf(sess[k], d) <=> d = c
                 /\ Closing(g, d) <=> d = c
                 /\ ~IsOf(sess'[k], d) /\ ~Closing(f, d)
      BY <1>3, <1>4, <1>7, <1>9, <1>10, UsersFacts DEF IsOf, Closing
    <2>2. CountOf(sess'[k]) = 0 /\ CountOf(sess[k]) = 1
      BY <1>4, <1>10 DEF CountOf
    <2>3. \A d \in Ctxs :
             /\ CountOf(ctx'[d]) \in Nat
             /\ CountOf(ctx'[d]) + N(IsOf(sess[k], d)) + N(Closing(f, d))
                = CountOf(ctx[d]) + N(IsOf(sess'[k], d)) + N(Closing(g, d))
      BY <2>1 DEF N
    <2>4. N(Refers(f)) = 1 /\ N(Refers(g)) = 0
      BY <1>3, <1>9 DEF N
    <2> QED
      BY <1>1, <1>9, <1>10, <2>2, <2>3, <2>4 DEF CountsKept
  <1>17. ListedKept(p, f, g)
    <2>1. ASSUME NEW j \in Keys, sess'[j] # NULL
          PROVE  /\ Contains(open_sessions'[j[1]], j[2])
                 /\ sess[j] = sess'[j] /\ ~Unready(f, j)
      BY <1>1, <1>10, <1>11, <2>1 DEF Unready
    <2> QED
      BY <2>1 DEF ListedKept
  <1>18. ContextsOK'
    <2>1. ASSUME NEW d \in Ctxs
          PROVE  (OccAt(g, d) <=> OccAt(f, d)) /\ ~Frees(f, d)
      BY <1>1, <1>2, <1>7 DEF OccAt, Frees
    <2>2. NULL \notin Ctxs
      BY TaManagerAssumption
    <2> QED
      BY <1>3, <1>8, <1>14, <2>1, <2>2, ContextsStep
  <1>19. ListsOK'
    BY <1>3, <1>11, ListsStep DEF ListsOK
  <1>20. InSingle(g)' <=> InSingle(f)
    BY <1>1, <1>7 DEF InSingle, Occupies, Has, Flags
  <1>21. halted' \in BOOLEAN /\ PanicOnlyOnReentry'
    BY <1>3, NotHalted
  <1>22. p[1] = t /\ k \in Keys
    BY <1>2
  <1> QED
    BY <1>8, <1>12, <1>13, <1>14, <1>15, <1>16, <1>17, <1>18, <1>19, <1>20, <1>21, <1>22,
       GeneralStep

LEMMA UnlinkKeeps ==
    ASSUME TaInv, ~halted, UNCHANGED setup, NEW t \in Threads, tee_ta_unlink_session(t)
    PROVE  TaInv'
  <1>1. At(t, "unlink") /\ UNCHANGED <<ctx, tee_ctxes, siVars, halted>>
    BY DEF tee_ta_unlink_session
  <1>2. PICK p, f, k : p = <<t, Len(stack[t])>> /\ f = Top(t) /\ k = f.key
    OBVIOUS
  <1>3. /\ stack[t] # <<>> /\ f.pc = "unlink" /\ NotWaiting(t) /\ waitq \in QueueType
        /\ p \in Calls /\ p[1] = t /\ Call(p) = f /\ f \in FrameType /\ k \in Keys
        /\ FormOK(f)
        /\ f.ctx # NULL => CtxFor(f, ctx[f.ctx])
        /\ Refers(f) => sess[k] # NULL /\ sess[k] \in SessType
    BY <1>1, <1>2, AtFacts
  <1>4. CoreType /\ StackType /\ f.op = "close" /\ f.ctx # NULL /\ Refers(f)
    BY <1>3, TypeFacts DEF TaInv, FormOK, Refers
  <1>5. PICK q : q = Broadcast(waitq, lock_cv(k))
    OBVIOUS
  <1>6. Fewer(waitq, q)
    BY <1>3, <1>5, BroadcastFewer, CondVarsFacts
  <1>7. CASE LastReference(k) /\ Unlinked(t, k) /\ waitq' = q
    <2>1. WaitsKept(t)
      BY <1>3, <1>6, <1>7, WaitsFewer
    <2> QED
      BY <1>1, <1>2, <1>7, <2>1, UnlinkedKeeps
  <1>8. CASE /\ sess' = [sess EXCEPT ![k].unlink = TRUE]
             /\ waitq' = [q EXCEPT ![refc_cv(k)] = Append(@, t)]
             /\ Goto(t, "unlinking")
             /\ UNCHANGED open_sessions
    <2>1. PICK g \in FrameType : /\ stack' = [stack EXCEPT ![t][1] = g]
                                 /\ g.op = f.op /\ g.key = f.key /\ g.uuid = f.uuid /\ g.ctx = f.ctx
                                 /\ g.pc = "unlinking" /\ g.busy = f.busy
      <3>1. "unlinking" \in PCs
        BY DEF PCs
      <3> QED
        BY <1>2, <1>3, <1>4, <1>8, <3>1, GotoSet
    <2>2. /\ Weaker(f, g) /\ Refers(g) /\ FormOK(g) /\ CtxFor(g, ctx[g.ctx])
      BY <1>3, <1>4, <2>1 DEF Weaker, Refers, Owns, FormOK, CtxFor
    <2>3. sess' \in [Keys -> SessType \cup {NULL}] /\ \A j \in Keys : SessSame(sess[j], sess'[j])
      <3>1. PICK r : r = [sess[k] EXCEPT !.unlink = TRUE]
        OBVIOUS
      <3>2. /\ r \in SessType /\ r # NULL /\ r.ctx = sess[k].ctx /\ r.ref = sess[k].ref
            /\ r.given = sess[k].given /\ r.lock = sess[k].lock
        BY <1>3, <1>4, <3>1, TaManagerAssumption DEF SessType
      <3>3. sess' = [sess EXCEPT ![k] = r]
        BY <1>3, <1>4, <1>8, <3>1 DEF CoreType
      <3> QED
        BY <1>3, <1>4, <3>2, <3>3 DEF CoreType, SessSame
    <2>4. WaitsKept(t)
      <3>1. stack'[t] # <<>>
        <4>1. StackType /\ stack[t] # <<>>
          BY <1>3, <1>4
        <4> QED
          BY <1>2, <2>1, <4>1, SetStep
      <3>2. refc_cv(k) \in CondVars /\ refc_cv(k)[1] # "busy"
        BY <1>3, CondVarsFacts
      <3>3. waitq' = [q EXCEPT ![refc_cv(k)] = Append(@, t)]
        BY <1>8
      <3> QED
        BY <1>3, <1>6, <3>1, <3>2, <3>3, WaitsAdd
    <2>5. halted' \in BOOLEAN /\ PanicOnlyOnReentry'
      BY <1>1, <1>4, NotHalted
    <2>6. UNCHANGED <<setup, ctx, listVars, siVars>> /\ f.pc # "destroy" /\ g.pc # "destroy"
      BY <1>1, <1>3, <1>8, <2>1 DEF listVars
    <2> QED
      BY <1>2, <1>3, <1>4, <2>1, <2>2, <2>3, <2>4, <2>5, <2>6, QuietStep
  <1> QED
    BY <1>2, <1>5, <1>7, <1>8 DEF tee_ta_unlink_session

LEMMA WaitForReferencesKeeps ==
    ASSUME TaInv, ~halted, UNCHANGED setup, NEW t \in Threads, WaitForReferences(t)
    PROVE  TaInv'
  <1>1. At(t, "unlinking") /\ UNCHANGED <<ctx, tee_ctxes, siVars, halted>>
    BY DEF WaitForReferences
  <1>2. PICK p, f, k : p = <<t, Len(stack[t])>> /\ f = Top(t) /\ k = f.key
    OBVIOUS
  <1>3. stack[t] # <<>> /\ NotWaiting(t) /\ waitq \in QueueType /\ k \in Keys
    BY <1>1, <1>2, AtFacts
  <1>4. CASE LastReference(k) /\ Unlinked(t, k) /\ UNCHANGED waitq
    <2>1. WaitsKept(t)
      BY <1>3, <1>4, FewerSame, WaitsFewer
    <2> QED
      BY <1>1, <1>2, <1>4, <2>1, UnlinkedKeeps
  <1>5. CASE Wait(t, refc_cv(k)) /\ UNCHANGED <<open_sessions, sess, stack>>
    <2>1. PICK cv : cv = refc_cv(k)
      OBVIOUS
    <2>2. cv \in CondVars /\ cv[1] # "busy"
      BY <1>3, <2>1, CondVarsFacts
    <2>3. UNCHANGED <<setup, ctx, listVars, sess, siVars, stack, halted>> /\ Wait(t, cv)
      BY <1>1, <1>5, <2>1 DEF listVars
    <2> QED
      BY <1>3, <2>2, <2>3, WaitKeeps
  <1> QED
    BY <1>2, <1>4, <1>5 DEF WaitForReferences

\* A call that drops the last reference to a context is the last to use it.
LEMMA LastUserIsAlone ==
    ASSUME CoreType, FramesOK, CountsOK, NEW p \in Calls, NEW c, c = Call(p).ctx,
           Call(p).pc = "drop", c # NULL, ctx[c].ref = 1, NEW q \in Calls, q # p
    PROVE  Call(q).ctx # c
  <1>1. c \in Ctxs /\ ctx[c] # NULL
    BY CallFacts
  <1>2. p \in Closers(c)
    BY DEF Closers, Closing, Refers
  <1>3. CountOf(ctx[c]) = 1
    BY <1>1 DEF CountOf
  <1>4. SessionsOf(c) = {} /\ \A r \in Closers(c) : r = p
    BY <1>1, <1>2, <1>3, UsersFacts
  <1>5. ASSUME Call(q).ctx = c PROVE FALSE
    <2>1. CASE Call(q).pc = "destroy"
      <3>1. CtxFor(Call(q), ctx[c])
        BY <1>5, CallFacts
      <3> QED
        BY <2>1, <3>1 DEF CtxFor
    <2>2. CASE Call(q).pc # "destroy"
      BY <1>4, <1>5, <2>2, InUseCounts
    <2> QED
      BY <2>1, <2>2
  <1> QED
    BY <1>5

\* The last reference is dropped and the context is to be freed.
LEMMA LastClosedKeeps ==
    ASSUME TaInv, ~halted, UNCHANGED <<setup, sess, open_sessions, siVars, waitq, halted>>,
           NEW t \in Threads, At(t, "drop"), NEW c, c = Top(t).ctx, ctx[c].ref = 1,
           NEW e \in CtxType, ctx' = [ctx EXCEPT ![c] = e], e.uuid = ctx[c].uuid, e.ref = 0,
           e.releasing, e.busy = ctx[c].busy, e.panicked = ctx[c].panicked,
           tee_ctxes' = IF ctx[c].releasing THEN tee_ctxes ELSE RemoveFirst(tee_ctxes, c),
           Goto(t, "destroy")
    PROVE  TaInv'
  <1>1. PICK p, f, k : p = <<t, Len(stack[t])>> /\ f = Top(t) /\ k = f.key
    OBVIOUS
  <1>2. /\ stack[t] # <<>> /\ f.pc = "drop" /\ NotWaiting(t) /\ waitq \in QueueType
        /\ p \in Calls /\ p[1] = t /\ Call(p) = f /\ f \in FrameType /\ k \in Keys /\ FormOK(f)
    BY <1>1, AtFacts
  <1>3. /\ CoreType /\ StackType /\ FramesOK /\ CountsOK /\ ListsOK /\ SessionsOK /\ ContextsOK
        /\ f.op = "close" /\ ~Refers(f) /\ f.ctx = c /\ c # NULL /\ ~f.busy
    BY <1>1, <1>2, TypeFacts DEF TaInv, FormOK, Refers
  <1>4. c \in Ctxs /\ ctx[c] # NULL /\ ctx[c] \in CtxType /\ ContextOK(c)
    BY <1>1, <1>3, AtFacts
  <1>5. /\ ctx' \in [Ctxs -> CtxType \cup {NULL}] /\ ctx'[c] = e /\ e # NULL
        /\ \A d \in Ctxs : d # c => ctx'[d] = ctx[d]
        /\ \A d \in Ctxs : ctx'[d] # NULL => ctx'[d].uuid \in Uuids
        /\ \A d \in Ctxs : ctx[d] # NULL => ctx'[d].uuid = ctx[d].uuid
    BY <1>3, <1>4, CtxUpdate
  <1>6. /\ tee_ctxes' \in Seq(Ctxs) /\ Distinct(tee_ctxes') /\ ~Contains(tee_ctxes', c)
        /\ \A d : d # c => (Contains(tee_ctxes', d) <=> Contains(tee_ctxes, d))
    <2>1. tee_ctxes \in Seq(Ctxs) /\ Distinct(tee_ctxes)
      BY <1>3 DEF CoreType, ListsOK
    <2>2. ctx[c].releasing => ~Contains(tee_ctxes, c)
      BY <1>4 DEF ContextOK
    <2> QED
      BY <2>1, <2>2, RemoveFirstFacts
  <1>7. PICK g \in FrameType : /\ stack' = [stack EXCEPT ![t][1] = g]
                               /\ g.op = f.op /\ g.key = k /\ g.ctx = c /\ g.pc = "destroy"
                               /\ g.busy = f.busy
    <2>1. "destroy" \in PCs /\ StackType /\ stack[t] # <<>>
      BY <1>2, <1>3 DEF PCs
    <2> QED
      BY <1>1, <1>3, <2>1, GotoSet
  <1>8. /\ StackStep /\ p \in Calls' /\ Step(p, f, g)
        /\ \A u \in Threads \ {t} : stack'[u] = stack[u]
    <2>1. StackType /\ stack[t] # <<>>
      BY <1>2, <1>3
    <2> QED
      BY <1>1, <1>7, <2>1, SetStep
  <1>9. FormOK(g) /\ ~Refers(g) /\ ~g.busy
    BY <1>2, <1>3, <1>7 DEF FormOK, Refers
  <1>10. \A q \in Calls : q # p => Call(q).ctx # c
    BY <1>2, <1>3, LastUserIsAlone
  <1>11. OthersCtx(p)
    BY <1>3, <1>5, <1>10, OthersCtxStep
  <1>12. OthersSess(p)
    <2>1. ASSUME NEW q \in Calls, q # p, Refers(Call(q)), Call(q).key = k
          PROVE  SessLike(sess[k], sess'[k])
      BY <1>3, <2>1, CallFacts DEF SessLike
    <2> QED
      BY <1>3, <2>1, OthersSessStep
  <1>13. CallKept(p, g)
    <2>1. SessFor(p[1], g, sess'[g.key])
      BY <1>9 DEF SessFor
    <2>2. CtxFor(g, ctx'[g.ctx])
      BY <1>5, <1>7 DEF CtxFor
    <2>3. BelowOK(p)'
      BY <1>1, <1>2, <1>3, <1>7, <1>8, <1>11, SetBelow
    <2>4. ASSUME NEW q \in Calls, q # p PROVE Apart(g, Call(q))'
      <3>1. Call(q)' = Call(q) /\ Call(q).ctx # c
        BY <1>8, <1>10, <2>4 DEF Step
      <3> QED
        BY <1>7, <1>9, <3>1 DEF Apart, Refers
    <2> QED
      BY <1>9, <2>1, <2>2, <2>3, <2>4 DEF CallKept
  <1>14. CountsKept(k, f, g)
    <2>1. ASSUME NEW d \in Ctxs
          PROVE  /\ CountOf(ctx[d]) \in Nat
                 /\ CountOf(ctx'[d]) + N(Closing(f, d)) = CountOf(ctx[d])
                 /\ CountOf(ctx'[d]) \in Nat
                 /\ IsOf(sess'[k], d) <=> IsOf(sess[k], d)
                 /\ ~Closing(g, d)
      <3>1. CountOf(ctx[d]) \in Nat
        BY <1>3, UsersFacts
      <3>2. ~Closing(g, d) /\ (Closing(f, d) <=> d = c)
        BY <1>2, <1>3, <1>7 DEF Closing
      <3>3. d = c => CountOf(ctx'[d]) = 0 /\ CountOf(ctx[d]) = 1
        BY <1>4, <1>5 DEF CountOf
      <3>4. d # c => CountOf(ctx'[d]) = CountOf(ctx[d])
        BY <1>5
      <3> QED
        BY <3>1, <3>2, <3>3, <3>4 DEF N, IsOf
    <2>2. CountOf(sess'[k]) = CountOf(sess[k]) /\ CountOf(sess[k]) \in Nat
      BY <1>2, <1>3, ReferersFacts
    <2>3. \A d \in Ctxs :
             /\ CountOf(ctx'[d]) \in Nat
             /\ CountOf(ctx'[d]) + N(IsOf(sess[k], d)) + N(Closing(f, d))
                = CountOf(ctx[d]) + N(IsOf(sess'[k], d)) + N(Closing(g, d))
      BY <2>1 DEF N
    <2> QED
      BY <1>3, <1>9, <2>2, <2>3 DEF CountsKept, N
  <1>15. ListedKept(p, f, g)
    BY <1>2, <1>3 DEF ListedKept, SessionsOK, Unready
  <1>16. ContextOK(c)'
    <2>1. PICK d, fl : d = ctx[c] /\ fl = Flags[d.uuid]
      OBVIOUS
    <2>2. Frees(g, c) /\ ~OccAt(f, c) /\ ~OccAt(g, c)
      BY <1>3, <1>7, <1>9 DEF Frees, OccAt
    <2>3. "PTA" \in fl => ~e.panicked
      BY <1>4, <2>1 DEF ContextOK
    <2>4. e.busy <=> (OccAt(g, c) \/ (d.busy /\ ~OccAt(f, c)))
      BY <1>4, <2>1, <2>2 DEF CtxType
    <2>5. /\ d # NULL /\ e # NULL /\ e = ctx'[c] /\ e.uuid = d.uuid
          /\ Contains(tee_ctxes', c) <=> ~e.releasing
          /\ e.releasing /\ e.ref # 0 => e.panicked /\ NotKept(fl)
          /\ ~({"SI", "MS"} \subseteq fl) => e.ref <= 1
      BY <1>4, <1>5, <1>6, <2>1
    <2> QED
      BY <1>3, <1>4, <1>8, <1>11, <2>1, <2>2, <2>3, <2>4, <2>5, ContextStep
  <1>17. ContextsOK'
    <2>1. ASSUME NEW d \in Ctxs, d # c
          PROVE  ~OccAt(g, d) /\ ~OccAt(f, d) /\ ~Frees(f, d)
      BY <1>2, <1>3, <1>9 DEF OccAt, Frees
    <2> QED
      BY <1>3, <1>5, <1>6, <1>8, <1>11, <1>16, <2>1, ContextsStep
  <1>18. ListsOK'
    <2>1. \A d \in Ctxs : Contains(tee_ctxes', d) =>
              Contains(tee_ctxes, d) /\ ctx'[d].uuid = ctx[d].uuid
      BY <1>5, <1>6
    <2> QED
      BY <1>3, <1>6, <2>1, ListsStep DEF ListsOK
  <1>19. InSingle(g)' <=> InSingle(f)
    BY <1>3, <1>9 DEF InSingle, Occupies
  <1>20. halted' \in BOOLEAN /\ PanicOnlyOnReentry'
    BY <1>3, NotHalted
  <1>21. WaitsKept(t) /\ p[1] = t /\ k \in Keys
    BY <1>2, FewerSame, WaitsFewer
  <1>22. TypesKept
    BY <1>3, <1>5, <1>6 DEF TypesKept, CoreType
  <1> QED
    BY <1>8, <1>11, <1>12, <1>13, <1>14, <1>15, <1>17, <1>18, <1>19, <1>20, <1>21, <1>22,
       GeneralStep

\* A reference is dropped and the context stays.
LEMMA DroppedKeeps ==
    ASSUME TaInv, ~halted, UNCHANGED <<setup, sess, open_sessions, tee_ctxes, siVars, waitq, halted>>,
           NEW t \in Threads, At(t, "drop"), NEW c, c = Top(t).ctx, ctx[c].ref # 1 \/ Kept(c),
           NEW e \in CtxType, ctx' = [ctx EXCEPT ![c] = e], e.uuid = ctx[c].uuid,
           e.ref = ctx[c].ref - 1, e.releasing = ctx[c].releasing, e.busy = ctx[c].busy,
           e.panicked = ctx[c].panicked, e.init = ctx[c].init, Return(t)
    PROVE  TaInv'
  <1>1. PICK p, f, k : p = <<t, Len(stack[t])>> /\ f = Top(t) /\ k = f.key
    OBVIOUS
  <1>2. /\ stack[t] # <<>> /\ f.pc = "drop" /\ NotWaiting(t) /\ waitq \in QueueType
        /\ p \in Calls /\ p[1] = t /\ Call(p) = f /\ f \in FrameType /\ k \in Keys /\ FormOK(f)
    BY <1>1, AtFacts
  <1>3. /\ CoreType /\ StackType /\ FramesOK /\ CountsOK /\ ListsOK /\ SessionsOK /\ ContextsOK
        /\ f.op = "close" /\ ~Refers(f) /\ f.ctx = c /\ c # NULL /\ ~f.busy
    BY <1>1, <1>2, TypeFacts DEF TaInv, FormOK, Refers
  <1>4. /\ c \in Ctxs /\ ctx[c] # NULL /\ ctx[c] \in CtxType /\ ContextOK(c)
        /\ ctx[c].ref \in Nat /\ ctx[c].ref > 0
    <2>1. c \in Ctxs /\ ctx[c] # NULL /\ ctx[c] \in CtxType /\ ContextOK(c)
      BY <1>1, <1>3, AtFacts
    <2> QED
      BY <1>2, <1>3, <2>1, InUseCounts
  <1>5. /\ ctx' \in [Ctxs -> CtxType \cup {NULL}] /\ ctx'[c] = e /\ e # NULL
        /\ \A d \in Ctxs : d # c => ctx'[d] = ctx[d]
        /\ \A d \in Ctxs : ctx'[d] # NULL => ctx'[d].uuid \in Uuids
        /\ \A d \in Ctxs : ctx[d] # NULL => ctx'[d].uuid = ctx[d].uuid
    BY <1>3, <1>4, CtxUpdate
  <1>6. /\ StackStep /\ p \notin Calls' /\ Step(p, f, NoCall)
        /\ \A u \in Threads \ {t} : stack'[u] = stack[u]
    <2>1. stack' = [stack EXCEPT ![t] = Tail(@)]
      BY DEF Return
    <2>2. StackType /\ stack[t] # <<>>
      BY <1>2, <1>3
    <2> QED
      BY <1>1, <2>1, <2>2, PopStep
  <1>7. OthersCtx(p)
    <2>1. ASSUME NEW q \in Calls, q # p, Call(q).ctx # NULL
          PROVE  /\ CtxFor(Call(q), ctx'[Call(q).ctx])
                 /\ ctx'[Call(q).ctx].uuid = ctx[Call(q).ctx].uuid
      <3>1. PICK h, d : h = Call(q) /\ d = h.ctx
        OBVIOUS
      <3>2. d \in Ctxs /\ ctx[d] # NULL /\ CtxFor(h, ctx[d])
        BY <1>3, <2>1, <3>1, CallFacts
      <3>3. CASE d # c
        BY <1>5, <3>1, <3>2, <3>3
      <3>4. CASE d = c
        <4>1. h.pc # "load" /\ h.pc # "destroy"
          BY <1>2, <1>3, <2>1, <3>1, <3>4, LoaderIsAlone, DestroyerIsAlone
        <4>2. CtxFor(h, e)
          BY <1>4, <1>5, <3>2, <3>4, <4>1 DEF CtxFor
        <4> QED
          BY <1>5, <3>1, <3>4, <4>2
      <3> QED
        BY <3>3, <3>4
    <2> QED
      BY <2>1 DEF OthersCtx
  <1>8. OthersSess(p)
    <2>1. ASSUME NEW q \in Calls, q # p, Refers(Call(q)), Call(q).key = k
          PROVE  SessLike(sess[k], sess'[k])
      BY <1>3, <2>1, CallFacts DEF SessLike
    <2> QED
      BY <1>3, <2>1, OthersSessStep
  <1>9. CountsKept(k, f, NoCall)
    <2>1. ASSUME NEW d \in Ctxs
          PROVE  /\ CountOf(ctx[d]) \in Nat
                 /\ CountOf(ctx'[d]) + N(Closing(f, d)) = CountOf(ctx[d])
                 /\ CountOf(ctx'[d]) \in Nat
                 /\ IsOf(sess'[k], d) <=> IsOf(sess[k], d)
                 /\ ~Closing(NoCall, d)
      <3>1. CountOf(ctx[d]) \in Nat
        BY <1>3, UsersFacts
      <3>2. ~Closing(NoCall, d) /\ (Closing(f, d) <=> d = c)
        BY <1>2, <1>3, NoCallFacts DEF Closing
      <3>3. d = c => CountOf(ctx'[d]) = ctx[c].ref - 1 /\ CountOf(ctx[d]) = ctx[c].ref
        BY <1>4, <1>5 DEF CountOf
      <3>4. d # c => CountOf(ctx'[d]) = CountOf(ctx[d])
        BY <1>5
      <3> QED
        BY <1>4, <3>1, <3>2, <3>3, <3>4 DEF N, IsOf
    <2>2. CountOf(sess'[k]) = CountOf(sess[k]) /\ CountOf(sess[k]) \in Nat
      BY <1>2, <1>3, ReferersFacts
    <2>3. \A d \in Ctxs :
             /\ CountOf(ctx'[d]) \in Nat
             /\ CountOf(ctx'[d]) + N(IsOf(sess[k], d)) + N(Closing(f, d))
                = CountOf(ctx[d]) + N(IsOf(sess'[k], d)) + N(Closing(NoCall, d))
      BY <2>1 DEF N
    <2> QED
      BY <1>3, <2>2, <2>3, NoCallFacts DEF CountsKept, N
  <1>10. ListedKept(p, f, NoCall)
    BY <1>2, <1>3 DEF ListedKept, SessionsOK, Unready
  <1>11. ContextOK(c)'
    <2>1. PICK d, fl : d = ctx[c] /\ fl = Flags[d.uuid]
      OBVIOUS
    <2>2. ~OccAt(f, c) /\ ~OccAt(NoCall, c) /\ NULL \notin Ctxs
      BY <1>3, <1>4, NoCallFacts, TaManagerAssumption DEF OccAt
    <2>3. "PTA" \in fl => ~e.panicked
      BY <1>4, <2>1 DEF ContextOK
    <2>4. e.busy <=> (OccAt(NoCall, c) \/ (d.busy /\ ~OccAt(f, c)))
      BY <1>4, <2>1, <2>2 DEF CtxType
    <2>5. /\ d # NULL /\ e # NULL /\ e = ctx'[c] /\ e.uuid = d.uuid
          /\ Contains(tee_ctxes', c) <=> ~e.releasing
          /\ e.releasing /\ e.ref # 0 => e.panicked /\ NotKept(fl)
          /\ ~({"SI", "MS"} \subseteq fl) => e.ref <= 1
      BY <1>4, <1>5, <2>1 DEF ContextOK
    <2>6. e.ref = 0 => {"SI", "KA"} \subseteq fl /\ ~e.releasing
      <3>1. ASSUME e.ref = 0 PROVE Kept(c) /\ ctx[c].ref = 1
        BY <1>4, <3>1
      <3>2. Kept(c) => {"SI", "KA"} \subseteq fl
        BY <2>1 DEF Kept, KeepCrashed, Keep, Has
      <3>3. Kept(c) => ~(d.panicked /\ NotKept(fl))
        BY <2>1 DEF Kept, KeepCrashed, Keep, Has, NotKept
      <3>4. d.releasing /\ d.ref # 0 => d.panicked /\ NotKept(fl)
        BY <1>4, <2>1 DEF ContextOK
      <3>5. ASSUME e.ref = 0 PROVE ~e.releasing
        <4>1. Kept(c) /\ d.ref = 1
          BY <2>1, <3>1, <3>5
        <4>2. ~d.releasing
          BY <3>3, <3>4, <4>1
        <4> QED
          BY <2>1, <4>2
      <3> QED
        BY <3>1, <3>2, <3>5
    <2> QED
      BY <1>3, <1>4, <1>6, <1>7, <2>1, <2>2, <2>3, <2>4, <2>5, <2>6, ContextStep
  <1>12. ContextsOK'
    <2>1. ASSUME NEW d \in Ctxs, d # c
          PROVE  ~OccAt(NoCall, d) /\ ~OccAt(f, d) /\ ~Frees(f, d)
      BY <1>2, <1>3, NoCallFacts DEF OccAt, Frees
    <2> QED
      BY <1>3, <1>5, <1>6, <1>7, <1>11, <2>1, ContextsStep
  <1>13. ListsOK'
    <2>1. \A d \in Ctxs : Contains(tee_ctxes', d) =>
              Contains(tee_ctxes, d) /\ ctx'[d].uuid = ctx[d].uuid
      BY <1>3, <1>5 DEF ContextsOK
    <2> QED
      BY <1>3, <2>1, ListsStep DEF ListsOK
  <1>14. InSingle(NoCall)' <=> InSingle(f)
    BY <1>3 DEF InSingle, Occupies, NoCall
  <1>15. halted' \in BOOLEAN /\ PanicOnlyOnReentry'
    BY <1>3, NotHalted
  <1>16. WaitsKept(t) /\ p[1] = t /\ k \in Keys
    BY <1>2, FewerSame, WaitsFewer
  <1>17. TypesKept
    BY <1>3, <1>5 DEF TypesKept, CoreType
  <1> QED
    BY <1>6, <1>7, <1>8, <1>9, <1>10, <1>12, <1>13, <1>14, <1>15, <1>16, <1>17, GeneralStep

LEMMA CloseKeeps ==
    ASSUME TaInv, ~halted, UNCHANGED setup, NEW t \in Threads, close_session(t)
    PROVE  TaInv'
  <1>1. At(t, "drop") /\ UNCHANGED <<sess, open_sessions, siVars, waitq, halted>>
    BY DEF close_session
  <1>2. PICK p, f, c : p = <<t, Len(stack[t])>> /\ f = Top(t) /\ c = f.ctx
    OBVIOUS
  <1>3. /\ CoreType /\ FramesOK /\ CountsOK /\ p \in Calls /\ Call(p) = f /\ f.pc = "drop"
        /\ c # NULL /\ c \in Ctxs /\ ctx[c] # NULL /\ ctx[c] \in CtxType
    <2>1. /\ p \in Calls /\ Call(p) = f /\ f.pc = "drop" /\ FormOK(f)
          /\ f.ctx # NULL => f.ctx \in Ctxs /\ ctx[f.ctx] # NULL /\ ctx[f.ctx] \in CtxType
      BY <1>1, <1>2, AtFacts
    <2> QED
      BY <1>2, <2>1 DEF TaInv, FormOK
  <1>4. CASE /\ LastSession(c) /\ ~Kept(c)
             /\ ctx' = [ctx EXCEPT ![c].ref = 0, ![c].releasing = TRUE]
             /\ tee_ctxes' = IF ctx[c].releasing THEN tee_ctxes ELSE RemoveFirst(tee_ctxes, c)
             /\ Goto(t, "destroy")
    <2>1. PICK e : e = [ctx[c] EXCEPT !.ref = 0, !.releasing = TRUE]
      OBVIOUS
    <2>2. /\ e \in CtxType /\ e.uuid = ctx[c].uuid /\ e.ref = 0 /\ e.releasing
          /\ e.busy = ctx[c].busy /\ e.panicked = ctx[c].panicked
      BY <1>3, <2>1 DEF CtxType
    <2>3. ctx' = [ctx EXCEPT ![c] = e]
      BY <1>3, <1>4, <2>1 DEF CoreType, CtxType
    <2>4. /\ ctx[c].ref = 1 /\ Goto(t, "destroy")
          /\ tee_ctxes' = IF ctx[c].releasing THEN tee_ctxes ELSE RemoveFirst(tee_ctxes, c)
      BY <1>4 DEF LastSession
    <2> QED
      BY <1>1, <1>2, <2>2, <2>3, <2>4, LastClosedKeeps
  <1>5. CASE /\ ~LastSession(c) \/ Kept(c)
             /\ ctx' = [ctx EXCEPT ![c].ref = @ - 1]
             /\ Return(t)
             /\ UNCHANGED tee_ctxes
    <2>1. PICK n : n = ctx[c].ref - 1
      OBVIOUS
    <2>2. n \in Nat
      <3>1. ctx[c].ref \in Nat /\ ctx[c].ref > 0
        BY <1>2, <1>3, InUseCounts
      <3> QED
        BY <2>1, <3>1
    <2>3. PICK e : e = [ctx[c] EXCEPT !.ref = n]
      OBVIOUS
    <2>4. /\ e \in CtxType /\ e.uuid = ctx[c].uuid /\ e.ref = ctx[c].ref - 1
          /\ e.releasing = ctx[c].releasing /\ e.busy = ctx[c].busy
          /\ e.panicked = ctx[c].panicked /\ e.init = ctx[c].init
      BY <1>3, <2>1, <2>2, <2>3 DEF CtxType
    <2>5. ctx' = [ctx EXCEPT ![c] = e]
      BY <1>3, <1>5, <2>1, <2>3 DEF CoreType, CtxType
    <2>6. /\ ctx[c].ref # 1 \/ Kept(c)
          /\ Return(t)
          /\ UNCHANGED <<setup, sess, open_sessions, tee_ctxes, siVars, waitq, halted>>
      BY <1>1, <1>5 DEF LastSession
    <2>7. c = Top(t).ctx /\ At(t, "drop")
      BY <1>1, <1>2
    <2> QED
      BY <2>4, <2>5, <2>6, <2>7, DroppedKeeps
  <1> QED
    BY <1>2, <1>4, <1>5 DEF close_session

\* Nobody waits for a context that only one call uses, and has entered.
LEMMA NobodyWaits ==
    ASSUME TaInv, NEW p \in Calls, NEW c \in Ctxs, Call(p).pc # "enter",
           \A q \in Calls : q # p => Call(q).ctx # c, NEW u \in Threads
    PROVE  ~WaitsFor(u, busy_cv(c))
  <1>1. ASSUME WaitsFor(u, busy_cv(c)) PROVE FALSE
    <2>1. WaitsOK /\ StackType /\ CoreType
      BY TypeFacts DEF TaInv
    <2>2. PICK cv : cv = busy_cv(c)
      OBVIOUS
    <2>3. cv \in CondVars /\ cv[1] = "busy" /\ cv[2] = c
      BY <2>2, CondVarsFacts
    <2>4. stack[u] # <<>> /\ Top(u).pc = "enter" /\ Top(u).ctx = c
      BY <1>1, <2>1, <2>2, <2>3 DEF WaitsOK
    <2>5. PICK q : q = <<u, Len(stack[u])>>
      OBVIOUS
    <2>6. q \in Calls /\ Call(q) = Top(u)
      BY <2>1, <2>4, <2>5, TopFacts
    <2> QED
      BY <2>4, <2>6
  <1> QED
    BY <1>1

LEMMA DestroyKeeps ==
    ASSUME TaInv, UNCHANGED setup, NEW t \in Threads, destroy_context(t)
    PROVE  TaInv'
  <1>1. At(t, "destroy") /\ UNCHANGED <<listVars, sess, siVars, waitq>> /\ Return(t)
    BY DEF destroy_context
  <1>2. PICK p, f, k, c : p = <<t, Len(stack[t])>> /\ f = Top(t) /\ k = f.key /\ c = f.ctx
    OBVIOUS
  <1>3. /\ stack[t] # <<>> /\ f.pc = "destroy" /\ NotWaiting(t) /\ waitq \in QueueType
        /\ p \in Calls /\ p[1] = t /\ Call(p) = f /\ f \in FrameType /\ k \in Keys /\ FormOK(f)
        /\ c # NULL => /\ c \in Ctxs /\ ctx[c] # NULL /\ CtxFor(f, ctx[c]) /\ ContextOK(c)
    BY <1>1, <1>2, AtFacts
  <1>4. /\ CoreType /\ StackType /\ FramesOK /\ CountsOK /\ ListsOK /\ SessionsOK /\ ContextsOK
        /\ ~Refers(f) /\ c # NULL /\ ~f.busy
    BY <1>2, <1>3, TypeFacts DEF TaInv, FormOK, Refers
  <1>5. c \in Ctxs /\ ctx[c] # NULL /\ ctx[c].ref = 0 /\ ~Contains(tee_ctxes, c)
    BY <1>3, <1>4 DEF CtxFor, ContextOK
  <1>6. \A q \in Calls : q # p => Call(q).ctx # c
    BY <1>2, <1>3, <1>4, DestroyerIsAlone
  <1>7. /\ ctx' \in [Ctxs -> CtxType \cup {NULL}] /\ ctx'[c] = NULL
        /\ \A d \in Ctxs : d # c => ctx'[d] = ctx[d]
    <2>1. ctx' = [ctx EXCEPT ![c] = NULL]
      BY <1>2 DEF destroy_context
    <2> QED
      BY <1>4, <1>5, <2>1 DEF CoreType
  <1>8. halted' \in BOOLEAN /\ PanicOnlyOnReentry'
    <2>1. halted' = \E u \in Threads : WaitsFor(u, busy_cv(c))
      BY <1>2 DEF destroy_context
    <2>2. ~\E u \in Threads : WaitsFor(u, busy_cv(c))
      BY <1>3, <1>5, <1>6, NobodyWaits
    <2>3. halted' = FALSE
      BY <2>1, <2>2
    <2> QED
      BY <2>3 DEF PanicOnlyOnReentry
  <1>9. /\ StackStep /\ p \notin Calls' /\ Step(p, f, NoCall)
        /\ \A u \in Threads \ {t} : stack'[u] = stack[u]
    <2>1. stack' = [stack EXCEPT ![t] = Tail(@)]
      BY <1>1 DEF Return
    <2>2. StackType /\ stack[t] # <<>>
      BY <1>3, <1>4
    <2> QED
      BY <1>2, <2>1, <2>2, PopStep
  <1>10. OthersCtx(p)
    BY <1>4, <1>6, <1>7, OthersCtxStep
  <1>11. OthersSess(p)
    <2>1. ASSUME NEW q \in Calls, q # p, Refers(Call(q)), Call(q).key = k
          PROVE  SessLike(sess[k], sess'[k])
      BY <1>1, <1>4, <2>1, CallFacts DEF SessLike
    <2> QED
      BY <1>1, <1>4, <2>1, OthersSessStep
  <1>12. CountsKept(k, f, NoCall)
    <2>1. ASSUME NEW d \in Ctxs
          PROVE  /\ CountOf(ctx[d]) \in Nat /\ CountOf(ctx'[d]) = CountOf(ctx[d])
                 /\ IsOf(sess'[k], d) <=> IsOf(sess[k], d)
                 /\ ~Closing(f, d) /\ ~Closing(NoCall, d)
      <3>1. CountOf(ctx[d]) \in Nat
        BY <1>4, UsersFacts
      <3>2. ~Closing(NoCall, d) /\ ~Closing(f, d)
        BY <1>3, NoCallFacts DEF Closing
      <3>3. CountOf(ctx'[d]) = CountOf(ctx[d])
        BY <1>5, <1>7 DEF CountOf
      <3> QED
        BY <1>1, <3>1, <3>2, <3>3 DEF IsOf
    <2>2. CountOf(sess'[k]) = CountOf(sess[k]) /\ CountOf(sess[k]) \in Nat
      BY <1>1, <1>3, <1>4, ReferersFacts
    <2>3. \A d \in Ctxs :
             /\ CountOf(ctx'[d]) \in Nat
             /\ CountOf(ctx'[d]) + N(IsOf(sess[k], d)) + N(Closing(f, d))
                = CountOf(ctx[d]) + N(IsOf(sess'[k], d)) + N(Closing(NoCall, d))
      BY <2>1 DEF N
    <2> QED
      BY <1>1, <1>4, <2>2, <2>3, NoCallFacts DEF CountsKept, N
  <1>13. ListedKept(p, f, NoCall)
    BY <1>1, <1>3, <1>4 DEF ListedKept, SessionsOK, Unready, listVars
  <1>14. ContextsOK'
    <2>1. ASSUME NEW d \in Ctxs, d # c
          PROVE  ~OccAt(NoCall, d) /\ ~OccAt(f, d) /\ ~Frees(f, d)
      BY <1>2, <1>4, <2>1, NoCallFacts DEF OccAt, Frees
    <2>2. tee_ctxes' = tee_ctxes
      BY <1>1 DEF listVars
    <2> QED
      BY <1>4, <1>5, <1>7, <1>9, <1>10, <2>1, <2>2, ContextsStep
  <1>15. ListsOK'
    <2>1. \A d \in Ctxs : Contains(tee_ctxes', d) =>
              Contains(tee_ctxes, d) /\ ctx'[d].uuid = ctx[d].uuid
      BY <1>1, <1>5, <1>7 DEF listVars
    <2> QED
      BY <1>1, <1>4, <2>1, ListsStep DEF ListsOK, listVars
  <1>16. InSingle(NoCall)' <=> InSingle(f)
    BY <1>4 DEF InSingle, Occupies, NoCall
  <1>17. WaitsKept(t) /\ p[1] = t /\ k \in Keys /\ UNCHANGED siVars
    BY <1>1, <1>3, FewerSame, WaitsFewer
  <1>18. TypesKept
    <2>1. \A d \in Ctxs : ctx'[d] # NULL => ctx'[d].uuid \in Uuids
      BY <1>4, <1>7 DEF CoreType
    <2> QED
      BY <1>1, <1>4, <1>7, <2>1 DEF TypesKept, CoreType, listVars
  <1> QED
    BY <1>8, <1>9, <1>10, <1>11, <1>12, <1>13, <1>14, <1>15, <1>16, <1>17, <1>18, GeneralStep

\* The TA has been loaded.
LEMMA LoadedKeeps ==
    ASSUME TaInv, ~halted, UNCHANGED <<setup, tee_ctxes, open_sessions, sess, siVars, halted>>,
           NEW t \in Threads, At(t, "load"), NEW c, c = Top(t).ctx,
           NEW e \in CtxType, ctx' = [ctx EXCEPT ![c] = e], e.uuid = ctx[c].uuid,
           e.ref = ctx[c].ref, e.releasing = ctx[c].releasing, e.busy = ctx[c].busy,
           e.panicked = ctx[c].panicked, Goto(t, "enter"), WaitsKept(t)
    PROVE  TaInv'
  <1>1. PICK p, f : p = <<t, Len(stack[t])>> /\ f = Top(t)
    OBVIOUS
  <1>2. /\ stack[t] # <<>> /\ f.pc = "load" /\ p \in Calls /\ Call(p) = f /\ f \in FrameType
        /\ FormOK(f)
    BY <1>1, AtFacts
  <1>3. /\ CoreType /\ StackType /\ FramesOK /\ CountsOK /\ ListsOK
        /\ f.op = "open" /\ f.ctx = c /\ c # NULL /\ ~f.busy
    BY <1>1, <1>2, TypeFacts DEF TaInv, FormOK
  <1>4. c \in Ctxs /\ ctx[c] # NULL /\ ctx[c].ref = 1 /\ ContextOK(c)
    <2>1. c \in Ctxs /\ ctx[c] # NULL /\ CtxFor(f, ctx[c]) /\ ContextOK(c)
      BY <1>1, <1>3, AtFacts
    <2> QED
      BY <1>2, <2>1 DEF CtxFor
  <1>5. e # NULL /\ \A d \in Ctxs : d # c => ctx'[d] = ctx[d]
    BY <1>3, <1>4, CtxUpdate
  <1>6. PICK g \in FrameType : /\ stack' = [stack EXCEPT ![t][1] = g]
                               /\ g.op = f.op /\ g.key = f.key /\ g.uuid = f.uuid /\ g.ctx = c
                               /\ g.pc = "enter" /\ g.busy = f.busy
    <2>1. "enter" \in PCs /\ StackType /\ stack[t] # <<>>
      BY <1>2, <1>3 DEF PCs
    <2> QED
      BY <1>1, <1>3, <2>1, GotoSet
  <1>7. OthersCtx(p)
    <2>1. \A q \in Calls : q # p => Call(q).ctx # c
      BY <1>2, <1>3, LoaderIsAlone
    <2> QED
      BY <1>3, <1>5, <2>1, OthersCtxStep
  <1>8. Weaker(f, g) /\ Refers(g) /\ FormOK(g) /\ CtxFor(g, e)
    BY <1>2, <1>3, <1>5, <1>6 DEF Weaker, Refers, Owns, FormOK, CtxFor
  <1>9. /\ e.releasing => e.panicked /\ NotKept(Flags[e.uuid])
        /\ "PTA" \in Flags[e.uuid] => ~e.panicked
        /\ Contains(tee_ctxes', c) <=> ~e.releasing
    BY <1>4 DEF ContextOK
  <1>10. tee_ctxes' \in Seq(Ctxs) /\ Distinct(tee_ctxes')
    BY <1>3 DEF CoreType, ListsOK
  <1>11. sess' \in [Keys -> SessType \cup {NULL}] /\ \A j \in Keys : SessSame(sess[j], sess'[j])
    BY <1>3 DEF CoreType, SessSame
  <1>12. halted' \in BOOLEAN /\ PanicOnlyOnReentry'
    BY <1>3, NotHalted
  <1>13. f.pc # "destroy" /\ g.pc # "destroy" /\ f.ctx # NULL /\ (g.busy <=> f.busy) /\ c = f.ctx
    BY <1>2, <1>3, <1>6
  <1> QED
    BY <1>1, <1>2, <1>6, <1>7, <1>8, <1>9, <1>10, <1>11, <1>12, <1>13, TouchStep

\* It has not, and its context is freed.
LEMMA NotLoadedKeeps ==
    ASSUME TaInv, UNCHANGED <<setup, open_sessions, siVars>>, NEW t \in Threads, At(t, "load"),
           NEW c, c = Top(t).ctx, ctx' = [ctx EXCEPT ![c] = NULL],
           tee_ctxes' = RemoveFirst(tee_ctxes, c),
           NEW g \in FrameType, stack' = [stack EXCEPT ![t][1] = g],
           g.op = Top(t).op, g.key = Top(t).key, g.ctx = NULL, g.pc = "initfail",
           g.busy = Top(t).busy,
           NEW k, k = Top(t).key, NEW r \in SessType, sess' = [sess EXCEPT ![k] = r],
           r.ctx = NULL, r.ref = sess[k].ref, r.given = sess[k].given, r.lock = sess[k].lock,
           halted' = \E u \in Threads : WaitsFor(u, busy_cv(c)), WaitsKept(t)
    PROVE  TaInv'
  <1>1. PICK p, f : p = <<t, Len(stack[t])>> /\ f = Top(t)
    OBVIOUS
  <1>2. /\ stack[t] # <<>> /\ f.pc = "load" /\ p \in Calls /\ p[1] = t /\ Call(p) = f
        /\ f \in FrameType /\ k \in Keys /\ FormOK(f)
    BY <1>1, AtFacts
  <1>3. /\ CoreType /\ StackType /\ FramesOK /\ CountsOK /\ ListsOK /\ SessionsOK /\ ContextsOK
        /\ f.op = "open" /\ f.ctx = c /\ c # NULL /\ ~f.busy /\ Refers(f) /\ Owns(f)
    BY <1>1, <1>2, TypeFacts DEF TaInv, FormOK, Refers, Owns
  <1>4. c \in Ctxs /\ ctx[c] # NULL /\ ctx[c].ref = 1
    <2>1. c \in Ctxs /\ ctx[c] # NULL /\ CtxFor(f, ctx[c])
      BY <1>1, <1>3, AtFacts
    <2> QED
      BY <1>2, <2>1 DEF CtxFor
  <1>5. /\ sess[k] # NULL /\ sess[k].ref \in Nat /\ sess[k].ctx = c /\ ~sess[k].given
        /\ sess[k].lock = t
    <2>1. sess[k] \in SessType
      BY <1>1, <1>2, <1>3, CallFacts
    <2> QED
      BY <1>1, <1>2, <1>3, <2>1, CallFacts DEF SessType
  <1>6. /\ ctx' \in [Ctxs -> CtxType \cup {NULL}] /\ ctx'[c] = NULL
        /\ \A d \in Ctxs : d # c => ctx'[d] = ctx[d]
    BY <1>3, <1>4 DEF CoreType
  <1>7. /\ sess' \in [Keys -> SessType \cup {NULL}] /\ sess'[k] = r /\ r # NULL
        /\ \A j \in Keys : j # k => sess'[j] = sess[j]
    BY <1>2, <1>3, TaManagerAssumption DEF CoreType
  <1>8. /\ tee_ctxes' \in Seq(Ctxs) /\ Distinct(tee_ctxes') /\ ~Contains(tee_ctxes', c)
        /\ \A d : d # c => (Contains(tee_ctxes', d) <=> Contains(tee_ctxes, d))
    <2>1. tee_ctxes \in Seq(Ctxs) /\ Distinct(tee_ctxes)
      BY <1>3 DEF CoreType, ListsOK
    <2> QED
      BY <2>1, RemoveFirstFacts
  <1>9. /\ StackStep /\ p \in Calls' /\ Step(p, f, g)
        /\ \A u \in Threads \ {t} : stack'[u] = stack[u]
    <2>1. StackType /\ stack[t] # <<>>
      BY <1>2, <1>3
    <2> QED
      BY <1>1, <2>1, SetStep
  <1>10. FormOK(g) /\ Refers(g) /\ Owns(g) /\ ~g.busy
    BY <1>1, <1>2, <1>3 DEF FormOK, Refers, Owns
  <1>11. \A q \in Calls : q # p => Call(q).ctx # c
    BY <1>2, <1>3, LoaderIsAlone
  <1>12. OthersCtx(p)
    BY <1>3, <1>6, <1>11, OthersCtxStep
  <1>13. ASSUME NEW q \in Calls, q # p, Refers(Call(q)), Call(q).key = k
         PROVE  Early /\ ~Owns(Call(q))
    BY <1>1, <1>2, <1>3, <1>13, OpenerIsAlone
  <1>14. OthersSess(p)
    BY <1>3, <1>7, <1>13, OthersSessStep
  <1>15. CallKept(p, g)
    <2>1. SessFor(p[1], g, sess'[g.key])
      BY <1>1, <1>2, <1>5, <1>7 DEF SessFor
    <2>2. BelowOK(p)'
      BY <1>1, <1>2, <1>3, <1>9, <1>12, SetBelow
    <2>3. ASSUME NEW q \in Calls, q # p PROVE Apart(g, Call(q))'
      <3>1. /\ Call(q)' = Call(q)
            /\ Refers(Call(q)) /\ Call(q).key = k => Early /\ ~Owns(Call(q))
        BY <1>9, <1>13, <2>3 DEF Step
      <3>2. ~Occupies(g)' /\ g.pc # "destroy"
        BY <1>10 DEF Occupies
      <3> QED
        BY <1>1, <3>1, <3>2, EarlyStays DEF Apart, Refers, Owns
    <2> QED
      BY <1>10, <2>1, <2>2, <2>3 DEF CallKept
  <1>16. CountsKept(k, f, g)
    <2>1. ASSUME NEW d \in Ctxs
          PROVE  /\ CountOf(ctx[d]) \in Nat
                 /\ CountOf(ctx'[d]) + N(IsOf(sess[k], d)) = CountOf(ctx[d])
                 /\ CountOf(ctx'[d]) \in Nat
                 /\ ~IsOf(sess'[k], d)
                 /\ ~Closing(f, d) /\ ~Closing(g, d)
      <3>1. CountOf(ctx[d]) \in Nat
        BY <1>3, UsersFacts
      <3>2. ~Closing(g, d) /\ ~Closing(f, d)
        BY <1>3, <1>10 DEF Closing
      <3>3. d = c => CountOf(ctx'[d]) = 0 /\ CountOf(ctx[d]) = 1
        BY <1>4, <1>6 DEF CountOf
      <3>4. d # c => CountOf(ctx'[d]) = CountOf(ctx[d])
        BY <1>6
      <3>5. IsOf(sess[k], d) <=> d = c
        BY <1>5 DEF IsOf
      <3>6. ~IsOf(sess'[k], d)
        BY <1>7, TaManagerAssumption DEF IsOf
      <3> QED
        BY <3>1, <3>2, <3>3, <3>4, <3>5, <3>6 DEF N
    <2>2. CountOf(sess'[k]) = CountOf(sess[k]) /\ CountOf(sess[k]) \in Nat
      BY <1>5, <1>7 DEF CountOf
    <2>3. \A d \in Ctxs :
             /\ CountOf(ctx'[d]) \in Nat
             /\ CountOf(ctx'[d]) + N(IsOf(sess[k], d)) + N(Closing(f, d))
                = CountOf(ctx[d]) + N(IsOf(sess'[k], d)) + N(Closing(g, d))
      BY <2>1 DEF N
    <2> QED
      BY <1>1, <1>3, <1>7, <1>10, <2>2, <2>3 DEF CountsKept, N
  <1>17. ListedKept(p, f, g)
    <2>1. Unready(g, k) /\ \A j \in Keys : ~Unready(f, j)
      BY <1>2 DEF Unready
    <2>2. \A j \in Keys : sess[j] # NULL => Contains(open_sessions'[j[1]], j[2])
      BY <1>3 DEF SessionsOK
    <2> QED
      BY <1>5, <1>7, <1>9, <2>1, <2>2 DEF ListedKept
  <1>18. ContextsOK'
    <2>1. ASSUME NEW d \in Ctxs, d # c
          PROVE  ~OccAt(g, d) /\ ~OccAt(f, d) /\ ~Frees(f, d)
      BY <1>2, <1>3, <1>10 DEF OccAt, Frees
    <2> QED
      BY <1>3, <1>6, <1>8, <1>9, <1>12, <2>1, ContextsStep
  <1>19. ListsOK'
    <2>1. \A d \in Ctxs : Contains(tee_ctxes', d) =>
              Contains(tee_ctxes, d) /\ ctx'[d].uuid = ctx[d].uuid
      BY <1>6, <1>8
    <2> QED
      BY <1>3, <1>8, <2>1, ListsStep DEF ListsOK
  <1>20. InSingle(g)' <=> InSingle(f)
    BY <1>3, <1>10 DEF InSingle, Occupies
  <1>21. halted' \in BOOLEAN /\ PanicOnlyOnReentry'
    <2>1. ~\E u \in Threads : WaitsFor(u, busy_cv(c))
      BY <1>2, <1>4, <1>11, NobodyWaits
    <2>2. halted' = FALSE
      BY <2>1
    <2> QED
      BY <2>2 DEF PanicOnlyOnReentry
  <1>22. TypesKept
    <2>1. \A d \in Ctxs : ctx'[d] # NULL => ctx'[d].uuid \in Uuids
      BY <1>3, <1>6 DEF CoreType
    <2> QED
      BY <1>3, <1>6, <1>7, <1>8, <2>1 DEF TypesKept, CoreType
  <1> QED
    BY <1>2, <1>9, <1>12, <1>14, <1>15, <1>16, <1>17, <1>18, <1>19, <1>20, <1>21, <1>22,
       GeneralStep

LEMMA CompleteKeeps ==
    ASSUME TaInv, ~halted, UNCHANGED setup, NEW t \in Threads, tee_ta_complete_user_ta_session(t)
    PROVE  TaInv'
  <1>1. /\ At(t, "load") /\ UNCHANGED <<open_sessions, siVars>>
        /\ waitq' = Broadcast(waitq, tee_ta_init_cv)
    BY DEF tee_ta_complete_user_ta_session
  <1>2. PICK p, f, c, k : p = <<t, Len(stack[t])>> /\ f = Top(t) /\ c = f.ctx /\ k = f.key
    OBVIOUS
  <1>3. /\ CoreType /\ f \in FrameType /\ k \in Keys /\ NotWaiting(t) /\ waitq \in QueueType
        /\ stack[t] # <<>> /\ c # NULL /\ c \in Ctxs /\ ctx[c] # NULL /\ ctx[c] \in CtxType
        /\ sess[k] # NULL /\ sess[k] \in SessType
    <2>1. /\ f.pc = "load" /\ FormOK(f) /\ f \in FrameType /\ k \in Keys /\ NotWaiting(t)
          /\ waitq \in QueueType /\ stack[t] # <<>>
          /\ f.ctx # NULL => f.ctx \in Ctxs /\ ctx[f.ctx] # NULL /\ ctx[f.ctx] \in CtxType
          /\ Refers(f) => sess[f.key] # NULL /\ sess[f.key] \in SessType
      BY <1>1, <1>2, AtFacts
    <2> QED
      BY <1>2, <2>1 DEF TaInv, FormOK, Refers
  <1>4. WaitsKept(t)
    BY <1>1, <1>3, BroadcastFewer, CondVarsFacts, WaitsFewer
  <1>5. CASE /\ ctx' = [ctx EXCEPT ![c].init = FALSE] /\ Goto(t, "enter")
             /\ UNCHANGED <<tee_ctxes, sess, halted>>
    <2>1. PICK e : e = [ctx[c] EXCEPT !.init = FALSE]
      OBVIOUS
    <2>2. /\ e \in CtxType /\ e.uuid = ctx[c].uuid /\ e.ref = ctx[c].ref
          /\ e.releasing = ctx[c].releasing /\ e.busy = ctx[c].busy
          /\ e.panicked = ctx[c].panicked
      BY <1>3, <2>1 DEF CtxType
    <2>3. ctx' = [ctx EXCEPT ![c] = e]
      BY <1>3, <1>5, <2>1 DEF CoreType, CtxType
    <2>4. Goto(t, "enter") /\ UNCHANGED <<tee_ctxes, open_sessions, sess, siVars, halted>>
      BY <1>1, <1>5
    <2>5. c = Top(t).ctx /\ At(t, "load")
      BY <1>1, <1>2
    <2> QED
      BY <1>4, <2>2, <2>3, <2>4, <2>5, LoadedKeeps
  <1>6. CASE /\ ctx' = [ctx EXCEPT ![c] = NULL]
             /\ tee_ctxes' = RemoveFirst(tee_ctxes, c)
             /\ sess' = [sess EXCEPT ![k].ctx = NULL]
             /\ halted' = \E u \in Threads : WaitsFor(u, busy_cv(c))
             /\ stack' = [stack EXCEPT ![t][1].pc = "initfail", ![t][1].ctx = NULL]
    <2>1. PICK r : r = [sess[k] EXCEPT !.ctx = NULL]
      OBVIOUS
    <2>2. /\ r \in SessType /\ r.ctx = NULL /\ r.ref = sess[k].ref
          /\ r.given = sess[k].given /\ r.lock = sess[k].lock
      BY <1>3, <2>1 DEF SessType
    <2>3. sess' = [sess EXCEPT ![k] = r]
      BY <1>3, <1>6, <2>1 DEF CoreType, SessType
    <2>4. PICK g : g = [f EXCEPT !.pc = "initfail", !.ctx = NULL]
      OBVIOUS
    <2>5. /\ g \in FrameType /\ g.op = f.op /\ g.key = f.key /\ g.ctx = NULL
          /\ g.pc = "initfail" /\ g.busy = f.busy
      BY <1>3, <2>4 DEF FrameType, PCs
    <2>6. stack' = [stack EXCEPT ![t][1] = g]
      <3>1. stack \in [Threads -> Seq(FrameType)] /\ Len(stack[t]) \in Nat \ {0}
        BY <1>3 DEF CoreType
      <3>2. f = stack[t][1]
        BY <1>2, <3>1 DEF Top
      <3> QED
        BY <1>3, <1>6, <2>4, <3>1, <3>2 DEF FrameType
    <2>7. /\ c = Top(t).ctx /\ At(t, "load") /\ k = Top(t).key /\ g.op = Top(t).op
          /\ g.key = Top(t).key /\ g.busy = Top(t).busy
      BY <1>1, <1>2, <2>5
    <2>8. /\ ctx' = [ctx EXCEPT ![c] = NULL] /\ tee_ctxes' = RemoveFirst(tee_ctxes, c)
          /\ halted' = \E u \in Threads : WaitsFor(u, busy_cv(c))
          /\ UNCHANGED <<setup, open_sessions, siVars>>
      BY <1>1, <1>6
    <2> QED
      BY <1>4, <2>2, <2>3, <2>5, <2>6, <2>7, <2>8, NotLoadedKeeps
  <1> QED
    BY <1>2, <1>5, <1>6 DEF tee_ta_complete_user_ta_session

\* The TA returns or panics.
LEMMA LeaveKeeps ==
    ASSUME TaInv, ~halted, UNCHANGED <<setup, listVars, siVars, waitq, halted>>,
           NEW t \in Threads, At(t, "inTA"), NEW c, c = Top(t).ctx,
           NEW e \in CtxType, ctx' = [ctx EXCEPT ![c] = e], e.uuid = ctx[c].uuid,
           e.ref = ctx[c].ref, e.releasing = ctx[c].releasing, e.busy = ctx[c].busy,
           e.init = ctx[c].init, e.panicked => ~Has(c, "PTA"),
           NEW g \in FrameType, stack' = [stack EXCEPT ![t][1] = g],
           g.op = Top(t).op, g.key = Top(t).key, g.uuid = Top(t).uuid, g.ctx = c,
           g.busy = Top(t).busy,
           g.pc = IF g.op = "close" THEN "unlink"
                  ELSE IF e.panicked /\ ~KeepCrashed(c) THEN "panicked" ELSE "clear",
           sess' \in [Keys -> SessType \cup {NULL}], \A j \in Keys : SessSame(sess[j], sess'[j])
    PROVE  TaInv'
  <1>1. PICK p, f : p = <<t, Len(stack[t])>> /\ f = Top(t)
    OBVIOUS
  <1>2. /\ stack[t] # <<>> /\ f.pc = "inTA" /\ p \in Calls /\ Call(p) = f /\ f \in FrameType
        /\ FormOK(f) /\ NotWaiting(t) /\ waitq \in QueueType
    BY <1>1, AtFacts
  <1>3. /\ CoreType /\ StackType /\ FramesOK /\ CountsOK /\ ListsOK
        /\ f.op # "cancel" /\ f.ctx = c /\ c # NULL /\ f.busy /\ Refers(f)
    BY <1>1, <1>2, TypeFacts DEF TaInv, FormOK, Refers
  <1>4. /\ c \in Ctxs /\ ctx[c] # NULL /\ ctx[c] \in CtxType /\ ctx[c].uuid \in Uuids
        /\ ctx[c].ref > 0 /\ ctx[c].ref \in Nat
        /\ ~ctx[c].panicked /\ ContextOK(c)
    <2>1. /\ c \in Ctxs /\ ctx[c] # NULL /\ ctx[c] \in CtxType /\ ctx[c].uuid \in Uuids
          /\ CtxFor(f, ctx[c]) /\ ContextOK(c)
      BY <1>1, <1>3, AtFacts
    <2>2. ctx[c].ref > 0 /\ ctx[c].ref \in Nat
      BY <1>2, <1>3, InUseCounts
    <2> QED
      BY <1>2, <2>1, <2>2 DEF CtxFor
  <1>5. e # NULL /\ ctx'[c] = e /\ \A d \in Ctxs : d # c => ctx'[d] = ctx[d]
    BY <1>3, <1>4, CtxUpdate
  <1>6. ~e.releasing /\ Contains(tee_ctxes, c)
    BY <1>4 DEF ContextOK
  <1>7. ASSUME NEW q \in Calls, q # p, Call(q).ctx # NULL
        PROVE  /\ CtxFor(Call(q), ctx'[Call(q).ctx])
               /\ ctx'[Call(q).ctx].uuid = ctx[Call(q).ctx].uuid
    <2>1. PICK h, d : h = Call(q) /\ d = h.ctx
      OBVIOUS
    <2>2. h \in FrameType /\ FormOK(h) /\ d \in Ctxs /\ ctx[d] # NULL /\ CtxFor(h, ctx[d])
      BY <1>3, <1>7, <2>1, CallFacts
    <2>3. CASE d # c
      BY <1>5, <2>1, <2>2, <2>3
    <2>4. CASE d = c
      <3>1. h.pc \in {"inTA", "panicked", "release"} => ~e.panicked
        <4>1. ASSUME e.panicked, h.busy PROVE FALSE
          <5>1. ~Has(c, "CC")
            BY <1>4, <4>1, TypeFacts, <1>3 DEF Has
          <5>2. Occupies(f) /\ Occupies(h)
            BY <1>3, <2>1, <2>4, <4>1, <5>1 DEF Occupies
          <5>3. Apart(Call(p), Call(q))
            BY <1>2, <1>3, <1>7 DEF FramesOK
          <5> QED
            BY <1>2, <1>3, <2>1, <2>4, <5>2, <5>3 DEF Apart
        <4>2. h.pc \in {"inTA", "panicked", "release"} => h.busy
          BY <2>2 DEF FormOK
        <4> QED
          BY <4>1, <4>2
      <3>2. h.pc \notin {"panicked", "release"}
        BY <1>4, <2>2, <2>4 DEF CtxFor
      <3>3. CtxFor(h, e)
        BY <1>5, <2>2, <2>4, <3>1, <3>2 DEF CtxFor
      <3> QED
        BY <1>5, <2>1, <2>4, <3>3
    <2> QED
      BY <2>3, <2>4
  <1>8. OthersCtx(p)
    BY <1>7 DEF OthersCtx
  <1>9. Weaker(f, g) /\ Refers(g) /\ FormOK(g) /\ g.pc # "destroy"
    BY <1>1, <1>2, <1>3 DEF Weaker, Refers, Owns, FormOK
  <1>10. CtxFor(g, e)
    <2>1. g.pc = "panicked" => e.panicked /\ NotKept(Flags[e.uuid])
      BY NotKeptIs
    <2>2. g.pc \in {"unlink", "panicked", "clear"}
      OBVIOUS
    <2> QED
      BY <1>5, <2>1, <2>2 DEF CtxFor
  <1>11. "PTA" \in Flags[e.uuid] => ~e.panicked
    BY DEF Has
  <1>12. tee_ctxes' \in Seq(Ctxs) /\ Distinct(tee_ctxes') /\ tee_ctxes' = tee_ctxes
    BY <1>3 DEF CoreType, ListsOK, listVars
  <1>13. halted' \in BOOLEAN /\ PanicOnlyOnReentry'
    BY <1>3, NotHalted
  <1>14. WaitsKept(t)
    BY <1>2, FewerSame, WaitsFewer
  <1>15. f.pc # "destroy" /\ f.ctx # NULL /\ (g.busy <=> f.busy) /\ c = f.ctx /\ open_sessions' = open_sessions
    BY <1>1, <1>2, <1>3 DEF listVars
  <1> QED
    BY <1>1, <1>2, <1>6, <1>8, <1>9, <1>10, <1>11, <1>12, <1>13, <1>14, <1>15, TouchStep

LEMMA UserTaKeeps ==
    ASSUME TaInv, ~halted, UNCHANGED setup, NEW t \in Threads, user_ta_enter(t)
    PROVE  TaInv'
  <1>1. At(t, "inTA") /\ UNCHANGED <<listVars, siVars, waitq, halted>>
    BY DEF user_ta_enter
  <1>2. PICK p, f, c, k : p = <<t, Len(stack[t])>> /\ f = Top(t) /\ c = f.ctx /\ k = f.key
    OBVIOUS
  <1>3. /\ CoreType /\ f \in FrameType /\ k \in Keys
        /\ stack[t] # <<>> /\ c # NULL /\ c \in Ctxs /\ ctx[c] # NULL /\ ctx[c] \in CtxType
        /\ sess[k] # NULL /\ sess[k] \in SessType
    <2>1. /\ f.pc = "inTA" /\ FormOK(f) /\ f \in FrameType /\ k \in Keys /\ stack[t] # <<>>
          /\ f.ctx # NULL => f.ctx \in Ctxs /\ ctx[f.ctx] # NULL /\ ctx[f.ctx] \in CtxType
          /\ Refers(f) => sess[f.key] # NULL /\ sess[f.key] \in SessType
      BY <1>1, <1>2, AtFacts
    <2> QED
      BY <1>2, <2>1 DEF TaInv, FormOK, Refers
  <1>4. ASSUME NEW ok \in BOOLEAN, NEW panics \in BOOLEAN, panics => ~Has(c, "PTA"),
               ctx' = [ctx EXCEPT ![c].panicked = panics],
               sess' = [sess EXCEPT ![k].cancel = @ /\ Has(c, "PTA")],
               NEW l, l = IF f.op = "close" THEN "unlink"
                          ELSE IF panics /\ ~KeepCrashed(c) THEN "panicked" ELSE "clear",
               stack' = [stack EXCEPT ![t][1].ok = ok, ![t][1].pc = l]
        PROVE  TaInv'
    <2>1. PICK e : e = [ctx[c] EXCEPT !.panicked = panics]
      OBVIOUS
    <2>2. /\ e \in CtxType /\ e.uuid = ctx[c].uuid /\ e.ref = ctx[c].ref
          /\ e.releasing = ctx[c].releasing /\ e.busy = ctx[c].busy /\ e.init = ctx[c].init
          /\ e.panicked = panics
      BY <1>3, <2>1 DEF CtxType
    <2>3. ctx' = [ctx EXCEPT ![c] = e]
      BY <1>3, <1>4, <2>1 DEF CoreType, CtxType
    <2>4. PICK g : g = [f EXCEPT !.ok = ok, !.pc = l]
      OBVIOUS
    <2>5. l \in PCs
      BY <1>4 DEF PCs
    <2>6. /\ g \in FrameType /\ g.op = f.op /\ g.key = f.key /\ g.ctx = f.ctx /\ g.uuid = f.uuid
          /\ g.pc = l /\ g.busy = f.busy
      BY <1>3, <1>4, <2>4, <2>5 DEF FrameType
    <2>7. stack' = [stack EXCEPT ![t][1] = g]
      <3>1. stack \in [Threads -> Seq(FrameType)] /\ Len(stack[t]) \in Nat \ {0}
        BY <1>3 DEF CoreType
      <3>2. f = stack[t][1]
        BY <1>2, <3>1 DEF Top
      <3> QED
        BY <1>3, <1>4, <2>4, <3>1, <3>2 DEF FrameType
    <2>8. PICK x \in BOOLEAN : x = (sess[k].cancel /\ Has(c, "PTA"))
      OBVIOUS
    <2>9. PICK r : r = [sess[k] EXCEPT !.cancel = x]
      OBVIOUS
    <2>10. /\ r \in SessType /\ r.ctx = sess[k].ctx /\ r.ref = sess[k].ref
           /\ r.given = sess[k].given /\ r.lock = sess[k].lock /\ r # NULL
      BY <1>3, <2>8, <2>9, TaManagerAssumption DEF SessType
    <2>11. sess' = [sess EXCEPT ![k] = r]
      BY <1>3, <1>4, <2>8, <2>9 DEF CoreType, SessType
    <2>12. sess' \in [Keys -> SessType \cup {NULL}] /\ \A j \in Keys : SessSame(sess[j], sess'[j])
      BY <1>3, <2>10, <2>11 DEF CoreType, SessSame
    <2>13. /\ c = Top(t).ctx /\ g.op = Top(t).op /\ g.key = Top(t).key /\ g.uuid = Top(t).uuid
           /\ g.ctx = c /\ g.busy = Top(t).busy /\ At(t, "inTA")
      BY <1>1, <1>2, <2>6
    <2>14. /\ g.pc = IF g.op = "close" THEN "unlink"
                     ELSE IF e.panicked /\ ~KeepCrashed(c) THEN "panicked" ELSE "clear"
           /\ e.panicked => ~Has(c, "PTA")
      BY <1>4, <2>2, <2>6
    <2> QED
      BY <1>1, <2>2, <2>3, <2>6, <2>7, <2>12, <2>13, <2>14, LeaveKeeps
  <1>5. PICK ok \in BOOLEAN, panics \in BOOLEAN :
            /\ panics => ~Has(c, "PTA")
            /\ ctx' = [ctx EXCEPT ![c].panicked = panics]
            /\ sess' = [sess EXCEPT ![k].cancel = @ /\ Has(c, "PTA")]
            /\ stack' = [stack EXCEPT
                    ![t][1].ok = ok,
                    ![t][1].pc = IF f.op = "close" THEN "unlink"
                                 ELSE IF panics /\ ~KeepCrashed(c) THEN "panicked"
                                 ELSE "clear"]
    BY <1>2 DEF user_ta_enter
  <1> QED
    BY <1>4, <1>5

LEMMA MaybeReleaseKeeps ==
    ASSUME TaInv, ~halted, UNCHANGED setup, NEW t \in Threads, maybe_release_ta_ctx(t)
    PROVE  TaInv'
  <1>1. At(t, "panicked") /\ UNCHANGED <<sess, open_sessions, siVars, waitq, halted>>
    BY DEF maybe_release_ta_ctx
  <1>2. PICK p, f, c : p = <<t, Len(stack[t])>> /\ f = Top(t) /\ c = f.ctx
    OBVIOUS
  <1>3. /\ stack[t] # <<>> /\ f.pc = "panicked" /\ NotWaiting(t) /\ waitq \in QueueType
        /\ p \in Calls /\ Call(p) = f /\ f \in FrameType /\ FormOK(f)
    BY <1>1, <1>2, AtFacts
  <1>4. /\ CoreType /\ StackType /\ FramesOK /\ ListsOK
        /\ f.op # "cancel" /\ f.op # "close" /\ c # NULL /\ f.busy /\ Refers(f)
    BY <1>2, <1>3, TypeFacts DEF TaInv, FormOK, Refers
  <1>5. /\ c \in Ctxs /\ ctx[c] # NULL /\ ctx[c] \in CtxType /\ ContextOK(c)
        /\ ctx[c].panicked /\ NotKept(Flags[ctx[c].uuid])
    <2>1. c \in Ctxs /\ ctx[c] # NULL /\ ctx[c] \in CtxType /\ ContextOK(c) /\ CtxFor(f, ctx[c])
      BY <1>1, <1>2, <1>4, AtFacts
    <2> QED
      BY <1>3, <2>1 DEF CtxFor
  <1>6. PICK e : e = [ctx[c] EXCEPT !.releasing = TRUE]
    OBVIOUS
  <1>7. /\ e \in CtxType /\ e.uuid = ctx[c].uuid /\ e.ref = ctx[c].ref
        /\ e.busy = ctx[c].busy /\ e.init = ctx[c].init /\ e.panicked = ctx[c].panicked
        /\ e.releasing
    BY <1>5, <1>6 DEF CtxType
  <1>8. ctx' = [ctx EXCEPT ![c] = e]
    <2>1. ctx' = [ctx EXCEPT ![c].releasing = TRUE]
      BY <1>2 DEF maybe_release_ta_ctx
    <2> QED
      BY <1>4, <1>5, <1>6, <2>1 DEF CoreType, CtxType
  <1>9. e # NULL /\ ctx'[c] = e /\ \A d \in Ctxs : d # c => ctx'[d] = ctx[d]
    BY <1>4, <1>5, <1>7, <1>8, CtxUpdate
  <1>10. OthersCtx(p)
    <2>1. ASSUME NEW q \in Calls, q # p, Call(q).ctx # NULL
          PROVE  /\ CtxFor(Call(q), ctx'[Call(q).ctx])
                 /\ ctx'[Call(q).ctx].uuid = ctx[Call(q).ctx].uuid
      <3>1. PICK h, d : h = Call(q) /\ d = h.ctx
        OBVIOUS
      <3>2. d \in Ctxs /\ ctx[d] # NULL /\ CtxFor(h, ctx[d])
        BY <1>4, <2>1, <3>1, CallFacts
      <3>3. CASE d # c
        BY <1>9, <3>1, <3>2, <3>3
      <3>4. CASE d = c
        <4>1. CtxFor(h, e)
          BY <1>7, <1>9, <3>2, <3>4 DEF CtxFor
        <4> QED
          BY <1>7, <1>9, <3>1, <3>4, <4>1
      <3> QED
        BY <3>3, <3>4
    <2> QED
      BY <2>1 DEF OthersCtx
  <1>11. PICK l : l \in {"release", "clear"} /\ Goto(t, l)
    BY <1>2 DEF maybe_release_ta_ctx
  <1>12. /\ tee_ctxes' \in Seq(Ctxs) /\ Distinct(tee_ctxes') /\ ~Contains(tee_ctxes', c)
         /\ \A d : d # c => (Contains(tee_ctxes', d) <=> Contains(tee_ctxes, d))
    <2>1. tee_ctxes \in Seq(Ctxs) /\ Distinct(tee_ctxes)
      BY <1>4 DEF CoreType, ListsOK
    <2>2. ctx[c].releasing => ~Contains(tee_ctxes, c)
      BY <1>5 DEF ContextOK
    <2>3. tee_ctxes' = IF ctx[c].releasing THEN tee_ctxes ELSE RemoveFirst(tee_ctxes, c)
      BY <1>2 DEF maybe_release_ta_ctx
    <2> QED
      BY <2>1, <2>2, <2>3, RemoveFirstFacts
  <1>13. PICK g \in FrameType : /\ stack' = [stack EXCEPT ![t][1] = g]
                                /\ g.op = f.op /\ g.key = f.key /\ g.uuid = f.uuid /\ g.ctx = c
                                /\ g.pc = l /\ g.busy = f.busy
    <2>1. l \in PCs /\ StackType /\ stack[t] # <<>>
      BY <1>3, <1>4, <1>11 DEF PCs
    <2> QED
      BY <1>2, <1>11, <2>1, GotoSet
  <1>14. Weaker(f, g) /\ Refers(g) /\ FormOK(g) /\ g.pc # "destroy"
    BY <1>2, <1>3, <1>4, <1>11, <1>13 DEF Weaker, Refers, Owns, FormOK
  <1>15. CtxFor(g, e)
    BY <1>5, <1>7, <1>9, <1>11, <1>13 DEF CtxFor
  <1>16. /\ e.releasing => e.panicked /\ NotKept(Flags[e.uuid])
         /\ "PTA" \in Flags[e.uuid] => ~e.panicked
    BY <1>5, <1>7 DEF ContextOK
  <1>17. sess' \in [Keys -> SessType \cup {NULL}] /\ \A j \in Keys : SessSame(sess[j], sess'[j])
    BY <1>1, <1>4 DEF CoreType, SessSame
  <1>18. halted' \in BOOLEAN /\ PanicOnlyOnReentry'
    BY <1>1, <1>4, NotHalted
  <1>19. WaitsKept(t)
    BY <1>1, <1>3, FewerSame, WaitsFewer
  <1>20. /\ f.pc # "destroy" /\ f.ctx # NULL /\ (g.busy <=> f.busy) /\ c = f.ctx
         /\ UNCHANGED <<open_sessions, siVars>> /\ stack[t] # <<>>
    BY <1>1, <1>2, <1>3, <1>4, <1>13
  <1> QED
    BY <1>2, <1>7, <1>8, <1>10, <1>12, <1>13, <1>14, <1>15, <1>16, <1>17, <1>18, <1>19,
       <1>20, TouchStep

\* A call leaves its context, or enters it: the context is like before to others.
LEMMA BusyOthers ==
    ASSUME CoreType, FramesOK, NEW p, NEW c \in Ctxs, ctx[c] # NULL, NEW e \in CtxType,
           e.uuid = ctx[c].uuid, e.ref = ctx[c].ref, e.init = ctx[c].init,
           e.panicked = ctx[c].panicked, e.releasing = ctx[c].releasing,
           ctx' = [ctx EXCEPT ![c] = e]
    PROVE  OthersCtx(p)
  <1>1. e # NULL /\ ctx'[c] = e /\ \A d \in Ctxs : d # c => ctx'[d] = ctx[d]
    BY CtxUpdate
  <1>2. ASSUME NEW q \in Calls, q # p, Call(q).ctx # NULL
        PROVE  CtxLike(ctx[Call(q).ctx], ctx'[Call(q).ctx])
    <2>1. PICK d : d = Call(q).ctx
      OBVIOUS
    <2>2. d \in Ctxs /\ ctx[d] # NULL
      BY <1>2, <2>1, CallFacts
    <2>3. CtxLike(ctx[d], ctx'[d])
      BY <1>1, <2>2 DEF CtxLike
    <2> QED
      BY <2>1, <2>3
  <1> QED
    BY <1>2, OthersCtxStay

LEMMA LeftKeeps ==
    ASSUME TaInv, ~halted, UNCHANGED <<setup, listVars, sess, halted>>,
           NEW t \in Threads, At(t, "clear"), NEW c, c = Top(t).ctx,
           NEW e \in CtxType, ctx' = [ctx EXCEPT ![c] = e], e.uuid = ctx[c].uuid,
           e.ref = ctx[c].ref, e.releasing = ctx[c].releasing, e.init = ctx[c].init,
           e.panicked = ctx[c].panicked, e.busy <=> ctx[c].busy /\ Has(c, "CC"),
           IF Has(c, "SI") /\ ~Has(c, "CC")
           THEN /\ si_thread' = (IF si_count = 1 THEN NULL ELSE si_thread)
                /\ si_count' = si_count - 1
           ELSE UNCHANGED siVars,
           NEW g \in FrameType, stack' = [stack EXCEPT ![t][1] = g],
           g.key = Top(t).key, g.ctx = c, ~g.busy,
           \/ Top(t).op = "close" /\ g.op = "close" /\ g.pc = "drop"
           \/ Top(t).op = "open" /\ g.op = "close" /\ g.pc = "enter"
           \/ Top(t).op # "close" /\ g.op = Top(t).op /\ g.pc = "put",
           WaitsKept(t)
    PROVE  TaInv'
  <1>1. PICK p, f : p = <<t, Len(stack[t])>> /\ f = Top(t)
    OBVIOUS
  <1>2. /\ stack[t] # <<>> /\ f.pc = "clear" /\ p \in Calls /\ Call(p) = f /\ f \in FrameType
        /\ FormOK(f)
    BY <1>1, AtFacts
  <1>3. /\ CoreType /\ StackType /\ FramesOK /\ ListsOK /\ ContextsOK
        /\ f.op # "cancel" /\ f.ctx = c /\ c # NULL /\ f.busy
    BY <1>1, <1>2, TypeFacts DEF TaInv, FormOK
  <1>4. c \in Ctxs /\ ctx[c] # NULL /\ ctx[c] \in CtxType /\ ContextOK(c)
    BY <1>1, <1>3, AtFacts
  <1>5. /\ e # NULL /\ ctx'[c] = e /\ \A d \in Ctxs : d # c => ctx'[d] = ctx[d]
        /\ \A d \in Ctxs : ctx[d] # NULL => ctx'[d].uuid = ctx[d].uuid
    BY <1>3, <1>4, CtxUpdate
  <1>6. OthersCtx(p)
    BY <1>3, <1>4, BusyOthers
  <1>7. /\ Refers(g) <=> Refers(f)
        /\ Owns(g) => Owns(f)
        /\ g.op = "open" => f.op = "open"
        /\ f.pc # "destroy" /\ g.pc # "destroy"
    BY <1>1, <1>2, <1>3 DEF Refers, Owns
  <1>8. Weaker(f, g)
    BY <1>1, <1>3, <1>7 DEF Weaker
  <1>9. FormOK(g) /\ CtxFor(g, e)
    BY <1>1, <1>2, <1>3, <1>5 DEF FormOK, CtxFor
  <1>10. StackStep /\ Step(p, f, g)
    <2>1. StackType /\ stack[t] # <<>>
      BY <1>2, <1>3
    <2> QED
      BY <1>1, <2>1, SetStep
  <1>11. \A q \in Calls : q # p => Apart(g, Call(q))'
    BY <1>2, <1>3, <1>6, <1>8, <1>10, WeakerApart
  <1>12. /\ tee_ctxes' = tee_ctxes /\ open_sessions' = open_sessions
         /\ tee_ctxes' \in Seq(Ctxs)
    BY <1>3 DEF CoreType, listVars
  <1>13. ContextOK(c)'
    <2>1. PICK d, fl : d = ctx[c] /\ fl = Flags[d.uuid]
      OBVIOUS
    <2>2. ~OccAt(g, c) /\ (OccAt(f, c) <=> ~Has(c, "CC"))
      BY <1>3 DEF OccAt, Has
    <2>3. "PTA" \in fl => ~e.panicked
      BY <1>4, <2>1 DEF ContextOK
    <2>4. e.busy <=> (OccAt(g, c) \/ (d.busy /\ ~OccAt(f, c)))
      BY <2>1, <2>2
    <2>5. /\ d # NULL /\ e # NULL /\ e = ctx'[c] /\ e.uuid = d.uuid
          /\ Contains(tee_ctxes', c) <=> ~e.releasing
          /\ e.releasing /\ e.ref # 0 => e.panicked /\ NotKept(fl)
          /\ ~({"SI", "MS"} \subseteq fl) => e.ref <= 1
      BY <1>4, <1>5, <1>12, <2>1 DEF ContextOK
    <2>6. e.ref = 0 => \/ {"SI", "KA"} \subseteq fl /\ ~e.releasing
                       \/ Frees(g, c)
                       \/ d.ref = 0 /\ d.releasing /\ ~Frees(f, c)
      <3>1. ctx[c].ref > 0
        BY <1>2, <1>3, InUseCounts DEF TaInv
      <3> QED
        BY <3>1
    <2> QED
      BY <1>3, <1>4, <1>6, <1>10, <2>1, <2>3, <2>4, <2>5, <2>6, ContextStep
  <1>14. ListsOK'
    <2>1. \A d \in Ctxs : Contains(tee_ctxes', d) =>
              Contains(tee_ctxes, d) /\ ctx'[d].uuid = ctx[d].uuid
      BY <1>3, <1>5, <1>12 DEF ContextsOK
    <2> QED
      BY <1>3, <1>12, <2>1, ListsStep DEF ListsOK
  <1>15. LockKept(p, f, g)
    <2>1. ~InSingle(g)' /\ (InSingle(f) <=> Has(c, "SI") /\ ~Has(c, "CC"))
      BY <1>3 DEF InSingle, Occupies
    <2> QED
      BY <2>1 DEF LockKept
  <1>16. sess' \in [Keys -> SessType \cup {NULL}] /\ \A j \in Keys : SessSame(sess[j], sess'[j])
    BY <1>3 DEF CoreType, SessSame
  <1>17. halted' \in BOOLEAN /\ PanicOnlyOnReentry'
    BY <1>3, NotHalted
  <1>18. g.key = f.key /\ g.ctx = f.ctx /\ f.ctx # NULL /\ stack[t] # <<>>
    BY <1>1, <1>2, <1>3
  <1> QED
    BY <1>1, <1>3, <1>6, <1>7, <1>9, <1>11, <1>12, <1>13, <1>14, <1>15, <1>16, <1>17,
       <1>18, SameCountsStep

LEMMA ClearBusyKeeps ==
    ASSUME TaInv, ~halted, UNCHANGED setup, NEW t \in Threads, tee_ta_clear_busy(t)
    PROVE  TaInv'
  <1>1. At(t, "clear") /\ UNCHANGED <<listVars, sess, halted>>
    BY DEF tee_ta_clear_busy
  <1>2. PICK p, f, c : p = <<t, Len(stack[t])>> /\ f = Top(t) /\ c = f.ctx
    OBVIOUS
  <1>3. /\ CoreType /\ f \in FrameType /\ NotWaiting(t) /\ waitq \in QueueType
        /\ stack[t] # <<>> /\ c # NULL /\ c \in Ctxs /\ ctx[c] # NULL /\ ctx[c] \in CtxType
    <2>1. /\ f.pc = "clear" /\ FormOK(f) /\ f \in FrameType /\ stack[t] # <<>>
          /\ NotWaiting(t) /\ waitq \in QueueType
          /\ f.ctx # NULL => f.ctx \in Ctxs /\ ctx[f.ctx] # NULL /\ ctx[f.ctx] \in CtxType
      BY <1>1, <1>2, AtFacts
    <2> QED
      BY <1>2, <2>1 DEF TaInv, FormOK
  <1>4. PICK g \in FrameType :
            /\ stack' = [stack EXCEPT ![t][1] = g]
            /\ g.key = f.key /\ g.ctx = c /\ ~g.busy
            /\ \/ f.op = "close" /\ g.op = "close" /\ g.pc = "drop"
               \/ f.op = "open" /\ g.op = "close" /\ g.pc = "enter"
               \/ f.op # "close" /\ g.op = f.op /\ g.pc = "put"
    <2>1. PICK o, l : /\ o = IF f.op = "open" /\ ~f.ok THEN "close" ELSE f.op
                      /\ l = IF f.op = "close" THEN "drop"
                             ELSE IF f.op = "open" /\ ~f.ok THEN "enter" ELSE "put"
      OBVIOUS
    <2>2. PICK g : g = [f EXCEPT !.busy = FALSE, !.op = o, !.pc = l]
      OBVIOUS
    <2>3. stack' = [stack EXCEPT ![t][1] = g]
      BY <1>2, <1>3, <2>1, <2>2 DEF tee_ta_clear_busy, FrameType
    <2>4. o \in Ops /\ l \in PCs
      BY <1>3, <2>1 DEF FrameType, Ops, PCs
    <2>5. /\ g \in FrameType /\ g.key = f.key /\ g.ctx = f.ctx /\ g.op = o /\ g.pc = l
          /\ g.busy = FALSE
      BY <1>3, <2>2, <2>4 DEF FrameType
    <2> QED
      BY <1>2, <2>1, <2>3, <2>5
  <1>5. busy_cv(c) \in CondVars /\ tee_ta_cv \in CondVars
    BY <1>3, CondVarsFacts
  <1>6. WaitsKept(t)
    <2>1. PICK q : q = Signal(waitq, busy_cv(c))
      OBVIOUS
    <2>2. Fewer(waitq, q)
      BY <1>3, <1>5, <2>1, SignalFewer
    <2>3. Fewer(q, unlock_single_instance(q)) /\ Fewer(q, q)
      BY <1>5, <2>2, SignalFewer, FewerSame DEF unlock_single_instance, Fewer
    <2>4. waitq' = waitq \/ waitq' = q \/ waitq' = unlock_single_instance(q)
      BY <1>2, <2>1 DEF tee_ta_clear_busy
    <2>5. Fewer(waitq, waitq')
      BY <1>3, <2>2, <2>3, <2>4, FewerTwice, FewerSame
    <2> QED
      BY <1>3, <2>5, WaitsFewer
  <1>7. PICK b \in BOOLEAN : b <=> ctx[c].busy /\ Has(c, "CC")
    OBVIOUS
  <1>8. PICK e : e = [ctx[c] EXCEPT !.busy = b]
    OBVIOUS
  <1>9. /\ e \in CtxType /\ e.uuid = ctx[c].uuid /\ e.ref = ctx[c].ref
        /\ e.releasing = ctx[c].releasing /\ e.init = ctx[c].init
        /\ e.panicked = ctx[c].panicked /\ e.busy = b
    BY <1>3, <1>8 DEF CtxType
  <1>10. /\ ctx' = [ctx EXCEPT ![c] = e]
         /\ IF Has(c, "SI") /\ ~Has(c, "CC")
            THEN /\ si_thread' = (IF si_count = 1 THEN NULL ELSE si_thread)
                 /\ si_count' = si_count - 1
            ELSE UNCHANGED siVars
    <2>1. CASE Has(c, "CC") /\ UNCHANGED <<ctx, siVars, waitq>>
      <3>1. ctx[c].busy \in BOOLEAN
        BY <1>3 DEF CtxType
      <3>2. ctx[c].busy = b
        BY <1>7, <2>1, <3>1
      <3>3. e = ctx[c]
        BY <1>3, <1>8, <3>2 DEF CtxType
      <3> QED
        BY <1>3, <2>1, <3>3 DEF CoreType
    <2>2. CASE /\ ~Has(c, "CC")
               /\ ctx' = [ctx EXCEPT ![c].busy = FALSE]
               /\ si_count' = IF Has(c, "SI") THEN si_count - 1 ELSE si_count
               /\ si_thread' = IF LastUnlock(c) THEN NULL ELSE si_thread
      <3>1. b = FALSE
        BY <1>7, <2>2
      <3>2. ctx' = [ctx EXCEPT ![c] = e]
        BY <1>3, <1>8, <2>2, <3>1 DEF CoreType, CtxType
      <3> QED
        BY <2>2, <3>2 DEF LastUnlock, siVars
    <2> QED
      BY <1>2, <2>1, <2>2 DEF tee_ta_clear_busy
  <1>11. /\ c = Top(t).ctx /\ At(t, "clear") /\ g.key = Top(t).key
         /\ \/ Top(t).op = "close" /\ g.op = "close" /\ g.pc = "drop"
            \/ Top(t).op = "open" /\ g.op = "close" /\ g.pc = "enter"
            \/ Top(t).op # "close" /\ g.op = Top(t).op /\ g.pc = "put"
    BY <1>1, <1>2, <1>4
  <1>12. e.busy <=> ctx[c].busy /\ Has(c, "CC")
    BY <1>7, <1>9
  <1> QED
    BY <1>1, <1>4, <1>6, <1>9, <1>10, <1>11, <1>12, LeftKeeps

\* A call enters its context.
LEMMA EnteredKeeps ==
    ASSUME TaInv, ~halted, UNCHANGED <<setup, listVars, waitq, halted>>,
           NEW t \in Threads, At(t, "enter"), NEW c, c = Top(t).ctx,
           NEW e \in CtxType, ctx' = [ctx EXCEPT ![c] = e], e.uuid = ctx[c].uuid,
           e.ref = ctx[c].ref, e.releasing = ctx[c].releasing, e.init = ctx[c].init,
           e.panicked = ctx[c].panicked, e.busy <=> ctx[c].busy \/ ~Has(c, "CC"),
           ctx[c].busy => Has(c, "CC"),
           IF Has(c, "SI") /\ ~Has(c, "CC")
           THEN si_thread \in {t, NULL} /\ si_thread' = t /\ si_count' = si_count + 1
           ELSE UNCHANGED siVars,
           NEW g \in FrameType, stack' = [stack EXCEPT ![t][1] = g],
           g.op = Top(t).op, g.key = Top(t).key, g.ctx = c, g.uuid = Top(t).uuid, g.busy,
           \/ g.pc = "inTA" /\ ~ctx[c].panicked
           \/ g.pc = "unlink" /\ g.op = "close"
           \/ g.pc = "panicked" /\ g.op # "close" /\ ctx[c].panicked /\ ~KeepCrashed(c)
           \/ g.pc = "clear" /\ g.op # "close",
           sess' \in [Keys -> SessType \cup {NULL}], \A j \in Keys : SessSame(sess[j], sess'[j])
    PROVE  TaInv'
  <1>1. PICK p, f : p = <<t, Len(stack[t])>> /\ f = Top(t)
    OBVIOUS
  <1>2. /\ stack[t] # <<>> /\ f.pc = "enter" /\ p \in Calls /\ Call(p) = f /\ f \in FrameType
        /\ FormOK(f) /\ NotWaiting(t) /\ waitq \in QueueType /\ p[1] = t
    BY <1>1, AtFacts
  <1>3. /\ CoreType /\ StackType /\ FramesOK /\ ListsOK /\ ContextsOK
        /\ f.op # "cancel" /\ f.ctx = c /\ c # NULL /\ ~f.busy
    BY <1>1, <1>2, TypeFacts DEF TaInv, FormOK
  <1>4. c \in Ctxs /\ ctx[c] # NULL /\ ctx[c] \in CtxType /\ ContextOK(c)
    BY <1>1, <1>3, AtFacts
  <1>5. /\ e # NULL /\ ctx'[c] = e /\ \A d \in Ctxs : d # c => ctx'[d] = ctx[d]
        /\ \A d \in Ctxs : ctx[d] # NULL => ctx'[d].uuid = ctx[d].uuid
    BY <1>3, <1>4, CtxUpdate
  <1>6. OthersCtx(p)
    BY <1>3, <1>4, BusyOthers
  <1>7. /\ Refers(g) /\ Refers(f) /\ Owns(g) /\ Owns(f)
        /\ f.pc # "destroy" /\ g.pc # "destroy"
    BY <1>1, <1>2, <1>3 DEF Refers, Owns
  <1>8. FormOK(g)
    BY <1>1, <1>2, <1>3 DEF FormOK
  <1>9. CtxFor(g, e)
    <2>1. g.pc = "panicked" => e.panicked /\ NotKept(Flags[e.uuid])
      BY NotKeptIs
    <2>2. g.pc = "inTA" => ~e.panicked
      OBVIOUS
    <2>3. g.pc \in {"inTA", "unlink", "panicked", "clear"}
      OBVIOUS
    <2> QED
      BY <1>5, <2>1, <2>2, <2>3 DEF CtxFor
  <1>10. StackStep /\ Step(p, f, g)
    <2>1. StackType /\ stack[t] # <<>>
      BY <1>2, <1>3
    <2> QED
      BY <1>1, <2>1, SetStep
  <1>11. ASSUME NEW q \in Calls, q # p PROVE Apart(g, Call(q))'
    <2>1. PICK h : h = Call(q)
      OBVIOUS
    <2>2. Call(q)' = h
      BY <1>10, <1>11, <2>1 DEF Step
    <2>3. Apart(f, h)
      BY <1>2, <1>3, <1>11, <2>1 DEF FramesOK
    <2>4. Refers(g) /\ Refers(h) /\ g.key = h.key =>
             /\ g.op = "open" \/ h.op = "open" => Early'
             /\ ~(Owns(g) /\ Owns(h))
      BY <1>1, <1>7, <2>3, EarlyStays DEF Apart
    <2>5. ASSUME g.ctx = h.ctx, h.busy, ~Has(c, "CC")' PROVE FALSE
      <3>1. ~Has(c, "CC")
        BY <1>5, <2>5 DEF Has, Flags
      <3>2. Occupies(h) /\ h.ctx = c
        BY <2>5, <3>1 DEF Occupies
      <3>3. ctx[c].busy
        BY <1>4, <1>11, <2>1, <3>2 DEF ContextOK
      <3> QED
        BY <3>1, <3>3
    <2>6. g.ctx = h.ctx => ~(Occupies(g)' /\ Occupies(h)')
      BY <2>5 DEF Occupies
    <2> QED
      BY <1>7, <2>2, <2>4, <2>6 DEF Apart, Occupies, Refers, Owns
  <1>12. /\ tee_ctxes' = tee_ctxes /\ open_sessions' = open_sessions
         /\ tee_ctxes' \in Seq(Ctxs)
    BY <1>3 DEF CoreType, listVars
  <1>13. ContextOK(c)'
    <2>1. PICK d, fl : d = ctx[c] /\ fl = Flags[d.uuid]
      OBVIOUS
    <2>2. ~OccAt(f, c) /\ (OccAt(g, c) <=> ~Has(c, "CC"))
      BY <1>3 DEF OccAt, Has
    <2>3. "PTA" \in fl => ~e.panicked
      BY <1>4, <2>1 DEF ContextOK
    <2>4. e.busy <=> (OccAt(g, c) \/ (d.busy /\ ~OccAt(f, c)))
      BY <2>1, <2>2
    <2>5. /\ d # NULL /\ e # NULL /\ e = ctx'[c] /\ e.uuid = d.uuid
          /\ Contains(tee_ctxes', c) <=> ~e.releasing
          /\ e.releasing /\ e.ref # 0 => e.panicked /\ NotKept(fl)
          /\ ~({"SI", "MS"} \subseteq fl) => e.ref <= 1
      BY <1>4, <1>5, <1>12, <2>1 DEF ContextOK
    <2>6. e.ref = 0 => \/ {"SI", "KA"} \subseteq fl /\ ~e.releasing
                       \/ Frees(g, c)
                       \/ d.ref = 0 /\ d.releasing /\ ~Frees(f, c)
      <3>1. ctx[c].ref > 0
        BY <1>2, <1>3, InUseCounts DEF TaInv
      <3> QED
        BY <3>1
    <2> QED
      BY <1>3, <1>4, <1>6, <1>10, <2>1, <2>3, <2>4, <2>5, <2>6, ContextStep
  <1>14. ListsOK'
    <2>1. \A d \in Ctxs : Contains(tee_ctxes', d) =>
              Contains(tee_ctxes, d) /\ ctx'[d].uuid = ctx[d].uuid
      BY <1>3, <1>5, <1>12 DEF ContextsOK
    <2> QED
      BY <1>3, <1>12, <2>1, ListsStep DEF ListsOK
  <1>15. LockKept(p, f, g)
    <2>1. Has(c, "SI")' <=> Has(c, "SI")
      BY <1>5, FlagsStay
    <2>2. Has(c, "CC")' <=> Has(c, "CC")
      BY <1>5, FlagsStay
    <2>3. ~InSingle(f) /\ (InSingle(g)' <=> Has(c, "SI") /\ ~Has(c, "CC"))
      BY <1>3, <2>1, <2>2 DEF InSingle, Occupies
    <2> QED
      BY <1>2, <2>3, TaManagerAssumption DEF LockKept
  <1>16. halted' \in BOOLEAN /\ PanicOnlyOnReentry'
    BY <1>3, NotHalted
  <1>17. WaitsKept(t)
    BY <1>2, FewerSame, WaitsFewer
  <1>18. /\ g.key = f.key /\ g.ctx = f.ctx /\ f.ctx # NULL /\ stack[t] # <<>> /\ (g.op = "open" => f.op = "open")
         /\ c = f.ctx
    BY <1>1, <1>2, <1>3
  <1> QED
    BY <1>1, <1>3, <1>6, <1>7, <1>8, <1>9, <1>11, <1>12, <1>13, <1>14, <1>15, <1>16, <1>17,
       <1>18, SameCountsStep

LEMMA SetBusyKeeps ==
    ASSUME TaInv, ~halted, UNCHANGED setup, NEW t \in Threads, SetBusy(t)
    PROVE  TaInv'
  <1>1. At(t, "enter") /\ UNCHANGED <<listVars, waitq, halted>>
    BY DEF SetBusy
  <1>2. PICK p, f, c : p = <<t, Len(stack[t])>> /\ f = Top(t) /\ c = f.ctx
    OBVIOUS
  <1>3. /\ CoreType /\ f \in FrameType /\ f.key \in Keys
        /\ stack[t] # <<>> /\ c # NULL /\ c \in Ctxs /\ ctx[c] # NULL /\ ctx[c] \in CtxType
        /\ sess[f.key] # NULL /\ sess[f.key] \in SessType
    <2>1. /\ f.pc = "enter" /\ FormOK(f) /\ f \in FrameType /\ stack[t] # <<>> /\ f.key \in Keys
          /\ f.ctx # NULL => f.ctx \in Ctxs /\ ctx[f.ctx] # NULL /\ ctx[f.ctx] \in CtxType
          /\ Refers(f) => sess[f.key] # NULL /\ sess[f.key] \in SessType
      BY <1>1, <1>2, AtFacts
    <2> QED
      BY <1>2, <2>1 DEF TaInv, FormOK, Refers
  <1>4. PICK g \in FrameType :
            /\ stack' = [stack EXCEPT ![t][1] = g]
            /\ g.op = f.op /\ g.key = f.key /\ g.ctx = c /\ g.uuid = f.uuid /\ g.busy
            /\ \/ g.pc = "inTA" /\ ~ctx[c].panicked
               \/ g.pc = "unlink" /\ g.op = "close"
               \/ g.pc = "panicked" /\ g.op # "close" /\ ctx[c].panicked /\ ~KeepCrashed(c)
               \/ g.pc = "clear" /\ g.op # "close"
    <2>1. PICK l : l = IF ~ctx[c].panicked /\ ~TooDeep(t, c) THEN "inTA"
                       ELSE IF f.op = "close" THEN "unlink"
                       ELSE IF ctx[c].panicked /\ ~KeepCrashed(c) THEN "panicked"
                       ELSE "clear"
      OBVIOUS
    <2>2. PICK b \in BOOLEAN : b = (l = "inTA")
      OBVIOUS
    <2>3. PICK g : g = [f EXCEPT !.busy = TRUE, !.pc = l, !.ok = b]
      OBVIOUS
    <2>4. Entered(t, f) = g
      BY <1>2, <2>1, <2>2, <2>3 DEF Entered
    <2>5. stack' = [stack EXCEPT ![t][1] = g]
      BY <1>2, <2>4 DEF SetBusy
    <2>6. l \in PCs
      BY <2>1 DEF PCs
    <2>7. /\ g \in FrameType /\ g.op = f.op /\ g.key = f.key /\ g.ctx = f.ctx /\ g.uuid = f.uuid
          /\ g.pc = l /\ g.busy = TRUE
      BY <1>3, <2>3, <2>6 DEF FrameType
    <2>8. g.busy
      BY <2>7
    <2> QED
      BY <1>2, <2>1, <2>5, <2>7, <2>8
  <1>5. sess' \in [Keys -> SessType \cup {NULL}] /\ \A j \in Keys : SessSame(sess[j], sess'[j])
    <2>1. PICK k : k = f.key
      OBVIOUS
    <2>2. PICK r : r = [sess[k] EXCEPT !.cancel = FALSE]
      OBVIOUS
    <2>3. /\ r \in SessType /\ r.ctx = sess[k].ctx /\ r.ref = sess[k].ref
          /\ r.given = sess[k].given /\ r.lock = sess[k].lock /\ r # NULL
      BY <1>3, <2>1, <2>2, TaManagerAssumption DEF SessType
    <2>4. sess' = [sess EXCEPT ![k].cancel = FALSE] \/ sess' = sess
      BY <1>2, <2>1 DEF SetBusy
    <2>5. sess' = [sess EXCEPT ![k] = r] \/ sess' = sess
      BY <1>3, <2>1, <2>2, <2>4 DEF CoreType
    <2> QED
      BY <1>3, <2>1, <2>3, <2>5 DEF CoreType, SessSame
  <1>6. PICK b \in BOOLEAN : b <=> ctx[c].busy \/ ~Has(c, "CC")
    OBVIOUS
  <1>7. PICK e : e = [ctx[c] EXCEPT !.busy = b]
    OBVIOUS
  <1>8. /\ e \in CtxType /\ e.uuid = ctx[c].uuid /\ e.ref = ctx[c].ref
        /\ e.releasing = ctx[c].releasing /\ e.init = ctx[c].init
        /\ e.panicked = ctx[c].panicked /\ e.busy = b
    BY <1>3, <1>7 DEF CtxType
  <1>9. e.busy <=> ctx[c].busy \/ ~Has(c, "CC")
    BY <1>6, <1>8
  <1>10. /\ ctx' = [ctx EXCEPT ![c] = e]
         /\ ctx[c].busy => Has(c, "CC")
         /\ IF Has(c, "SI") /\ ~Has(c, "CC")
            THEN si_thread \in {t, NULL} /\ si_thread' = t /\ si_count' = si_count + 1
            ELSE UNCHANGED siVars
    <2>1. CASE Has(c, "CC") /\ UNCHANGED <<ctx, siVars>>
      <3>1. ctx[c].busy \in BOOLEAN
        BY <1>3 DEF CtxType
      <3>2. ctx[c].busy = b
        BY <1>6, <2>1, <3>1
      <3>3. e = ctx[c]
        BY <1>3, <1>7, <3>2 DEF CtxType
      <3> QED
        BY <1>3, <2>1, <3>3 DEF CoreType
    <2>2. CASE /\ ~Has(c, "CC") /\ ~ctx[c].busy
               /\ ctx' = [ctx EXCEPT ![c].busy = TRUE]
               /\ \/ /\ Has(c, "SI") /\ CanLock(t)
                     /\ si_thread' = t
                     /\ si_count' = si_count + 1
                  \/ ~Has(c, "SI") /\ UNCHANGED siVars
      <3>1. b = TRUE
        BY <1>6, <2>2
      <3>2. ctx' = [ctx EXCEPT ![c] = e]
        BY <1>3, <1>7, <2>2, <3>1 DEF CoreType, CtxType
      <3> QED
        BY <2>2, <3>2 DEF CanLock
    <2> QED
      BY <1>2, <2>1, <2>2 DEF SetBusy
  <1>11. /\ c = Top(t).ctx /\ At(t, "enter") /\ g.key = Top(t).key /\ g.op = Top(t).op
         /\ g.uuid = Top(t).uuid
    BY <1>1, <1>2, <1>4
  <1> QED
    BY <1>1, <1>4, <1>5, <1>8, <1>9, <1>10, <1>11, EnteredKeeps

\* A call that would have to wait for its own thread to leave the context: it is
\* not the first call of the thread to want in.
LEMMA Reentry ==
    ASSUME TaInv, NEW p \in Calls, NEW f, f = Call(p), f.pc = "enter", NEW c, c = f.ctx,
           f.op # "cancel", ~Has(c, "CC"), ctx[c].busy, has_single_instance_lock(p[1], c)
    PROVE  \E q \in Calls : q # p /\ q[1] = p[1] /\ Call(q).ctx = c /\ Call(q).busy
  <1>1. /\ CoreType /\ FramesOK /\ CountsOK /\ ContextsOK /\ LockOK
    BY DEF TaInv
  <1>2. /\ FormOK(f) /\ p[1] \in Threads
        /\ f.ctx # NULL => f.ctx \in Ctxs /\ ctx[f.ctx] # NULL
    BY <1>1, CallFacts
  <1>3. c # NULL /\ ~f.busy /\ Refers(f) /\ Owns(f) /\ c \in Ctxs /\ ctx[c] # NULL
    BY <1>2 DEF FormOK, Refers, Owns
  <1>4. PICK q \in Calls : Call(q).ctx = c /\ Occupies(Call(q))
    BY <1>1, <1>3 DEF ContextsOK, ContextOK
  <1>5. PICK h : h = Call(q)
    OBVIOUS
  <1>6. h.busy /\ q # p /\ FormOK(h) /\ q[1] \in Threads
    BY <1>1, <1>3, <1>4, <1>5, CallFacts DEF Occupies
  <1>7. CASE Has(c, "SI")
    <2>1. q \in Singles
      BY <1>4, <1>7 DEF Singles, InSingle
    <2>2. q[1] = si_thread
      BY <1>1, <2>1 DEF LockOK
    <2>3. si_thread # NULL
      BY <1>6, <2>2, TaManagerAssumption
    <2>4. si_thread = p[1]
      BY <2>3 DEF has_single_instance_lock
    <2> QED
      BY <1>4, <1>5, <1>6, <2>2, <2>4
  <1>8. CASE ~Has(c, "SI")
    <2>1. f.key \in SessionsOf(c) /\ ctx[c].ref \in Nat /\ ctx[c].ref > 0
      BY <1>1, <1>2, <1>3, InUseCounts
    <2>2. ctx[c].ref <= 1
      BY <1>1, <1>3, <1>8 DEF ContextsOK, ContextOK, Has
    <2>3. CountOf(ctx[c]) = 1
      BY <1>3, <2>1, <2>2 DEF CountOf
    <2>4. Closers(c) = {} /\ \A j \in SessionsOf(c) : j = f.key
      BY <1>1, <1>3, <2>1, <2>3, UsersFacts
    <2>5. h.pc # "destroy" /\ h.op # "cancel" /\ h.pc # "locking"
      BY <1>6 DEF FormOK
    <2>6. Refers(h) => h.key \in SessionsOf(c)
      BY <1>1, <1>3, <1>4, <1>5, <2>5, InUseCounts
    <2>7. ~Refers(h) => q \in Closers(c)
      BY <1>1, <1>3, <1>4, <1>5, <2>5, InUseCounts
    <2>8. Refers(h) /\ Owns(h) /\ h.key = f.key
      BY <2>4, <2>5, <2>6, <2>7 DEF Owns
    <2>9. Apart(Call(p), Call(q))
      BY <1>1, <1>6 DEF FramesOK
    <2> QED
      BY <1>3, <1>5, <2>8, <2>9 DEF Apart
  <1> QED
    BY <1>7, <1>8

LEMMA SetBusyRefusedKeeps ==
    ASSUME TaInv, UNCHANGED setup, NEW t \in Threads, SetBusyRefused(t)
    PROVE  TaInv'
  <1>1. At(t, "enter") /\ UNCHANGED <<ctx, listVars, sess, siVars>>
    BY DEF SetBusyRefused
  <1>2. PICK p, f, c, g : p = <<t, Len(stack[t])>> /\ f = Top(t) /\ c = f.ctx /\ g = Refused(f)
    OBVIOUS
  <1>3. /\ stack[t] # <<>> /\ f.pc = "enter" /\ NotWaiting(t) /\ waitq \in QueueType
        /\ p \in Calls /\ p[1] = t /\ Call(p) = f /\ f \in FrameType /\ FormOK(f)
        /\ f.ctx # NULL => CtxFor(f, ctx[f.ctx])
    BY <1>1, <1>2, AtFacts
  <1>4. /\ CoreType /\ StackType /\ f.ctx # NULL /\ ~f.busy
        /\ f.op \in {"open", "invoke", "close"}
    BY <1>3, TypeFacts DEF TaInv, FormOK, FrameType, Ops
  <1>5. /\ ~Has(c, "CC") /\ ctx[c].busy /\ has_single_instance_lock(t, c)
        /\ stack' = [stack EXCEPT ![t][1] = g] /\ halted' = Fatal(f.op)
    BY <1>2 DEF SetBusyRefused
  <1>6. /\ g \in FrameType /\ g.key = f.key /\ g.ctx = f.ctx /\ g.uuid = f.uuid /\ g.busy = f.busy
        /\ \/ f.op = "open" /\ g.op = "close" /\ g.pc = "enter"
           \/ f.op = "close" /\ g.op = "close" /\ g.pc = "unlink"
           \/ f.op = "invoke" /\ g = f
    <2>1. CASE f.op = "open"
      <3>1. g = [f EXCEPT !.op = "close"]
        BY <1>2, <2>1 DEF Refused
      <3> QED
        BY <1>3, <2>1, <3>1 DEF FrameType, Ops
    <2>2. CASE f.op = "close"
      <3>1. g = [f EXCEPT !.pc = "unlink"]
        BY <1>2, <2>2 DEF Refused
      <3> QED
        BY <1>3, <2>2, <3>1 DEF FrameType, PCs
    <2>3. CASE f.op = "invoke"
      <3>1. g = f
        BY <1>2, <2>3 DEF Refused
      <3> QED
        BY <1>3, <2>3, <3>1
    <2> QED
      BY <1>4, <2>1, <2>2, <2>3
  <1>7. Weaker(f, g) /\ Refers(g) /\ FormOK(g) /\ CtxFor(g, ctx[g.ctx]) /\ g.pc # "destroy"
    BY <1>3, <1>4, <1>6 DEF Weaker, Refers, Owns, FormOK, CtxFor
  <1>8. WaitsKept(t)
    <2>1. Fewer(waitq, unlock_single_instance(waitq)) /\ Fewer(waitq, waitq)
      BY <1>3, CondVarsFacts, SignalFewer, FewerSame DEF unlock_single_instance
    <2>2. waitq' = unlock_single_instance(waitq) \/ waitq' = waitq
      BY DEF SetBusyRefused
    <2>3. Fewer(waitq, waitq')
      BY <2>1, <2>2
    <2> QED
      BY <1>3, <2>3, WaitsFewer
  <1>9. halted' \in BOOLEAN
    BY <1>5 DEF Fatal
  <1>10. PanicOnlyOnReentry'
    <2>1. CASE f.op # "invoke"
      BY <1>5, <2>1 DEF PanicOnlyOnReentry, Fatal
    <2>2. CASE f.op = "invoke"
      <3>1. stack' = stack
        <4>1. f = stack[t][1] /\ stack[t] \in Seq(FrameType) /\ stack \in [Threads -> Seq(FrameType)]
          BY <1>2, <1>4 DEF Top, StackType
        <4>2. [stack[t] EXCEPT ![1] = f] = stack[t]
          BY <4>1
        <4> QED
          BY <1>4, <1>5, <1>6, <2>2, <4>1, <4>2
      <3>2. PICK q \in Calls : q # p /\ q[1] = p[1] /\ Call(q).ctx = c /\ Call(q).busy
        BY <1>2, <1>3, <1>5, <2>2, Reentry
      <3>3. Calls' = Calls /\ Call(p)' = Call(p) /\ Call(q)' = Call(q)
        BY <3>1 DEF Calls, Call
      <3>4. p[2] = Len(stack'[p[1]])
        BY <1>2, <3>1
      <3> QED
        BY <1>2, <1>3, <2>2, <3>2, <3>3, <3>4 DEF PanicOnlyOnReentry
    <2> QED
      BY <2>1, <2>2
  <1>11. sess' \in [Keys -> SessType \cup {NULL}] /\ \A j \in Keys : SessSame(sess[j], sess'[j])
    BY <1>1, <1>4 DEF CoreType, SessSame
  <1>12. /\ f.pc # "destroy" /\ (g.busy <=> f.busy) /\ stack[t] # <<>>
         /\ stack' = [stack EXCEPT ![t][1] = g] /\ UNCHANGED <<setup, ctx, listVars, siVars>>
    BY <1>1, <1>3, <1>5, <1>6
  <1> QED
    BY <1>2, <1>4, <1>6, <1>7, <1>8, <1>9, <1>10, <1>11, <1>12, QuietStep

-----------------------------------------------------------------------------
(* Opening a session *)

\* What the call f at place p of thread t, or none, has when it begins to look
\* for a context of session k: with s0 the session is there, and is its own.
Opening(t, p, f, k, s0) ==
    /\ f.ctx = NULL /\ ~f.busy
    /\ Refers(f) => f.key = k
    /\ \A j : j # k => ~Unready(f, j)
    /\ s0 \in [Keys -> SessType \cup {NULL}] /\ s0[k] # NULL
    /\ s0[k].ctx = NULL /\ s0[k].lock = t /\ ~s0[k].given
    /\ \A j \in Keys : j # k => s0[j] = sess[j]
    /\ sess[k] = NULL \/ sess[k].ctx = NULL
    /\ CountOf(sess[k]) \in Nat /\ s0[k].ref + N(Refers(f)) = CountOf(sess[k]) + 1
    /\ \A q \in Calls : q # p /\ Refers(Call(q)) /\ Call(q).key = k => Early /\ ~Owns(Call(q))

\* The session is on the list.
Listing(s0) ==
    /\ open_sessions' \in [Lists -> Seq(Ids)]
    /\ \A l \in Lists : Distinct(open_sessions'[l])
    /\ \A j \in Keys : s0[j] # NULL => Contains(open_sessions'[j[1]], j[2])

\* The call becomes g.
Becomes(t, p, f, g) ==
    /\ StackStep /\ p[1] = t /\ p \in Calls' /\ Step(p, f, g)
    /\ \A u \in Threads \ {t} : stack'[u] = stack[u]
    /\ OthersCtx(p) => BelowOK(p)'

\* The session gets context c, or none.
Attached(k, s0, c) ==
    /\ sess' \in [Keys -> SessType \cup {NULL}] /\ sess'[k] # NULL
    /\ sess'[k].ctx = c /\ sess'[k].ref = s0[k].ref /\ sess'[k].lock = s0[k].lock
    /\ sess'[k].given = s0[k].given
    /\ \A j \in Keys : j # k => sess'[j] = s0[j]

LEMMA OpenStep ==
    ASSUME TaInv, ~halted, UNCHANGED <<setup, siVars, halted>>, NEW t \in Threads, NEW p, NEW f,
           NEW k \in Keys, NEW s0, Opening(t, p, f, k, s0), Listing(s0),
           NEW g \in FrameType, Becomes(t, p, f, g),
           g.op = "open", g.key = k, ~g.busy, g.pc \in {"lookup", "initfail", "enter", "load"},
           FormOK(g), NEW c, c = g.ctx, Attached(k, s0, c),
           ctx' \in [Ctxs -> CtxType \cup {NULL}], tee_ctxes' \in Seq(Ctxs),
           \A d \in Ctxs : d # c => /\ ctx'[d] = ctx[d]
                                    /\ Contains(tee_ctxes', d) <=> Contains(tee_ctxes, d),
           c # NULL => /\ ctx'[c] # NULL /\ ctx'[c].uuid \in Uuids /\ CtxFor(g, ctx'[c])
                       /\ CountOf(ctx'[c]) = CountOf(ctx[c]) + 1
                       /\ ContextOK(c)',
           OthersCtx(p), ListsOK', WaitsKept(t)
    PROVE  TaInv'
  <1>1. /\ CoreType /\ StackType /\ FramesOK /\ CountsOK /\ SessionsOK /\ ContextsOK
        /\ NULL \notin Ctxs
    BY TypeFacts, TaManagerAssumption DEF TaInv
  <1>2. /\ StackStep /\ p[1] = t /\ p \in Calls' /\ Step(p, f, g)
        /\ \A u \in Threads \ {t} : stack'[u] = stack[u]
        /\ BelowOK(p)'
    BY DEF Becomes
  <1>3. /\ f.ctx = NULL /\ ~f.busy
        /\ Refers(f) => f.key = k
        /\ \A j : j # k => ~Unready(f, j)
        /\ \A q \in Calls : q # p /\ Refers(Call(q)) /\ Call(q).key = k =>
              Early /\ ~Owns(Call(q))
    BY DEF Opening
  <1>4. Refers(g) /\ Owns(g) /\ (c = NULL <=> g.pc \in {"lookup", "initfail"})
    BY DEF Refers, Owns, FormOK
  <1>5. /\ sess' \in [Keys -> SessType \cup {NULL}] /\ sess'[k] # NULL
        /\ sess'[k].ctx = c /\ sess'[k].ref = s0[k].ref /\ sess'[k].lock = t
        /\ ~sess'[k].given
        /\ \A j \in Keys : j # k => sess'[j] = sess[j]
    BY DEF Attached, Opening
  <1>6. TypesKept
    <2>1. \A d \in Ctxs : ctx'[d] # NULL => ctx'[d].uuid \in Uuids
      BY <1>1 DEF CoreType
    <2>2. open_sessions' \in [Lists -> Seq(Ids)]
      BY DEF Listing
    <2> QED
      BY <1>5, <2>1, <2>2 DEF TypesKept
  <1>7. OthersSess(p)
    BY <1>1, <1>3, <1>5, OthersSessStep
  <1>8. CallKept(p, g)
    <2>1. SessFor(p[1], g, sess'[g.key])
      BY <1>2, <1>4, <1>5 DEF SessFor
    <2>2. ASSUME NEW q \in Calls, q # p PROVE Apart(g, Call(q))'
      <3>1. /\ Call(q)' = Call(q)
            /\ Refers(Call(q)) /\ Call(q).key = k => Early /\ ~Owns(Call(q))
        BY <1>2, <1>3, <2>2 DEF Step
      <3>2. ~Occupies(g)' /\ g.pc # "destroy"
        BY DEF Occupies
      <3> QED
        BY <3>1, <3>2, EarlyStays DEF Apart, Refers, Owns
    <2>3. g.ctx # NULL => CtxFor(g, ctx'[g.ctx])
      OBVIOUS
    <2> QED
      BY <1>2, <2>1, <2>2, <2>3 DEF CallKept
  <1>9. CountsKept(k, f, g)
    <2>1. ASSUME NEW d \in Ctxs
          PROVE  /\ CountOf(ctx[d]) \in Nat
                 /\ CountOf(ctx'[d]) = CountOf(ctx[d]) + N(IsOf(sess'[k], d))
                 /\ ~IsOf(sess[k], d)
                 /\ ~Closing(f, d) /\ ~Closing(g, d)
      <3>1. CountOf(ctx[d]) \in Nat
        BY <1>1, UsersFacts
      <3>2. ~Closing(g, d) /\ ~Closing(f, d)
        BY <1>1, <1>3, <1>4 DEF Closing
      <3>3. d = c => CountOf(ctx'[d]) = CountOf(ctx[d]) + 1
        BY <1>1
      <3>4. d # c => CountOf(ctx'[d]) = CountOf(ctx[d])
        OBVIOUS
      <3>5. IsOf(sess'[k], d) <=> d = c
        BY <1>5 DEF IsOf
      <3>6. ~IsOf(sess[k], d)
        BY <1>1 DEF IsOf, Opening
      <3> QED
        BY <3>1, <3>2, <3>3, <3>4, <3>5, <3>6 DEF N
    <2>2. /\ CountOf(sess'[k]) \in Nat
          /\ CountOf(sess'[k]) + N(Refers(f)) = CountOf(sess[k]) + 1
      <3>1. sess'[k] \in SessType
        BY <1>5
      <3> QED
        BY <1>5, <3>1 DEF CountOf, Opening, SessType
    <2>3. \A d \in Ctxs :
             /\ CountOf(ctx'[d]) \in Nat
             /\ CountOf(ctx'[d]) + N(IsOf(sess[k], d)) + N(Closing(f, d))
                = CountOf(ctx[d]) + N(IsOf(sess'[k], d)) + N(Closing(g, d))
      BY <2>1 DEF N
    <2> QED
      BY <1>3, <1>4, <1>5, <2>2, <2>3 DEF CountsKept, N
  <1>10. ListedKept(p, f, g)
    <2>1. c = NULL => Unready(g, k)
      BY <1>4 DEF Unready
    <2>2. \A j \in Keys : sess'[j] # NULL => Contains(open_sessions'[j[1]], j[2])
      BY DEF Listing, Attached, Opening
    <2>3. ASSUME NEW j \in Keys, sess'[j] # NULL, sess'[j].ctx = NULL
          PROVE  \/ Unready(g, j) /\ p \in Calls'
                 \/ sess[j] # NULL /\ sess[j].ctx = NULL /\ ~Unready(f, j)
      BY <1>2, <1>3, <1>5, <2>1, <2>3
    <2> QED
      BY <2>2, <2>3 DEF ListedKept
  <1>11. ContextsOK'
    <2>1. ASSUME NEW d \in Ctxs, d # c
          PROVE  ~OccAt(g, d) /\ ~OccAt(f, d) /\ ~Frees(f, d)
      BY <1>1, <1>3 DEF OccAt, Frees
    <2> QED
      BY <1>1, <1>2, <2>1, ContextsStep
  <1>12. InSingle(g)' <=> InSingle(f)
    BY <1>3 DEF InSingle, Occupies
  <1>13. halted' \in BOOLEAN /\ PanicOnlyOnReentry'
    BY <1>1, NotHalted
  <1> QED
    BY <1>2, <1>6, <1>7, <1>8, <1>9, <1>10, <1>11, <1>12, <1>13, GeneralStep

\* tee_ta_context_find() finds a context with the uuid if there is one.
LEMMA FindFacts ==
    ASSUME CoreType, NEW u
    PROVE  /\ \A c \in tee_ta_context_find(u) :
                 c \in Ctxs /\ Contains(tee_ctxes, c) /\ ctx[c].uuid = u
           /\ tee_ta_context_find(u) = {} =>
                 \A c : Contains(tee_ctxes, c) => ctx[c].uuid # u
  <1>1. tee_ctxes \in Seq(Ctxs)
    BY DEF CoreType
  <1>2. PICK is : is = {i \in 1..Len(tee_ctxes) : ctx[tee_ctxes[i]].uuid = u}
    OBVIOUS
  <1>3. tee_ta_context_find(u) = {tee_ctxes[i] : i \in {j \in is : \A n \in is : j <= n}}
    BY <1>2 DEF tee_ta_context_find
  <1>4. \A c \in tee_ta_context_find(u) :
            c \in Ctxs /\ Contains(tee_ctxes, c) /\ ctx[c].uuid = u
    BY <1>1, <1>2, <1>3 DEF Contains
  <1>5. ASSUME NEW c, Contains(tee_ctxes, c), ctx[c].uuid = u
        PROVE  tee_ta_context_find(u) # {}
    <2>1. is \in SUBSET Nat /\ is # {}
      BY <1>1, <1>2, <1>5 DEF Contains
    <2>2. PICK j \in is : \A n \in is : j <= n
      BY <2>1, MinIsLeast
    <2> QED
      BY <1>3, <2>2
  <1> QED
    BY <1>4, <1>5

\* No context yet: the thread waits, or gives up.
LEMMA NoContextKeeps ==
    ASSUME TaInv, ~halted, UNCHANGED <<setup, ctx, tee_ctxes, siVars, halted>>,
           NEW t \in Threads, NEW p, NEW f, NEW k \in Keys, NEW s0, Opening(t, p, f, k, s0),
           Listing(s0), NEW g \in FrameType, Becomes(t, p, f, g),
           g.op = "open", g.key = k, g.uuid \in Uuids, g.ctx = NULL, ~g.busy,
           g.pc \in {"lookup", "initfail"}, sess' = s0, WaitsKept(t)
    PROVE  TaInv'
  <1>1. CoreType /\ FramesOK /\ ListsOK /\ ContextsOK
    BY DEF TaInv
  <1>2. FormOK(g)
    BY DEF FormOK
  <1>3. PICK c : c = g.ctx
    OBVIOUS
  <1>4. Attached(k, s0, c)
    BY <1>3 DEF Attached, Opening
  <1>5. /\ ctx' \in [Ctxs -> CtxType \cup {NULL}] /\ tee_ctxes' \in Seq(Ctxs)
    BY <1>1 DEF CoreType
  <1>6. OthersCtx(p)
    BY <1>1, OthersCtxSame
  <1>7. ListsOK'
    <2>1. \A l \in Lists : Distinct(open_sessions'[l])
      BY DEF Listing
    <2> QED
      BY <1>1, <2>1, ListsStep DEF ListsOK
  <1>8. c = NULL
    BY <1>3
  <1> QED
    BY <1>2, <1>3, <1>4, <1>5, <1>6, <1>7, <1>8, OpenStep

\* The session gets a context that is there.
LEMMA SharedKeeps ==
    ASSUME TaInv, ~halted, UNCHANGED <<setup, tee_ctxes, siVars, halted>>,
           NEW t \in Threads, NEW p, NEW f, NEW k \in Keys, NEW s0, Opening(t, p, f, k, s0),
           Listing(s0), NEW g \in FrameType, Becomes(t, p, f, g),
           g.op = "open", g.key = k, ~g.busy, g.pc = "enter", NEW c, g.ctx = c,
           c \in Ctxs, Contains(tee_ctxes, c), ~ctx[c].init, Has(c, "SI"), ~Full(c),
           NEW e \in CtxType, ctx' = [ctx EXCEPT ![c] = e], e.uuid = ctx[c].uuid,
           e.ref = ctx[c].ref + 1, e.init = ctx[c].init, e.panicked = ctx[c].panicked,
           e.releasing = ctx[c].releasing, e.busy = ctx[c].busy,
           Attached(k, s0, c), WaitsKept(t)
    PROVE  TaInv'
  <1>1. /\ CoreType /\ StackType /\ FramesOK /\ ListsOK /\ ContextsOK
        /\ NULL \notin Ctxs
    BY TypeFacts, TaManagerAssumption DEF TaInv
  <1>2. /\ ctx[c] # NULL /\ ctx[c] \in CtxType /\ ctx[c].uuid \in Uuids /\ ContextOK(c)
        /\ ~ctx[c].releasing /\ ctx[c].ref \in Nat
    <2>1. ctx[c] # NULL /\ ContextOK(c)
      BY <1>1 DEF ContextsOK
    <2>2. ctx[c] \in CtxType /\ ctx[c].uuid \in Uuids
      BY <1>1, <2>1, TypeFacts
    <2> QED
      BY <2>1, <2>2 DEF ContextOK, CtxType
  <1>3. FormOK(g)
    BY <1>1 DEF FormOK
  <1>4. /\ ctx' \in [Ctxs -> CtxType \cup {NULL}] /\ ctx'[c] = e /\ e # NULL
        /\ \A d \in Ctxs : d # c => ctx'[d] = ctx[d]
        /\ \A d \in Ctxs : ctx[d] # NULL => ctx'[d].uuid = ctx[d].uuid
    BY <1>1, <1>2, CtxUpdate
  <1>5. OthersCtx(p)
    <2>1. ASSUME NEW q \in Calls, q # p, Call(q).ctx # NULL
          PROVE  /\ CtxFor(Call(q), ctx'[Call(q).ctx])
                 /\ ctx'[Call(q).ctx].uuid = ctx[Call(q).ctx].uuid
      <3>1. PICK h, d : h = Call(q) /\ d = h.ctx
        OBVIOUS
      <3>2. d \in Ctxs /\ ctx[d] # NULL /\ CtxFor(h, ctx[d])
        BY <1>1, <2>1, <3>1, CallFacts
      <3>3. CASE d # c
        BY <1>4, <3>1, <3>2, <3>3
      <3>4. CASE d = c
        <4>1. h.pc # "load" /\ h.pc # "destroy"
          BY <1>2, <3>2, <3>4 DEF CtxFor
        <4>2. CtxFor(h, e)
          BY <1>4, <3>2, <3>4, <4>1 DEF CtxFor
        <4> QED
          BY <1>4, <3>1, <3>4, <4>2
      <3> QED
        BY <3>3, <3>4
    <2> QED
      BY <2>1 DEF OthersCtx
  <1>6. ListsOK'
    <2>1. \A l \in Lists : Distinct(open_sessions'[l])
      BY DEF Listing
    <2>2. \A d \in Ctxs : Contains(tee_ctxes', d) =>
              Contains(tee_ctxes, d) /\ ctx'[d].uuid = ctx[d].uuid
      BY <1>1, <1>4 DEF ContextsOK
    <2> QED
      BY <1>1, <2>1, <2>2, ListsStep DEF ListsOK
  <1>7. ContextOK(c)'
    <2>1. PICK d, fl : d = ctx[c] /\ fl = Flags[d.uuid]
      OBVIOUS
    <2>2. ~OccAt(f, c) /\ ~OccAt(g, c)
      BY <1>1 DEF OccAt, Opening
    <2>3. "PTA" \in fl => ~e.panicked
      BY <1>2, <2>1 DEF ContextOK
    <2>4. e.busy <=> (OccAt(g, c) \/ (d.busy /\ ~OccAt(f, c)))
      BY <1>2, <2>1, <2>2 DEF CtxType
    <2>5. /\ d # NULL /\ e # NULL /\ e = ctx'[c] /\ e.uuid = d.uuid
          /\ Contains(tee_ctxes', c) <=> ~e.releasing
          /\ e.releasing /\ e.ref # 0 => e.panicked /\ NotKept(fl)
      BY <1>2, <1>4, <2>1 DEF ContextOK
    <2>6. ~({"SI", "MS"} \subseteq fl) => e.ref <= 1
      BY <1>2, <2>1 DEF Full, Has
    <2>7. e.ref # 0
      BY <1>2
    <2>8. StackStep /\ Step(p, f, g)
      BY DEF Becomes
    <2> QED
      BY <1>1, <1>2, <1>5, <2>1, <2>3, <2>4, <2>5, <2>6, <2>7, <2>8, ContextStep
  <1>8. /\ ctx'[c] # NULL /\ ctx'[c].uuid \in Uuids /\ CtxFor(g, ctx'[c])
        /\ CountOf(ctx'[c]) = CountOf(ctx[c]) + 1
    BY <1>2, <1>4 DEF CtxFor, CountOf
  <1>9. /\ tee_ctxes' \in Seq(Ctxs)
        /\ \A d \in Ctxs : d # c => /\ ctx'[d] = ctx[d]
                                    /\ Contains(tee_ctxes', d) <=> Contains(tee_ctxes, d)
    BY <1>1, <1>4 DEF CoreType
  <1>10. ctx' \in [Ctxs -> CtxType \cup {NULL}] /\ c = g.ctx
    BY <1>4
  <1> QED
    BY <1>3, <1>5, <1>6, <1>7, <1>8, <1>9, <1>10, OpenStep

\* The session gets a new context.
LEMMA NewContextKeeps ==
    ASSUME TaInv, ~halted, UNCHANGED <<setup, siVars, halted>>,
           NEW t \in Threads, NEW p, NEW f, NEW k \in Keys, NEW s0, Opening(t, p, f, k, s0),
           Listing(s0), NEW g \in FrameType, Becomes(t, p, f, g),
           g.op = "open", g.key = k, ~g.busy, NEW u \in Uuids,
           g.pc = IF "PTA" \in Flags[u] THEN "enter" ELSE "load", NEW c \in Ctxs, g.ctx = c,
           ctx[c] = NULL, ctx' = [ctx EXCEPT ![c] = NewCtx(u)],
           tee_ctxes' = Append(tee_ctxes, c),
           "SI" \in Flags[u] => \A d \in Ctxs : Contains(tee_ctxes, d) => ctx[d].uuid # u,
           Attached(k, s0, c), WaitsKept(t)
    PROVE  TaInv'
  <1>1. /\ CoreType /\ StackType /\ FramesOK /\ ListsOK /\ ContextsOK
        /\ NULL \notin Ctxs
    BY TypeFacts, TaManagerAssumption DEF TaInv
  <1>2. PICK e : e = NewCtx(u)
    OBVIOUS
  <1>3. /\ e \in CtxType /\ e.uuid = u /\ e.ref = 1 /\ ~e.busy /\ ~e.panicked /\ ~e.releasing
        /\ "PTA" \notin Flags[u] => e.init
    <2>1. u \in UNION {DOMAIN s.flags : s \in Setups}
      BY <1>1 DEF CoreType, Uuids, Flags
    <2>2. PICK b \in BOOLEAN : b = ("PTA" \notin Flags[u])
      OBVIOUS
    <2>3. e = [uuid |-> u, ref |-> 1, busy |-> FALSE, init |-> b, panicked |-> FALSE,
               releasing |-> FALSE]
      BY <1>2, <2>2 DEF NewCtx
    <2>4. /\ e \in CtxType /\ e.uuid = u /\ e.ref = 1 /\ e.busy = FALSE /\ e.panicked = FALSE
          /\ e.releasing = FALSE /\ e.init = b
      BY <2>1, <2>3 DEF CtxType
    <2> QED
      BY <2>2, <2>4
  <1>4. FormOK(g)
    BY <1>1 DEF FormOK
  <1>5. /\ ctx' \in [Ctxs -> CtxType \cup {NULL}] /\ ctx'[c] = e /\ e # NULL
        /\ \A d \in Ctxs : d # c => ctx'[d] = ctx[d]
    BY <1>1, <1>2, <1>3, TaManagerAssumption DEF CoreType
  <1>6. \A q \in Calls : Call(q).ctx # c
    BY <1>1, CallFacts
  <1>7. OthersCtx(p)
    BY <1>1, <1>5, <1>6, OthersCtxStep
  <1>8. /\ tee_ctxes' \in Seq(Ctxs) /\ Distinct(tee_ctxes')
        /\ \A d : Contains(tee_ctxes', d) <=> (Contains(tee_ctxes, d) \/ d = c)
    <2>1. tee_ctxes \in Seq(Ctxs) /\ Distinct(tee_ctxes) /\ ~Contains(tee_ctxes, c)
      BY <1>1 DEF CoreType, ListsOK, ContextsOK
    <2> QED
      BY <2>1, AppendFacts
  <1>9. ListsOK'
    <2>1. \A l \in Lists : Distinct(open_sessions'[l])
      BY DEF Listing
    <2>2. ASSUME NEW x \in Ctxs, NEW y \in Ctxs, Contains(tee_ctxes', x), Contains(tee_ctxes', y),
                 Has(x, "SI")', ctx'[x].uuid = ctx'[y].uuid
          PROVE  x = y
      <3>1. "SI" \in Flags[ctx'[x].uuid]
        BY <2>2 DEF Has, Flags
      <3>2. CASE x # c /\ y # c
        <4>1. ctx'[x] = ctx[x] /\ ctx'[y] = ctx[y] /\ Contains(tee_ctxes, x) /\ Contains(tee_ctxes, y)
          BY <1>5, <1>8, <2>2, <3>2
        <4>2. Has(x, "SI") /\ ctx[x].uuid = ctx[y].uuid
          BY <2>2, <3>1, <4>1 DEF Has
        <4> QED
          BY <1>1, <4>1, <4>2 DEF ListsOK
      <3>3. CASE x = c /\ y # c
        BY <1>3, <1>5, <1>8, <2>2, <3>1, <3>3
      <3>4. CASE x # c /\ y = c
        BY <1>3, <1>5, <1>8, <2>2, <3>1, <3>4
      <3> QED
        BY <3>2, <3>3, <3>4
    <2> QED
      BY <1>8, <2>1, <2>2 DEF ListsOK, Distinct, Contains, Has, Flags
  <1>10. ContextOK(c)'
    <2>1. StackStep /\ Step(p, f, g)
      BY DEF Becomes
    <2>2. ASSUME NEW q \in Calls', Call(q)'.ctx = c, Occupies(Call(q))' PROVE FALSE
      <3>1. CASE q = p
        <4>1. Call(q)' = g
          BY <2>1, <2>2, <3>1 DEF Step
        <4> QED
          BY <2>2, <4>1 DEF Occupies
      <3>2. CASE q # p
        <4>1. q \in Calls /\ Call(q)' = Call(q)
          BY <2>1, <2>2, <3>2 DEF Step
        <4> QED
          BY <1>6, <2>2, <4>1
      <3> QED
        BY <3>1, <3>2
    <2>3. Contains(tee_ctxes', c)
      BY <1>8
    <2> QED
      BY <1>3, <1>5, <2>2, <2>3 DEF ContextOK
  <1>11. CtxFor(g, e)
    BY <1>3, <1>5 DEF CtxFor
  <1>12. /\ ctx'[c] # NULL /\ ctx'[c].uuid \in Uuids /\ CtxFor(g, ctx'[c])
         /\ CountOf(ctx'[c]) = CountOf(ctx[c]) + 1
    BY <1>3, <1>5, <1>11 DEF CountOf
  <1>13. \A d \in Ctxs : d # c => /\ ctx'[d] = ctx[d]
                                  /\ Contains(tee_ctxes', d) <=> Contains(tee_ctxes, d)
    BY <1>5, <1>8
  <1>14. /\ ctx' \in [Ctxs -> CtxType \cup {NULL}] /\ c = g.ctx /\ tee_ctxes' \in Seq(Ctxs)
         /\ g.pc \in {"lookup", "initfail", "enter", "load"}
    BY <1>5, <1>8
  <1> QED
    BY <1>4, <1>7, <1>9, <1>10, <1>12, <1>13, <1>14, OpenStep

\* The frame of a call that opens a session
LEMMA OpenFrame ==
    ASSUME CoreType, NEW k \in Keys, NEW u \in Uuids, NEW c \in Ctxs \cup {NULL}, NEW l \in PCs
    PROVE  LET g == Frame("open", k, u, c, l)
           IN  /\ g \in FrameType /\ g.op = "open" /\ g.key = k /\ g.uuid = u /\ g.ctx = c
               /\ g.pc = l /\ ~g.busy
  BY DEF Frame, FrameType, Ops

LEMMA WithContextKeeps ==
    ASSUME TaInv, ~halted, UNCHANGED <<setup, siVars, halted>>,
           NEW t \in Threads, NotWaiting(t), NEW p, NEW f, NEW k \in Keys, NEW u \in Uuids, NEW s0,
           NEW rest, Opening(t, p, f, k, s0), Listing(s0),
           \A g \in FrameType : g.key = k /\ Become(t, rest, g) =>
                                    Becomes(t, p, f, g) /\ stack'[t] # <<>>,
           tee_ta_init_session_with_context(t, k, u, s0, rest)
    PROVE  TaInv'
  <1>1. CoreType /\ ContextsOK /\ waitq \in QueueType /\ NULL \notin Ctxs
    BY TaManagerAssumption DEF TaInv, CoreType, QueueType
  <1>2. PICK found : found = tee_ta_context_find(u)
    OBVIOUS
  <1>3. /\ \A c \in found : c \in Ctxs /\ Contains(tee_ctxes, c) /\ ctx[c].uuid = u
        /\ found = {} => \A c : Contains(tee_ctxes, c) => ctx[c].uuid # u
    BY <1>1, <1>2, FindFacts
  <1>4. PICK share, unused : /\ share = {c \in found : ~ctx[c].init /\ Has(c, "SI")}
                             /\ unused = {c \in Ctxs : ctx[c] = NULL}
    OBVIOUS
  <1>5. waitq' = waitq => WaitsKept(t)
    BY <1>1, FewerSame, WaitsFewer
  <1>6. /\ s0 \in [Keys -> SessType \cup {NULL}] /\ s0[k] # NULL /\ s0[k] \in SessType
    BY DEF Opening
  <1>7. ASSUME NEW c \in Ctxs, sess' = [s0 EXCEPT ![k].ctx = c]
        PROVE  Attached(k, s0, c)
    <2>1. PICK r : r = [s0[k] EXCEPT !.ctx = c]
      OBVIOUS
    <2>2. /\ r \in SessType /\ r # NULL /\ r.ctx = c /\ r.ref = s0[k].ref /\ r.lock = s0[k].lock
          /\ r.given = s0[k].given
      BY <1>6, <2>1, TaManagerAssumption DEF SessType
    <2>3. sess' = [s0 EXCEPT ![k] = r]
      BY <1>6, <1>7, <2>1
    <2> QED
      BY <1>6, <2>2, <2>3 DEF Attached
  <1>8. CASE /\ Wait(t, tee_ta_init_cv)
             /\ sess' = s0
             /\ Become(t, rest, Frame("open", k, u, NULL, "lookup"))
             /\ UNCHANGED <<ctx, tee_ctxes>>
    <2>1. PICK g : g = Frame("open", k, u, NULL, "lookup")
      OBVIOUS
    <2>2. /\ g \in FrameType /\ g.op = "open" /\ g.key = k /\ g.uuid = u /\ g.ctx = NULL
          /\ g.pc = "lookup" /\ ~g.busy
      BY <1>1, <2>1, OpenFrame DEF PCs
    <2>3. Becomes(t, p, f, g) /\ stack'[t] # <<>>
      BY <1>8, <2>1, <2>2
    <2>4. WaitsKept(t)
      <3>1. Fewer(waitq, waitq)
        BY <1>1, FewerSame
      <3>2. waitq' = [waitq EXCEPT ![tee_ta_init_cv] = Append(@, t)]
        BY <1>8 DEF Wait
      <3> QED
        BY <2>3, <3>1, <3>2, CondVarsFacts, WaitsAdd
    <2>5. UNCHANGED <<setup, ctx, tee_ctxes, siVars, halted>> /\ sess' = s0
      BY <1>8
    <2> QED
      BY <2>2, <2>3, <2>4, <2>5, NoContextKeeps
  <1>9. CASE /\ sess' = s0
             /\ Become(t, rest, Frame("open", k, u, NULL, "initfail"))
             /\ UNCHANGED <<ctx, tee_ctxes, waitq>>
    <2>1. PICK g : g = Frame("open", k, u, NULL, "initfail")
      OBVIOUS
    <2>2. /\ g \in FrameType /\ g.op = "open" /\ g.key = k /\ g.uuid = u /\ g.ctx = NULL
          /\ g.pc = "initfail" /\ ~g.busy
      BY <1>1, <2>1, OpenFrame DEF PCs
    <2>3. Becomes(t, p, f, g)
      BY <1>9, <2>1, <2>2
    <2>4. WaitsKept(t) /\ UNCHANGED <<setup, ctx, tee_ctxes, siVars, halted>> /\ sess' = s0
      BY <1>5, <1>9
    <2> QED
      BY <2>2, <2>3, <2>4, NoContextKeeps
  <1>10. ASSUME NEW c \in share, ~Full(c), ctx' = [ctx EXCEPT ![c].ref = @ + 1],
                sess' = [s0 EXCEPT ![k].ctx = c],
                Become(t, rest, Frame("open", k, u, c, "enter")),
                UNCHANGED <<tee_ctxes, waitq>>
         PROVE  TaInv'
    <2>1. PICK g : g = Frame("open", k, u, c, "enter")
      OBVIOUS
    <2>2. c \in Ctxs /\ Contains(tee_ctxes, c) /\ ~ctx[c].init /\ Has(c, "SI") /\ c \in Ctxs \cup {NULL}
      BY <1>3, <1>4
    <2>3. /\ g \in FrameType /\ g.op = "open" /\ g.key = k /\ g.ctx = c
          /\ g.pc = "enter" /\ ~g.busy
      BY <1>1, <2>1, <2>2, OpenFrame DEF PCs
    <2>4. Becomes(t, p, f, g)
      BY <1>10, <2>1, <2>3
    <2>5. ctx[c] # NULL /\ ctx[c] \in CtxType /\ ctx \in [Ctxs -> CtxType \cup {NULL}]
      BY <1>1, <2>2, TypeFacts DEF ContextsOK, CoreType
    <2>6. PICK n \in Nat : n = ctx[c].ref + 1
      BY <2>5 DEF CtxType
    <2>7. PICK e : e = [ctx[c] EXCEPT !.ref = n]
      OBVIOUS
    <2>8. /\ e \in CtxType /\ e.uuid = ctx[c].uuid /\ e.ref = ctx[c].ref + 1
          /\ e.init = ctx[c].init /\ e.panicked = ctx[c].panicked
          /\ e.releasing = ctx[c].releasing /\ e.busy = ctx[c].busy
      BY <2>5, <2>6, <2>7 DEF CtxType
    <2>9. ctx' = [ctx EXCEPT ![c] = e]
      BY <1>10, <2>2, <2>5, <2>6, <2>7 DEF CtxType
    <2>10. Attached(k, s0, c) /\ WaitsKept(t) /\ tee_ctxes' = tee_ctxes /\ ~Full(c)
      BY <1>5, <1>7, <1>10, <2>2
    <2> QED
      BY <2>2, <2>3, <2>4, <2>8, <2>9, <2>10, SharedKeeps
  <1>11. ASSUME share = {}, \A c \in found : ~ctx[c].init, NEW c \in unused,
                ctx' = [ctx EXCEPT ![c] = NewCtx(u)], tee_ctxes' = Append(tee_ctxes, c),
                sess' = [s0 EXCEPT ![k].ctx = c], NEW l,
                l = IF "PTA" \in Flags[u] THEN "enter" ELSE "load",
                Become(t, rest, Frame("open", k, u, c, l)),
                waitq' = waitq
         PROVE  TaInv'
    <2>1. PICK g : g = Frame("open", k, u, c, l)
      OBVIOUS
    <2>2. c \in Ctxs /\ ctx[c] = NULL /\ c \in Ctxs \cup {NULL} /\ l \in PCs
      BY <1>4, <1>11 DEF PCs
    <2>3. /\ g \in FrameType /\ g.op = "open" /\ g.key = k /\ g.ctx = c
          /\ g.pc = l /\ ~g.busy
      BY <1>1, <2>1, <2>2, OpenFrame
    <2>4. Becomes(t, p, f, g)
      BY <1>11, <2>1, <2>3
    <2>5. ASSUME "SI" \in Flags[u]
          PROVE  \A d \in Ctxs : Contains(tee_ctxes, d) => ctx[d].uuid # u
      <3>1. ASSUME NEW d \in found PROVE FALSE
        <4>1. Has(d, "SI") /\ ~ctx[d].init
          BY <1>3, <1>11, <2>5, <3>1 DEF Has
        <4> QED
          BY <1>4, <1>11, <3>1, <4>1
      <3> QED
        BY <1>3, <3>1
    <2>6. Attached(k, s0, c) /\ WaitsKept(t)
      BY <1>5, <1>7, <1>11, <2>2
    <2> QED
      BY <1>11, <2>2, <2>3, <2>4, <2>5, <2>6, NewContextKeeps
  <1> QED
    BY <1>2, <1>4, <1>8, <1>9, <1>10, <1>11 DEF tee_ta_init_session_with_context

LEMMA HeadReplaced ==
    ASSUME NEW S, NEW s \in Seq(S), s # <<>>, NEW g \in S
    PROVE  <<g>> \o Tail(s) = [s EXCEPT ![1] = g]
  <1>1. PICK r, n : r = Tail(s) /\ n = Len(s)
    OBVIOUS
  <1>2. /\ n \in Nat \ {0} /\ r \in Seq(S) /\ Len(r) = n - 1
        /\ \A i \in 1..(n - 1) : r[i] = s[i + 1]
    BY <1>1
  <1>3. <<g>> \in Seq(S) /\ Len(<<g>>) = 1 /\ <<g>>[1] = g
    OBVIOUS
  <1>4. /\ <<g>> \o r \in Seq(S) /\ Len(<<g>> \o r) = n
        /\ \A i \in 1..n : (<<g>> \o r)[i] = IF i <= 1 THEN <<g>>[i] ELSE r[i - 1]
    BY <1>2, <1>3, ConcatProperties
  <1>5. PICK x, y : x = <<g>> \o r /\ y = [s EXCEPT ![1] = g]
    OBVIOUS
  <1>6. y \in Seq(S) /\ Len(y) = n /\ \A i \in 1..n : y[i] = IF i = 1 THEN g ELSE s[i]
    BY <1>1, <1>2, <1>5
  <1>7. ASSUME NEW i \in 1..n PROVE x[i] = y[i]
    <2>1. CASE i = 1
      BY <1>2, <1>3, <1>4, <1>5, <1>6, <2>1
    <2>2. CASE i # 1
      <3>1. i - 1 \in 1..(n - 1) /\ (i - 1) + 1 = i
        BY <1>2, <2>2
      <3>2. r[i - 1] = s[i]
        BY <1>2, <3>1
      <3> QED
        BY <1>2, <1>4, <1>5, <1>6, <2>2, <3>2
    <2> QED
      BY <2>1, <2>2
  <1>8. x = y
    BY <1>4, <1>5, <1>6, <1>7, SeqEqual
  <1> QED
    BY <1>1, <1>5, <1>8

LEMMA SearchAgainKeeps ==
    ASSUME TaInv, ~halted, UNCHANGED setup, NEW t \in Threads, SearchAgain(t)
    PROVE  TaInv'
  <1>1. At(t, "lookup") /\ UNCHANGED <<open_sessions, siVars, halted>>
    BY DEF SearchAgain
  <1>2. PICK p, f, k, u : p = <<t, Len(stack[t])>> /\ f = Top(t) /\ k = f.key /\ u = f.uuid
    OBVIOUS
  <1>3. /\ stack[t] # <<>> /\ f.pc = "lookup" /\ NotWaiting(t)
        /\ p \in Calls /\ p[1] = t /\ Call(p) = f /\ f \in FrameType /\ k \in Keys /\ FormOK(f)
    BY <1>1, <1>2, AtFacts
  <1>4. /\ CoreType /\ StackType /\ FramesOK /\ CountsOK /\ ListsOK /\ SessionsOK
        /\ u \in Uuids /\ f.op = "open" /\ f.ctx = NULL /\ ~f.busy /\ Refers(f) /\ Owns(f)
    BY <1>2, <1>3, TypeFacts DEF TaInv, FormOK, Refers, Owns
  <1>5. /\ sess[k] # NULL /\ sess[k].ctx = NULL /\ ~sess[k].given
        /\ sess[k].lock = t /\ sess[k] \in SessType
    BY <1>2, <1>3, <1>4, CallFacts
  <1>6. \A q \in Calls : q # p /\ Refers(Call(q)) /\ Call(q).key = k => Early /\ ~Owns(Call(q))
    BY <1>2, <1>3, <1>4, OpenerIsAlone
  <1>7. Opening(t, p, f, k, sess)
    <2>1. \A j : j # k => ~Unready(f, j)
      BY <1>2 DEF Unready
    <2>2. CountOf(sess[k]) \in Nat /\ sess[k].ref + N(Refers(f)) = CountOf(sess[k]) + 1
      BY <1>4, <1>5 DEF CountOf, N, SessType
    <2>3. sess \in [Keys -> SessType \cup {NULL}]
      BY <1>4 DEF CoreType
    <2> QED
      BY <1>2, <1>4, <1>5, <1>6, <2>1, <2>2, <2>3 DEF Opening
  <1>8. Listing(sess)
    BY <1>1, <1>4 DEF Listing, CoreType, ListsOK, SessionsOK
  <1>9. ASSUME NEW g \in FrameType, g.key = k, Become(t, Tail(stack[t]), g)
        PROVE  Becomes(t, p, f, g) /\ stack'[t] # <<>>
    <2>1. stack' = [stack EXCEPT ![t][1] = g]
      <3>1. stack[t] \in Seq(FrameType) /\ stack \in [Threads -> Seq(FrameType)]
        BY <1>4 DEF StackType
      <3>2. <<g>> \o Tail(stack[t]) = [stack[t] EXCEPT ![1] = g]
        BY <1>3, <3>1, HeadReplaced
      <3> QED
        BY <1>9, <3>1, <3>2 DEF Become
    <2>2. StackType /\ stack[t] # <<>>
      BY <1>3, <1>4
    <2>3. /\ StackStep /\ p \in Calls' /\ Step(p, f, g) /\ stack'[t] # <<>>
          /\ \A x \in Threads \ {t} : stack'[x] = stack[x]
      BY <1>2, <2>1, <2>2, SetStep
    <2>4. OthersCtx(p) => BelowOK(p)'
      BY <1>2, <1>3, <1>4, <1>9, <2>3, SetBelow
    <2> QED
      BY <1>3, <2>3, <2>4 DEF Becomes
  <1>10. PICK rest : rest = Tail(stack[t])
    OBVIOUS
  <1>11. tee_ta_init_session_with_context(t, k, u, sess, rest)
    BY <1>2, <1>10 DEF SearchAgain
  <1>12. k \in Keys /\ u \in Uuids /\ NotWaiting(t)
    BY <1>3, <1>4
  <1> QED
    BY <1>1, <1>7, <1>8, <1>9, <1>10, <1>11, <1>12, WithContextKeeps

LEMMA InitSessionKeeps ==
    ASSUME TaInv, ~halted, UNCHANGED setup, NEW t \in Threads, NEW u \in Uuids,
           tee_ta_init_session(t, u)
    PROVE  TaInv'
  <1>1. MayCall(t) /\ UNCHANGED <<siVars, halted>>
    BY DEF tee_ta_init_session
  <1>2. PICK p, f, l, id, k, rest : /\ p = <<t, Len(stack[t]) + 1>> /\ f = NoCall
                                    /\ l = Client(t) /\ id = new_session_id(open_sessions[l])
                                    /\ k = <<l, id>> /\ rest = stack[t]
    OBVIOUS
  <1>3. /\ CoreType /\ StackType /\ FramesOK /\ CountsOK /\ ListsOK /\ SessionsOK /\ WaitsOK
    BY TypeFacts DEF TaInv
  <1>4. /\ l \in Lists /\ NotWaiting(t)
        /\ stack[t] = <<>> => l = NW
        /\ stack[t] # <<>> => /\ InCall(Top(t)) /\ Top(t).ctx # NULL /\ l = Top(t).ctx
                              /\ ~Has(Top(t).ctx, "PTA")
    <2>1. CASE stack[t] = <<>>
      BY <1>2, <1>3, <2>1 DEF NotWaiting, WaitsOK, WaitsFor, Client, Lists
    <2>2. CASE stack[t] # <<>>
      <3>1. At(t, "inTA") /\ ~Has(Top(t).ctx, "PTA") /\ l = Top(t).ctx
        BY <1>1, <1>2, <2>2 DEF MayCall, InUserTa, Client
      <3>2. PICK q, h : q = <<t, Len(stack[t])>> /\ h = Top(t)
        OBVIOUS
      <3>3. /\ h.pc = "inTA" /\ NotWaiting(t) /\ FormOK(h)
            /\ h.ctx # NULL => h.ctx \in Ctxs
        BY <3>1, <3>2, AtFacts
      <3>4. h.ctx # NULL /\ InCall(h)
        BY <3>3 DEF FormOK, InCall
      <3> QED
        BY <2>2, <3>1, <3>2, <3>3, <3>4 DEF Lists
    <2> QED
      BY <2>1, <2>2
  <1>5. PICK s0 : s0 = [sess EXCEPT ![k] = NewSession(t)]
    OBVIOUS
  <1>6. /\ id # 0 /\ open_sessions' = [open_sessions EXCEPT ![l] = Append(@, id)]
        /\ tee_ta_init_session_with_context(t, k, u, s0, rest)
    BY <1>2, <1>5 DEF tee_ta_init_session
  <1>7. /\ open_sessions[l] \in Seq(Ids) /\ id \in Ids /\ ~Contains(open_sessions[l], id)
        /\ k \in Keys /\ k[1] = l /\ k[2] = id
    <2>1. open_sessions[l] \in Seq(Ids)
      BY <1>3, <1>4 DEF CoreType
    <2>2. id \in Ids /\ ~Contains(open_sessions[l], id)
      BY <1>2, <1>6, <2>1, NewIdFacts
    <2> QED
      BY <1>2, <1>4, <2>1, <2>2 DEF Keys
  <1>8. sess[k] = NULL
    BY <1>3, <1>7 DEF SessionsOK
  <1>9. \A q \in Calls : Refers(Call(q)) => Call(q).key # k
    BY <1>3, <1>8, CallFacts
  <1>10. PICK r : r = NewSession(t)
    OBVIOUS
  <1>11. /\ r \in SessType /\ r.ctx = NULL /\ r.ref = 1 /\ r.lock = t /\ ~r.given /\ r # NULL
    <2>1. /\ r \in SessType /\ r.ctx = NULL /\ r.ref = 1 /\ r.lock = t /\ r.given = FALSE
      BY <1>10 DEF NewSession, SessType
    <2>2. NULL \notin SessType
      BY TaManagerAssumption
    <2> QED
      BY <2>1, <2>2
  <1>12. /\ s0 \in [Keys -> SessType \cup {NULL}] /\ s0[k] = r
         /\ \A j \in Keys : j # k => s0[j] = sess[j]
    BY <1>3, <1>5, <1>7, <1>10, <1>11 DEF CoreType
  <1>13. Opening(t, p, f, k, s0)
    <2>1. f.ctx = NULL /\ ~f.busy /\ ~Refers(f) /\ \A j : ~Unready(f, j)
      BY <1>2, NoCallFacts
    <2>2. CountOf(sess[k]) \in Nat /\ r.ref + N(Refers(f)) = CountOf(sess[k]) + 1
      BY <1>8, <1>11, <2>1 DEF CountOf, N
    <2> QED
      BY <1>8, <1>9, <1>11, <1>12, <2>1, <2>2 DEF Opening
  <1>14. Listing(s0)
    <2>1. PICK a : a = Append(open_sessions[l], id)
      OBVIOUS
    <2>2. /\ a \in Seq(Ids) /\ Distinct(a)
          /\ \A x : Contains(a, x) <=> (Contains(open_sessions[l], x) \/ x = id)
      BY <1>3, <1>4, <1>7, <2>1, AppendFacts DEF ListsOK
    <2>3. /\ open_sessions' \in [Lists -> Seq(Ids)] /\ open_sessions'[l] = a
          /\ \A m \in Lists : m # l => open_sessions'[m] = open_sessions[m]
      BY <1>3, <1>4, <1>6, <2>1, <2>2 DEF CoreType
    <2>4. \A m \in Lists : Distinct(open_sessions'[m])
      BY <1>3, <2>2, <2>3 DEF ListsOK
    <2>5. ASSUME NEW j \in Keys, s0[j] # NULL
          PROVE  Contains(open_sessions'[j[1]], j[2])
      <3>1. CASE j = k
        BY <1>7, <2>2, <2>3, <3>1
      <3>2. CASE j # k
        <4>1. Contains(open_sessions[j[1]], j[2]) /\ j[1] \in Lists
          BY <1>3, <1>12, <2>5, <3>2 DEF SessionsOK, Keys
        <4> QED
          BY <2>2, <2>3, <4>1
      <3> QED
        BY <3>1, <3>2
    <2> QED
      BY <2>3, <2>4, <2>5 DEF Listing
  <1>15. ASSUME NEW g \in FrameType, g.key = k, Become(t, rest, g)
         PROVE  Becomes(t, p, f, g) /\ stack'[t] # <<>>
    <2>1. stack' = [stack EXCEPT ![t] = <<g>> \o @]
      BY <1>2, <1>15 DEF Become
    <2>2. /\ StackStep /\ p \in Calls' /\ Step(p, NoCall, g) /\ stack'[t] # <<>>
          /\ \A x \in Threads \ {t} : stack'[x] = stack[x]
      BY <1>2, <1>3, <2>1, PushStep
    <2>3. g.key[1] = l
      BY <1>7, <1>15
    <2>4. ASSUME OthersCtx(p) PROVE BelowOK(p)'
      BY <1>2, <1>3, <1>4, <2>2, <2>3, <2>4, PushBelow
    <2> QED
      BY <1>2, <2>2, <2>4 DEF Becomes
  <1> QED
    BY <1>1, <1>4, <1>6, <1>7, <1>13, <1>14, <1>15, WithContextKeeps

-----------------------------------------------------------------------------
(* The invariant *)

LEMMA InitInv == ASSUME Init PROVE TaInv
  <1>1. /\ setup \in Setups /\ ctx = [c \in Ctxs |-> NULL] /\ tee_ctxes = <<>>
        /\ sess = [k \in Keys |-> NULL] /\ open_sessions = [l \in Lists |-> <<>>]
        /\ si_thread = NULL /\ si_count = 0
        /\ waitq = [cv \in CondVars |-> <<>>] /\ stack = [t \in Threads |-> <<>>]
        /\ halted = FALSE
    BY DEF Init
  <1>2. CoreType
    <2>1. /\ <<>> \in Seq(Ctxs) /\ <<>> \in Seq(Ids) /\ <<>> \in Seq(Threads)
          /\ <<>> \in Seq(FrameType)
      OBVIOUS
    <2>2. /\ ctx \in [Ctxs -> CtxType \cup {NULL}]
          /\ \A c \in Ctxs : ctx[c] # NULL => ctx[c].uuid \in Uuids
      BY <1>1
    <2>3. sess \in [Keys -> SessType \cup {NULL}]
      BY <1>1
    <2>4. tee_ctxes \in Seq(Ctxs) /\ open_sessions \in [Lists -> Seq(Ids)]
      BY <1>1, <2>1
    <2>5. waitq \in [CondVars -> Seq(Threads)]
      BY <1>1, <2>1
    <2>6. stack \in [Threads -> Seq(FrameType)]
      BY <1>1, <2>1
    <2>7. halted \in BOOLEAN
      BY <1>1
    <2> QED
      BY <1>1, <2>2, <2>3, <2>4, <2>5, <2>6, <2>7 DEF CoreType
  <1>3. Calls = {}
    BY <1>1 DEF Calls
  <1>4. \A c \in Ctxs : ctx[c] = NULL
    BY <1>1
  <1>5. \A k \in Keys : sess[k] = NULL
    BY <1>1
  <1>6. \A x : ~Contains(tee_ctxes, x)
    BY <1>1 DEF Contains
  <1>7. FramesOK
    BY <1>3 DEF FramesOK
  <1>8. CountsOK
    <2>1. \A k \in Keys : Referers(k) = {}
      BY <1>3 DEF Referers
    <2>2. \A c \in Ctxs : SessionsOf(c) = {} /\ Closers(c) = {}
      BY <1>3, <1>5 DEF SessionsOf, Closers
    <2>3. Cardinality({}) = 0
      BY FS_EmptySet
    <2> QED
      BY <1>4, <1>5, <2>1, <2>2, <2>3 DEF CountsOK, CountOf
  <1>9. SessionsOK /\ ContextsOK
    BY <1>4, <1>5, <1>6 DEF SessionsOK, ContextsOK
  <1>10. ListsOK
    BY <1>1, <1>6 DEF ListsOK, Distinct
  <1>11. LockOK
    <2>1. Singles = {}
      BY <1>3 DEF Singles
    <2>2. Cardinality({}) = 0
      BY FS_EmptySet
    <2> QED
      BY <1>1, <2>1, <2>2 DEF LockOK
  <1>12. WaitsOK
    BY <1>1 DEF WaitsOK, WaitsFor, Contains
  <1>13. PanicOnlyOnReentry
    BY <1>1 DEF PanicOnlyOnReentry
  <1> QED
    BY <1>2, <1>7, <1>8, <1>9, <1>10, <1>11, <1>12, <1>13 DEF TaInv

\* Nothing happens.
LEMMA StutterKeeps == ASSUME TaInv, UNCHANGED vars PROVE TaInv'
  <1>1. /\ setup' = setup /\ ctx' = ctx /\ tee_ctxes' = tee_ctxes /\ sess' = sess
        /\ open_sessions' = open_sessions /\ si_thread' = si_thread /\ si_count' = si_count
        /\ waitq' = waitq /\ stack' = stack /\ halted' = halted
    BY DEF vars
  <1>2. CoreType'
    BY <1>1 DEF TaInv, CoreType, FrameType, Uuids, Flags
  <1>3. Calls' = Calls /\ \A p : Call(p)' = Call(p)
    BY <1>1 DEF Calls, Call
  <1>4. \A c, x : Has(c, x)' <=> Has(c, x)
    BY <1>1 DEF Has, Flags
  <1>5. Early' = Early
    BY <1>1, EarlyStays
  <1>6. \A p : FrameOK(p)' <=> FrameOK(p)
    <2>1. ASSUME NEW p PROVE FrameOK(p)' <=> FrameOK(p)
      <3>1. PICK h : h = Call(p)
        OBVIOUS
      <3>2. Call(p)' = h
        BY <1>3, <3>1
      <3>3. FormOK(h)' <=> FormOK(h)
        BY <1>1 DEF FormOK, Uuids, Flags
      <3>4. \A d : CtxFor(h, d)' <=> CtxFor(h, d)
        BY <1>1 DEF CtxFor, Flags
      <3> QED
        BY <1>1, <3>1, <3>2, <3>3, <3>4 DEF FrameOK
    <2> QED
      BY <2>1
  <1>7. \A p : BelowOK(p)' <=> BelowOK(p)
    <2>1. ASSUME NEW p PROVE BelowOK(p)' <=> BelowOK(p)
      <3>1. PICK g, h : g = Call(Below(p)) /\ h = Call(p)
        OBVIOUS
      <3>2. Call(Below(p))' = g /\ Call(p)' = h
        BY <1>1, <3>1 DEF Call, Below
      <3> QED
        BY <1>4, <3>1, <3>2 DEF BelowOK
    <2> QED
      BY <2>1
  <1>8. FramesOK'
    <2>1. FramesOK
      BY DEF TaInv
    <2>2. \A p, q : Apart(Call(p), Call(q))' <=> Apart(Call(p), Call(q))
      BY <1>3, <1>4, <1>5 DEF Apart, Occupies
    <2> QED
      BY <1>3, <1>6, <1>7, <2>1, <2>2 DEF FramesOK
  <1>9. CountsOK'
    BY <1>1, <1>3 DEF TaInv, CountsOK, Referers, SessionsOf, Closers
  <1>10. SessionsOK'
    BY <1>1, <1>3 DEF TaInv, SessionsOK
  <1>11. ContextsOK'
    <2>1. \A p : Occupies(Call(p))' <=> Occupies(Call(p))
      BY <1>3, <1>4 DEF Occupies
    <2>2. \A c \in Ctxs : ContextOK(c)' <=> ContextOK(c)
      BY <1>1, <1>3, <2>1 DEF ContextOK, Flags
    <2> QED
      BY <1>1, <2>2 DEF TaInv, ContextsOK
  <1>12. ListsOK'
    BY <1>1, <1>4 DEF TaInv, ListsOK
  <1>13. LockOK'
    <2>1. \A p : InSingle(Call(p))' <=> InSingle(Call(p))
      BY <1>3, <1>4 DEF InSingle, Occupies
    <2>2. Singles' = Singles
      BY <1>3, <2>1 DEF Singles
    <2> QED
      BY <1>1, <2>2 DEF TaInv, LockOK
  <1>14. WaitsOK'
    BY <1>1 DEF TaInv, WaitsOK, WaitsFor, Top
  <1>15. PanicOnlyOnReentry'
    BY <1>1, <1>3 DEF TaInv, PanicOnlyOnReentry
  <1> QED
    BY <1>2, <1>8, <1>9, <1>10, <1>11, <1>12, <1>13, <1>14, <1>15 DEF TaInv

-----------------------------------------------------------------------------
(* What the invariant says *)

LEMMA TypeHolds == ASSUME TaInv PROVE TypeOK
  <1>1. CoreType
    BY DEF TaInv
  <1>2. ASSUME NEW p \in Calls PROVE Call(p).key \in Keys
    <2>1. PICK f : f = Call(p)
      OBVIOUS
    <2>2. f \in FrameType
      BY <1>1, <2>1, TypeFacts, CallsFacts
    <2> QED
      BY <2>1, <2>2 DEF FrameType
  <1> QED
    BY <1>1, <1>2 DEF TypeOK, CoreType

LEMMA NobodyLoses == ASSUME TaInv PROVE ~Dangling
  <1>1. ASSUME NEW p \in Calls, Refers(Call(p)) PROVE sess[Call(p).key] # NULL
    <2>1. PICK f : f = Call(p)
      OBVIOUS
    <2> QED
      BY <1>1, <2>1, CallFacts DEF TaInv
  <1> QED
    BY <1>1 DEF Dangling, Loses

LEMMA SessionRefsHold == ASSUME TaInv PROVE SessionRefs
  <1>1. \A p \in Calls : ~Loses(Call(p))
    BY NobodyLoses DEF Dangling
  <1>2. ASSUME NEW k \in Keys, sess[k] # NULL
        PROVE  sess[k].ref = Cardinality({p \in Calls : Call(p).key = k /\ Refers(Call(p))})
    BY <1>2 DEF TaInv, CountsOK, CountOf, Referers
  <1> QED
    BY <1>1, <1>2 DEF SessionRefs

\* close_session() frees a context neither too early nor never.
LEMMA ContextRefsHold == ASSUME TaInv PROVE ContextRefs
  <1>1. CoreType /\ FramesOK /\ CountsOK /\ ContextsOK
    BY DEF TaInv
  <1>2. ASSUME NEW p \in Calls, Call(p).ctx # NULL PROVE ctx[Call(p).ctx] # NULL
    <2>1. PICK f : f = Call(p)
      OBVIOUS
    <2> QED
      BY <1>1, <1>2, <2>1, CallFacts
  <1>3. ASSUME NEW k \in Keys, sess[k] # NULL, sess[k].ctx # NULL
        PROVE  ctx[sess[k].ctx] # NULL
    <2>1. PICK c : c = sess[k].ctx
      OBVIOUS
    <2>2. sess[k] \in SessType
      BY <1>1, <1>3 DEF CoreType
    <2>3. c \in Ctxs
      BY <1>3, <2>1, <2>2 DEF SessType
    <2>4. k \in SessionsOf(c)
      BY <1>3, <2>1 DEF SessionsOf
    <2>5. CountOf(ctx[c]) > 0
      BY <1>1, <2>3, <2>4, UsersFacts
    <2> QED
      BY <2>1, <2>5 DEF CountOf
  <1>4. ASSUME NEW c \in Ctxs, ctx[c] # NULL
        PROVE  /\ ctx[c].ref = Cardinality(SessionsOf(c)) + Cardinality(Closers(c))
               /\ ctx[c].ref = 0 => \/ Keep(c) /\ Contains(tee_ctxes, c)
                                    \/ \E p \in Calls : /\ Call(p).ctx = c
                                                        /\ Call(p).pc = "destroy"
    <2>1. ctx[c].ref = Cardinality(SessionsOf(c)) + Cardinality(Closers(c))
      BY <1>1, <1>4 DEF CountsOK, CountOf
    <2>2. PICK fl, rel, l :
             fl = Flags[ctx[c].uuid] /\ rel = ctx[c].releasing /\ l = Contains(tee_ctxes, c)
      OBVIOUS
    <2>3. /\ l <=> ~rel
          /\ ctx[c].ref = 0 => \/ {"SI", "KA"} \subseteq fl /\ ~rel
                               \/ \E p \in Calls : Call(p).ctx = c /\ Call(p).pc = "destroy"
      BY <1>1, <1>4, <2>2 DEF ContextsOK, ContextOK
    <2>4. {"SI", "KA"} \subseteq fl => Keep(c)
      BY <2>2 DEF Keep, Has
    <2> QED
      BY <2>1, <2>2, <2>3, <2>4
  <1>5. \A c \in Ctxs : Closers(c) = {p \in Calls : Call(p).ctx = c /\ ~Refers(Call(p))
                                                   /\ Call(p).pc # "destroy"}
    BY DEF Closers, Closing
  <1> QED
    BY <1>2, <1>3, <1>4, <1>5 DEF ContextRefs, SessionsOf

\* tee_ta_try_set_busy() and tee_ta_clear_busy() tell who is in a TA.
LEMMA BusyExactHolds == ASSUME TaInv PROVE BusyExact
  <1>1. CoreType /\ FramesOK /\ ContextsOK /\ LockOK
    BY DEF TaInv
  <1>2. PICK entered : entered = {p \in Calls : Call(p).busy /\ ~Has(Call(p).ctx, "CC")}
    OBVIOUS
  <1>3. entered = {p \in Calls : Occupies(Call(p))}
    BY <1>2 DEF Occupies
  <1>4. ASSUME NEW p \in entered, NEW q \in entered, Call(p).ctx = Call(q).ctx
        PROVE  p = q
    <2>1. p \in Calls /\ q \in Calls /\ Occupies(Call(p)) /\ Occupies(Call(q))
      BY <1>3
    <2>2. p # q => Apart(Call(p), Call(q))
      BY <1>1, <2>1 DEF FramesOK
    <2> QED
      BY <1>4, <2>1, <2>2 DEF Apart
  <1>5. ASSUME NEW c \in Ctxs, ctx[c] # NULL
        PROVE  ctx[c].busy <=> \E p \in entered : Call(p).ctx = c
    <2>1. ctx[c].busy <=> \E p \in Calls : Call(p).ctx = c /\ Occupies(Call(p))
      BY <1>1, <1>5 DEF ContextsOK, ContextOK
    <2> QED
      BY <1>3, <2>1
  <1>6. PICK si : si = {p \in entered : Has(Call(p).ctx, "SI")}
    OBVIOUS
  <1>7. si = Singles
    BY <1>3, <1>6 DEF Singles, InSingle
  <1>8. /\ si_count = Cardinality(si)
        /\ \A p \in si : p[1] = si_thread
        /\ si_count = 0 <=> si_thread = NULL
    BY <1>1, <1>7 DEF LockOK
  <1> QED
    BY <1>2, <1>4, <1>5, <1>6, <1>8 DEF BusyExact

LEMMA OneInstanceHolds == ASSUME TaInv PROVE OneInstance
  <1>1. CoreType /\ ContextsOK /\ ListsOK
    BY DEF TaInv
  <1>2. tee_ctxes \in Seq(Ctxs)
    BY <1>1 DEF CoreType
  <1>3. ASSUME NEW i \in 1..Len(tee_ctxes), NEW j \in 1..Len(tee_ctxes),
               Has(tee_ctxes[i], "SI"),
               ctx[tee_ctxes[i]].uuid = ctx[tee_ctxes[j]].uuid
        PROVE  i = j
    <2>1. PICK c, d : c = tee_ctxes[i] /\ d = tee_ctxes[j]
      OBVIOUS
    <2>2. c \in Ctxs /\ d \in Ctxs
      BY <1>2, <2>1
    <2>3. Contains(tee_ctxes, c) /\ Contains(tee_ctxes, d)
      BY <2>1 DEF Contains
    <2>4. Has(c, "SI") /\ ctx[c].uuid = ctx[d].uuid
      BY <1>3, <2>1
    <2>5. c = d
      BY <1>1, <2>2, <2>3, <2>4 DEF ListsOK
    <2> QED
      BY <1>1, <2>1, <2>5 DEF ListsOK, Distinct
  <1>4. ASSUME NEW c \in Ctxs, ctx[c] # NULL, Has(c, "SI"), ~Has(c, "MS")
        PROVE  ctx[c].ref <= 1
    <2>1. PICK fl : fl = Flags[ctx[c].uuid]
      OBVIOUS
    <2>2. ~({"SI", "MS"} \subseteq fl) => ctx[c].ref <= 1
      BY <1>1, <1>4, <2>1 DEF ContextsOK, ContextOK
    <2>3. "MS" \notin fl
      BY <1>4, <2>1 DEF Has
    <2> QED
      BY <2>2, <2>3
  <1> QED
    BY <1>3, <1>4 DEF OneInstance

-----------------------------------------------------------------------------
(* A session is freed under those who name it early. *)

\* A call refers to a session that was freed; what the theorems say holds.
Lost == Dangling /\ TypeOK /\ CountsExact /\ OneInstance /\ PanicOnlyOnReentry

LEMMA InitFailLoses ==
    ASSUME TaInv, ~halted, UNCHANGED setup, NEW t \in Threads, InitFail(t),
           NEW o \in Calls, o # <<t, Len(stack[t])>>, Refers(Call(o)), Call(o).key = Top(t).key
    PROVE  Lost'
  <1>1. PICK p, f, k : p = <<t, Len(stack[t])>> /\ f = Top(t) /\ k = f.key
    OBVIOUS
  <1>2. At(t, "initfail") /\ UNCHANGED <<ctx, tee_ctxes, siVars, waitq, halted>>
    BY DEF InitFail
  <1>3. /\ stack[t] # <<>> /\ f.pc = "initfail" /\ p \in Calls /\ p[1] = t /\ Call(p) = f
        /\ f \in FrameType /\ k \in Keys /\ FormOK(f)
    BY <1>1, <1>2, AtFacts
  <1>4. /\ CoreType /\ StackType /\ FramesOK /\ ListsOK /\ SessionsOK
        /\ f.ctx = NULL /\ f.op = "open" /\ ~f.busy /\ Refers(f) /\ NULL \notin Ctxs
    BY <1>3, TypeFacts, OpenersRefer, TaManagerAssumption DEF TaInv, FormOK
  <1>5. sess[k] # NULL /\ sess[k].ctx = NULL
    BY <1>1, <1>3, <1>4, CallFacts
  <1>6. /\ sess' \in [Keys -> SessType \cup {NULL}] /\ sess'[k] = NULL
        /\ \A j \in Keys : j # k => sess'[j] = sess[j]
    <2>1. sess' = [sess EXCEPT ![k] = NULL]
      BY <1>1 DEF InitFail
    <2> QED
      BY <1>3, <1>4, <2>1 DEF CoreType
  <1>7. StackStep /\ p \notin Calls' /\ Step(p, f, NoCall)
    <2>1. stack' = [stack EXCEPT ![t] = Tail(@)]
      BY DEF InitFail, Return
    <2> QED
      BY <1>1, <1>3, <1>4, <2>1, PopStep
  <1>8. /\ \A q : q \in Calls' <=> q \in Calls /\ q # p
        /\ \A q \in Calls' : Call(q)' = Call(q)
    BY <1>7 DEF Step
  <1>9. o \in Calls' /\ Loses(Call(o))' /\ Dangling'
    <2>1. o \in Calls' /\ Call(o)' = Call(o)
      BY <1>1, <1>8
    <2>2. Loses(Call(o))'
      BY <1>1, <1>6, <2>1 DEF Loses, Refers
    <2> QED
      BY <2>1, <2>2 DEF Dangling
  <1>10. open_sessions' \in [Lists -> Seq(Ids)]
    <2>1. open_sessions' = [open_sessions EXCEPT ![k[1]] = RemoveFirst(@, k[2])]
      BY <1>1 DEF InitFail
    <2> QED
      BY <1>3, <1>4, <2>1, Unlisting
  <1>11. TypeOK'
    <2>1. TypeOK
      BY TypeHolds
    <2>2. \A q \in Calls' : Call(q)'.key \in Keys
      BY <1>8, <2>1 DEF TypeOK
    <2>3. \A c \in Ctxs : ctx'[c] # NULL => ctx'[c].uuid \in Uuids'
      BY <1>2, <2>1 DEF TypeOK, Uuids, Flags
    <2> QED
      BY <1>2, <1>6, <1>10, <2>1, <2>2, <2>3 DEF TypeOK, siVars
  <1>12. SessionRefs'
    <2>1. ASSUME NEW q \in Calls', Loses(Call(q))'
          PROVE  Early' /\ (Call(q)'.pc = "locking" \/ Call(q)'.op = "cancel")
      <3>1. PICK h : h = Call(q)
        OBVIOUS
      <3>2. q \in Calls /\ q # p /\ Call(q)' = h
        BY <1>8, <3>1
      <3>3. Refers(h) /\ sess'[h.key] = NULL
        BY <2>1, <3>2 DEF Loses, Refers
      <3>4. h.key \in Keys /\ sess[h.key] # NULL
        BY <1>4, <3>1, <3>2, <3>3, CallFacts
      <3>5. h.key = k
        BY <1>6, <3>3, <3>4
      <3>6. Early /\ (h.op = "cancel" \/ h.pc = "locking")
        BY <1>1, <1>3, <1>4, <3>1, <3>2, <3>3, <3>5, OpenerIsAlone
      <3> QED
        BY <3>2, <3>6, EarlyStays
    <2> QED
      BY <1>9, <2>1 DEF SessionRefs
  <1>13. ContextRefs'
    <2>1. ContextRefs
      BY ContextRefsHold
    <2>2. ASSUME NEW q \in Calls', Call(q)'.ctx # NULL PROVE ctx'[Call(q)'.ctx] # NULL
      BY <1>2, <1>8, <2>1, <2>2 DEF ContextRefs
    <2>3. ASSUME NEW j \in Keys, sess'[j] # NULL, sess'[j].ctx # NULL
          PROVE  ctx'[sess'[j].ctx] # NULL
      BY <1>2, <1>6, <2>1, <2>3 DEF ContextRefs
    <2>4. ASSUME NEW c \in Ctxs
          PROVE  /\ SessionsOf(c)' = SessionsOf(c) /\ Closers(c)' = Closers(c)
                 /\ \A q \in Calls : Call(q).ctx = c => q \in Calls' /\ Call(q)' = Call(q)
      <3>1. \A q \in Calls : Call(q).ctx = c => q \in Calls' /\ Call(q)' = Call(q)
        BY <1>3, <1>4, <1>8, <2>4
      <3>2. \A j \in Keys : (sess'[j] # NULL /\ sess'[j].ctx = c)
                            <=> (sess[j] # NULL /\ sess[j].ctx = c)
        BY <1>4, <1>5, <1>6, <2>4
      <3>3. SessionsOf(c)' = SessionsOf(c)
        BY <3>2 DEF SessionsOf
      <3>4. \A q : Closing(Call(q), c)' <=> Closing(Call(q)', c)
        BY DEF Closing, Refers
      <3>5. Closers(c)' = Closers(c)
        BY <1>8, <3>1, <3>4 DEF Closers, Closing
      <3> QED
        BY <3>1, <3>3, <3>5
    <2>5. \A c \in Ctxs : Closers(c) = {q \in Calls : Call(q).ctx = c /\ ~Refers(Call(q))
                                                       /\ Call(q).pc # "destroy"}
      BY DEF Closers, Closing
    <2>6. \A c \in Ctxs : Closers(c)' = {q \in Calls' : /\ Call(q)'.ctx = c
                                                          /\ ~Refers(Call(q))'
                                                          /\ Call(q)'.pc # "destroy"}
      BY DEF Closers, Closing
    <2>7. \A c \in Ctxs : Keep(c)' <=> Keep(c)
      BY <1>2 DEF Keep, Has, Flags
    <2>8. ASSUME NEW c \in Ctxs, ctx'[c] # NULL
          PROVE  /\ ctx'[c].ref = Cardinality(SessionsOf(c)') + Cardinality(Closers(c)')
                 /\ ctx'[c].ref = 0 => \/ Keep(c)' /\ Contains(tee_ctxes', c)
                                       \/ \E q \in Calls' : /\ Call(q)'.ctx = c
                                                            /\ Call(q)'.pc = "destroy"
      <3>1. /\ ctx[c].ref = Cardinality(SessionsOf(c)) + Cardinality(Closers(c))
            /\ ctx[c].ref = 0 => \/ Keep(c) /\ Contains(tee_ctxes, c)
                                 \/ \E q \in Calls : /\ Call(q).ctx = c
                                                     /\ Call(q).pc = "destroy"
        BY <1>2, <2>1, <2>5, <2>8 DEF ContextRefs, SessionsOf
      <3> QED
        BY <1>2, <2>4, <2>7, <3>1
    <2> QED
      BY <2>2, <2>3, <2>6, <2>8 DEF ContextRefs, SessionsOf
  <1>14. BusyExact'
    <2>1. BusyExact
      BY BusyExactHolds
    <2>2. \A c, x : Has(c, x)' <=> Has(c, x)
      BY <1>2 DEF Has, Flags
    <2>3. PICK en : en = {q \in Calls : Call(q).busy /\ ~Has(Call(q).ctx, "CC")}
      OBVIOUS
    <2>4. \A q \in en : q \in Calls' /\ Call(q)' = Call(q)
      BY <1>3, <1>4, <1>8, <2>3
    <2>5. en = {q \in Calls' : Call(q)'.busy /\ ~Has(Call(q).ctx, "CC")'}
      BY <1>8, <2>2, <2>3, <2>4
    <2>6. PICK si : si = {q \in en : Has(Call(q).ctx, "SI")}
      OBVIOUS
    <2>7. si = {q \in en : Has(Call(q).ctx, "SI")'}
      BY <2>2, <2>4, <2>6
    <2>8. /\ \A q, r \in en : Call(q).ctx = Call(r).ctx => q = r
          /\ \A c \in Ctxs : ctx[c] # NULL => (ctx[c].busy <=> \E q \in en : Call(q).ctx = c)
          /\ si_count = Cardinality(si)
          /\ \A q \in si : q[1] = si_thread
          /\ si_count = 0 <=> si_thread = NULL
      BY <2>1, <2>3, <2>6 DEF BusyExact
    <2>9. /\ \A q, r \in en : Call(q)'.ctx = Call(r)'.ctx => q = r
          /\ \A c \in Ctxs : ctx'[c] # NULL => (ctx'[c].busy <=> \E q \in en : Call(q)'.ctx = c)
          /\ si_count' = Cardinality(si)
          /\ \A q \in si : q[1] = si_thread'
          /\ si_count' = 0 <=> si_thread' = NULL
      BY <1>2, <2>4, <2>8 DEF siVars
    <2> QED
      BY <2>5, <2>7, <2>9 DEF BusyExact
  <1>15. OneInstance'
    BY <1>2, OneInstanceHolds DEF OneInstance, Has, Flags
  <1>16. PanicOnlyOnReentry'
    BY <1>2, <1>4, NotHalted
  <1> QED
    BY <1>9, <1>11, <1>12, <1>13, <1>14, <1>15, <1>16 DEF Lost, CountsExact

\* And nothing goes on from there.
LEMMA LostStays ==
    ASSUME Lost, [Next]_vars
    PROVE  Lost'
  <1>1. ~Next
    BY DEF Lost, Next, Running
  <1>2. /\ setup' = setup /\ ctx' = ctx /\ tee_ctxes' = tee_ctxes /\ sess' = sess
        /\ open_sessions' = open_sessions /\ si_thread' = si_thread /\ si_count' = si_count
        /\ waitq' = waitq /\ stack' = stack /\ halted' = halted
    BY <1>1 DEF vars
  <1>3. Calls' = Calls /\ \A p : Call(p)' = Call(p)
    BY <1>2 DEF Calls, Call
  <1>4. /\ \A c, x : Has(c, x)' <=> Has(c, x)
        /\ Uuids' = Uuids /\ Flags' = Flags /\ (Early' <=> Early)
    BY <1>2, EarlyStays DEF Has, Flags, Uuids
  <1>5. /\ \A p : Loses(Call(p))' <=> Loses(Call(p))
        /\ \A p : Refers(Call(p))' <=> Refers(Call(p))
        /\ \A c : Keep(c)' <=> Keep(c)
    BY <1>2, <1>3, <1>4 DEF Loses, Refers, Keep
  <1>6. Dangling'
    BY <1>3, <1>5 DEF Lost, Dangling
  <1>7. TypeOK'
    BY <1>2, <1>3, <1>4 DEF Lost, TypeOK
  <1>8. SessionRefs'
    BY <1>3, <1>4, <1>5, <1>6 DEF Lost, CountsExact, SessionRefs
  <1>9. ContextRefs'
    BY <1>2, <1>3, <1>5 DEF Lost, CountsExact, ContextRefs
  <1>10. BusyExact'
    BY <1>2, <1>3, <1>4 DEF Lost, CountsExact, BusyExact
  <1>11. OneInstance'
    BY <1>2, <1>4 DEF Lost, OneInstance
  <1>12. PanicOnlyOnReentry'
    BY <1>2, <1>3 DEF Lost, PanicOnlyOnReentry
  <1> QED
    BY <1>6, <1>7, <1>8, <1>9, <1>10, <1>11, <1>12 DEF Lost, CountsExact

\* There are no calls for statistics.
LEMMA NoDump ==
    ASSUME TaInv, NoStatistics, NEW t \in Threads
    PROVE  ~init_dump_ctx(t) /\ ~dump_ta_stats(t)
  <1>1. PICK p, f : p = <<t, Len(stack[t])>> /\ f = Top(t)
    OBVIOUS
  <1>2. ASSUME dump_ta_stats(t) PROVE FALSE
    <2>1. At(t, "dump")
      BY <1>2 DEF dump_ta_stats
    <2>2. f.pc = "dump" /\ f \in FrameType
      BY <1>1, <2>1, AtFacts
    <2> QED
      BY <2>2 DEF FrameType, PCs
  <1>3. ASSUME init_dump_ctx(t) PROVE FALSE
    <2>1. At(t, "inTA") /\ Has(f.ctx, "STATS")
      BY <1>1, <1>3 DEF init_dump_ctx
    <2>2. f.pc = "inTA" /\ FormOK(f) /\ (f.ctx # NULL => ctx[f.ctx].uuid \in Uuids)
      BY <1>1, <2>1, AtFacts
    <2>3. f.ctx # NULL
      BY <2>2 DEF FormOK
    <2> QED
      BY <2>1, <2>2, <2>3 DEF NoStatistics, Has
  <1> QED
    BY <1>2, <1>3

LEMMA NextKeeps ==
    ASSUME TaInv, NoStatistics, Next
    PROVE  (TaInv' \/ Lost') /\ NoStatistics'
  <1>1. ~halted /\ UNCHANGED setup
    BY DEF Next, Running
  <1>2. NoStatistics'
    BY <1>1 DEF NoStatistics, Uuids, Flags
  <1>3. PICK t \in Threads :
          \/ Internal(t) \/ BadParameters(t) \/ user_ta_enter(t) \/ SpuriousWakeup(t)
          \/ init_dump_ctx(t)
          \/ \E u \in Uuids : tee_ta_init_session(t, u)
          \/ \E op \in Requests, k \in Keys : Request(t, op, k)
    BY DEF Next
  <1>4. CASE Internal(t)
    <2>1. SearchAgain(t) => TaInv'
      BY <1>1, SearchAgainKeeps
    <2>2. tee_ta_complete_user_ta_session(t) => TaInv'
      BY <1>1, CompleteKeeps
    <2>3. InitFail(t) => TaInv' \/ Lost'
      <3>1. CASE \E q \in Calls : /\ q # <<t, Len(stack[t])>> /\ Refers(Call(q))
                                 /\ Call(q).key = Top(t).key
        BY <1>1, <3>1, InitFailLoses
      <3>2. CASE \A q \in Calls : q # <<t, Len(stack[t])>> /\ Refers(Call(q)) =>
                                     Call(q).key # Top(t).key
        BY <1>1, <3>2, InitFailKeeps
      <3> QED
        BY <3>1, <3>2
    <2>4. GetLock(t) => TaInv'
      BY <1>1, GetLockKeeps
    <2>5. tee_ta_put_session(t) => TaInv'
      BY <1>1, PutKeeps
    <2>6. SetBusyWait(t) => TaInv'
      BY <1>1, SetBusyWaitKeeps
    <2>7. SetBusy(t) => TaInv'
      BY <1>1, SetBusyKeeps
    <2>8. SetBusyRefused(t) => TaInv'
      BY <1>1, SetBusyRefusedKeeps
    <2>9. maybe_release_ta_ctx(t) => TaInv'
      BY <1>1, MaybeReleaseKeeps
    <2>10. tee_ta_clear_busy(t) => TaInv'
      BY <1>1, ClearBusyKeeps
    <2>11. tee_ta_unlink_session(t) => TaInv'
      BY <1>1, UnlinkKeeps
    <2>12. WaitForReferences(t) => TaInv'
      BY <1>1, WaitForReferencesKeeps
    <2>13. close_session(t) => TaInv'
      BY <1>1, CloseKeeps
    <2>14. CloseNext(t) => TaInv'
      BY <1>1, CloseNextKeeps
    <2>15. release_utc_state(t) => TaInv'
      BY <1>1, ReleaseStateKeeps
    <2>16. destroy_context(t) => TaInv'
      BY <1>1, DestroyKeeps
    <2>17. ~dump_ta_stats(t)
      BY NoDump
    <2> QED
      BY <1>2, <1>4, <2>1, <2>2, <2>3, <2>4, <2>5, <2>6, <2>7, <2>8, <2>9, <2>10, <2>11,
         <2>12, <2>13, <2>14, <2>15, <2>16, <2>17 DEF Internal
  <1>5. CASE BadParameters(t)
    BY <1>1, <1>2, <1>5, BadParametersKeeps
  <1>6. CASE user_ta_enter(t)
    BY <1>1, <1>2, <1>6, UserTaKeeps
  <1>7. CASE SpuriousWakeup(t)
    BY <1>1, <1>2, <1>7, SpuriousKeeps
  <1>8. ~init_dump_ctx(t)
    BY NoDump
  <1>9. CASE \E u \in Uuids : tee_ta_init_session(t, u)
    BY <1>1, <1>2, <1>9, InitSessionKeeps
  <1>10. CASE \E op \in Requests, k \in Keys : Request(t, op, k)
    BY <1>1, <1>2, <1>10, RequestKeeps
  <1> QED
    BY <1>3, <1>4, <1>5, <1>6, <1>7, <1>8, <1>9, <1>10

LEMMA NoStatisticsStays ==
    ASSUME NoStatistics, [Next]_vars
    PROVE  NoStatistics'
  <1>1. setup' = setup
    BY DEF Next, vars
  <1> QED
    BY <1>1 DEF NoStatistics, Uuids, Flags

LEMMA TaInvAlways == Spec /\ NoStatistics => [](TaInv \/ Lost)
  <1>1. Init => TaInv
    BY InitInv
  <1>2. (TaInv \/ Lost) /\ NoStatistics /\ [Next]_vars => (TaInv' \/ Lost') /\ NoStatistics'
    <2>1. ASSUME TaInv, NoStatistics, [Next]_vars PROVE TaInv' \/ Lost'
      BY <2>1, StutterKeeps, NextKeeps
    <2> QED
      BY <2>1, LostStays, NoStatisticsStays
  <1> QED
    BY <1>1, <1>2, PTL DEF Spec

-----------------------------------------------------------------------------
(* The theorems *)

\* Whatever threads do, contexts, sessions, their lists, the single-instance lock
\* and the queues of the condition variables have the types of the C variables in
\* tee_ta_manager.c, and a call names a session of an existing list.
THEOREM TaTypeCorrect == Spec /\ NoStatistics => []TypeOK
  <1>1. TaInv \/ Lost => TypeOK
    BY TypeHolds DEF Lost
  <1> QED
    BY <1>1, TaInvAlways, PTL

\* However many threads open, use and close sessions, also while TAs panic and
\* are loaded again, tee_ta_get_session(), tee_ta_put_session() and
\* tee_ta_unlink_session() keep the count of a session equal to the number of
\* calls that refer to it, and free none of these sessions.  Only
\* tee_ta_init_session() does, when a session fails to open that clients name
\* early; none of those has it locked or is in a TA by it.
THEOREM SessionsOutliveCalls == Spec /\ NoStatistics => []SessionRefs
  <1>1. TaInv \/ Lost => SessionRefs
    BY SessionRefsHold DEF Lost, CountsExact
  <1> QED
    BY <1>1, TaInvAlways, PTL

\* close_session() frees a context when its last session is gone, no earlier, and
\* leaves none behind but those a TA asked to be kept alive; a context that
\* maybe_release_ta_ctx() took off the list is freed once as well.
THEOREM ContextsOutliveSessions == Spec /\ NoStatistics => []ContextRefs
  <1>1. TaInv \/ Lost => ContextRefs
    BY ContextRefsHold DEF Lost, CountsExact
  <1> QED
    BY <1>1, TaInvAlways, PTL

\* tee_ta_try_set_busy() and tee_ta_clear_busy() let one thread at a time into a
\* TA that is not concurrent, and one thread into all single-instance TAs, whose
\* lock is counted as often as that thread is in one.
THEOREM OneThreadInTa == Spec /\ NoStatistics => []BusyExact
  <1>1. TaInv \/ Lost => BusyExact
    BY BusyExactHolds DEF Lost, CountsExact
  <1> QED
    BY <1>1, TaInvAlways, PTL

\* The three together, as tee_ta_manager.c relies on them.
THEOREM TaCountsExact == Spec /\ NoStatistics => []CountsExact
  <1>1. TaInv \/ Lost => CountsExact
    BY SessionRefsHold, ContextRefsHold, BusyExactHolds DEF Lost, CountsExact
  <1> QED
    BY <1>1, TaInvAlways, PTL

\* tee_ta_init_session() never has two instances of a single-instance TA on the
\* list, although it loads the TA without tee_ta_mutex, and never opens a second
\* session to one without TA_FLAG_MULTI_SESSION.
THEOREM SingleInstance == Spec /\ NoStatistics => []OneInstance
  <1>1. TaInv \/ Lost => OneInstance
    BY OneInstanceHolds DEF Lost
  <1> QED
    BY <1>1, TaInvAlways, PTL

\* Only tee_ta_set_busy() panics, for a thread that invokes a TA it is in already:
\* condvar_destroy() never does, as nobody waits for a context that is freed.
\* (That of close_session(), for a context without references, is ruled out by
\* ContextsOutliveSessions: the closing call itself is one.)
THEOREM PanicsOnlyOnReentry == Spec /\ NoStatistics => []PanicOnlyOnReentry
  <1>1. TaInv \/ Lost => PanicOnlyOnReentry
    BY DEF TaInv, Lost
  <1> QED
    BY <1>1, TaInvAlways, PTL

-----------------------------------------------------------------------------
(* No circle of waits.  Who waits for a session lock is in no other call; who *)
(* waits for the single-instance lock waits for a thread that has it and      *)
(* waits for neither lock; and who waits for references or for the loading of *)
(* a TA waits for threads that do not wait.                                   *)

\* The session is to be unlinked.
Leaving(k) == sess[k] # NULL /\ sess[k].unlink

\* Where a thread is that waits for cv: nobody waits for a busy context.
WaitAt(t, cv) ==
    /\ stack[t] # <<>> /\ cv[1] # "busy"
    /\ cv[1] = "si" => Top(t).pc = "enter" /\ si_thread # t
    /\ cv[1] = "init" => Top(t).pc = "lookup"
    /\ cv[1] = "lock" => Top(t).pc = "locking" /\ Top(t).key = cv[2] /\ ~Leaving(cv[2])
    /\ cv[1] = "refc" => Top(t).pc = "unlinking" /\ Top(t).key = cv[2]

\* Only calls from normal world find a session locked; a locked session has the
\* call that locked it.
PlaceOK(f) == /\ f.pc = "locking" => f.key[1] = NW
              /\ f.pc = "unlinking" => Leaving(f.key)
Locked(k) == sess[k] # NULL /\ sess[k].lock # NULL
Ordered ==
    /\ \A t \in Threads, cv \in CondVars : WaitsFor(t, cv) => WaitAt(t, cv)
    /\ \A p \in Calls : PlaceOK(Call(p))
    /\ \A k \in Keys : Locked(k) => \E p \in Calls : Call(p).key = k /\ Owns(Call(p))

\* What one step keeps, where f becomes g at p
WaitsNow(t) ==
    \A cv \in CondVars : /\ Contains(waitq'[cv], t) => WaitAt(t, cv)'
                         /\ \A u \in Threads \ {t} : Contains(waitq'[cv], u) =>
                               Contains(waitq[cv], u)
LeavingNow ==
    \A k \in Keys :
        /\ Leaving(k) /\ sess'[k] # NULL => Leaving(k)'
        /\ Leaving(k)' => Leaving(k) \/ \A u \in Threads : ~Contains(waitq'[lock_cv(k)], u)
LocksNow(p, f, g) ==
    \A k \in Keys : Locked(k)' =>
        \/ g.key = k /\ Owns(g) /\ p \in Calls'
        \/ Locked(k) /\ ~(f.key = k /\ Owns(f))

LEMMA CvFacts ==
    /\ tee_ta_cv[1] = "si" /\ tee_ta_init_cv[1] = "init"
    /\ \A k : lock_cv(k)[1] = "lock" /\ lock_cv(k)[2] = k
    /\ \A k : refc_cv(k)[1] = "refc" /\ refc_cv(k)[2] = k
    /\ \A cv \in CondVars : \/ cv = tee_ta_cv
                            \/ cv = tee_ta_init_cv
                            \/ cv[1] = "busy"
                            \/ \E k \in Keys : cv = lock_cv(k)
                            \/ \E k \in Keys : cv = refc_cv(k)
  BY DEF CondVars, tee_ta_cv, tee_ta_init_cv, busy_cv, lock_cv, refc_cv

LEMMA OrderStep ==
    ASSUME TaInv, TaInv', Ordered, UNCHANGED setup, NEW t \in Threads, NEW p, p[1] = t,
           NEW f, NEW g, Step(p, f, g), \A u \in Threads \ {t} : stack'[u] = stack[u],
           si_thread' \in {si_thread, t, NULL}, WaitsNow(t), LeavingNow, LocksNow(p, f, g),
           p \in Calls' => PlaceOK(g)'
    PROVE  Ordered'
  <1>0. CondVars' = CondVars
    BY DEF CondVars
  <1>1. ASSUME NEW u \in Threads, NEW cv \in CondVars, Contains(waitq'[cv], u)
        PROVE  WaitAt(u, cv)'
    <2>1. CASE u = t
      BY <1>1, <2>1 DEF WaitsNow
    <2>2. CASE u # t
      <3>1. Contains(waitq[cv], u) /\ stack'[u] = stack[u]
        BY <1>1, <2>2 DEF WaitsNow
      <3>2. WaitAt(u, cv) /\ Top(u)' = Top(u)
        BY <1>1, <3>1 DEF Ordered, WaitsFor, Top
      <3>3. cv[1] = "si" => si_thread' # u
        BY <1>1, <2>2, <3>2, TaManagerAssumption DEF WaitAt
      <3>4. cv[1] = "lock" => ~Leaving(cv[2])'
        <4>1. ASSUME cv[1] = "lock" PROVE ~Leaving(cv[2])'
          <5>1. PICK k \in Keys : cv = lock_cv(k)
            BY <4>1, <1>1, CvFacts
          <5>2. cv[2] = k /\ ~Leaving(k)
            BY <3>2, <4>1, <5>1, CvFacts DEF WaitAt
          <5>3. ~Leaving(k)'
            BY <1>1, <5>1, <5>2 DEF LeavingNow
          <5> QED
            BY <5>2, <5>3
        <4> QED
          BY <4>1
      <3> QED
        BY <3>1, <3>2, <3>3, <3>4 DEF WaitAt
    <2> QED
      BY <2>1, <2>2
  <1>2. ASSUME NEW q \in Calls' PROVE PlaceOK(Call(q))'
    <2>1. CASE q = p
      BY <1>2, <2>1 DEF Step
    <2>2. CASE q # p
      <3>1. PICK h : h = Call(q)
        OBVIOUS
      <3>2. q \in Calls /\ Call(q)' = h /\ PlaceOK(h)
        BY <1>2, <2>2, <3>1 DEF Step, Ordered
      <3>3. ASSUME h.pc = "unlinking" PROVE Leaving(h.key)'
        <4>1. CoreType' /\ FramesOK' /\ StackType
          BY TypeFacts DEF TaInv
        <4>2. Refers(h)
          <5>1. FormOK(h)
            BY <3>1, <3>2 DEF TaInv, FramesOK, FrameOK
          <5> QED
            BY <3>3, <5>1 DEF Refers, FormOK
        <4>3. h.key \in Keys
          BY <3>1, <3>2, <4>1, CallsFacts DEF FrameType
        <4>4. sess'[h.key] # NULL
          <5>1. SessFor(q[1], h, sess'[h.key])
            BY <1>2, <3>2, <4>1 DEF FramesOK, FrameOK
          <5> QED
            BY <4>2, <5>1 DEF SessFor
        <4>5. Leaving(h.key)
          BY <3>2, <3>3 DEF PlaceOK
        <4> QED
          BY <4>3, <4>4, <4>5 DEF LeavingNow
      <3>4. PlaceOK(h)'
        BY <3>2, <3>3 DEF PlaceOK
      <3> QED
        BY <3>2, <3>4 DEF PlaceOK
    <2> QED
      BY <2>1, <2>2
  <1>3. ASSUME NEW k \in Keys, Locked(k)'
        PROVE  \E q \in Calls' : Call(q)'.key = k /\ Owns(Call(q)')
    <2>1. CASE g.key = k /\ Owns(g) /\ p \in Calls'
      BY <2>1 DEF Step
    <2>2. CASE Locked(k) /\ ~(f.key = k /\ Owns(f))
      <3>1. PICK q \in Calls : Call(q).key = k /\ Owns(Call(q))
        BY <2>2 DEF Ordered
      <3>2. q # p
        BY <2>2, <3>1 DEF Step
      <3>3. q \in Calls' /\ Call(q)' = Call(q)
        BY <3>1, <3>2 DEF Step
      <3> QED
        BY <3>1, <3>3
    <2> QED
      BY <1>3, <2>1, <2>2 DEF LocksNow
  <1>4. \A q : Owns(Call(q))' <=> Owns(Call(q)')
    BY DEF Owns, Refers
  <1> QED
    BY <1>0, <1>1, <1>2, <1>3, <1>4 DEF Ordered, WaitsFor

\* The order, from the invariants: a thread that waits waits at one of four places.
LEMMA WaitPlaces ==
    ASSUME TaInv, Ordered, NEW t \in Threads, Waiting(t), NEW p, p = <<t, Len(stack[t])>>,
           NEW f, f = Top(t)
    PROVE  /\ p \in Calls /\ p[1] = t /\ Call(p) = f /\ f \in FrameType /\ FormOK(f)
           /\ \/ WaitsFor(t, tee_ta_cv) /\ f.pc = "enter" /\ si_thread # t
              \/ WaitsFor(t, tee_ta_init_cv) /\ f.pc = "lookup"
              \/ WaitsFor(t, lock_cv(f.key)) /\ f.pc = "locking" /\ ~Leaving(f.key)
              \/ f.pc = "unlinking"
           /\ WaitsFor(t, tee_ta_cv) => f.pc = "enter"
           /\ WaitsFor(t, tee_ta_init_cv) => f.pc = "lookup"
  <1>1. CoreType /\ StackType /\ FramesOK
    BY TypeFacts DEF TaInv
  <1>2. \A cv \in CondVars : WaitsFor(t, cv) => WaitAt(t, cv)
    BY DEF Ordered
  <1>3. PICK cv \in CondVars : WaitsFor(t, cv) /\ WaitAt(t, cv)
    BY <1>2 DEF Waiting
  <1>4. p \in Calls /\ p[1] = t /\ Call(p) = f /\ f \in FrameType
    BY <1>1, <1>3, TopFacts DEF WaitAt
  <1>5. FormOK(f)
    BY <1>1, <1>4, CallFacts
  <1>6. /\ WaitsFor(t, tee_ta_cv) => f.pc = "enter"
        /\ WaitsFor(t, tee_ta_init_cv) => f.pc = "lookup"
    BY <1>2, CondVarsFacts, CvFacts DEF WaitAt
  <1>7. \/ WaitsFor(t, tee_ta_cv) /\ f.pc = "enter" /\ si_thread # t
        \/ WaitsFor(t, tee_ta_init_cv) /\ f.pc = "lookup"
        \/ WaitsFor(t, lock_cv(f.key)) /\ f.pc = "locking" /\ ~Leaving(f.key)
        \/ f.pc = "unlinking"
    <2>1. CASE cv = tee_ta_cv
      BY <1>3, <2>1, CvFacts DEF WaitAt
    <2>2. CASE cv = tee_ta_init_cv
      BY <1>3, <2>2, CvFacts DEF WaitAt
    <2>3. ASSUME NEW k \in Keys, cv = lock_cv(k)
          PROVE  WaitsFor(t, lock_cv(f.key)) /\ f.pc = "locking" /\ ~Leaving(f.key)
      BY <1>3, <2>3, CvFacts DEF WaitAt
    <2>4. ASSUME NEW k \in Keys, cv = refc_cv(k) PROVE f.pc = "unlinking"
      BY <1>3, <2>4, CvFacts DEF WaitAt
    <2>5. cv[1] # "busy"
      BY <1>3 DEF WaitAt
    <2> QED
      BY <1>3, <2>1, <2>2, <2>3, <2>4, <2>5, CvFacts
  <1> QED
    BY <1>4, <1>5, <1>6, <1>7

\* A call in the middle of a stack is in a TA, or releases one.
LEMMA NotInCallIsTop ==
    ASSUME TaInv, NEW q \in Calls, ~InCall(Call(q))
    PROVE  stack[q[1]] # <<>> /\ q = <<q[1], Len(stack[q[1]])>> /\ Call(q) = Top(q[1])
  <1>1. CoreType /\ StackType /\ FramesOK
    BY TypeFacts DEF TaInv
  <1>2. PICK t, i : q = <<t, i>> /\ q[1] = t /\ q[2] = i
    BY <1>1, CallsFacts
  <1>3. t \in Threads /\ i \in 1 .. Len(stack[t]) /\ Len(stack[t]) \in Nat
    BY <1>1, <1>2, CallsFacts
  <1>4. ASSUME i < Len(stack[t]) PROVE FALSE
    <2>1. PICK r : r = <<t, i + 1>>
      OBVIOUS
    <2>2. i + 1 \in 1 .. Len(stack[t]) /\ i + 1 # 1
      BY <1>3, <1>4
    <2>3. r \in Calls /\ r[2] # 1
      BY <1>1, <1>3, <2>1, <2>2, CallsFacts
    <2>4. Below(r) = q
      <3>1. r[1] = t /\ r[2] = i + 1 /\ (i + 1) - 1 = i
        BY <1>3, <2>1
      <3> QED
        BY <1>2, <3>1 DEF Below
    <2> QED
      BY <1>1, <2>3, <2>4, BelowFacts
  <1>5. i = Len(stack[t])
    BY <1>3, <1>4
  <1>6. stack[t] # <<>>
    BY <1>3
  <1> QED
    BY <1>1, <1>2, <1>3, <1>5, <1>6, TopFacts

\* Of the threads in a circle, one would wait for the lock of a session: it is in
\* one call, has no lock and no TA.
LEMMA LockWaiterIsAlone ==
    ASSUME TaInv, Ordered, NEW q \in Calls, Call(q).pc = "locking", NEW r \in Calls,
           r[1] = q[1]
    PROVE  r = q
  <1>1. CoreType /\ StackType /\ FramesOK
    BY TypeFacts DEF TaInv
  <1>2. Call(q).key[1] = NW
    BY DEF Ordered, PlaceOK
  <1>3. q = <<q[1], Len(stack[q[1]])>>
    BY NotInCallIsTop DEF InCall
  <1>4. q[2] = 1
    <2>1. ASSUME q[2] # 1 PROVE FALSE
      <3>1. Below(q) \in Calls /\ Call(Below(q)).ctx # NULL /\ NW = Call(Below(q)).ctx
        BY <1>1, <1>2, <2>1, BelowFacts
      <3>2. Call(Below(q)).ctx \in Ctxs
        BY <1>1, <3>1, CallFacts
      <3> QED
        BY <3>1, <3>2, TaManagerAssumption
    <2> QED
      BY <2>1
  <1>5. PICK t : t = q[1]
    OBVIOUS
  <1>6. Len(stack[t]) = 1 /\ t \in Threads /\ q = <<t, 1>>
    BY <1>1, <1>3, <1>4, <1>5, CallsFacts
  <1>7. PICK i : r = <<t, i>>
    BY <1>1, <1>5, CallsFacts
  <1>8. i \in 1 .. 1
    BY <1>1, <1>6, <1>7, CallsFacts
  <1> QED
    BY <1>6, <1>7, <1>8

LEMMA LoaderGoesOn ==
    ASSUME TaInv, Ordered, NEW q \in Calls, Call(q).pc = "load"
    PROVE  ~Waiting(q[1])
  <1>1. /\ q = <<q[1], Len(stack[q[1]])>> /\ Call(q) = Top(q[1])
    BY NotInCallIsTop DEF InCall
  <1>2. q[1] \in Threads
    BY CallFacts DEF TaInv
  <1> QED
    BY <1>1, <1>2, WaitPlaces

LEMMA RefererGoesOn ==
    ASSUME TaInv, Ordered, NEW p \in Calls, Call(p).pc = "unlinking", NEW q \in Calls,
           Call(q).key = Call(p).key, Refers(Call(q)), q[1] # p[1]
    PROVE  ~Waiting(q[1])
  <1>1. CoreType /\ FramesOK
    BY DEF TaInv
  <1>2. FormOK(Call(p)) /\ FormOK(Call(q)) /\ q[1] \in Threads
    BY <1>1, CallFacts
  <1>3. Refers(Call(p)) /\ Owns(Call(p))
    BY <1>2 DEF FormOK, Refers, Owns
  <1>4. ~Owns(Call(q))
    <2>1. p # q
      OBVIOUS
    <2> QED
      BY <1>1, <1>3, <2>1 DEF FramesOK, Apart
  <1>5. Call(q).pc \in {"put", "locking"}
    BY <1>2, <1>4 DEF Owns, FormOK
  <1>6. /\ q = <<q[1], Len(stack[q[1]])>> /\ Call(q) = Top(q[1])
    BY <1>5, NotInCallIsTop DEF InCall
  <1>7. Leaving(Call(q).key)
    BY DEF Ordered, PlaceOK
  <1> QED
    BY <1>2, <1>5, <1>6, <1>7, WaitPlaces

LEMMA AwaitedFacts ==
    ASSUME TaInv, Ordered, NEW t \in Threads, Waiting(t), NEW f, f = Top(t)
    PROVE  \/ WaitsFor(t, tee_ta_cv) /\ si_thread # t /\ Awaited(t) = {si_thread} \ {NULL}
           \/ f.pc \in {"lookup", "unlinking"} /\ \A u \in Awaited(t) : ~Waiting(u)
           \/ f.pc = "locking" /\ Awaited(t) = {sess[f.key].lock} \ {NULL}
  <1>1. PICK p : p = <<t, Len(stack[t])>>
    OBVIOUS
  <1>2. /\ p \in Calls /\ p[1] = t /\ Call(p) = f /\ f \in FrameType /\ FormOK(f)
        /\ \/ WaitsFor(t, tee_ta_cv) /\ f.pc = "enter" /\ si_thread # t
           \/ WaitsFor(t, tee_ta_init_cv) /\ f.pc = "lookup"
           \/ WaitsFor(t, lock_cv(f.key)) /\ f.pc = "locking" /\ ~Leaving(f.key)
           \/ f.pc = "unlinking"
        /\ WaitsFor(t, tee_ta_cv) => f.pc = "enter"
        /\ WaitsFor(t, tee_ta_init_cv) => f.pc = "lookup"
    BY <1>1, WaitPlaces
  <1>3. CASE WaitsFor(t, tee_ta_cv)
    <2>1. f.pc = "enter" /\ ~WaitsFor(t, tee_ta_init_cv) /\ si_thread # t
      BY <1>2, <1>3
    <2>2. Awaited(t) = {si_thread} \ {NULL}
      BY <1>3, <2>1 DEF Awaited
    <2> QED
      BY <1>3, <2>1, <2>2
  <1>4. CASE WaitsFor(t, tee_ta_init_cv)
    <2>1. f.pc = "lookup" /\ ~WaitsFor(t, tee_ta_cv)
      BY <1>2, <1>4
    <2>2. Awaited(t) = {q[1] : q \in {r \in Calls : Call(r).pc = "load" /\ Call(r).uuid = f.uuid}}
      BY <1>4, <2>1 DEF Awaited
    <2>3. \A u \in Awaited(t) : \E q \in Calls : Call(q).pc = "load" /\ u = q[1]
      BY <2>2
    <2> QED
      BY <2>1, <2>3, LoaderGoesOn
  <1>5. CASE f.pc = "locking"
    <2>1. ~WaitsFor(t, tee_ta_cv) /\ ~WaitsFor(t, tee_ta_init_cv)
      BY <1>2, <1>5
    <2>2. Awaited(t) = {sess[f.key].lock} \ {NULL}
      BY <1>5, <2>1 DEF Awaited
    <2> QED
      BY <1>5, <2>2
  <1>6. CASE f.pc = "unlinking"
    <2>1. ~WaitsFor(t, tee_ta_cv) /\ ~WaitsFor(t, tee_ta_init_cv)
      BY <1>2, <1>6
    <2>2. Awaited(t) = {q[1] : q \in {r \in Calls : Call(r).key = f.key /\ Refers(Call(r))}} \ {t}
      BY <1>6, <2>1 DEF Awaited
    <2>3. \A u \in Awaited(t) :
              u # t /\ \E q \in Calls : Call(q).key = f.key /\ Refers(Call(q)) /\ u = q[1]
      BY <2>2
    <2>4. \A u \in Awaited(t) : ~Waiting(u)
      BY <1>2, <1>6, <2>3, RefererGoesOn
    <2> QED
      BY <1>6, <2>4
  <1> QED
    BY <1>2, <1>3, <1>4, <1>5, <1>6

\* Who has the single-instance lock, or that of a session, does not wait for the
\* lock of a session.
LEMMA OwnersGoFirst ==
    ASSUME TaInv, Ordered, NEW t \in Threads, Waiting(t), NEW f, f = Top(t), f.pc = "locking"
    PROVE  /\ si_thread # t
           /\ \A k \in Keys : Locked(k) => sess[k].lock # t
  <1>1. CoreType /\ FramesOK /\ LockOK /\ StackType
    BY TypeFacts DEF TaInv
  <1>2. PICK p : p = <<t, Len(stack[t])>>
    OBVIOUS
  <1>3. p \in Calls /\ p[1] = t /\ Call(p) = f /\ FormOK(f)
    BY <1>2, WaitPlaces
  <1>4. ASSUME si_thread = t PROVE FALSE
    <2>1. si_thread # NULL
      BY <1>1, <1>4, TypeFacts
    <2>2. Singles # {}
      <3>1. Singles = {} => Cardinality(Singles) = 0
        BY FS_EmptySet
      <3> QED
        BY <1>1, <2>1, <3>1 DEF LockOK
    <2>3. PICK q : q \in Singles
      BY <2>2
    <2>4. q \in Calls /\ Call(q).busy /\ q[1] = t
      BY <1>1, <1>4, <2>3 DEF Singles, InSingle, Occupies, LockOK
    <2>5. q = p
      BY <1>3, <2>4, LockWaiterIsAlone
    <2> QED
      BY <1>3, <2>4, <2>5 DEF FormOK
  <1>5. ASSUME NEW k \in Keys, Locked(k), sess[k].lock = t PROVE FALSE
    <2>1. PICK q \in Calls : Call(q).key = k /\ Owns(Call(q))
      BY <1>5 DEF Ordered
    <2>2. q[1] = t
      BY <1>1, <1>5, <2>1, CallFacts DEF Owns
    <2>3. q = p
      BY <1>3, <2>1, <2>2, LockWaiterIsAlone
    <2> QED
      BY <1>3, <2>1, <2>3 DEF Owns
  <1> QED
    BY <1>4, <1>5

LEMMA NoDeadlockHolds == ASSUME TaInv, Ordered PROVE NoDeadlock
  <1> SUFFICES ASSUME NEW T \in (SUBSET Threads) \ {{}} PROVE \E t \in T : Awaited(t) \cap T = {}
    BY DEF NoDeadlock
  <1>1. T \subseteq Threads /\ T # {}
    OBVIOUS
  <1>2. CASE \E t \in T : ~Waiting(t)
    <2>1. PICK t \in T : ~Waiting(t)
      BY <1>2
    <2>2. Awaited(t) = {}
      BY <2>1 DEF Awaited
    <2> QED
      BY <2>2
  <1>3. CASE /\ \A t \in T : Waiting(t)
             /\ \E t \in T : Top(t).pc \in {"lookup", "unlinking"}
    <2>1. PICK t \in T : Top(t).pc \in {"lookup", "unlinking"}
      BY <1>3
    <2>2. \A u \in Awaited(t) : ~Waiting(u)
      <3>1. PICK p, f : p = <<t, Len(stack[t])>> /\ f = Top(t)
        OBVIOUS
      <3>2. WaitsFor(t, tee_ta_cv) => f.pc = "enter"
        BY <1>1, <1>3, <3>1, WaitPlaces
      <3> QED
        BY <1>1, <1>3, <2>1, <3>1, <3>2, AwaitedFacts
    <2> QED
      BY <1>3, <2>2
  <1>4. CASE /\ \A t \in T : Waiting(t) /\ Top(t).pc \notin {"lookup", "unlinking"}
             /\ \E t \in T : WaitsFor(t, tee_ta_cv)
    <2>1. PICK t \in T : WaitsFor(t, tee_ta_cv)
      BY <1>4
    <2>2. Awaited(t) \subseteq {si_thread}
      <3>1. PICK p, f : p = <<t, Len(stack[t])>> /\ f = Top(t)
        OBVIOUS
      <3>2. f.pc = "enter"
        BY <1>1, <1>4, <2>1, <3>1, WaitPlaces
      <3> QED
        BY <1>1, <1>4, <2>1, <3>1, <3>2, AwaitedFacts
    <2>3. si_thread \notin T
      <3>1. ASSUME NEW u \in T, u = si_thread PROVE FALSE
        <4>1. Top(u).pc = "locking"
          BY <1>1, <1>4, <3>1, AwaitedFacts
        <4> QED
          BY <1>1, <1>4, <3>1, <4>1, OwnersGoFirst
      <3> QED
        BY <3>1
    <2> QED
      BY <2>2, <2>3
  <1>5. CASE \A t \in T : /\ Waiting(t) /\ Top(t).pc \notin {"lookup", "unlinking"}
                          /\ ~WaitsFor(t, tee_ta_cv)
    <2>1. \A t \in T : /\ Top(t).pc = "locking"
                       /\ Awaited(t) = {sess[Top(t).key].lock} \ {NULL}
      BY <1>1, <1>5, AwaitedFacts
    <2>2. PICK t \in T : TRUE
      BY <1>1
    <2>3. PICK p, f, k : p = <<t, Len(stack[t])>> /\ f = Top(t) /\ k = f.key
      OBVIOUS
    <2>4. p \in Calls /\ Call(p) = f /\ FormOK(f) /\ f.pc = "locking"
      BY <1>1, <1>5, <2>1, <2>3, WaitPlaces
    <2>5. k \in Keys /\ sess[k] # NULL
      <3>1. Refers(f)
        BY <2>4 DEF Refers
      <3> QED
        BY <2>3, <2>4, <3>1, CallFacts DEF TaInv
    <2>6. ASSUME NEW u \in T, u \in Awaited(t) PROVE FALSE
      <3>1. u = sess[k].lock /\ Locked(k)
        BY <2>1, <2>3, <2>5, <2>6 DEF Locked
      <3> QED
        BY <1>1, <1>5, <2>1, <2>5, <2>6, <3>1, OwnersGoFirst
    <2> QED
      BY <2>6
  <1> QED
    BY <1>2, <1>3, <1>4, <1>5

-----------------------------------------------------------------------------
(* The order is kept, first by steps that make nobody wait *)

LEMMA WaitsNowFewer ==
    ASSUME NEW t \in Threads, NotWaiting(t), Fewer(waitq, waitq')
    PROVE  WaitsNow(t)
  BY DEF WaitsNow, NotWaiting, Fewer

LEMMA WaitsNowAdd ==
    ASSUME NEW t \in Threads, NotWaiting(t), NEW q, Fewer(waitq, q), NEW cv \in CondVars,
           waitq' = [q EXCEPT ![cv] = Append(@, t)], WaitAt(t, cv)'
    PROVE  WaitsNow(t) /\ \A x \in CondVars : x # cv => waitq'[x] = q[x]
  <1>1. q \in QueueType /\ q[cv] \in Seq(Threads)
    BY DEF Fewer, QueueType
  <1>2. PICK s : s = Append(q[cv], t)
    OBVIOUS
  <1>3. s \in Seq(Threads) /\ \A x : Contains(s, x) <=> (Contains(q[cv], x) \/ x = t)
    BY <1>1, <1>2, AppendFacts
  <1>4. /\ waitq'[cv] = s
        /\ \A x \in CondVars : x # cv => waitq'[x] = q[x]
    BY <1>1, <1>2, <1>3 DEF QueueType
  <1>5. ASSUME NEW x \in CondVars, NEW u \in Threads, Contains(waitq'[x], u)
        PROVE  \/ u # t /\ Contains(waitq[x], u)
               \/ u = t /\ x = cv
    BY <1>3, <1>4, <1>5 DEF Fewer, NotWaiting
  <1> QED
    BY <1>4, <1>5 DEF WaitsNow

\* Only session k changes, and it does not become one to be unlinked.
LEMMA SessionNow ==
    ASSUME NEW k \in Keys, \A j \in Keys : j # k => sess'[j] = sess[j],
           sess'[k] # NULL => (Leaving(k)' <=> Leaving(k)),
           NEW p, NEW f, NEW g, Owns(f) => f.key = k,
           Locked(k)' => \/ g.key = k /\ Owns(g) /\ p \in Calls'
                         \/ Locked(k) /\ ~Owns(f)
    PROVE  LeavingNow /\ LocksNow(p, f, g)
  <1>1. ASSUME NEW j \in Keys
        PROVE  /\ Leaving(j) /\ sess'[j] # NULL => Leaving(j)'
               /\ Leaving(j)' => Leaving(j)
    <2>1. CASE j = k
      BY <2>1 DEF Leaving
    <2>2. CASE j # k
      BY <2>2 DEF Leaving
    <2> QED
      BY <2>1, <2>2
  <1>2. ASSUME NEW j \in Keys, Locked(j)'
        PROVE  \/ g.key = j /\ Owns(g) /\ p \in Calls'
               \/ Locked(j) /\ ~(f.key = j /\ Owns(f))
    <2>1. CASE j = k
      BY <1>2, <2>1
    <2>2. CASE j # k
      BY <1>2, <2>2 DEF Locked
    <2> QED
      BY <2>1, <2>2
  <1>3. LeavingNow
    BY <1>1 DEF LeavingNow
  <1>4. LocksNow(p, f, g)
    BY <1>2 DEF LocksNow
  <1> QED
    BY <1>3, <1>4

\* A step that leaves the locks of sessions and who unlinks them alone
Calm(s, r) ==
    /\ r = NULL <=> s = NULL
    /\ s # NULL => r.lock = s.lock /\ (r.unlink <=> s.unlink)
LEMMA SetOrder ==
    ASSUME TaInv, TaInv', Ordered, UNCHANGED setup, NEW t \in Threads, stack[t] # <<>>,
           NEW f, f = Top(t), NEW g \in FrameType, stack' = [stack EXCEPT ![t][1] = g],
           g.key = f.key, Owns(f) => Owns(g), g.pc \notin {"locking", "unlinking"},
           si_thread' \in {si_thread, t, NULL}, WaitsNow(t),
           \A j \in Keys : Calm(sess[j], sess'[j])
    PROVE  Ordered'
  <1>1. PICK p : p = <<t, Len(stack[t])>>
    OBVIOUS
  <1>2. StackType /\ p[1] = t
    BY <1>1, TypeFacts DEF TaInv
  <1>3. /\ p \in Calls' /\ Step(p, f, g)
        /\ \A u \in Threads \ {t} : stack'[u] = stack[u]
    BY <1>1, <1>2, SetStep
  <1>4. LeavingNow
    BY DEF LeavingNow, Leaving, Calm
  <1>5. LocksNow(p, f, g)
    BY <1>3 DEF LocksNow, Locked, Calm
  <1>6. PlaceOK(g)'
    BY DEF PlaceOK
  <1> QED
    BY <1>2, <1>3, <1>4, <1>5, <1>6, OrderStep

LEMMA CalmOrder ==
    ASSUME TaInv, TaInv', Ordered, UNCHANGED setup, NEW t \in Threads, stack[t] # <<>>,
           NEW f, f = Top(t), NEW g \in FrameType, stack' = [stack EXCEPT ![t][1] = g],
           g.key = f.key, Owns(f) => Owns(g), g.pc \notin {"locking", "unlinking"},
           si_thread' \in {si_thread, t, NULL}, NotWaiting(t), Fewer(waitq, waitq'),
           \A j \in Keys : Calm(sess[j], sess'[j])
    PROVE  Ordered'
  <1>1. WaitsNow(t)
    BY WaitsNowFewer
  <1> QED
    BY <1>1, SetOrder

\* A call returns.
LEMMA ReturnOrder ==
    ASSUME TaInv, TaInv', Ordered, UNCHANGED setup, NEW t \in Threads, stack[t] # <<>>,
           NEW f, f = Top(t), stack' = [stack EXCEPT ![t] = Tail(@)],
           UNCHANGED si_thread, NotWaiting(t), Fewer(waitq, waitq'),
           NEW k \in Keys, f.key = k, \A j \in Keys : j # k => sess'[j] = sess[j],
           sess'[k] # NULL => (Leaving(k)' <=> Leaving(k)),
           Locked(k)' => Locked(k) /\ ~Owns(f)
    PROVE  Ordered'
  <1>1. PICK p, g : p = <<t, Len(stack[t])>> /\ g = NoCall
    OBVIOUS
  <1>2. StackType /\ p[1] = t
    BY <1>1, TypeFacts DEF TaInv
  <1>3. /\ p \notin Calls' /\ Step(p, f, g)
        /\ \A u \in Threads \ {t} : stack'[u] = stack[u]
    BY <1>1, <1>2, PopStep
  <1>4. WaitsNow(t)
    BY WaitsNowFewer
  <1>5. LeavingNow /\ LocksNow(p, f, g)
    BY SessionNow
  <1> QED
    BY <1>2, <1>3, <1>4, <1>5, OrderStep

\* Only who waits changes.
LEMMA WaitOrder ==
    ASSUME TaInv, TaInv', Ordered, UNCHANGED <<setup, sess, si_thread, stack>>,
           NEW t \in Threads, stack[t] # <<>>, WaitsNow(t)
    PROVE  Ordered'
  <1>1. PICK p, f : p = <<t, Len(stack[t])>> /\ f = Top(t)
    OBVIOUS
  <1>2. StackType /\ p[1] = t
    BY <1>1, TypeFacts DEF TaInv
  <1>3. p \in Calls /\ Call(p) = f
    BY <1>1, <1>2, TopFacts
  <1>4. Calls' = Calls /\ \A q : Call(q)' = Call(q)
    BY DEF Calls, Call
  <1>5. Step(p, f, f)
    <2>1. \A q \in Calls : Below(q) # p
      BY <1>1, <1>2, TopIsLast
    <2> QED
      BY <1>3, <1>4, <2>1 DEF Step
  <1>6. LeavingNow
    BY DEF LeavingNow, Leaving
  <1>7. LocksNow(p, f, f)
    BY <1>3, <1>4 DEF LocksNow, Locked
  <1>8. PlaceOK(f)'
    BY <1>3 DEF Ordered, PlaceOK, Leaving
  <1> QED
    BY <1>2, <1>5, <1>6, <1>7, <1>8, OrderStep

LEMMA SameIsCalm ==
    ASSUME UNCHANGED sess PROVE \A j \in Keys : Calm(sess[j], sess'[j])
  BY DEF Calm

LEMMA BadParametersOrder ==
    ASSUME TaInv, TaInv', Ordered, UNCHANGED setup, NEW t \in Threads, BadParameters(t)
    PROVE  Ordered'
  <1>1. PICK p, f : p = <<t, Len(stack[t])>> /\ f = Top(t)
    OBVIOUS
  <1>2. At(t, "enter") /\ UNCHANGED <<sess, si_thread, waitq>>
    BY DEF BadParameters, siVars
  <1>3. /\ stack[t] # <<>> /\ f.pc = "enter" /\ NotWaiting(t) /\ waitq \in QueueType
        /\ f \in FrameType /\ FormOK(f) /\ StackType
    BY <1>1, <1>2, AtFacts, TypeFacts DEF TaInv
  <1>4. PICK g \in FrameType : /\ stack' = [stack EXCEPT ![t][1] = g] /\ g.key = f.key
                               /\ \/ g.pc = "enter" /\ g.op = "close"
                                  \/ g.pc = "put" /\ g.op = "invoke"
    <2>1. CASE f.op = "open" /\ stack' = [stack EXCEPT ![t][1].op = "close"]
      <3>1. PICK g : g = [f EXCEPT !.op = "close"]
        OBVIOUS
      <3>2. stack' = [stack EXCEPT ![t][1] = g]
        <4>1. stack[t] \in Seq(FrameType) /\ Len(stack[t]) \in Nat \ {0}
          BY <1>3 DEF StackType
        <4>2. f = stack[t][1]
          BY <1>1, <4>1 DEF Top
        <4> QED
          BY <2>1, <3>1, <4>1, <4>2
      <3>3. g \in FrameType /\ g.key = f.key /\ g.pc = "enter" /\ g.op = "close"
        BY <1>3, <3>1 DEF FrameType, Ops
      <3> QED
        BY <3>2, <3>3
    <2>2. CASE f.op = "invoke" /\ Goto(t, "put")
      <3>1. "put" \in PCs
        BY DEF PCs
      <3> QED
        BY <1>1, <1>3, <2>2, <3>1, GotoSet
    <2> QED
      BY <1>1, <2>1, <2>2 DEF BadParameters
  <1>5. Owns(g) /\ g.pc \notin {"locking", "unlinking"}
    BY <1>4 DEF Owns, Refers
  <1>6. Fewer(waitq, waitq')
    BY <1>2, <1>3, FewerSame
  <1> QED
    BY <1>1, <1>2, <1>3, <1>4, <1>5, <1>6, SameIsCalm, CalmOrder

LEMMA ReleaseStateOrder ==
    ASSUME TaInv, TaInv', Ordered, UNCHANGED setup, NEW t \in Threads, release_utc_state(t)
    PROVE  Ordered'
  <1>1. PICK p, f : p = <<t, Len(stack[t])>> /\ f = Top(t)
    OBVIOUS
  <1>2. At(t, "release") /\ UNCHANGED <<sess, si_thread, waitq>> /\ Goto(t, "clear")
    BY DEF release_utc_state, siVars
  <1>3. /\ stack[t] # <<>> /\ f.pc = "release" /\ NotWaiting(t) /\ waitq \in QueueType
        /\ FormOK(f) /\ StackType
    BY <1>1, <1>2, AtFacts, TypeFacts DEF TaInv
  <1>4. PICK g \in FrameType : /\ stack' = [stack EXCEPT ![t][1] = g] /\ g.key = f.key
                               /\ g.pc = "clear" /\ g.op = f.op
    <2>1. "clear" \in PCs
      BY DEF PCs
    <2> QED
      BY <1>1, <1>2, <1>3, <2>1, GotoSet
  <1>5. (Owns(f) => Owns(g)) /\ g.pc \notin {"locking", "unlinking"}
    BY <1>3, <1>4 DEF Owns, Refers, FormOK
  <1>6. Fewer(waitq, waitq')
    BY <1>2, <1>3, FewerSame
  <1> QED
    BY <1>1, <1>2, <1>3, <1>4, <1>5, <1>6, SameIsCalm, CalmOrder

LEMMA MaybeReleaseOrder ==
    ASSUME TaInv, TaInv', Ordered, UNCHANGED setup, NEW t \in Threads, maybe_release_ta_ctx(t)
    PROVE  Ordered'
  <1>1. PICK p, f : p = <<t, Len(stack[t])>> /\ f = Top(t)
    OBVIOUS
  <1>2. At(t, "panicked") /\ UNCHANGED <<sess, si_thread, waitq>>
    BY DEF maybe_release_ta_ctx, siVars
  <1>3. /\ stack[t] # <<>> /\ f.pc = "panicked" /\ NotWaiting(t) /\ waitq \in QueueType
        /\ FormOK(f) /\ StackType
    BY <1>1, <1>2, AtFacts, TypeFacts DEF TaInv
  <1>4. PICK l : l \in {"release", "clear"} /\ Goto(t, l)
    BY DEF maybe_release_ta_ctx
  <1>5. PICK g \in FrameType : /\ stack' = [stack EXCEPT ![t][1] = g] /\ g.key = f.key
                               /\ g.pc = l /\ g.op = f.op
    <2>1. l \in PCs
      BY <1>4 DEF PCs
    <2> QED
      BY <1>1, <1>3, <1>4, <2>1, GotoSet
  <1>6. (Owns(f) => Owns(g)) /\ g.pc \notin {"locking", "unlinking"}
    BY <1>3, <1>4, <1>5 DEF Owns, Refers, FormOK
  <1>7. Fewer(waitq, waitq')
    BY <1>2, <1>3, FewerSame
  <1> QED
    BY <1>1, <1>2, <1>3, <1>5, <1>6, <1>7, SameIsCalm, CalmOrder

\* One field of session k changes, and not one that the order is about.
LEMMA FieldIsCalm ==
    ASSUME CoreType, NEW k \in Keys, sess[k] # NULL, NEW r \in SessType,
           sess' = [sess EXCEPT ![k] = r], r.lock = sess[k].lock, r.unlink = sess[k].unlink
    PROVE  \A j \in Keys : Calm(sess[j], sess'[j])
  <1>1. r # NULL
    BY TaManagerAssumption
  <1>2. sess'[k] = r /\ \A j \in Keys : j # k => sess'[j] = sess[j]
    BY DEF CoreType
  <1> QED
    BY <1>1, <1>2 DEF Calm

LEMMA CompleteOrder ==
    ASSUME TaInv, TaInv', Ordered, UNCHANGED setup, NEW t \in Threads,
           tee_ta_complete_user_ta_session(t)
    PROVE  Ordered'
  <1>1. PICK p, f, k : p = <<t, Len(stack[t])>> /\ f = Top(t) /\ k = f.key
    OBVIOUS
  <1>2. /\ At(t, "load") /\ UNCHANGED si_thread
        /\ waitq' = Broadcast(waitq, tee_ta_init_cv)
    BY DEF tee_ta_complete_user_ta_session, siVars
  <1>3. /\ stack[t] # <<>> /\ f.pc = "load" /\ NotWaiting(t) /\ waitq \in QueueType
        /\ f \in FrameType /\ FormOK(f) /\ k \in Keys
        /\ Refers(f) => sess[f.key] # NULL /\ sess[f.key] \in SessType
    BY <1>1, <1>2, AtFacts
  <1>4. CoreType /\ StackType /\ sess[k] # NULL /\ sess[k] \in SessType
    BY <1>1, <1>3, TypeFacts DEF TaInv, Refers
  <1>5. Fewer(waitq, waitq')
    BY <1>2, <1>3, BroadcastFewer, CondVarsFacts
  <1>6. CASE Goto(t, "enter") /\ UNCHANGED sess
    <2>1. PICK g \in FrameType : /\ stack' = [stack EXCEPT ![t][1] = g] /\ g.key = f.key
                                 /\ g.pc = "enter" /\ g.op = f.op
      <3>1. "enter" \in PCs
        BY DEF PCs
      <3> QED
        BY <1>1, <1>3, <1>4, <1>6, <3>1, GotoSet
    <2>2. (Owns(f) => Owns(g)) /\ g.pc \notin {"locking", "unlinking"}
      BY <2>1 DEF Owns, Refers
    <2> QED
      BY <1>1, <1>2, <1>3, <1>5, <1>6, <2>1, <2>2, SameIsCalm, CalmOrder
  <1>7. CASE /\ sess' = [sess EXCEPT ![k].ctx = NULL]
             /\ stack' = [stack EXCEPT ![t][1].pc = "initfail", ![t][1].ctx = NULL]
    <2>1. PICK r : r = [sess[k] EXCEPT !.ctx = NULL]
      OBVIOUS
    <2>2. r \in SessType /\ r.lock = sess[k].lock /\ r.unlink = sess[k].unlink
      BY <1>4, <2>1 DEF SessType
    <2>3. sess' = [sess EXCEPT ![k] = r]
      BY <1>3, <1>4, <1>7, <2>1 DEF CoreType
    <2>4. \A j \in Keys : Calm(sess[j], sess'[j])
      BY <1>3, <1>4, <2>2, <2>3, FieldIsCalm
    <2>5. PICK g : g = [f EXCEPT !.pc = "initfail", !.ctx = NULL]
      OBVIOUS
    <2>6. g \in FrameType /\ g.op = f.op /\ g.key = f.key /\ g.pc = "initfail"
      BY <1>3, <2>5 DEF FrameType, PCs
    <2>7. stack' = [stack EXCEPT ![t][1] = g]
      <3>1. stack \in [Threads -> Seq(FrameType)] /\ Len(stack[t]) \in Nat \ {0}
        BY <1>3, <1>4 DEF CoreType
      <3>2. f = stack[t][1] /\ f \in FrameType
        BY <1>1, <1>3, <3>1 DEF Top
      <3> QED
        BY <1>7, <2>5, <3>1, <3>2 DEF FrameType
    <2>8. (Owns(f) => Owns(g)) /\ g.pc \notin {"locking", "unlinking"}
      BY <2>6 DEF Owns, Refers
    <2> QED
      BY <1>1, <1>2, <1>3, <1>5, <2>4, <2>6, <2>7, <2>8, CalmOrder
  <1> QED
    BY <1>1, <1>6, <1>7 DEF tee_ta_complete_user_ta_session

LEMMA UserTaOrder ==
    ASSUME TaInv, TaInv', Ordered, UNCHANGED setup, NEW t \in Threads, user_ta_enter(t)
    PROVE  Ordered'
  <1>1. At(t, "inTA") /\ UNCHANGED <<si_thread, waitq>>
    BY DEF user_ta_enter, siVars
  <1>2. PICK p, f, c, k : p = <<t, Len(stack[t])>> /\ f = Top(t) /\ c = f.ctx /\ k = f.key
    OBVIOUS
  <1>3. /\ stack[t] # <<>> /\ f.pc = "inTA" /\ NotWaiting(t) /\ waitq \in QueueType
        /\ f \in FrameType /\ FormOK(f) /\ k \in Keys
        /\ Refers(f) => sess[f.key] # NULL /\ sess[f.key] \in SessType
    BY <1>1, <1>2, AtFacts
  <1>4. CoreType /\ StackType /\ sess[k] # NULL /\ sess[k] \in SessType
    BY <1>2, <1>3, TypeFacts DEF TaInv, Refers
  <1>5. PICK ok \in BOOLEAN, panics \in BOOLEAN :
            /\ sess' = [sess EXCEPT ![k].cancel = @ /\ Has(c, "PTA")]
            /\ stack' = [stack EXCEPT
                    ![t][1].ok = ok,
                    ![t][1].pc = IF f.op = "close" THEN "unlink"
                                 ELSE IF panics /\ ~KeepCrashed(c) THEN "panicked"
                                 ELSE "clear"]
    BY <1>2 DEF user_ta_enter
  <1>6. PICK l : l = IF f.op = "close" THEN "unlink"
                     ELSE IF panics /\ ~KeepCrashed(c) THEN "panicked" ELSE "clear"
    OBVIOUS
  <1>7. PICK g : g = [f EXCEPT !.ok = ok, !.pc = l]
    OBVIOUS
  <1>8. l \in PCs
    BY <1>6 DEF PCs
  <1>9. g \in FrameType /\ g.op = f.op /\ g.key = f.key /\ g.pc = l
    BY <1>3, <1>7, <1>8 DEF FrameType
  <1>10. stack' = [stack EXCEPT ![t][1] = g]
    <2>1. stack \in [Threads -> Seq(FrameType)] /\ Len(stack[t]) \in Nat \ {0}
      BY <1>3, <1>4 DEF CoreType
    <2>2. f = stack[t][1] /\ f \in FrameType
      BY <1>2, <1>3, <2>1 DEF Top
    <2>3. stack' = [stack EXCEPT ![t][1].ok = ok, ![t][1].pc = l]
      BY <1>5, <1>6
    <2> QED
      BY <1>7, <2>1, <2>2, <2>3 DEF FrameType
  <1>11. PICK x \in BOOLEAN : x = (sess[k].cancel /\ Has(c, "PTA"))
    OBVIOUS
  <1>12. PICK r : r = [sess[k] EXCEPT !.cancel = x]
    OBVIOUS
  <1>13. r \in SessType /\ r.lock = sess[k].lock /\ r.unlink = sess[k].unlink
    BY <1>4, <1>11, <1>12 DEF SessType
  <1>14. sess' = [sess EXCEPT ![k] = r]
    BY <1>3, <1>4, <1>5, <1>11, <1>12 DEF CoreType, SessType
  <1>15. \A j \in Keys : Calm(sess[j], sess'[j])
    BY <1>3, <1>4, <1>13, <1>14, FieldIsCalm
  <1>16. (Owns(f) => Owns(g)) /\ g.pc \notin {"locking", "unlinking"}
    BY <1>6, <1>9 DEF Owns, Refers
  <1>17. Fewer(waitq, waitq')
    BY <1>1, <1>3, FewerSame
  <1> QED
    BY <1>1, <1>2, <1>3, <1>9, <1>10, <1>15, <1>16, <1>17, CalmOrder

LEMMA SetBusyOrder ==
    ASSUME TaInv, TaInv', Ordered, UNCHANGED setup, NEW t \in Threads, SetBusy(t)
    PROVE  Ordered'
  <1>1. At(t, "enter") /\ UNCHANGED waitq
    BY DEF SetBusy
  <1>2. PICK p, f, c, k : p = <<t, Len(stack[t])>> /\ f = Top(t) /\ c = f.ctx /\ k = f.key
    OBVIOUS
  <1>3. /\ stack[t] # <<>> /\ f.pc = "enter" /\ NotWaiting(t) /\ waitq \in QueueType
        /\ f \in FrameType /\ FormOK(f) /\ k \in Keys
        /\ Refers(f) => sess[f.key] # NULL /\ sess[f.key] \in SessType
    BY <1>1, <1>2, AtFacts
  <1>4. CoreType /\ StackType /\ sess[k] # NULL /\ sess[k] \in SessType
    BY <1>2, <1>3, TypeFacts DEF TaInv, Refers
  <1>5. si_thread' \in {si_thread, t}
    BY DEF SetBusy, siVars
  <1>6. PICK g \in FrameType :
            /\ stack' = [stack EXCEPT ![t][1] = g] /\ g.op = f.op /\ g.key = f.key
            /\ g.pc \in {"inTA", "unlink", "panicked", "clear"}
            /\ g.pc = "clear" => g.op # "close"
    <2>1. PICK l : l = IF ~ctx[c].panicked /\ ~TooDeep(t, c) THEN "inTA"
                       ELSE IF f.op = "close" THEN "unlink"
                       ELSE IF ctx[c].panicked /\ ~KeepCrashed(c) THEN "panicked"
                       ELSE "clear"
      OBVIOUS
    <2>2. PICK b \in BOOLEAN : b = (l = "inTA")
      OBVIOUS
    <2>3. PICK g : g = [f EXCEPT !.busy = TRUE, !.pc = l, !.ok = b]
      OBVIOUS
    <2>4. Entered(t, f) = g
      BY <1>2, <2>1, <2>2, <2>3 DEF Entered
    <2>5. stack' = [stack EXCEPT ![t][1] = g]
      BY <1>2, <2>4 DEF SetBusy
    <2>6. l \in PCs /\ l \in {"inTA", "unlink", "panicked", "clear"} /\ (l = "clear" => f.op # "close")
      BY <2>1 DEF PCs
    <2>7. g \in FrameType /\ g.op = f.op /\ g.key = f.key /\ g.pc = l
      BY <1>3, <2>3, <2>6 DEF FrameType
    <2> QED
      BY <2>5, <2>6, <2>7
  <1>7. \A j \in Keys : Calm(sess[j], sess'[j])
    <2>1. CASE sess' = [sess EXCEPT ![k].cancel = FALSE]
      <3>1. PICK r : r = [sess[k] EXCEPT !.cancel = FALSE]
        OBVIOUS
      <3>2. r \in SessType /\ r.lock = sess[k].lock /\ r.unlink = sess[k].unlink
        BY <1>4, <3>1 DEF SessType
      <3>3. sess' = [sess EXCEPT ![k] = r]
        BY <1>3, <1>4, <2>1, <3>1 DEF CoreType
      <3> QED
        BY <1>3, <1>4, <3>2, <3>3, FieldIsCalm
    <2>2. CASE sess' = sess
      BY <2>2, SameIsCalm
    <2> QED
      BY <1>2, <2>1, <2>2 DEF SetBusy
  <1>8. (Owns(f) => Owns(g)) /\ g.pc \notin {"locking", "unlinking"}
    BY <1>6 DEF Owns, Refers
  <1>9. Fewer(waitq, waitq')
    BY <1>1, <1>3, FewerSame
  <1> QED
    BY <1>2, <1>3, <1>5, <1>6, <1>7, <1>8, <1>9, CalmOrder

LEMMA SetBusyRefusedOrder ==
    ASSUME TaInv, TaInv', Ordered, UNCHANGED setup, NEW t \in Threads, SetBusyRefused(t)
    PROVE  Ordered'
  <1>1. At(t, "enter") /\ UNCHANGED <<sess, si_thread>>
    BY DEF SetBusyRefused, siVars
  <1>2. PICK p, f, g : p = <<t, Len(stack[t])>> /\ f = Top(t) /\ g = Refused(f)
    OBVIOUS
  <1>3. /\ stack[t] # <<>> /\ f.pc = "enter" /\ NotWaiting(t) /\ waitq \in QueueType
        /\ f \in FrameType /\ FormOK(f)
    BY <1>1, <1>2, AtFacts
  <1>4. f.op \in {"open", "invoke", "close"}
    BY <1>3 DEF FormOK, FrameType, Ops
  <1>5. stack' = [stack EXCEPT ![t][1] = g]
    BY <1>2 DEF SetBusyRefused
  <1>6. g \in FrameType /\ g.key = f.key /\ g.pc \in {"enter", "unlink"} /\ g.op # "cancel"
    <2>1. CASE f.op = "open"
      <3>1. g = [f EXCEPT !.op = "close"]
        BY <1>2, <2>1 DEF Refused
      <3> QED
        BY <1>3, <2>1, <3>1 DEF FrameType, Ops
    <2>2. CASE f.op = "close"
      <3>1. g = [f EXCEPT !.pc = "unlink"]
        BY <1>2, <2>2 DEF Refused
      <3> QED
        BY <1>3, <2>2, <3>1 DEF FrameType, PCs
    <2>3. CASE f.op = "invoke"
      <3>1. g = f
        BY <1>2, <2>3 DEF Refused
      <3> QED
        BY <1>3, <2>3, <3>1
    <2> QED
      BY <1>4, <2>1, <2>2, <2>3
  <1>7. Owns(g) /\ g.pc \notin {"locking", "unlinking"}
    BY <1>6 DEF Owns, Refers
  <1>8. Fewer(waitq, waitq')
    <2>1. Fewer(waitq, unlock_single_instance(waitq)) /\ Fewer(waitq, waitq)
      BY <1>3, CondVarsFacts, SignalFewer, FewerSame DEF unlock_single_instance
    <2>2. waitq' = unlock_single_instance(waitq) \/ waitq' = waitq
      BY DEF SetBusyRefused
    <2> QED
      BY <2>1, <2>2
  <1> QED
    BY <1>1, <1>2, <1>3, <1>5, <1>6, <1>7, <1>8, SameIsCalm, CalmOrder

LEMMA ClearBusyOrder ==
    ASSUME TaInv, TaInv', Ordered, UNCHANGED setup, NEW t \in Threads, tee_ta_clear_busy(t)
    PROVE  Ordered'
  <1>1. At(t, "clear") /\ UNCHANGED sess
    BY DEF tee_ta_clear_busy
  <1>2. PICK p, f, c : p = <<t, Len(stack[t])>> /\ f = Top(t) /\ c = f.ctx
    OBVIOUS
  <1>3. /\ stack[t] # <<>> /\ f.pc = "clear" /\ NotWaiting(t) /\ waitq \in QueueType
        /\ f \in FrameType /\ FormOK(f)
        /\ f.ctx # NULL => f.ctx \in Ctxs
    BY <1>1, <1>2, AtFacts
  <1>4. c \in Ctxs /\ f.op # "cancel"
    BY <1>2, <1>3 DEF FormOK
  <1>5. PICK g \in FrameType :
            /\ stack' = [stack EXCEPT ![t][1] = g] /\ g.key = f.key
            /\ \/ f.op = "close" /\ g.op = "close" /\ g.pc = "drop"
               \/ f.op = "open" /\ g.op = "close" /\ g.pc = "enter"
               \/ f.op # "close" /\ g.op = f.op /\ g.pc = "put"
    <2>1. PICK o, l : /\ o = IF f.op = "open" /\ ~f.ok THEN "close" ELSE f.op
                      /\ l = IF f.op = "close" THEN "drop"
                             ELSE IF f.op = "open" /\ ~f.ok THEN "enter" ELSE "put"
      OBVIOUS
    <2>2. PICK g : g = [f EXCEPT !.busy = FALSE, !.op = o, !.pc = l]
      OBVIOUS
    <2>0. f \in FrameType
      BY <1>3
    <2>3. stack' = [stack EXCEPT ![t][1] = g]
      BY <1>2, <2>0, <2>1, <2>2 DEF tee_ta_clear_busy, FrameType
    <2>4. o \in Ops /\ l \in PCs
      BY <2>0, <2>1 DEF FrameType, Ops, PCs
    <2>5. g \in FrameType /\ g.key = f.key /\ g.op = o /\ g.pc = l
      BY <2>0, <2>2, <2>4 DEF FrameType
    <2> QED
      BY <2>1, <2>3, <2>5
  <1>6. Fewer(waitq, waitq')
    <2>0. busy_cv(c) \in CondVars /\ tee_ta_cv \in CondVars
      BY <1>4, CondVarsFacts
    <2>1. PICK q : q = Signal(waitq, busy_cv(c))
      OBVIOUS
    <2>2. Fewer(waitq, q)
      BY <1>3, <2>0, <2>1, SignalFewer
    <2>3. Fewer(q, unlock_single_instance(q)) /\ Fewer(q, q)
      BY <2>0, <2>2, SignalFewer, FewerSame DEF unlock_single_instance, Fewer
    <2>4. waitq' = waitq \/ waitq' = q \/ waitq' = unlock_single_instance(q)
      BY <1>2, <2>1 DEF tee_ta_clear_busy
    <2> QED
      BY <1>3, <2>2, <2>3, <2>4, FewerTwice, FewerSame
  <1>7. si_thread' \in {si_thread, NULL}
    BY DEF tee_ta_clear_busy, siVars
  <1>8. (Owns(f) => Owns(g)) /\ g.pc \notin {"locking", "unlinking"}
    BY <1>3, <1>4, <1>5 DEF Owns, Refers
  <1> QED
    BY <1>1, <1>2, <1>3, <1>5, <1>6, <1>7, <1>8, SameIsCalm, CalmOrder

\* Calls that return
LEMMA InitFailOrder ==
    ASSUME TaInv, TaInv', Ordered, UNCHANGED setup, NEW t \in Threads, InitFail(t)
    PROVE  Ordered'
  <1>1. PICK p, f, k : p = <<t, Len(stack[t])>> /\ f = Top(t) /\ k = f.key
    OBVIOUS
  <1>2. At(t, "initfail") /\ UNCHANGED <<si_thread, waitq>>
    BY DEF InitFail, siVars
  <1>3. stack[t] # <<>> /\ NotWaiting(t) /\ waitq \in QueueType /\ k \in Keys /\ CoreType
    BY <1>1, <1>2, AtFacts DEF TaInv
  <1>4. sess'[k] = NULL /\ \A j \in Keys : j # k => sess'[j] = sess[j]
    <2>1. sess' = [sess EXCEPT ![k] = NULL]
      BY <1>1 DEF InitFail
    <2> QED
      BY <1>3, <2>1 DEF CoreType
  <1>5. stack' = [stack EXCEPT ![t] = Tail(@)]
    BY DEF InitFail, Return
  <1>6. Fewer(waitq, waitq')
    BY <1>2, <1>3, FewerSame
  <1>7. ~Locked(k)'
    BY <1>4 DEF Locked
  <1> QED
    BY <1>1, <1>2, <1>3, <1>4, <1>5, <1>6, <1>7, ReturnOrder

LEMMA CloseOrder ==
    ASSUME TaInv, TaInv', Ordered, UNCHANGED setup, NEW t \in Threads, close_session(t)
    PROVE  Ordered'
  <1>1. PICK p, f, k : p = <<t, Len(stack[t])>> /\ f = Top(t) /\ k = f.key
    OBVIOUS
  <1>2. At(t, "drop") /\ UNCHANGED <<sess, si_thread, waitq>>
    BY DEF close_session, siVars
  <1>3. /\ stack[t] # <<>> /\ f.pc = "drop" /\ NotWaiting(t) /\ waitq \in QueueType
        /\ k \in Keys /\ StackType
    BY <1>1, <1>2, AtFacts, TypeFacts DEF TaInv
  <1>4. Fewer(waitq, waitq')
    BY <1>2, <1>3, FewerSame
  <1>5. ~Owns(f)
    BY <1>3 DEF Owns, Refers
  <1>6. CASE Goto(t, "destroy")
    <2>1. PICK g \in FrameType : /\ stack' = [stack EXCEPT ![t][1] = g] /\ g.key = f.key
                                 /\ g.pc = "destroy"
      <3>1. "destroy" \in PCs
        BY DEF PCs
      <3> QED
        BY <1>1, <1>3, <1>6, <3>1, GotoSet
    <2> QED
      BY <1>1, <1>2, <1>3, <1>4, <1>5, <2>1, SameIsCalm, CalmOrder
  <1>7. CASE Return(t)
    <2>1. stack' = [stack EXCEPT ![t] = Tail(@)]
      BY <1>7 DEF Return
    <2>2. (Leaving(k)' <=> Leaving(k)) /\ (Locked(k)' => Locked(k))
      BY <1>2 DEF Leaving, Locked
    <2> QED
      BY <1>1, <1>2, <1>3, <1>4, <1>5, <2>1, <2>2, ReturnOrder
  <1> QED
    BY <1>6, <1>7 DEF close_session

LEMMA DestroyOrder ==
    ASSUME TaInv, TaInv', Ordered, UNCHANGED setup, NEW t \in Threads, destroy_context(t)
    PROVE  Ordered'
  <1>1. PICK p, f, k : p = <<t, Len(stack[t])>> /\ f = Top(t) /\ k = f.key
    OBVIOUS
  <1>2. At(t, "destroy") /\ UNCHANGED <<sess, si_thread, waitq>>
    BY DEF destroy_context, siVars
  <1>3. /\ stack[t] # <<>> /\ f.pc = "destroy" /\ NotWaiting(t) /\ waitq \in QueueType
        /\ k \in Keys
    BY <1>1, <1>2, AtFacts
  <1>4. Fewer(waitq, waitq')
    BY <1>2, <1>3, FewerSame
  <1>5. ~Owns(f)
    BY <1>3 DEF Owns, Refers
  <1>6. stack' = [stack EXCEPT ![t] = Tail(@)]
    BY DEF destroy_context, Return
  <1>7. (Leaving(k)' <=> Leaving(k)) /\ (Locked(k)' => Locked(k))
    BY <1>2 DEF Leaving, Locked
  <1> QED
    BY <1>1, <1>2, <1>3, <1>4, <1>5, <1>6, <1>7, ReturnOrder

LEMMA PutOrder ==
    ASSUME TaInv, TaInv', Ordered, UNCHANGED setup, NEW t \in Threads, tee_ta_put_session(t)
    PROVE  Ordered'
  <1>1. PICK p, f, k : p = <<t, Len(stack[t])>> /\ f = Top(t) /\ k = f.key
    OBVIOUS
  <1>2. At(t, "put") /\ UNCHANGED si_thread
    BY DEF tee_ta_put_session, siVars
  <1>3. /\ stack[t] # <<>> /\ f.pc = "put" /\ NotWaiting(t) /\ waitq \in QueueType
        /\ p \in Calls /\ p[1] = t /\ Call(p) = f /\ f \in FrameType /\ FormOK(f) /\ k \in Keys
    BY <1>1, <1>2, AtFacts
  <1>4. CoreType /\ FramesOK /\ Refers(f) /\ f.op # "dump"
    BY <1>3 DEF TaInv, Refers, FrameType, Ops
  <1>5. /\ sess[k] # NULL /\ sess[k] \in SessType
        /\ Owns(f) => sess[k].lock = t
    BY <1>1, <1>3, <1>4, CallFacts
  <1>6. PICK l, n, a, b : /\ l = IF sess[k].lock = t THEN NULL ELSE sess[k].lock
                          /\ n = sess[k].ref - 1
                          /\ a = (sess[k].cancel \/ f.op = "cancel")
                          /\ b = (sess[k].given \/ f.op = "open")
    OBVIOUS
  <1>7. PICK r : r = [sess[k] EXCEPT !.lock = l, !.ref = n, !.cancel = a, !.given = b]
    OBVIOUS
  <1>8. /\ r.lock = l /\ r.unlink = sess[k].unlink
        /\ r = [ctx |-> sess[k].ctx, ref |-> n, lock |-> l, unlink |-> sess[k].unlink,
                cancel |-> a, given |-> b]
    BY <1>5, <1>7 DEF SessType
  <1>9. sess' = [sess EXCEPT ![k] = r]
    <2>1. sess' = [sess EXCEPT
                 ![k].lock = IF sess[k].lock = t THEN NULL ELSE @,
                 ![k].ref = @ - 1,
                 ![k].cancel = @ \/ f.op = "cancel",
                 ![k].given = @ \/ f.op = "open"]
      BY <1>1 DEF tee_ta_put_session
    <2> QED
      BY <1>3, <1>4, <1>5, <1>6, <1>7, <2>1 DEF CoreType, SessType
  <1>10. sess'[k] = r /\ \A j \in Keys : j # k => sess'[j] = sess[j]
    BY <1>3, <1>4, <1>9 DEF CoreType
  <1>11. r # NULL => (Leaving(k)' <=> Leaving(k))
    BY <1>5, <1>8, <1>10 DEF Leaving
  <1>12. Locked(k)' => Locked(k) /\ ~Owns(f)
    BY <1>5, <1>6, <1>8, <1>10 DEF Locked
  <1>13. Fewer(waitq, waitq')
    <2>1. PICK q : q = IF sess[k].lock = t THEN Signal(waitq, lock_cv(k)) ELSE waitq
      OBVIOUS
    <2>2. Fewer(waitq, q)
      BY <1>3, <2>1, SignalFewer, FewerSame, CondVarsFacts
    <2>3. q \in QueueType
      BY <2>2 DEF Fewer
    <2>4. waitq' = dec_session_ref_count(q, k)
      BY <1>1, <2>1 DEF tee_ta_put_session
    <2>5. Fewer(q, waitq')
      BY <1>3, <2>3, <2>4, DecFewer
    <2> QED
      BY <2>2, <2>5, FewerTwice
  <1>14. stack' = [stack EXCEPT ![t] = Tail(@)]
    BY <1>1, <1>4 DEF tee_ta_put_session, Return
  <1> QED
    BY <1>1, <1>2, <1>3, <1>10, <1>11, <1>12, <1>13, <1>14, ReturnOrder

-----------------------------------------------------------------------------
(* The order is kept by those who wait *)

LEMMA GetLockOrder ==
    ASSUME TaInv, TaInv', Ordered, UNCHANGED setup, NEW t \in Threads, GetLock(t)
    PROVE  Ordered'
  <1>1. At(t, "locking") /\ UNCHANGED si_thread
    BY DEF GetLock, siVars
  <1>2. PICK p, f, k : p = <<t, Len(stack[t])>> /\ f = Top(t) /\ k = f.key
    OBVIOUS
  <1>3. /\ stack[t] # <<>> /\ f.pc = "locking" /\ NotWaiting(t) /\ waitq \in QueueType
        /\ p \in Calls /\ p[1] = t /\ Call(p) = f /\ f \in FrameType /\ k \in Keys
        /\ FormOK(f)
        /\ Refers(f) => sess[f.key] # NULL /\ sess[f.key] \in SessType
    BY <1>1, <1>2, AtFacts
  <1>4. /\ CoreType /\ StackType /\ sess[k] # NULL /\ sess[k] \in SessType
        /\ f.op \notin {"dump", "cancel"} /\ ~Owns(f)
    BY <1>2, <1>3, TypeFacts DEF TaInv, Refers, FormOK, FrameType, Ops, Owns
  <1>5. CASE /\ sess' = [sess EXCEPT ![k].ref = @ - 1]
             /\ waitq' = dec_session_ref_count(waitq, k)
             /\ Return(t)
    <2>1. PICK n : n = sess[k].ref - 1
      OBVIOUS
    <2>2. PICK r : r = [sess[k] EXCEPT !.ref = n]
      OBVIOUS
    <2>3. r.lock = sess[k].lock /\ r.unlink = sess[k].unlink
      BY <1>4, <2>2 DEF SessType
    <2>4. sess' = [sess EXCEPT ![k] = r]
      BY <1>3, <1>4, <1>5, <2>1, <2>2 DEF CoreType
    <2>5. sess'[k] = r /\ \A j \in Keys : j # k => sess'[j] = sess[j]
      BY <1>3, <1>4, <2>4 DEF CoreType
    <2>6. /\ r # NULL => (Leaving(k)' <=> Leaving(k))
          /\ Locked(k)' => Locked(k)
      BY <1>4, <2>3, <2>5 DEF Leaving, Locked
    <2>7. Fewer(waitq, waitq') /\ stack' = [stack EXCEPT ![t] = Tail(@)]
      BY <1>3, <1>5, DecFewer DEF Return
    <2> QED
      BY <1>1, <1>2, <1>3, <1>4, <2>5, <2>6, <2>7, ReturnOrder
  <1>6. CASE ~sess[k].unlink /\ Wait(t, lock_cv(k)) /\ UNCHANGED <<sess, stack>>
    <2>1. PICK cv : cv = lock_cv(k)
      OBVIOUS
    <2>2. cv \in CondVars /\ cv[1] = "lock" /\ cv[2] = k
      BY <1>3, <2>1, CondVarsFacts, CvFacts
    <2>3. WaitAt(t, cv)'
      <3>1. ~Leaving(k)'
        BY <1>6 DEF Leaving
      <3>2. stack'[t] # <<>> /\ Top(t)' = f
        BY <1>2, <1>3, <1>6 DEF Top
      <3> QED
        BY <1>2, <1>3, <2>2, <3>1, <3>2 DEF WaitAt
    <2>4. waitq' = [waitq EXCEPT ![cv] = Append(@, t)] /\ Fewer(waitq, waitq)
      BY <1>3, <1>6, <2>1, FewerSame DEF Wait
    <2>5. WaitsNow(t)
      BY <1>3, <2>2, <2>3, <2>4, WaitsNowAdd
    <2> QED
      BY <1>1, <1>3, <1>6, <2>5, WaitOrder
  <1>7. CASE /\ sess' = [sess EXCEPT ![k].lock = t]
             /\ stack' = [stack EXCEPT ![t][1].pc = "enter", ![t][1].ctx = sess[k].ctx]
             /\ UNCHANGED waitq
    <2>1. PICK d : d = sess[k].ctx
      OBVIOUS
    <2>2. PICK g : g = [f EXCEPT !.pc = "enter", !.ctx = d]
      OBVIOUS
    <2>3. d \in Ctxs \cup {NULL}
      BY <1>4, <2>1 DEF SessType
    <2>4. g \in FrameType /\ g.op = f.op /\ g.key = f.key /\ g.pc = "enter"
      BY <1>3, <2>2, <2>3 DEF FrameType, PCs
    <2>5. stack' = [stack EXCEPT ![t][1] = g]
      <3>1. stack \in [Threads -> Seq(FrameType)] /\ Len(stack[t]) \in Nat \ {0}
        BY <1>3, <1>4 DEF CoreType
      <3>2. f = stack[t][1] /\ f \in FrameType
        BY <1>2, <1>3, <3>1 DEF Top
      <3> QED
        BY <1>7, <2>1, <2>2, <3>1, <3>2 DEF FrameType
    <2>6. p \in Calls' /\ Step(p, f, g) /\ \A u \in Threads \ {t} : stack'[u] = stack[u]
      <3>1. StackType /\ stack[t] # <<>> /\ g \in FrameType
        BY <1>3, <1>4, <2>4
      <3> QED
        BY <1>2, <2>5, <3>1, SetStep
    <2>7. PICK r : r = [sess[k] EXCEPT !.lock = t]
      OBVIOUS
    <2>8. r.unlink = sess[k].unlink
      BY <1>4, <2>7 DEF SessType
    <2>9. sess'[k] = r /\ \A j \in Keys : j # k => sess'[j] = sess[j]
      <3>1. sess' = [sess EXCEPT ![k].lock = t] /\ sess \in [Keys -> SessType \cup {NULL}]
        BY <1>4, <1>7 DEF CoreType
      <3> QED
        BY <1>3, <2>7, <3>1
    <2>10. r # NULL => (Leaving(k)' <=> Leaving(k))
      BY <1>4, <2>8, <2>9 DEF Leaving
    <2>11. g.key = k /\ Owns(g)
      BY <1>2, <1>4, <2>4 DEF Owns, Refers
    <2>12. LeavingNow /\ LocksNow(p, f, g)
      BY <1>3, <1>4, <2>6, <2>9, <2>10, <2>11, SessionNow
    <2>13. WaitsNow(t)
      BY <1>3, <1>7, FewerSame, WaitsNowFewer
    <2>14. PlaceOK(g)'
      BY <2>4 DEF PlaceOK
    <2> QED
      BY <1>1, <1>3, <2>6, <2>12, <2>13, <2>14, OrderStep
  <1> QED
    BY <1>2, <1>4, <1>5, <1>6, <1>7 DEF GetLock

\* A context that is not single-instance is never found busy.
LEMMA SetBusyWaitOrder ==
    ASSUME TaInv, TaInv', Ordered, UNCHANGED setup, NEW t \in Threads, SetBusyWait(t)
    PROVE  Ordered'
  <1>1. At(t, "enter") /\ UNCHANGED <<ctx, sess, si_thread>>
    BY DEF SetBusyWait, siVars
  <1>2. PICK p, f, c : p = <<t, Len(stack[t])>> /\ f = Top(t) /\ c = f.ctx
    OBVIOUS
  <1>3. /\ stack[t] # <<>> /\ f.pc = "enter" /\ NotWaiting(t) /\ waitq \in QueueType
        /\ p \in Calls /\ p[1] = t /\ Call(p) = f /\ FormOK(f)
        /\ f.ctx # NULL => f.ctx \in Ctxs /\ ctx[f.ctx] # NULL
    BY <1>1, <1>2, AtFacts
  <1>4. CASE ~CanLock(t) /\ Wait(t, tee_ta_cv)
    <2>1. PICK cv : cv = tee_ta_cv
      OBVIOUS
    <2>2. cv \in CondVars /\ cv[1] = "si"
      BY <2>1, CondVarsFacts, CvFacts
    <2>0. PICK g \in FrameType : Waits(t, f, g)
      <3>1. stack' = [stack EXCEPT ![t][1].ok = FALSE]
        BY DEF SetBusyWait
      <3> QED
        BY <1>2, <1>3, <3>1, OkSet
    <2>3. WaitAt(t, cv)'
      <3>1. stack'[t] # <<>> /\ Top(t)' = g /\ g.pc = "enter"
        BY <1>3, <2>0 DEF Waits, Top
      <3>2. si_thread' # t
        BY <1>1, <1>4 DEF CanLock
      <3> QED
        BY <1>3, <2>0, <2>2, <3>1, <3>2 DEF WaitAt
    <2>4. waitq' = [waitq EXCEPT ![cv] = Append(@, t)] /\ Fewer(waitq, waitq)
      BY <1>3, <1>4, <2>1, FewerSame DEF Wait
    <2>5. WaitsNow(t)
      BY <1>3, <2>2, <2>3, <2>4, WaitsNowAdd
    <2>6. /\ stack' = [stack EXCEPT ![t][1] = g] /\ g.key = f.key /\ g.pc = "enter"
          /\ Owns(f) => Owns(g)
      BY <1>3, <2>0 DEF Waits, Owns, Refers
    <2> QED
      BY <1>1, <1>2, <1>3, <2>5, <2>6, SameIsCalm, SetOrder
  <1>5. ASSUME /\ ~Has(c, "CC") /\ ~(Has(c, "SI") /\ ~CanLock(t)) /\ ctx[c].busy
               /\ ~has_single_instance_lock(t, c)
        PROVE  FALSE
    <2>1. ~Has(c, "SI")
      BY <1>5 DEF CanLock, has_single_instance_lock
    <2>2. CoreType /\ FramesOK /\ CountsOK /\ ContextsOK
      BY DEF TaInv
    <2>3. /\ c # NULL /\ c \in Ctxs /\ ctx[c] # NULL /\ ~f.busy /\ Refers(f) /\ Owns(f)
      BY <1>2, <1>3 DEF FormOK, Refers, Owns
    <2>4. PICK q \in Calls : Call(q).ctx = c /\ Occupies(Call(q))
      BY <1>5, <2>2, <2>3 DEF ContextsOK, ContextOK
    <2>5. PICK h : h = Call(q)
      OBVIOUS
    <2>6. h.busy /\ q # p /\ FormOK(h)
      BY <1>3, <2>2, <2>3, <2>4, <2>5, CallFacts DEF Occupies
    <2>7. f.key \in SessionsOf(c) /\ ctx[c].ref \in Nat /\ ctx[c].ref > 0
      BY <1>2, <1>3, <2>2, <2>3, InUseCounts
    <2>8. ctx[c].ref <= 1
      BY <2>1, <2>2, <2>3 DEF ContextsOK, ContextOK, Has
    <2>9. CountOf(ctx[c]) = 1
      BY <2>3, <2>7, <2>8 DEF CountOf
    <2>10. Closers(c) = {} /\ \A j \in SessionsOf(c) : j = f.key
      BY <2>2, <2>3, <2>7, <2>9, UsersFacts
    <2>11. h.pc # "destroy" /\ h.op # "cancel" /\ h.pc # "locking"
      BY <2>6 DEF FormOK
    <2>12. /\ Refers(h) => h.key \in SessionsOf(c)
           /\ ~Refers(h) => q \in Closers(c)
      BY <2>2, <2>3, <2>4, <2>5, <2>11, InUseCounts
    <2>13. Refers(h) /\ Owns(h) /\ h.key = f.key
      BY <2>10, <2>11, <2>12 DEF Owns
    <2>14. Apart(Call(p), Call(q))
      BY <1>3, <2>2, <2>6 DEF FramesOK
    <2> QED
      BY <1>3, <2>3, <2>5, <2>13, <2>14 DEF Apart
  <1> QED
    BY <1>2, <1>4, <1>5 DEF SetBusyWait

LEMMA SpuriousOrder ==
    ASSUME TaInv, TaInv', Ordered, UNCHANGED setup, NEW t \in Threads, SpuriousWakeup(t)
    PROVE  Ordered'
  <1>1. /\ Waiting(t) /\ UNCHANGED <<sess, si_thread, stack>>
        /\ waitq' = [cv \in CondVars |-> RemoveFirst(waitq[cv], t)]
    BY DEF SpuriousWakeup, siVars
  <1>2. WaitsOK /\ waitq \in QueueType
    BY DEF TaInv, CoreType, QueueType
  <1>3. stack[t] # <<>>
    BY <1>1, <1>2 DEF WaitsOK, Waiting
  <1>4. ASSUME NEW cv \in CondVars, NEW u \in Threads, Contains(waitq'[cv], u)
        PROVE  Contains(waitq[cv], u)
    <2>1. waitq[cv] \in Seq(Threads)
      BY <1>2 DEF QueueType
    <2> QED
      BY <1>1, <1>4, <2>1, RemoveFirstFacts
  <1>5. ASSUME NEW cv \in CondVars, Contains(waitq'[cv], t) PROVE WaitAt(t, cv)'
    <2>1. WaitAt(t, cv)
      BY <1>4, <1>5 DEF Ordered, WaitsFor
    <2> QED
      BY <1>1, <2>1 DEF WaitAt, Top, Leaving
  <1>6. WaitsNow(t)
    BY <1>4, <1>5 DEF WaitsNow
  <1> QED
    BY <1>1, <1>3, <1>6, WaitOrder

\* The session is gone.
LEMMA UnlinkedOrder ==
    ASSUME TaInv, TaInv', Ordered, UNCHANGED setup, NEW t \in Threads, NEW l, At(t, l),
           NEW f, f = Top(t), f.op = "close", NEW k, k = f.key, Unlinked(t, k),
           UNCHANGED si_thread, Fewer(waitq, waitq')
    PROVE  Ordered'
  <1>1. PICK p, m : p = <<t, Len(stack[t])>> /\ m = IF f.busy THEN "clear" ELSE "drop"
    OBVIOUS
  <1>2. stack[t] # <<>> /\ NotWaiting(t) /\ k \in Keys /\ p[1] = t
    BY <1>1, AtFacts
  <1>3. CoreType /\ StackType /\ m \in PCs /\ Goto(t, m)
    BY <1>1, TypeFacts DEF TaInv, PCs, Unlinked
  <1>4. PICK g \in FrameType : /\ stack' = [stack EXCEPT ![t][1] = g] /\ g.key = k
                               /\ g.pc = m
    BY <1>2, <1>3, GotoSet
  <1>5. p \in Calls' /\ Step(p, f, g) /\ \A u \in Threads \ {t} : stack'[u] = stack[u]
    BY <1>1, <1>2, <1>3, <1>4, SetStep
  <1>6. sess'[k] = NULL /\ \A j \in Keys : j # k => sess'[j] = sess[j]
    <2>1. sess' = [sess EXCEPT ![k] = NULL]
      BY DEF Unlinked
    <2> QED
      BY <1>2, <1>3, <2>1 DEF CoreType
  <1>7. ~Locked(k)'
    BY <1>6 DEF Locked
  <1>8. LeavingNow /\ LocksNow(p, f, g)
    BY <1>2, <1>6, <1>7, SessionNow
  <1>9. WaitsNow(t)
    BY <1>2, WaitsNowFewer
  <1>10. PlaceOK(g)'
    BY <1>1, <1>4 DEF PlaceOK
  <1> QED
    BY <1>2, <1>5, <1>8, <1>9, <1>10, OrderStep

LEMMA UnlinkOrder ==
    ASSUME TaInv, TaInv', Ordered, UNCHANGED setup, NEW t \in Threads, tee_ta_unlink_session(t)
    PROVE  Ordered'
  <1>1. PICK p, f, k, q : /\ p = <<t, Len(stack[t])>> /\ f = Top(t) /\ k = f.key
                          /\ q = Broadcast(waitq, lock_cv(k))
    OBVIOUS
  <1>2. At(t, "unlink") /\ UNCHANGED si_thread
    BY DEF tee_ta_unlink_session, siVars
  <1>3. /\ stack[t] # <<>> /\ f.pc = "unlink" /\ NotWaiting(t) /\ waitq \in QueueType
        /\ p[1] = t /\ FormOK(f) /\ k \in Keys
        /\ Refers(f) => sess[f.key] # NULL /\ sess[f.key] \in SessType
    BY <1>1, <1>2, AtFacts
  <1>4. /\ CoreType /\ StackType /\ sess[k] # NULL /\ sess[k] \in SessType
        /\ f.op = "close"
    BY <1>1, <1>3, TypeFacts DEF TaInv, Refers, FormOK
  <1>5. lock_cv(k) \in CondVars /\ refc_cv(k) \in CondVars /\ lock_cv(k) # refc_cv(k)
    BY <1>3, CondVarsFacts DEF lock_cv, refc_cv
  <1>6. Fewer(waitq, q)
    BY <1>1, <1>3, <1>5, BroadcastFewer
  <1>7. CASE Unlinked(t, k) /\ waitq' = q
    BY <1>1, <1>2, <1>4, <1>6, <1>7, UnlinkedOrder
  <1>8. CASE /\ sess' = [sess EXCEPT ![k].unlink = TRUE]
             /\ waitq' = [q EXCEPT ![refc_cv(k)] = Append(@, t)]
             /\ Goto(t, "unlinking")
    <2>1. PICK g \in FrameType : /\ stack' = [stack EXCEPT ![t][1] = g] /\ g.key = k
                                 /\ g.pc = "unlinking" /\ g.op = "close"
      <3>1. "unlinking" \in PCs
        BY DEF PCs
      <3> QED
        BY <1>1, <1>3, <1>4, <1>8, <3>1, GotoSet
    <2>2. /\ p \in Calls' /\ Step(p, f, g) /\ \A u \in Threads \ {t} : stack'[u] = stack[u]
          /\ stack'[t] # <<>> /\ Head(stack'[t]) = g
      <3>1. StackType /\ stack[t] # <<>>
        BY <1>3, <1>4
      <3> QED
        BY <1>1, <2>1, <3>1, SetStep
    <2>3. PICK r : r = [sess[k] EXCEPT !.unlink = TRUE]
      OBVIOUS
    <2>4. r \in SessType /\ r.lock = sess[k].lock /\ r.unlink
      BY <1>4, <2>3 DEF SessType
    <2>5. sess'[k] = r /\ r # NULL /\ \A j \in Keys : j # k => sess'[j] = sess[j]
      <3>1. sess' = [sess EXCEPT ![k].unlink = TRUE] /\ sess \in [Keys -> SessType \cup {NULL}]
        BY <1>4, <1>8 DEF CoreType
      <3> QED
        BY <1>3, <2>3, <2>4, <3>1, TaManagerAssumption
    <2>6. Leaving(k)'
      BY <2>4, <2>5 DEF Leaving
    <2>7. WaitsNow(t) /\ waitq'[lock_cv(k)] = q[lock_cv(k)]
      <3>1. PICK cv : cv = refc_cv(k)
        OBVIOUS
      <3>2. cv \in CondVars /\ cv[1] = "refc" /\ cv[2] = k
        BY <1>5, <3>1, CvFacts
      <3>3. WaitAt(t, cv)'
        <4>1. Top(t)' = g
          BY <2>2 DEF Top
        <4> QED
          BY <2>1, <2>2, <3>2, <4>1 DEF WaitAt
      <3>4. waitq' = [q EXCEPT ![cv] = Append(@, t)]
        BY <1>8, <3>1
      <3>5. WaitsNow(t) /\ \A x \in CondVars : x # cv => waitq'[x] = q[x]
        BY <1>3, <1>6, <3>2, <3>3, <3>4, WaitsNowAdd
      <3> QED
        BY <1>5, <3>1, <3>5
    <2>8. \A u \in Threads : ~Contains(waitq'[lock_cv(k)], u)
      <3>1. q[lock_cv(k)] = <<>>
        BY <1>1, <1>3, <1>5 DEF Broadcast, QueueType
      <3> QED
        BY <2>7, <3>1 DEF Contains
    <2>9. LeavingNow
      <3>1. ASSUME NEW j \in Keys, j # k PROVE Leaving(j)' <=> Leaving(j)
        BY <2>5, <3>1 DEF Leaving
      <3> QED
        BY <2>6, <2>8, <3>1 DEF LeavingNow
    <2>10. LocksNow(p, f, g)
      <3>1. Owns(g)
        BY <2>1 DEF Owns, Refers
      <3>2. ASSUME NEW j \in Keys, j # k PROVE Locked(j)' <=> Locked(j)
        BY <2>5, <3>2 DEF Locked
      <3> QED
        BY <1>1, <2>1, <2>2, <3>1, <3>2 DEF LocksNow
    <2>11. PlaceOK(g)'
      BY <2>1, <2>6 DEF PlaceOK
    <2>12. WaitsNow(t)
      BY <2>7
    <2> QED
      BY <1>2, <1>3, <2>2, <2>9, <2>10, <2>11, <2>12, OrderStep
  <1> QED
    BY <1>1, <1>7, <1>8 DEF tee_ta_unlink_session

LEMMA WaitForReferencesOrder ==
    ASSUME TaInv, TaInv', Ordered, UNCHANGED setup, NEW t \in Threads, WaitForReferences(t)
    PROVE  Ordered'
  <1>1. PICK p, f, k : p = <<t, Len(stack[t])>> /\ f = Top(t) /\ k = f.key
    OBVIOUS
  <1>2. At(t, "unlinking") /\ UNCHANGED si_thread
    BY DEF WaitForReferences, siVars
  <1>3. /\ stack[t] # <<>> /\ f.pc = "unlinking" /\ NotWaiting(t) /\ waitq \in QueueType
        /\ FormOK(f) /\ k \in Keys
    BY <1>1, <1>2, AtFacts
  <1>4. f.op = "close" /\ Fewer(waitq, waitq)
    BY <1>3, FewerSame DEF FormOK
  <1>5. CASE Unlinked(t, k) /\ UNCHANGED waitq
    BY <1>1, <1>2, <1>4, <1>5, UnlinkedOrder
  <1>6. CASE Wait(t, refc_cv(k)) /\ UNCHANGED <<sess, stack>>
    <2>1. PICK cv : cv = refc_cv(k)
      OBVIOUS
    <2>2. cv \in CondVars /\ cv[1] = "refc" /\ cv[2] = k
      BY <1>3, <2>1, CondVarsFacts, CvFacts
    <2>3. WaitAt(t, cv)'
      <3>1. stack'[t] # <<>> /\ Top(t)' = f
        BY <1>1, <1>3, <1>6 DEF Top
      <3> QED
        BY <1>1, <1>3, <2>2, <3>1 DEF WaitAt
    <2>4. waitq' = [waitq EXCEPT ![cv] = Append(@, t)]
      BY <1>6, <2>1 DEF Wait
    <2>5. WaitsNow(t)
      BY <1>3, <1>4, <2>2, <2>3, <2>4, WaitsNowAdd
    <2> QED
      BY <1>2, <1>3, <1>6, <2>5, WaitOrder
  <1> QED
    BY <1>1, <1>5, <1>6 DEF WaitForReferences

-----------------------------------------------------------------------------
(* The order is kept by new calls: from a TA no session is found locked *)

LEMMA PushOrder ==
    ASSUME TaInv, TaInv', Ordered, UNCHANGED <<setup, si_thread>>, NEW t \in Threads,
           NEW k \in Keys, NEW g \in FrameType, Push(t, g), g.key = k, sess[k] # NULL,
           NEW r \in SessType, sess' = [sess EXCEPT ![k] = r], r.unlink = sess[k].unlink,
           Owns(g) \/ r.lock = sess[k].lock,
           g.pc # "unlinking", g.pc = "locking" => k[1] = NW, WaitsNow(t)
    PROVE  Ordered'
  <1>1. PICK p, f : p = <<t, Len(stack[t]) + 1>> /\ f = NoCall
    OBVIOUS
  <1>2. CoreType /\ StackType /\ p[1] = t /\ ~Owns(f)
    BY <1>1, TypeFacts, NoCallFacts DEF TaInv, Owns
  <1>3. p \in Calls' /\ Step(p, f, g) /\ \A u \in Threads \ {t} : stack'[u] = stack[u]
    <2>1. stack' = [stack EXCEPT ![t] = <<g>> \o @]
      BY DEF Push
    <2> QED
      BY <1>1, <1>2, <2>1, PushStep
  <1>4. sess'[k] = r /\ r # NULL /\ \A j \in Keys : j # k => sess'[j] = sess[j]
    BY <1>2, TaManagerAssumption DEF CoreType
  <1>5. Leaving(k)' <=> Leaving(k)
    BY <1>4 DEF Leaving
  <1>6. Locked(k)' => \/ g.key = k /\ Owns(g) /\ p \in Calls'
                      \/ Locked(k) /\ ~Owns(f)
    BY <1>2, <1>3, <1>4 DEF Locked
  <1>7. LeavingNow /\ LocksNow(p, f, g)
    BY <1>2, <1>4, <1>5, <1>6, SessionNow
  <1>8. PlaceOK(g)'
    BY DEF PlaceOK
  <1> QED
    BY <1>2, <1>3, <1>7, <1>8, OrderStep

LEMMA GetOrder ==
    ASSUME TaInv, TaInv', Ordered, UNCHANGED setup, NEW t \in Threads, NEW k \in Keys,
           NEW exclusive \in BOOLEAN, NEW h, tee_ta_get_session(t, k, exclusive, h),
           RequestOK(h, k, exclusive), NotWaiting(t), Locked(k) => k[1] = NW
    PROVE  Ordered'
  <1>1. CoreType /\ StackType /\ waitq \in QueueType /\ UNCHANGED <<si_thread>>
    BY TypeFacts DEF TaInv, tee_ta_get_session, CoreType, QueueType, siVars
  <1>2. sess[k] # NULL /\ sess[k] \in SessType /\ sess[k].ref \in Nat /\ ~Leaving(k)
    BY <1>1, TypeFacts DEF tee_ta_get_session, SessType, Leaving
  <1>3. PICK n : n = sess[k].ref + 1
    OBVIOUS
  <1>4. PICK r : r = [sess[k] EXCEPT !.ref = n]
    OBVIOUS
  <1>5. /\ r \in SessType /\ r.ref = n /\ r.lock = sess[k].lock /\ r.unlink = sess[k].unlink
    BY <1>2, <1>3, <1>4 DEF SessType
  <1>6. CASE /\ exclusive /\ sess[k].lock # NULL
             /\ sess' = [sess EXCEPT ![k].ref = @ + 1]
             /\ Wait(t, lock_cv(k))
             /\ Push(t, [h EXCEPT !.pc = "locking"])
    <2>1. PICK g, cv : g = [h EXCEPT !.pc = "locking"] /\ cv = lock_cv(k)
      OBVIOUS
    <2>2. g \in FrameType /\ g.key = k /\ g.pc = "locking"
      BY <2>1 DEF RequestOK, FrameType, PCs
    <2>3. Push(t, g) /\ Locked(k)
      BY <1>2, <1>6, <2>1 DEF Locked
    <2>4. sess' = [sess EXCEPT ![k] = r]
      BY <1>1, <1>3, <1>4, <1>6 DEF CoreType
    <2>5. sess'[k] = r
      BY <1>1, <2>4 DEF CoreType
    <2>6. cv \in CondVars /\ cv[1] = "lock" /\ cv[2] = k
      BY <2>1, CondVarsFacts, CvFacts
    <2>7. WaitAt(t, cv)'
      <3>1. stack'[t] # <<>> /\ Top(t)' = g
        <4>1. PICK p : p = <<t, Len(stack[t]) + 1>>
          OBVIOUS
        <4>2. stack' = [stack EXCEPT ![t] = <<g>> \o @]
          BY <2>3 DEF Push
        <4>3. stack'[t] # <<>> /\ Head(stack'[t]) = g
          BY <1>1, <2>2, <4>1, <4>2, PushStep
        <4> QED
          BY <4>3 DEF Top
      <3>2. ~Leaving(k)'
        BY <1>2, <1>5, <2>5 DEF Leaving
      <3> QED
        BY <2>2, <2>6, <3>1, <3>2 DEF WaitAt
    <2>8. waitq' = [waitq EXCEPT ![cv] = Append(@, t)] /\ Fewer(waitq, waitq)
      BY <1>1, <1>6, <2>1, FewerSame DEF Wait
    <2>9. WaitsNow(t)
      BY <2>6, <2>7, <2>8, WaitsNowAdd
    <2> QED
      BY <1>1, <1>2, <1>5, <2>2, <2>3, <2>4, <2>9, PushOrder
  <1>7. CASE /\ exclusive /\ sess[k].lock = NULL
             /\ sess' = [sess EXCEPT ![k].ref = @ + 1, ![k].lock = t]
             /\ Push(t, [h EXCEPT !.ctx = sess[k].ctx])
             /\ UNCHANGED waitq
    <2>1. PICK g, s : g = [h EXCEPT !.ctx = sess[k].ctx] /\ s = [r EXCEPT !.lock = t]
      OBVIOUS
    <2>2. g \in FrameType /\ g.key = k /\ g.op \in {"invoke", "close"} /\ g.pc = "enter"
      BY <1>2, <1>7, <2>1 DEF RequestOK, FrameType, SessType
    <2>3. Owns(g)
      BY <2>2 DEF Owns, Refers
    <2>4. Push(t, g)
      BY <1>7, <2>1
    <2>5. sess' = [sess EXCEPT ![k] = s]
      BY <1>1, <1>2, <1>3, <1>4, <1>7, <2>1 DEF CoreType, SessType
    <2>6. s \in SessType /\ s.unlink = sess[k].unlink
      BY <1>5, <2>1 DEF SessType
    <2>7. WaitsNow(t)
      BY <1>1, <1>7, FewerSame, WaitsNowFewer
    <2> QED
      BY <1>1, <1>2, <2>2, <2>3, <2>4, <2>5, <2>6, <2>7, PushOrder
  <1>8. CASE /\ ~exclusive
             /\ sess' = [sess EXCEPT ![k].ref = @ + 1]
             /\ Push(t, h)
             /\ UNCHANGED waitq
    <2>1. h \in FrameType /\ h.key = k /\ h.pc = "put"
      BY <1>8 DEF RequestOK
    <2>2. sess' = [sess EXCEPT ![k] = r]
      BY <1>1, <1>3, <1>4, <1>8 DEF CoreType
    <2>3. WaitsNow(t) /\ Push(t, h)
      BY <1>1, <1>8, FewerSame, WaitsNowFewer
    <2> QED
      BY <1>1, <1>2, <1>5, <2>1, <2>2, <2>3, PushOrder
  <1> QED
    BY <1>6, <1>7, <1>8 DEF tee_ta_get_session

\* While a thread is in a user TA, no other call is made on behalf of that TA.
LEMMA RunnerIsAlone ==
    ASSUME CoreType, FramesOK, CountsOK, NEW p \in Calls, Call(p).pc = "inTA",
           ~Has(Call(p).ctx, "PTA"), \A q \in Calls : Below(q) # p, NEW r \in Calls
    PROVE  Call(r).key[1] # Call(p).ctx
  <1>1. PICK f, h, b : f = Call(p) /\ h = Call(r) /\ b = Below(r)
    OBVIOUS
  <1>2. FormOK(f) /\ f.ctx # NULL /\ f.ctx \in Ctxs /\ ctx[f.ctx].uuid \in Uuids
    <2>1. FormOK(f)
      BY <1>1, CallFacts
    <2>2. f.ctx # NULL
      BY <1>1, <2>1 DEF FormOK
    <2> QED
      BY <1>1, <2>1, <2>2, CallFacts
  <1>3. CASE r[2] = 1
    <2>1. h.key[1] = NW
      BY <1>1, <1>3 DEF FramesOK, BelowOK
    <2> QED
      BY <1>1, <1>2, <2>1, TaManagerAssumption
  <1>4. CASE r[2] # 1
    <2>1. PICK i : i = Call(b)
      OBVIOUS
    <2>2. b \in Calls /\ InCall(i) /\ i.ctx # NULL /\ h.key[1] = i.ctx
      BY <1>1, <1>4, <2>1, BelowFacts, TypeFacts
    <2>3. b # p
      BY <1>1
    <2>4. ASSUME i.ctx = f.ctx PROVE FALSE
      <3>1. i.pc # "destroy"
        BY <1>1, <2>1, <2>2, <2>3, <2>4, DestroyerIsAlone
      <3>2. f.busy /\ i.busy
        <4>1. FormOK(i)
          BY <2>1, <2>2, CallFacts
        <4> QED
          BY <1>1, <1>2, <2>2, <3>1, <4>1 DEF FormOK, InCall
      <3>3. ~Has(f.ctx, "CC")
        BY <1>1, <1>2, TypeFacts DEF Has
      <3>4. Apart(i, f)
        BY <1>1, <2>1, <2>2, <2>3 DEF FramesOK
      <3> QED
        BY <2>4, <3>2, <3>3, <3>4 DEF Apart, Occupies
    <2> QED
      BY <1>1, <2>2, <2>4
  <1> QED
    BY <1>3, <1>4

LEMMA RequestOrder ==
    ASSUME TaInv, TaInv', Ordered, UNCHANGED setup, NEW t \in Threads, NEW op \in Requests,
           NEW k \in Keys, Request(t, op, k)
    PROVE  Ordered'
  <1>1. CoreType /\ FramesOK /\ CountsOK /\ WaitsOK /\ StackType /\ SetupOK(setup)
    BY TypeFacts DEF TaInv
  <1>2. op \in {"invoke", "close", "cancel"}
    BY <1>1 DEF SetupOK, Requests
  <1>3. PICK exclusive, l : /\ exclusive = (op # "cancel")
                            /\ l = IF op = "cancel" THEN "put" ELSE "enter"
    OBVIOUS
  <1>4. /\ MayCall(t) /\ k[1] = Client(t)
        /\ op = "cancel" => k[1] = NW
        /\ tee_ta_get_session(t, k, exclusive, Frame(op, k, NULL, NULL, l))
    BY <1>3 DEF Request
  <1>5. RequestOK(Frame(op, k, NULL, NULL, l), k, exclusive)
    BY <1>1, <1>2, <1>3, <1>4, FrameFacts
  <1>6. CASE stack[t] = <<>>
    <2>1. NotWaiting(t) /\ k[1] = NW
      BY <1>1, <1>4, <1>6 DEF NotWaiting, WaitsOK, WaitsFor, Client
    <2> QED
      BY <1>3, <1>4, <1>5, <2>1, GetOrder
  <1>7. CASE stack[t] # <<>>
    <2>1. At(t, "inTA") /\ ~Has(Top(t).ctx, "PTA") /\ k[1] = Top(t).ctx
      BY <1>4, <1>7 DEF MayCall, InUserTa, Client
    <2>2. PICK p, f : p = <<t, Len(stack[t])>> /\ f = Top(t)
      OBVIOUS
    <2>3. f.pc = "inTA" /\ NotWaiting(t) /\ p \in Calls /\ Call(p) = f
      BY <2>1, <2>2, AtFacts
    <2>4. \A q \in Calls : Below(q) # p
      BY <1>1, <2>2, TopIsLast
    <2>5. \A q \in Calls : Call(q).key[1] # f.ctx
      BY <1>1, <2>1, <2>2, <2>3, <2>4, RunnerIsAlone
    <2>6. ~Locked(k)
      BY <2>1, <2>2, <2>5 DEF Ordered
    <2> QED
      BY <1>3, <1>4, <1>5, <2>3, <2>6, GetOrder
  <1> QED
    BY <1>6, <1>7

LEMMA CloseNextOrder ==
    ASSUME TaInv, TaInv', Ordered, UNCHANGED setup, NEW t \in Threads, CloseNext(t)
    PROVE  Ordered'
  <1>1. CoreType /\ FramesOK /\ CountsOK /\ StackType
    BY TypeFacts DEF TaInv
  <1>2. PICK p, f, c : p = <<t, Len(stack[t])>> /\ f = Top(t) /\ c = f.ctx
    OBVIOUS
  <1>3. PICK l \in {"release", "destroy"} : At(t, l)
    BY DEF CloseNext
  <1>4. /\ stack[t] # <<>> /\ f.pc = l /\ NotWaiting(t) /\ p \in Calls /\ Call(p) = f
        /\ FormOK(f) /\ (f.ctx # NULL => f.ctx \in Ctxs)
    BY <1>2, <1>3, AtFacts
  <1>5. c \in Ctxs
    BY <1>2, <1>3, <1>4 DEF FormOK
  <1>6. PICK k : k = <<c, Head(open_sessions[c])>>
    OBVIOUS
  <1>7. /\ open_sessions[c] # <<>>
        /\ tee_ta_get_session(t, k, TRUE, Frame("close", k, NULL, NULL, "enter"))
    BY <1>2, <1>6 DEF CloseNext
  <1>8. k \in Keys /\ k[1] = c
    <2>1. open_sessions[c] \in Seq(Ids) /\ c \in Lists
      BY <1>1, <1>5 DEF CoreType, Lists
    <2>2. Head(open_sessions[c]) \in Ids
      BY <1>7, <2>1
    <2> QED
      BY <1>6, <2>1, <2>2 DEF Keys
  <1>9. \A q \in Calls : Call(q).key[1] # c
    <2>1. \A q \in Calls : Below(q) # p
      BY <1>1, <1>2, TopIsLast
    <2>2. Call(p).pc \in {"release", "destroy"}
      BY <1>4
    <2> QED
      BY <1>1, <1>2, <1>4, <2>1, <2>2, ReleaserIsAlone
  <1>10. ~Locked(k)
    BY <1>8, <1>9 DEF Ordered
  <1>11. RequestOK(Frame("close", k, NULL, NULL, "enter"), k, TRUE)
    BY <1>1, <1>8, FrameFacts
  <1> QED
    BY <1>4, <1>7, <1>8, <1>10, <1>11, GetOrder

\* In every case the call that opens session k is at one of four places, and only
\* in a search that goes on does it wait.
LEMMA OpensAt ==
    ASSUME TaInv, NEW t \in Threads, NEW k \in Keys, NEW u \in Uuids, NEW s0, NEW rest,
           tee_ta_init_session_with_context(t, k, u, s0, rest)
    PROVE  \E c \in Ctxs \cup {NULL}, l \in {"lookup", "initfail", "enter", "load"} :
              /\ Become(t, rest, Frame("open", k, u, c, l))
              /\ sess' = s0 \/ sess' = [s0 EXCEPT ![k].ctx = c]
              /\ waitq' = waitq \/ (l = "lookup" /\ Wait(t, tee_ta_init_cv))
  <1>1. CoreType /\ ContextsOK
    BY DEF TaInv
  <1>2. PICK found : found = tee_ta_context_find(u)
    OBVIOUS
  <1>3. \A c \in found : c \in Ctxs
    BY <1>1, <1>2, FindFacts
  <1>4. PICK share, unused : /\ share = {c \in found : ~ctx[c].init /\ Has(c, "SI")}
                             /\ unused = {c \in Ctxs : ctx[c] = NULL}
    OBVIOUS
  <1>5. CASE /\ Wait(t, tee_ta_init_cv) /\ sess' = s0
             /\ Become(t, rest, Frame("open", k, u, NULL, "lookup"))
    BY <1>5
  <1>6. CASE /\ sess' = s0 /\ waitq' = waitq
             /\ Become(t, rest, Frame("open", k, u, NULL, "initfail"))
    BY <1>6
  <1>7. ASSUME NEW c \in Ctxs, sess' = [s0 EXCEPT ![k].ctx = c], waitq' = waitq,
               Become(t, rest, Frame("open", k, u, c, "enter"))
        PROVE  \E d \in Ctxs \cup {NULL}, l \in {"lookup", "initfail", "enter", "load"} :
                  /\ Become(t, rest, Frame("open", k, u, d, l))
                  /\ sess' = s0 \/ sess' = [s0 EXCEPT ![k].ctx = d]
                  /\ waitq' = waitq \/ (l = "lookup" /\ Wait(t, tee_ta_init_cv))
    BY <1>7
  <1>8. ASSUME NEW c \in Ctxs, sess' = [s0 EXCEPT ![k].ctx = c], waitq' = waitq,
               Become(t, rest, Frame("open", k, u, c, "load"))
        PROVE  \E d \in Ctxs \cup {NULL}, l \in {"lookup", "initfail", "enter", "load"} :
                  /\ Become(t, rest, Frame("open", k, u, d, l))
                  /\ sess' = s0 \/ sess' = [s0 EXCEPT ![k].ctx = d]
                  /\ waitq' = waitq \/ (l = "lookup" /\ Wait(t, tee_ta_init_cv))
    BY <1>8
  <1>9. \A c \in share : c \in Ctxs
    BY <1>3, <1>4
  <1>10. \A c \in unused : c \in Ctxs
    BY <1>4
  <1>11. \/ /\ Wait(t, tee_ta_init_cv) /\ sess' = s0
            /\ Become(t, rest, Frame("open", k, u, NULL, "lookup"))
         \/ /\ sess' = s0 /\ waitq' = waitq
            /\ Become(t, rest, Frame("open", k, u, NULL, "initfail"))
         \/ \E c \in share : /\ sess' = [s0 EXCEPT ![k].ctx = c] /\ waitq' = waitq
                             /\ Become(t, rest, Frame("open", k, u, c, "enter"))
         \/ \E c \in unused : \E l \in {"enter", "load"} :
               /\ sess' = [s0 EXCEPT ![k].ctx = c] /\ waitq' = waitq
               /\ Become(t, rest, Frame("open", k, u, c, l))
    BY <1>2, <1>4 DEF tee_ta_init_session_with_context
  <1> QED
    BY <1>5, <1>6, <1>7, <1>8, <1>9, <1>10, <1>11

LEMMA WithContextOrder ==
    ASSUME TaInv, TaInv', Ordered, UNCHANGED <<setup, si_thread>>,
           NEW t \in Threads, NotWaiting(t), NEW p, p[1] = t, NEW f,
           NEW k \in Keys, NEW u \in Uuids, Owns(f) => f.key = k,
           NEW s0 \in [Keys -> SessType \cup {NULL}], s0[k] # NULL,
           \A j \in Keys : j # k => s0[j] = sess[j], s0[k].unlink <=> Leaving(k), NEW rest,
           \A g \in FrameType : g.key = k /\ Become(t, rest, g) =>
               /\ p \in Calls' /\ Step(p, f, g) /\ stack'[t] # <<>> /\ Head(stack'[t]) = g
               /\ \A x \in Threads \ {t} : stack'[x] = stack[x],
           tee_ta_init_session_with_context(t, k, u, s0, rest)
    PROVE  Ordered'
  <1>1. CoreType /\ waitq \in QueueType /\ NULL \notin Ctxs
    BY TaManagerAssumption DEF TaInv, CoreType, QueueType
  <1>2. PICK c \in Ctxs \cup {NULL}, l \in {"lookup", "initfail", "enter", "load"} :
              /\ Become(t, rest, Frame("open", k, u, c, l))
              /\ sess' = s0 \/ sess' = [s0 EXCEPT ![k].ctx = c]
              /\ waitq' = waitq \/ (l = "lookup" /\ Wait(t, tee_ta_init_cv))
    BY OpensAt
  <1>3. PICK g : g = Frame("open", k, u, c, l)
    OBVIOUS
  <1>4. g \in FrameType /\ g.op = "open" /\ g.key = k /\ g.pc = l
    BY <1>1, <1>3, OpenFrame DEF PCs
  <1>5. /\ p \in Calls' /\ Step(p, f, g) /\ stack'[t] # <<>> /\ Head(stack'[t]) = g
        /\ \A x \in Threads \ {t} : stack'[x] = stack[x]
    BY <1>2, <1>3, <1>4
  <1>6. Owns(g)
    BY <1>4 DEF Owns, Refers
  <1>7. s0[k] \in SessType
    OBVIOUS
  <1>8. /\ \A j \in Keys : j # k => sess'[j] = sess[j]
        /\ sess'[k] # NULL /\ (sess'[k].unlink <=> Leaving(k))
    <2>1. CASE sess' = s0
      BY <2>1
    <2>2. CASE sess' = [s0 EXCEPT ![k].ctx = c]
      <3>1. PICK r : r = [s0[k] EXCEPT !.ctx = c]
        OBVIOUS
      <3>2. r \in SessType /\ r.unlink = s0[k].unlink
        BY <1>7, <3>1 DEF SessType
      <3>3. r # NULL
        BY <3>2, TaManagerAssumption
      <3>4. sess'[k] = r /\ \A j \in Keys : j # k => sess'[j] = s0[j]
        BY <2>2, <3>1
      <3> QED
        BY <3>2, <3>3, <3>4
    <2> QED
      BY <1>2, <2>1, <2>2
  <1>9. Leaving(k)' <=> Leaving(k)
    BY <1>8 DEF Leaving
  <1>10. LeavingNow /\ LocksNow(p, f, g)
    BY <1>4, <1>5, <1>6, <1>8, <1>9, SessionNow
  <1>11. WaitsNow(t)
    <2>1. CASE waitq' = waitq
      BY <1>1, <2>1, FewerSame, WaitsNowFewer
    <2>2. CASE l = "lookup" /\ Wait(t, tee_ta_init_cv)
      <3>1. PICK cv : cv = tee_ta_init_cv
        OBVIOUS
      <3>2. cv \in CondVars /\ cv[1] = "init"
        BY <3>1, CondVarsFacts, CvFacts
      <3>3. WaitAt(t, cv)'
        <4>1. Top(t)' = g
          BY <1>5 DEF Top
        <4> QED
          BY <1>4, <1>5, <2>2, <3>2, <4>1 DEF WaitAt
      <3>4. waitq' = [waitq EXCEPT ![cv] = Append(@, t)] /\ Fewer(waitq, waitq)
        BY <1>1, <2>2, <3>1, FewerSame DEF Wait
      <3> QED
        BY <3>2, <3>3, <3>4, WaitsNowAdd
    <2> QED
      BY <1>2, <2>1, <2>2
  <1>12. PlaceOK(g)'
    BY <1>4 DEF PlaceOK
  <1> QED
    BY <1>5, <1>10, <1>11, <1>12, OrderStep

LEMMA SearchAgainOrder ==
    ASSUME TaInv, TaInv', Ordered, UNCHANGED setup, NEW t \in Threads, SearchAgain(t)
    PROVE  Ordered'
  <1>1. At(t, "lookup") /\ UNCHANGED si_thread
    BY DEF SearchAgain, siVars
  <1>2. PICK p, f, k, u, rest : /\ p = <<t, Len(stack[t])>> /\ f = Top(t) /\ k = f.key
                                /\ u = f.uuid /\ rest = Tail(stack[t])
    OBVIOUS
  <1>3. /\ stack[t] # <<>> /\ f.pc = "lookup" /\ NotWaiting(t) /\ p[1] = t
        /\ f \in FrameType /\ k \in Keys /\ FormOK(f)
        /\ Refers(f) => sess[f.key] # NULL /\ sess[f.key] \in SessType
    BY <1>1, <1>2, AtFacts
  <1>4. /\ CoreType /\ StackType /\ u \in Uuids /\ f.op = "open"
    BY <1>2, <1>3, TypeFacts DEF TaInv, FormOK
  <1>5. /\ sess[k] # NULL /\ sess \in [Keys -> SessType \cup {NULL}]
    BY <1>2, <1>3, <1>4 DEF Refers, CoreType
  <1>6. sess[k].unlink <=> Leaving(k)
    BY <1>5 DEF Leaving
  <1>7. ASSUME NEW g \in FrameType, g.key = k, Become(t, rest, g)
        PROVE  /\ p \in Calls' /\ Step(p, f, g) /\ stack'[t] # <<>> /\ Head(stack'[t]) = g
               /\ \A x \in Threads \ {t} : stack'[x] = stack[x]
    <2>1. stack' = [stack EXCEPT ![t][1] = g]
      <3>1. stack[t] \in Seq(FrameType) /\ stack \in [Threads -> Seq(FrameType)]
        BY <1>4 DEF StackType
      <3>2. <<g>> \o Tail(stack[t]) = [stack[t] EXCEPT ![1] = g]
        BY <1>3, <3>1, HeadReplaced
      <3> QED
        BY <1>2, <1>7, <3>1, <3>2 DEF Become
    <2>2. StackType /\ stack[t] # <<>>
      BY <1>3, <1>4
    <2> QED
      BY <1>2, <2>1, <2>2, SetStep
  <1>8. tee_ta_init_session_with_context(t, k, u, sess, rest)
    BY <1>2 DEF SearchAgain
  <1>9. Owns(f) => f.key = k
    BY <1>2
  <1> QED
    BY <1>1, <1>3, <1>4, <1>5, <1>6, <1>7, <1>8, <1>9, WithContextOrder

LEMMA InitSessionOrder ==
    ASSUME TaInv, TaInv', Ordered, UNCHANGED setup, NEW t \in Threads, NEW u \in Uuids,
           tee_ta_init_session(t, u)
    PROVE  Ordered'
  <1>1. MayCall(t) /\ UNCHANGED si_thread
    BY DEF tee_ta_init_session, siVars
  <1>2. PICK p, f, l, id, k, rest, r :
            /\ p = <<t, Len(stack[t]) + 1>> /\ f = NoCall /\ l = Client(t)
            /\ id = new_session_id(open_sessions[l]) /\ k = <<l, id>> /\ rest = stack[t]
            /\ r = NewSession(t)
    OBVIOUS
  <1>3. CoreType /\ StackType /\ SessionsOK /\ WaitsOK
    BY TypeFacts DEF TaInv
  <1>4. l \in Lists /\ NotWaiting(t)
    <2>1. CASE stack[t] = <<>>
      BY <1>2, <1>3, <2>1 DEF NotWaiting, WaitsOK, WaitsFor, Client, Lists
    <2>2. CASE stack[t] # <<>>
      <3>1. At(t, "inTA") /\ l = Top(t).ctx
        BY <1>1, <1>2, <2>2 DEF MayCall, InUserTa, Client
      <3>2. PICK q, h : q = <<t, Len(stack[t])>> /\ h = Top(t)
        OBVIOUS
      <3>3. /\ h.pc = "inTA" /\ NotWaiting(t) /\ FormOK(h)
            /\ h.ctx # NULL => h.ctx \in Ctxs
        BY <3>1, <3>2, AtFacts
      <3>4. h.ctx # NULL
        BY <3>3 DEF FormOK
      <3> QED
        BY <3>1, <3>2, <3>3, <3>4 DEF Lists
    <2> QED
      BY <2>1, <2>2
  <1>5. PICK s0 : s0 = [sess EXCEPT ![k] = r]
    OBVIOUS
  <1>6. id # 0 /\ tee_ta_init_session_with_context(t, k, u, s0, rest)
    BY <1>2, <1>5 DEF tee_ta_init_session
  <1>7. k \in Keys /\ sess[k] = NULL
    <2>1. open_sessions[l] \in Seq(Ids)
      BY <1>3, <1>4 DEF CoreType
    <2>2. id \in Ids /\ ~Contains(open_sessions[l], id)
      BY <1>2, <1>6, <2>1, NewIdFacts
    <2>3. k \in Keys /\ k[1] = l /\ k[2] = id
      BY <1>2, <1>4, <2>2 DEF Keys
    <2> QED
      BY <1>3, <2>2, <2>3 DEF SessionsOK
  <1>8. r \in SessType /\ r.unlink = FALSE /\ r # NULL
    <2>1. r \in SessType /\ r.unlink = FALSE
      BY <1>2 DEF NewSession, SessType
    <2>2. NULL \notin SessType
      BY TaManagerAssumption
    <2> QED
      BY <2>1, <2>2
  <1>9. /\ s0 \in [Keys -> SessType \cup {NULL}] /\ s0[k] # NULL
        /\ \A j \in Keys : j # k => s0[j] = sess[j]
        /\ s0[k].unlink <=> Leaving(k)
    <2>1. /\ s0 \in [Keys -> SessType \cup {NULL}] /\ s0[k] = r
          /\ \A j \in Keys : j # k => s0[j] = sess[j]
      BY <1>3, <1>5, <1>7, <1>8 DEF CoreType
    <2>2. ~Leaving(k) /\ ~s0[k].unlink
      BY <1>7, <1>8, <2>1 DEF Leaving
    <2> QED
      BY <1>8, <2>1, <2>2
  <1>10. p[1] = t /\ (Owns(f) => f.key = k)
    BY <1>2, NoCallFacts DEF Owns
  <1>11. ASSUME NEW g \in FrameType, g.key = k, Become(t, rest, g)
         PROVE  /\ p \in Calls' /\ Step(p, f, g) /\ stack'[t] # <<>> /\ Head(stack'[t]) = g
                /\ \A x \in Threads \ {t} : stack'[x] = stack[x]
    <2>1. stack' = [stack EXCEPT ![t] = <<g>> \o @]
      BY <1>2, <1>11 DEF Become
    <2> QED
      BY <1>2, <1>3, <2>1, PushStep
  <1> QED
    BY <1>1, <1>4, <1>6, <1>7, <1>9, <1>10, <1>11, WithContextOrder

LEMMA InitOrdered == ASSUME Init, TaInv PROVE Ordered
  <1>1. /\ sess = [k \in Keys |-> NULL] /\ waitq = [cv \in CondVars |-> <<>>]
        /\ stack = [t \in Threads |-> <<>>]
    BY DEF Init
  <1>2. \A t \in Threads, cv \in CondVars : ~WaitsFor(t, cv)
    BY <1>1 DEF WaitsFor, Contains
  <1>3. Calls = {}
    BY <1>1, TypeFacts, CallsFacts DEF Calls, TaInv
  <1>4. \A k \in Keys : ~Locked(k)
    BY <1>1 DEF Locked
  <1> QED
    BY <1>2, <1>3, <1>4 DEF Ordered

LEMMA StutterOrder == ASSUME Ordered, UNCHANGED vars PROVE Ordered'
  <1>1. UNCHANGED <<setup, sess, si_thread, waitq, stack>>
    BY DEF vars, siVars
  <1>2. CondVars' = CondVars /\ Calls' = Calls
    BY <1>1 DEF CondVars, Calls
  <1>3. \A t, cv : /\ WaitsFor(t, cv)' <=> WaitsFor(t, cv)
                   /\ WaitAt(t, cv)' <=> WaitAt(t, cv)
    BY <1>1 DEF WaitsFor, WaitAt, Leaving, Top
  <1>4. \A p \in Calls : Call(p)' = Call(p)
    BY <1>1 DEF Call
  <1>5. \A f : PlaceOK(f)' <=> PlaceOK(f)
    BY <1>1 DEF PlaceOK, Leaving
  <1>6. \A k \in Keys : Locked(k)' <=> Locked(k)
    BY <1>1 DEF Locked
  <1> QED
    BY <1>2, <1>3, <1>4, <1>5, <1>6 DEF Ordered

LEMMA NextOrder ==
    ASSUME TaInv, TaInv', NoStatistics, Ordered, Next
    PROVE  Ordered'
  <1>1. UNCHANGED setup
    BY DEF Next
  <1>2. PICK t \in Threads :
          \/ Internal(t) \/ BadParameters(t) \/ user_ta_enter(t) \/ SpuriousWakeup(t)
          \/ init_dump_ctx(t)
          \/ \E u \in Uuids : tee_ta_init_session(t, u)
          \/ \E op \in Requests, k \in Keys : Request(t, op, k)
    BY DEF Next
  <1>3. CASE Internal(t)
    <2>1. SearchAgain(t) => Ordered'
      BY <1>1, SearchAgainOrder
    <2>2. tee_ta_complete_user_ta_session(t) => Ordered'
      BY <1>1, CompleteOrder
    <2>3. InitFail(t) => Ordered'
      BY <1>1, InitFailOrder
    <2>4. GetLock(t) => Ordered'
      BY <1>1, GetLockOrder
    <2>5. tee_ta_put_session(t) => Ordered'
      BY <1>1, PutOrder
    <2>6. SetBusyWait(t) => Ordered'
      BY <1>1, SetBusyWaitOrder
    <2>7. SetBusy(t) => Ordered'
      BY <1>1, SetBusyOrder
    <2>8. SetBusyRefused(t) => Ordered'
      BY <1>1, SetBusyRefusedOrder
    <2>9. maybe_release_ta_ctx(t) => Ordered'
      BY <1>1, MaybeReleaseOrder
    <2>10. tee_ta_clear_busy(t) => Ordered'
      BY <1>1, ClearBusyOrder
    <2>11. tee_ta_unlink_session(t) => Ordered'
      BY <1>1, UnlinkOrder
    <2>12. WaitForReferences(t) => Ordered'
      BY <1>1, WaitForReferencesOrder
    <2>13. close_session(t) => Ordered'
      BY <1>1, CloseOrder
    <2>14. CloseNext(t) => Ordered'
      BY <1>1, CloseNextOrder
    <2>15. release_utc_state(t) => Ordered'
      BY <1>1, ReleaseStateOrder
    <2>16. destroy_context(t) => Ordered'
      BY <1>1, DestroyOrder
    <2>17. ~dump_ta_stats(t)
      BY NoDump
    <2> QED
      BY <1>3, <2>1, <2>2, <2>3, <2>4, <2>5, <2>6, <2>7, <2>8, <2>9, <2>10, <2>11,
         <2>12, <2>13, <2>14, <2>15, <2>16, <2>17 DEF Internal
  <1>4. CASE BadParameters(t)
    BY <1>1, <1>4, BadParametersOrder
  <1>5. CASE user_ta_enter(t)
    BY <1>1, <1>5, UserTaOrder
  <1>6. CASE SpuriousWakeup(t)
    BY <1>1, <1>6, SpuriousOrder
  <1>7. ~init_dump_ctx(t)
    BY NoDump
  <1>8. CASE \E u \in Uuids : tee_ta_init_session(t, u)
    BY <1>1, <1>8, InitSessionOrder
  <1>9. CASE \E op \in Requests, k \in Keys : Request(t, op, k)
    BY <1>1, <1>9, RequestOrder
  <1> QED
    BY <1>2, <1>3, <1>4, <1>5, <1>6, <1>7, <1>8, <1>9

LEMMA OrderedAlways == Spec /\ NoStatistics => []((TaInv /\ Ordered) \/ Lost)
  <1>1. Init => TaInv /\ Ordered
    BY InitInv, InitOrdered
  <1>2. ((TaInv /\ Ordered) \/ Lost) /\ NoStatistics /\ [Next]_vars
        => ((TaInv' /\ Ordered') \/ Lost') /\ NoStatistics'
    <2>1. ASSUME TaInv, Ordered, NoStatistics, UNCHANGED vars PROVE TaInv' /\ Ordered'
      BY <2>1, StutterKeeps, StutterOrder
    <2>2. ASSUME TaInv, Ordered, NoStatistics, Next PROVE (TaInv' /\ Ordered') \/ Lost'
      BY <2>2, NextKeeps, NextOrder
    <2> QED
      BY <2>1, <2>2, LostStays, NoStatisticsStays
  <1> QED
    BY <1>1, <1>2, PTL DEF Spec

\* Threads never wait for each other in a circle: not for the lock of a session,
\* for the references of one that is being closed, for the single-instance lock
\* or for a TA that another thread loads (tee_ta_get_session(),
\* tee_ta_unlink_session(), lock_single_instance(),
\* tee_ta_init_session_with_context()), however calls nest and whichever TAs
\* panic, as long as no pseudo TA collects the statistics of the others and no
\* session was freed under those who name it early.
THEOREM NoThreadsInCircle == Spec /\ NoStatistics => []NoDeadlock
  <1>1. (TaInv /\ Ordered) \/ Lost => NoDeadlock
    BY NoDeadlockHolds DEF Lost, NoDeadlock
  <1> QED
    BY <1>1, OrderedAlways, PTL
=============================================================================
