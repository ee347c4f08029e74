---------------------------- MODULE ReeFsProofs -----------------------------
(***************************************************************************)
(* Proofs about ReeFs for any threads, names and numbers of handles, and   *)
(* for whatever the applications do and whatever fails: the two reference  *)
(* counts, of the open objects and of the dirfile handle, are exact, and   *)
(* the dirfile handle knows the number of every object.  The last needs    *)
(* that a number is given to one entry only, which in turn is so because   *)
(* the handle knows them all.                                              *)
(***************************************************************************)
EXTENDS ReeFs, FiniteSetTheorems, WellFoundedInduction, TLAPS

\* Points of the system calls
PCs == {"idle", "open", "create", "create_final", "remove", "remove_corrupt", "close",
        "release", "rename", "pobj_rename", "enum_get", "enum_open", "enum_close"}
CallType == [pc : PCs, po : Pobjs \cup {NULL}, h : Handles \cup {NULL},
             fh : FileType \cup {NULL}, name : Names \cup {NULL},
             flags : SUBSET Modes, over : BOOLEAN]
DirType == [idx : Int, due : SUBSET Numbers, seen : SUBSET Numbers]
DentType == [name : Names \cup {NULL}, f : Numbers, hash : 0 .. MaxTx]
DiskType == [dirf : Seq(DentType), files : [Numbers -> Inodes \cup {NULL}],
             data : [Inodes -> [Vers -> 0 .. MaxTx]]]

CoreType ==
    /\ setup \in Setups
    /\ pobj \in [Pobjs -> PobjType \cup {NULL}]
    /\ obj \in [Handles -> ObjType \cup {NULL}]
    /\ call \in [Threads -> CallType]
    /\ dir \in [Threads -> DirType]
    /\ refcount \in Nat
    /\ panicked \in BOOLEAN

\* Entries in use have a name and a number of their own, given by one of the
\* first n updates, and a hash.
DirfOK(d, n) ==
    /\ \A i \in Used(d) : d[i].f < n /\ d[i].hash # 0
    /\ \A i, j \in Used(d) : i # j => d[i].name # d[j].name /\ d[i].f # d[j].f

\* The numbers in bits are from the first n updates and have those of d.
BitsOK(bits, d, n) ==
    /\ bits \subseteq 0 .. (n - 1)
    /\ Numbered(d) \subseteq bits

\* Storage after n updates
DiskOK(d, n) ==
    /\ d \in DiskType
    /\ DirfOK(d.dirf, n)
    /\ \A f \in Numbers : d.files[f] # NULL => d.files[f] <= n

StorageOK ==
    /\ tx \in 0 .. MaxTx
    /\ DiskOK(disk, tx)
    /\ dirh # NULL => BitsOK(dirh, disk.dirf, tx) /\ refcount > 0

\* An open file is one of the first n that were created.
FileOK(fh, n) == fh # NULL => fh.ino <= n
FilesOK ==
    /\ \A h \in Handles : obj[h] # NULL => FileOK(obj[h].fh, tx)
    /\ \A t \in Threads : FileOK(call[t].fh, tx)

\* Call c of a thread has a reference to some object.
Referring(c) ==
    \/ c.pc \in {"open", "create", "rename", "pobj_rename", "enum_open", "enum_close",
                 "release"}
    \/ c.pc = "remove_corrupt" /\ c.h = NULL

\* What call c of thread t remembers is there among the handles ob: t keeps its
\* handles while it renames one or has just created one.
CallOK(t, c, ob) ==
    /\ Referring(c) => c.po \in Pobjs
    /\ c.pc \in {"open", "create"} => c.h = NULL
    /\ c.pc = "remove" => c.h # NULL
    /\ c.pc \in {"rename", "pobj_rename"} =>
          c.h \in Handles /\ ob[c.h] # NULL /\ ob[c.h].own = t
    /\ c.pc = "create_final" =>
          \E h \in Handles : ob[h] # NULL /\ ob[h].own = t /\ ob[h].po = c.po
    /\ c.pc = "enum_get" => c.name \in Names
    /\ c.fh # NULL <=> c.pc = "enum_close"
CallsOK == \A t \in Threads : CallOK(t, call[t], obj)

\* References to an open object: of handles and of calls
HasPobj(o, p) == o # NULL /\ o.po = p
UsesPobj(c, p) == c.po = p /\ Referring(c)
HandlesOf(p) == {h \in Handles : HasPobj(obj[h], p)}
CallsOf(p) == {t \in Threads : UsesPobj(call[t], p)}
RefCnt(r) == IF r = NULL THEN 0 ELSE r.refcnt
PobjCounts ==
    \A p \in Pobjs :
        RefCnt(pobj[p]) = Cardinality(HandlesOf(p)) + Cardinality(CallsOf(p))

\* Users of the dirfile handle: open objects, enumerations, heads being read
OpenObjects == {h \in Handles : obj[h] # NULL}
OpenDirs == {t \in Threads : dir[t].idx # -1}
OpenHeads == {t \in Threads : call[t].fh # NULL}
DirhCount ==
    refcount = Cardinality(OpenObjects) + Cardinality(OpenDirs) + Cardinality(OpenHeads)

\* The inductive invariant
ReeFsInv ==
    CoreType /\ StorageOK /\ FilesOK /\ CallsOK /\ PobjCounts /\ DirhCount

-----------------------------------------------------------------------------
(* The dirfile *)

LEMMA MinIsLeast ==
    ASSUME NEW S \in SUBSET Nat, S # {}
    PROVE  Min(S) \in S /\ \A y \in S : Min(S) <= y
  <1> DEFINE R == OpToRel(<, Nat)
  <1>1. IsWellFoundedOn(R, Nat)
    BY NatLessThanWellFounded
  <1> HIDE DEF R
  <1>2. PICK x \in S : \A y \in S : <<y, x>> \notin R
    BY <1>1, WFMin
  <1>3. ASSUME NEW y \in S
        PROVE  x <= y
    <2>1. y < x => <<y, x>> \in R
      BY DEF R, OpToRel
    <2> QED
      BY <1>2, <2>1
  <1> QED
    BY <1>3 DEF Min

LEMMA DentFacts ==
    ASSUME NEW d \in Seq(DentType)
    PROVE  /\ Used(d) \subseteq 1 .. Len(d) /\ DOMAIN d = 1 .. Len(d) /\ Len(d) \in Nat
           /\ \A i \in 1 .. Len(d) : d[i] \in DentType
           /\ \A i \in Used(d) : d[i].name \in Names /\ d[i].f \in Numbers
  <1>1. /\ Used(d) \subseteq 1 .. Len(d) /\ DOMAIN d = 1 .. Len(d) /\ Len(d) \in Nat
        /\ \A i \in 1 .. Len(d) : d[i] \in DentType
    BY DEF Used
  <1>2. \A i \in Used(d) : d[i].name # NULL
    BY DEF Used
  <1>3. \A i \in Used(d) : d[i].name \in Names /\ d[i].f \in Numbers
    BY <1>1, <1>2 DEF DentType
  <1> QED
    BY <1>1, <1>3

LEMMA FindFacts ==
    ASSUME NEW d \in Seq(DentType), NEW n
    PROVE  \/ Find(d, n) = 0 /\ \A i \in Used(d) : d[i].name # n
           \/ Find(d, n) \in Used(d) /\ d[Find(d, n)].name = n
  <1> DEFINE s == {i \in Used(d) : d[i].name = n}
  <1>1. s \in SUBSET Nat
    BY DentFacts
  <1>2. CASE s = {}
    BY <1>2 DEF Find
  <1>3. CASE s # {}
    <2>1. Find(d, n) \in s
      BY <1>1, <1>3, MinIsLeast DEF Find
    <2> QED
      BY <2>1
  <1> QED
    BY <1>2, <1>3

LEMMA EmptyFacts ==
    ASSUME NEW d \in Seq(DentType)
    PROVE  EmptyIdx(d) \in 1 .. Len(d) + 1 /\ EmptyIdx(d) \notin Used(d)
  <1> DEFINE s == (1 .. Len(d) + 1) \ Used(d)
  <1>1. s \in SUBSET Nat /\ Len(d) + 1 \in s
    BY DentFacts
  <1>2. Min(s) \in s
    BY <1>1, MinIsLeast
  <1> QED
    BY <1>2 DEF EmptyIdx

\* An entry is written: the name and the number must be new to the others.
LEMMA DirfWrite ==
    ASSUME NEW d \in Seq(DentType), NEW n \in Nat, NEW m \in Nat, n <= m, DirfOK(d, n),
           NEW i \in 1 .. Len(d) + 1, NEW e \in DentType,
           e.name # NULL, e.f < m, e.hash # 0,
           \A j \in Used(d) \ {i} : d[j].name # e.name /\ d[j].f # e.f
    PROVE  /\ WriteDent(d, i, e) \in Seq(DentType)
           /\ DirfOK(WriteDent(d, i, e), m)
           /\ Numbered(WriteDent(d, i, e)) \subseteq Numbered(d) \cup {e.f}
  <1>1. PICK g : g = WriteDent(d, i, e)
    OBVIOUS
  <1>2. g \in Seq(DentType) /\ DOMAIN g = (1 .. Len(d)) \cup {i}
    <2>1. CASE i > Len(d)
      <3>1. i = Len(d) + 1 /\ g = Append(d, e)
        BY <1>1, <2>1, DentFacts DEF WriteDent
      <3> QED
        BY <3>1
    <2>2. CASE ~(i > Len(d))
      <3>1. g = [d EXCEPT ![i] = e] /\ i \in 1 .. Len(d)
        BY <1>1, <2>2, DentFacts DEF WriteDent
      <3>2. g \in Seq(DentType) /\ DOMAIN g = 1 .. Len(d)
        BY <3>1
      <3> QED
        BY <3>1, <3>2
    <2> QED
      BY <2>1, <2>2
  <1>3. g[i] = e /\ \A j \in (1 .. Len(d)) \ {i} : g[j] = d[j]
    <2>1. CASE i > Len(d)
      <3>1. i = Len(d) + 1 /\ g = Append(d, e)
        BY <1>1, <2>1, DentFacts DEF WriteDent
      <3> QED
        BY <3>1
    <2>2. CASE ~(i > Len(d))
      <3>1. g = [d EXCEPT ![i] = e] /\ i \in 1 .. Len(d)
        BY <1>1, <2>2, DentFacts DEF WriteDent
      <3> QED
        BY <3>1
    <2> QED
      BY <2>1, <2>2
  <1>4. Used(g) = Used(d) \cup {i}
    <2>1. \A j : j \in Used(g) <=> (j \in (1 .. Len(d)) \cup {i} /\ g[j].name # NULL)
      BY <1>2 DEF Used
    <2>2. \A j : j \in Used(d) <=> (j \in 1 .. Len(d) /\ d[j].name # NULL)
      BY DEF Used
    <2> QED
      BY <1>3, <2>1, <2>2
  <1>5. \A j \in Used(g) : \/ j = i /\ g[j] = e
                           \/ j # i /\ j \in Used(d) /\ g[j] = d[j]
    BY <1>3, <1>4, DentFacts
  <1>6. DirfOK(g, m)
    <2>1. ASSUME NEW j \in Used(g)
          PROVE  g[j].f < m /\ g[j].hash # 0
      <3>1. CASE j = i
        BY <1>5, <3>1
      <3>2. CASE j # i
        <4>1. j \in Used(d) /\ g[j] = d[j]
          BY <1>5, <2>1, <3>2
        <4>2. d[j].f < n /\ d[j].hash # 0 /\ d[j].f \in Nat
          BY <4>1, DentFacts DEF DirfOK, Numbers
        <4> QED
          BY <4>1, <4>2
      <3> QED
        BY <3>1, <3>2
    <2>2. ASSUME NEW j \in Used(g), NEW k \in Used(g), j # k
          PROVE  g[j].name # g[k].name /\ g[j].f # g[k].f
      <3>1. CASE j = i
        BY <1>5, <2>2, <3>1
      <3>2. CASE k = i
        BY <1>5, <2>2, <3>2
      <3>3. CASE j # i /\ k # i
        BY <1>5, <2>2, <3>3 DEF DirfOK
      <3> QED
        BY <3>1, <3>2, <3>3
    <2> QED
      BY <2>1, <2>2 DEF DirfOK
  <1>7. Numbered(g) \subseteq Numbered(d) \cup {e.f}
    BY <1>5 DEF Numbered
  <1> QED
    BY <1>1, <1>2, <1>6, <1>7

\* An entry changes, and keeps its number and whether it is in use.
LEMMA DirfChange ==
    ASSUME NEW d \in Seq(DentType), NEW n \in Nat, NEW m \in Nat, n <= m, DirfOK(d, n),
           NEW i \in 1 .. Len(d), NEW e \in DentType,
           e.f = d[i].f, e.hash # 0, e.name = NULL <=> d[i].name = NULL,
           \A j \in Used(d) \ {i} : d[j].name # e.name
    PROVE  /\ [d EXCEPT ![i] = e] \in Seq(DentType)
           /\ DirfOK([d EXCEPT ![i] = e], m)
           /\ Numbered([d EXCEPT ![i] = e]) = Numbered(d)
  <1>1. PICK g : g = [d EXCEPT ![i] = e]
    OBVIOUS
  <1>2. /\ g \in Seq(DentType) /\ DOMAIN g = 1 .. Len(d)
        /\ \A j \in 1 .. Len(d) : g[j] = IF j = i THEN e ELSE d[j]
    BY <1>1
  <1>3. Used(g) = Used(d)
    BY <1>2 DEF Used
  <1>4. \A j \in Used(d) : d[j].f < n /\ d[j].hash # 0 /\ d[j].f \in Nat /\ j \in 1 .. Len(d)
    BY DentFacts DEF DirfOK, Numbers
  <1>5. DirfOK(g, m)
    <2>1. ASSUME NEW j \in Used(g)
          PROVE  g[j].f < m /\ g[j].hash # 0
      <3>1. g[j].f = d[j].f /\ (g[j] = d[j] \/ g[j] = e)
        BY <1>2, <1>3, <1>4
      <3> QED
        BY <1>3, <1>4, <3>1
    <2>2. ASSUME NEW j \in Used(g), NEW k \in Used(g), j # k
          PROVE  g[j].name # g[k].name /\ g[j].f # g[k].f
      <3>1. d[j].name # d[k].name /\ d[j].f # d[k].f
        BY <1>3, <2>2 DEF DirfOK
      <3>2. g[j].f = d[j].f /\ g[k].f = d[k].f
        BY <1>2, <1>3, <1>4
      <3>3. g[j].name # g[k].name
        BY <1>2, <1>3, <1>4, <2>2, <3>1
      <3> QED
        BY <3>1, <3>2, <3>3
    <2> QED
      BY <2>1, <2>2 DEF DirfOK
  <1>6. Numbered(g) = Numbered(d)
    <2>1. \A j \in Used(d) : g[j].f = d[j].f
      BY <1>2, <1>4
    <2> QED
      BY <1>3, <2>1 DEF Numbered
  <1> QED
    BY <1>1, <1>2, <1>5, <1>6

\* An entry is freed.
LEMMA DirfFree ==
    ASSUME NEW d \in Seq(DentType), NEW n \in Nat, DirfOK(d, n), NEW i \in Used(d)
    PROVE  /\ [d EXCEPT ![i] = FreeDent] \in Seq(DentType)
           /\ DirfOK([d EXCEPT ![i] = FreeDent], n)
           /\ Numbered([d EXCEPT ![i] = FreeDent]) \subseteq Numbered(d) \ {d[i].f}
  <1>1. PICK g : g = [d EXCEPT ![i] = FreeDent]
    OBVIOUS
  <1>2. FreeDent \in DentType /\ FreeDent.name = NULL
    BY ReeFsAssumption DEF FreeDent, DentType, Numbers, Bad
  <1>3. /\ g \in Seq(DentType) /\ DOMAIN g = 1 .. Len(d)
        /\ \A j \in 1 .. Len(d) : g[j] = IF j = i THEN FreeDent ELSE d[j]
    BY <1>1, <1>2, DentFacts
  <1>4. Used(g) = Used(d) \ {i}
    BY <1>2, <1>3 DEF Used
  <1>5. \A j \in Used(g) : j \in Used(d) \ {i} /\ g[j] = d[j]
    BY <1>3, <1>4, DentFacts
  <1>6. DirfOK(g, n)
    BY <1>5 DEF DirfOK
  <1>7. Numbered(g) \subseteq Numbered(d) \ {d[i].f}
    BY <1>5 DEF Numbered, DirfOK
  <1> QED
    BY <1>1, <1>3, <1>6, <1>7

-----------------------------------------------------------------------------
(* Storage *)

DirhOK == dirh # NULL => BitsOK(dirh, disk.dirf, tx) /\ refcount > 0

LEMMA SetupFacts ==
    ASSUME CoreType
    PROVE  setup.updates \in 0 .. MaxTx /\ \A fl \in setup.flags : fl \in SUBSET Modes
  BY ReeFsAssumption DEF CoreType

LEMMA DirfGrows ==
    ASSUME NEW d \in Seq(DentType), NEW n \in Nat, NEW m \in Nat, n <= m, DirfOK(d, n)
    PROVE  DirfOK(d, m)
  <1>1. \A i \in Used(d) : d[i].f \in Nat
    BY DentFacts DEF Numbers
  <1> QED
    BY <1>1 DEF DirfOK

LEMMA DiskGrows ==
    ASSUME NEW d, NEW n \in Nat, NEW m \in Nat, n <= m, DiskOK(d, n)
    PROVE  DiskOK(d, m)
  <1>1. d \in DiskType /\ d.dirf \in Seq(DentType) /\ DirfOK(d.dirf, m)
    BY DirfGrows DEF DiskOK, DiskType
  <1>2. ASSUME NEW f \in Numbers, d.files[f] # NULL
        PROVE  d.files[f] <= m
    <2>1. d.files[f] \in Inodes /\ d.files[f] <= n
      BY <1>2 DEF DiskOK, DiskType
    <2>2. d.files[f] \in Nat
      BY <2>1 DEF Inodes
    <2> QED
      BY <2>1, <2>2
  <1> QED
    BY <1>1, <1>2 DEF DiskOK

LEMMA DirfReplaced ==
    ASSUME NEW d, NEW m \in Nat, DiskOK(d, m), NEW g \in Seq(DentType), DirfOK(g, m)
    PROVE  DiskOK([d EXCEPT !.dirf = g], m) /\ [d EXCEPT !.dirf = g].dirf = g
  BY DEF DiskOK, DiskType

LEMMA DataChanged ==
    ASSUME NEW d, NEW m \in Nat, DiskOK(d, m), NEW i \in Inodes, NEW v \in Vers,
           NEW x \in 0 .. MaxTx
    PROVE  /\ DiskOK([d EXCEPT !.data[i][v] = x], m)
           /\ [d EXCEPT !.data[i][v] = x].dirf = d.dirf
  <1>1. d \in DiskType
    BY DEF DiskOK
  <1>2. PICK e : e = [d EXCEPT !.data[i][v] = x]
    OBVIOUS
  <1>3. e = [d EXCEPT !.data = [d.data EXCEPT ![i] = [d.data[i] EXCEPT ![v] = x]]]
    BY <1>2
  <1>4. [d.data EXCEPT ![i] = [d.data[i] EXCEPT ![v] = x]] \in [Inodes -> [Vers -> 0 .. MaxTx]]
    BY <1>1 DEF DiskType
  <1>5. e \in DiskType /\ e.dirf = d.dirf /\ e.files = d.files
    BY <1>1, <1>3, <1>4 DEF DiskType
  <1> QED
    BY <1>2, <1>5 DEF DiskOK

LEMMA RemovedFacts ==
    ASSUME NEW d, NEW m \in Nat, DiskOK(d, m), NEW f \in Numbers, NEW e \in Removed(d, f)
    PROVE  DiskOK(e, m) /\ e.dirf = d.dirf
  <1>1. CASE e = d
    BY <1>1
  <1>2. CASE e = [d EXCEPT !.files[f] = NULL]
    BY <1>2 DEF DiskOK, DiskType
  <1> QED
    BY <1>1, <1>2 DEF Removed

LEMMA Outcomes ==
    ASSUME NEW c \in CommitOutcomes
    PROVE  c.failed \in BOOLEAN /\ c.done \in BOOLEAN /\ (~c.failed => c.done)
  <1>0. c \in {[failed |-> FALSE, done |-> TRUE], [failed |-> TRUE, done |-> FALSE],
               [failed |-> TRUE, done |-> TRUE]}
    BY DEF CommitOutcomes
  <1>1. CASE c = [failed |-> FALSE, done |-> TRUE]
    BY <1>1
  <1>2. CASE c = [failed |-> TRUE, done |-> FALSE]
    BY <1>2
  <1>3. CASE c = [failed |-> TRUE, done |-> TRUE]
    BY <1>3
  <1> QED
    BY <1>0, <1>1, <1>2, <1>3

LEMMA CommitFacts ==
    ASSUME NEW d, NEW m \in Nat, DiskOK(d, m), NEW g \in Seq(DentType), DirfOK(g, m),
           NEW c \in CommitOutcomes
    PROVE  /\ DiskOK(Commit(d, c, g), m)
           /\ c.failed \in BOOLEAN
           /\ ~c.failed => Commit(d, c, g).dirf = g
           /\ Commit(d, c, g).dirf \in {d.dirf, g}
  <1>1. c.failed \in BOOLEAN /\ c.done \in BOOLEAN /\ (~c.failed => c.done)
    BY Outcomes
  <1>2. CASE c.done
    BY <1>1, <1>2, DirfReplaced DEF Commit
  <1>3. CASE ~c.done
    BY <1>1, <1>3 DEF Commit
  <1> QED
    BY <1>1, <1>2, <1>3

LEMMA StorageFacts ==
    ASSUME StorageOK
    PROVE  /\ tx \in Nat /\ tx <= MaxTx /\ DiskOK(disk, tx)
           /\ disk \in DiskType /\ disk.dirf \in Seq(DentType) /\ DirfOK(disk.dirf, tx)
           /\ BitsOK(Bits, disk.dirf, tx)
  <1>1. /\ tx \in Nat /\ tx <= MaxTx /\ DiskOK(disk, tx)
        /\ disk \in DiskType /\ disk.dirf \in Seq(DentType) /\ DirfOK(disk.dirf, tx)
    BY ReeFsAssumption DEF StorageOK, DiskOK, DiskType
  <1>2. BitsOK(Numbered(disk.dirf), disk.dirf, tx)
    <2>1. \A i \in Used(disk.dirf) : disk.dirf[i].f \in 0 .. (tx - 1)
      BY <1>1, DentFacts DEF DirfOK, Numbers
    <2> QED
      BY <2>1 DEF BitsOK, Numbered
  <1>3. BitsOK(Bits, disk.dirf, tx)
    BY <1>2 DEF Bits, StorageOK
  <1> QED
    BY <1>1, <1>3

LEMMA PutDirh ==
    ASSUME refcount \in Nat, NEW bits, NEW close, put_dirh(bits, close),
           ~close => BitsOK(bits, disk'.dirf, tx')
    PROVE  DirhOK'
  <1>1. CASE close \/ refcount = 0
    BY <1>1 DEF put_dirh, DirhOK
  <1>2. CASE ~(close \/ refcount = 0)
    <2>1. dirh' = bits /\ refcount' > 0
      BY <1>2 DEF put_dirh
    <2>2. BitsOK(dirh', disk'.dirf, tx')
      BY <1>2, <2>1
    <2> QED
      BY <2>1, <2>2 DEF DirhOK, BitsOK, Numbered, Used
  <1> QED
    BY <1>1, <1>2

LEMMA CloseDirh ==
    ASSUME close_dirh
    PROVE  dirh' = NULL /\ dirht' = TRUE /\ refcount' = refcount
  BY DEF close_dirh, put_dirh

LEMMA PutFailedDirh ==
    ASSUME refcount \in Nat, NEW bits, put_failed_dirh(bits),
           BitsOK(bits, disk'.dirf, tx')
    PROVE  DirhOK'
  <1>1. CASE refcount = 0
    BY <1>1 DEF put_failed_dirh, DirhOK
  <1>2. CASE refcount # 0
    <2>1. dirh' = bits /\ refcount' > 0
      BY <1>2 DEF put_failed_dirh
    <2>2. BitsOK(dirh', disk'.dirf, tx')
      BY <2>1
    <2> QED
      BY <2>1, <2>2 DEF DirhOK, BitsOK, Numbered, Used
  <1> QED
    BY <1>1, <1>2

LEMMA KeepDirh ==
    ASSUME refcount \in Nat, NEW bits, keep_dirh(bits), BitsOK(bits, disk'.dirf, tx')
    PROVE  DirhOK'
  <1>1. dirh' = bits /\ refcount' > 0
    BY DEF keep_dirh
  <1>2. BitsOK(dirh', disk'.dirf, tx')
    BY <1>1
  <1> QED
    BY <1>1, <1>2 DEF DirhOK, BitsOK, Numbered, Used

LEMMA PutPrimitive ==
    ASSUME refcount \in Nat, refcount # 0, put_dirh_primitive, DirhOK,
           UNCHANGED <<disk, tx>>
    PROVE  DirhOK'
  <1>1. CASE refcount = 1
    BY <1>1 DEF put_dirh_primitive, DirhOK
  <1>2. CASE refcount # 1
    <2>1. dirh' = dirh /\ refcount' > 0
      BY <1>2 DEF put_dirh_primitive
    <2> QED
      BY <2>1 DEF DirhOK, BitsOK, Numbered, Used
  <1> QED
    BY <1>1, <1>2

LEMMA StorageSame ==
    ASSUME StorageOK, UNCHANGED <<disk, tx>>, DirhOK'
    PROVE  StorageOK'
  BY DEF StorageOK, DirhOK, DiskOK, DirfOK, Used

LEMMA StorageNew ==
    ASSUME tx' \in 0 .. MaxTx, DiskOK(disk', tx'), DirhOK'
    PROVE  StorageOK'
  BY DEF StorageOK, DirhOK, DiskOK, DirfOK, Used

\* The number of a new file is not one of an entry.
LEMMA TmpFacts ==
    ASSUME StorageOK
    PROVE  /\ TmpNumber \in Numbers /\ TmpNumber <= tx /\ TmpNumber \notin Bits
           /\ BitsOK(Bits \cup {TmpNumber}, disk.dirf, tx + 1)
  <1>1. tx \in Numbers \ Bits /\ Numbers \ Bits \in SUBSET Nat /\ tx \in Nat
    BY StorageFacts, ReeFsAssumption DEF BitsOK, Numbers
  <1>2. TmpNumber \in Numbers \ Bits /\ TmpNumber <= tx
    BY <1>1, MinIsLeast DEF TmpNumber
  <1>3. TmpNumber \in 0 .. tx
    BY <1>2 DEF Numbers
  <1>4. Bits \subseteq 0 .. (tx - 1) /\ Numbered(disk.dirf) \subseteq Bits
    BY StorageFacts DEF BitsOK
  <1>5. ASSUME NEW b, b = Bits \cup {TmpNumber}
        PROVE  BitsOK(b, disk.dirf, tx + 1)
    <2>1. b \subseteq 0 .. (tx + 1 - 1)
      BY <1>1, <1>3, <1>4, <1>5
    <2>2. Numbered(disk.dirf) \subseteq b
      BY <1>4, <1>5
    <2> QED
      BY <1>1, <2>1, <2>2 DEF BitsOK
  <1>6. BitsOK(Bits \cup {TmpNumber}, disk.dirf, tx + 1)
    BY <1>5
  <1> QED
    BY <1>2, <1>6

\* The inode of a new file is one of the first tx + 1.
LEMMA InodeFacts ==
    ASSUME StorageOK, CoreType, FilesOK, NEW f \in Numbers
    PROVE  NewInode(f) \in Inodes /\ NewInode(f) <= tx + 1
  <1>1. CASE disk.files[f] # NULL
    <2>1. NewInode(f) = disk.files[f] /\ disk.files[f] \in Inodes /\ disk.files[f] <= tx
      BY <1>1, StorageFacts DEF NewInode, DiskOK, DiskType
    <2>2. tx \in Nat /\ disk.files[f] \in Nat
      BY <2>1, StorageFacts DEF Inodes
    <2>3. disk.files[f] <= tx + 1
      BY <2>1, <2>2
    <2> QED
      BY <2>1, <2>3
  <1>2. CASE disk.files[f] = NULL
    <2>1. tx + 1 \in Inodes /\ tx + 1 # NULL /\ tx \in Nat
      BY StorageFacts, ReeFsAssumption DEF Inodes
    <2>2. tx + 1 \notin {disk.files[g] : g \in Numbers}
      <3>1. \A g \in Numbers : disk.files[g] # NULL => disk.files[g] <= tx
        BY StorageFacts DEF DiskOK
      <3> QED
        BY <2>1, <3>1
    <2>3. ASSUME NEW fh \in OpenFiles \ {NULL}
          PROVE  fh.ino # tx + 1
      <3>1. FileOK(fh, tx)
        BY <2>3 DEF OpenFiles, FilesOK
      <3>2. fh.ino <= tx
        BY <2>3, <3>1 DEF FileOK
      <3> QED
        BY <2>1, <3>2
    <2>4. tx + 1 \notin InUse \cup {NULL}
      BY <2>1, <2>2, <2>3 DEF InUse
    <2>5. PICK s : s = Inodes \ (InUse \cup {NULL})
      OBVIOUS
    <2>6. s \in SUBSET Nat /\ tx + 1 \in s /\ s \subseteq Inodes
      BY <2>1, <2>4, <2>5 DEF Inodes
    <2>7. NewInode(f) = Min(s)
      BY <1>2, <2>5 DEF NewInode
    <2>8. s # {}
      BY <2>6
    <2>9. Min(s) \in s /\ \A y \in s : Min(s) <= y
      BY <2>6, <2>8, MinIsLeast
    <2>10. Min(s) \in Inodes /\ Min(s) <= tx + 1
      BY <2>6, <2>9
    <2> QED
      BY <2>7, <2>10
  <1> QED
    BY <1>1, <1>2

\* Steps that leave storage and the dirfile handle alone
Untouched == UNCHANGED <<disk, tx, dirh, refcount>>

LEMMA StorageStays ==
    ASSUME StorageOK, Untouched
    PROVE  StorageOK'
  BY DEF StorageOK, Untouched, DiskOK, DirfOK, BitsOK, Numbered, Used

LEMMA BitsGrow ==
    ASSUME NEW bits, NEW d, NEW n \in Nat, NEW m \in Nat, n <= m, BitsOK(bits, d, n)
    PROVE  BitsOK(bits, d, m)
  BY DEF BitsOK

LEMMA StorageLost ==
    ASSUME NEW d, LosePower(d), DiskOK(d, tx'), tx' \in 0 .. MaxTx
    PROVE  StorageOK'
  <1>1. disk' = d /\ DirhOK'
    BY DEF LosePower, DirhOK
  <1> QED
    BY <1>1, StorageNew

\* Steps that only open or close the dirfile handle
LEMMA StorageHandle ==
    ASSUME StorageOK, refcount \in Nat, UNCHANGED <<disk, tx>>,
           \/ keep_dirh(Bits)
           \/ \E close \in BOOLEAN : put_dirh(Bits, close)
           \/ put_failed_dirh(Bits)
           \/ dirh' = NULL
    PROVE  StorageOK'
  <1>1. BitsOK(Bits, disk'.dirf, tx')
    <2>1. BitsOK(Bits, disk.dirf, tx)
      BY StorageFacts
    <2> QED
      BY <2>1
  <1>2. DirhOK'
    <2>1. CASE keep_dirh(Bits)
      BY <1>1, <2>1, KeepDirh
    <2>2. CASE \E close \in BOOLEAN : put_dirh(Bits, close)
      BY <1>1, <2>2, PutDirh
    <2>3. CASE dirh' = NULL
      BY <2>3 DEF DirhOK
    <2>4. CASE put_failed_dirh(Bits)
      BY <1>1, <2>4, PutFailedDirh
    <2> QED
      BY <2>1, <2>2, <2>3, <2>4
  <1> QED
    BY <1>2, StorageSame

LEMMA StoragePut ==
    ASSUME StorageOK, refcount \in Nat, refcount # 0, UNCHANGED <<disk, tx>>,
           put_dirh_primitive
    PROVE  StorageOK'
  <1>1. DirhOK
    BY DEF StorageOK, DirhOK
  <1>2. DirhOK'
    BY <1>1, PutPrimitive
  <1> QED
    BY <1>2, StorageSame

\* ree_fs_create: what it writes
Created == CreatedFile(TmpNumber, NewInode(TmpNumber))
NewDent(n) == [name |-> n, f |-> TmpNumber, hash |-> tx + 1]
NewIdx(n) == IF Find(disk.dirf, n) # 0 THEN Find(disk.dirf, n) ELSE EmptyIdx(disk.dirf)
NewDirf(n) == WriteDent(disk.dirf, NewIdx(n), NewDent(n))

LEMMA CreatedFacts ==
    ASSUME StorageOK, CoreType, FilesOK, tx < MaxTx, NEW n \in Names
    PROVE  /\ DiskOK(Created, tx + 1)
           /\ NewDirf(n) \in Seq(DentType) /\ DirfOK(NewDirf(n), tx + 1)
           /\ BitsOK(Bits \cup {TmpNumber}, NewDirf(n), tx + 1)
           /\ NewIdx(n) \in Nat \ {0}
  <1>1. tx \in Nat /\ tx + 1 \in Nat /\ tx <= tx + 1 /\ tx + 1 \in 1 .. MaxTx
    BY StorageFacts, ReeFsAssumption
  <1>2. PICK f, i : f = TmpNumber /\ i = NewInode(f)
    OBVIOUS
  <1>3. f \in Numbers /\ f <= tx /\ f \notin Bits /\ f \in Nat
    BY <1>2, TmpFacts DEF Numbers
  <1>4. i \in Inodes /\ i <= tx + 1
    BY <1>2, <1>3, InodeFacts
  <1>5. DiskOK(Created, tx + 1)
    <2>1. DiskOK(disk, tx + 1) /\ disk \in DiskType
      BY <1>1, StorageFacts, DiskGrows
    <2>2. PICK x : x = [NoFile EXCEPT ![0] = tx + 1]
      OBVIOUS
    <2>3. x \in [Vers -> 0 .. MaxTx]
      BY <1>1, <2>2, ReeFsAssumption DEF NoFile, Vers, Bad
    <2>4. PICK e : e = [disk EXCEPT !.files[f] = i, !.data[i] = x]
      OBVIOUS
    <2>5. /\ e \in DiskType /\ e.dirf = disk.dirf
          /\ e.files = [disk.files EXCEPT ![f] = i]
      BY <1>3, <1>4, <2>1, <2>3, <2>4 DEF DiskType
    <2>6. ASSUME NEW g \in Numbers, e.files[g] # NULL
          PROVE  e.files[g] <= tx + 1
      <3>1. e.files[g] = IF g = f THEN i ELSE disk.files[g]
        BY <2>1, <2>5, <2>6 DEF DiskType
      <3> QED
        BY <1>4, <2>1, <2>6, <3>1 DEF DiskOK
    <2>7. DiskOK(e, tx + 1)
      BY <2>1, <2>5, <2>6 DEF DiskOK
    <2>8. Created = e
      BY <1>2, <2>2, <2>4 DEF Created, CreatedFile
    <2> QED
      BY <2>7, <2>8
  <1>6. PICK d, k, e : d = disk.dirf /\ k = NewIdx(n) /\ e = NewDent(n)
    OBVIOUS
  <1>7. d \in Seq(DentType) /\ DirfOK(d, tx) /\ Numbered(d) \subseteq Bits
    BY <1>6, StorageFacts DEF BitsOK
  <1>8. /\ e \in DentType /\ e.name = n /\ e.f = f
        /\ e.name # NULL /\ e.f < tx + 1 /\ e.hash # 0
    BY <1>1, <1>2, <1>3, <1>6, ReeFsAssumption DEF NewDent, DentType
  <1>9. k \in 1 .. Len(d) + 1 /\ \A j \in Used(d) \ {k} : d[j].name # n
    <2>1. CASE Find(d, n) = 0
      <3>1. k = EmptyIdx(d)
        BY <1>6, <2>1 DEF NewIdx
      <3>2. \A j \in Used(d) : d[j].name # n /\ j # 0
        BY <1>7, <2>1, FindFacts, DentFacts
      <3> QED
        BY <1>7, <3>1, <3>2, EmptyFacts
    <2>2. CASE Find(d, n) # 0
      <3>1. k = Find(d, n)
        BY <1>6, <2>2 DEF NewIdx
      <3>2. k \in Used(d) /\ d[k].name = n
        BY <1>7, <2>2, <3>1, FindFacts
      <3>3. k \in 1 .. Len(d) /\ Len(d) \in Nat
        BY <1>7, <3>2, DentFacts
      <3>4. \A j \in Used(d) \ {k} : d[j].name # d[k].name
        BY <1>7, <3>2 DEF DirfOK
      <3> QED
        BY <3>2, <3>3, <3>4
    <2> QED
      BY <2>1, <2>2
  <1>10. \A j \in Used(d) \ {k} : d[j].name # e.name /\ d[j].f # e.f
    BY <1>3, <1>7, <1>8, <1>9 DEF Numbered
  <1>11. /\ WriteDent(d, k, e) \in Seq(DentType) /\ DirfOK(WriteDent(d, k, e), tx + 1)
         /\ Numbered(WriteDent(d, k, e)) \subseteq Numbered(d) \cup {e.f}
    BY <1>1, <1>7, <1>8, <1>9, <1>10, DirfWrite
  <1>12. NewDirf(n) = WriteDent(d, k, e)
    BY <1>6 DEF NewDirf
  <1>13. BitsOK(Bits \cup {TmpNumber}, NewDirf(n), tx + 1)
    <2>1. PICK b : b = Bits \cup {TmpNumber}
      OBVIOUS
    <2>2. b \subseteq 0 .. (tx + 1 - 1)
      BY <1>1, <2>1, TmpFacts DEF BitsOK
    <2>3. Numbered(NewDirf(n)) \subseteq b
      BY <1>2, <1>7, <1>8, <1>11, <1>12, <2>1
    <2>4. BitsOK(b, NewDirf(n), tx + 1)
      BY <1>1, <2>2, <2>3 DEF BitsOK
    <2> QED
      BY <2>1, <2>4
  <1>14. NewIdx(n) \in Nat \ {0}
    BY <1>6, <1>7, <1>9, DentFacts
  <1> QED
    BY <1>5, <1>11, <1>12, <1>13, <1>14

LEMMA StorageCreate ==
    ASSUME StorageOK, CoreType, FilesOK, NEW t \in Threads, ree_fs_create(t),
           pobj[call[t].po].name \in Names
    PROVE  StorageOK'
  <1>1. PICK n : n = pobj[call[t].po].name
    OBVIOUS
  <1>2. tx < MaxTx /\ tx' = tx + 1 /\ tx' \in 0 .. MaxTx /\ tx \in Nat /\ refcount \in Nat
    <2>1. tx < setup.updates /\ tx' = tx + 1
      BY DEF ree_fs_create
    <2>2. tx \in Nat /\ setup.updates \in 0 .. MaxTx
      BY SetupFacts, StorageFacts
    <2>3. refcount \in Nat
      BY DEF CoreType
    <2> QED
      BY <2>1, <2>2, <2>3, ReeFsAssumption
  <1>3. /\ DiskOK(Created, tx + 1)
        /\ NewDirf(n) \in Seq(DentType) /\ DirfOK(NewDirf(n), tx + 1)
        /\ BitsOK(Bits \cup {TmpNumber}, NewDirf(n), tx + 1)
    BY <1>1, <1>2, CreatedFacts
  <1>4. PICK d2 : d2 = [Created EXCEPT !.dirf = NewDirf(n)]
    OBVIOUS
  <1>5. DiskOK(d2, tx + 1) /\ d2.dirf = NewDirf(n)
    BY <1>2, <1>3, <1>4, DirfReplaced
  <1>6. TmpNumber \in Numbers
    BY TmpFacts
  <1>7. PICK old : old = Find(disk.dirf, n)
    OBVIOUS
  <1>8. old # 0 => disk.dirf[old].f \in Numbers
    BY <1>7, StorageFacts, FindFacts, DentFacts
  <1>9. \/ /\ disk' \in IF old = 0 THEN {d2} ELSE Removed(d2, disk.dirf[old].f)
           /\ keep_dirh(Bits \cup {TmpNumber})
        \/ /\ \E c \in CommitOutcomes : disk' \in Removed(Commit(Created, c, NewDirf(n)), TmpNumber)
           /\ dirh' = NULL
        \/ disk' \in Removed(Created, TmpNumber) /\ dirh' = NULL
        \/ UNCHANGED <<disk, dirh, refcount>>
        \/ LosePower(Created) \/ LosePower(d2)
    BY <1>1, <1>4, <1>7, CloseDirh
    DEF ree_fs_create, Created, NewDirf, NewIdx, NewDent, mem
  <1>10. CASE /\ disk' \in IF old = 0 THEN {d2} ELSE Removed(d2, disk.dirf[old].f)
              /\ keep_dirh(Bits \cup {TmpNumber})
    <2>1. DiskOK(disk', tx + 1) /\ disk'.dirf = NewDirf(n)
      <3>1. CASE old = 0
        BY <1>5, <1>10, <3>1
      <3>2. CASE old # 0
        BY <1>2, <1>5, <1>8, <1>10, <3>2, RemovedFacts
      <3> QED
        BY <3>1, <3>2
    <2>2. BitsOK(Bits \cup {TmpNumber}, disk'.dirf, tx')
      BY <1>2, <1>3, <2>1
    <2>3. DirhOK'
      BY <1>2, <1>10, <2>2, KeepDirh
    <2> QED
      BY <1>2, <2>1, <2>3, StorageNew
  <1>11. CASE /\ \E c \in CommitOutcomes : disk' \in Removed(Commit(Created, c, NewDirf(n)), TmpNumber)
              /\ dirh' = NULL
    <2>1. PICK c \in CommitOutcomes : disk' \in Removed(Commit(Created, c, NewDirf(n)), TmpNumber)
      BY <1>11
    <2>2. DiskOK(Commit(Created, c, NewDirf(n)), tx + 1)
      BY <1>2, <1>3, CommitFacts
    <2>3. DiskOK(disk', tx + 1)
      BY <1>2, <1>6, <2>1, <2>2, RemovedFacts
    <2>4. DirhOK'
      BY <1>11 DEF DirhOK
    <2> QED
      BY <1>2, <2>3, <2>4, StorageNew
  <1>12. CASE disk' \in Removed(Created, TmpNumber) /\ dirh' = NULL
    <2>1. DiskOK(disk', tx + 1)
      BY <1>2, <1>3, <1>6, <1>12, RemovedFacts
    <2>2. DirhOK'
      BY <1>12 DEF DirhOK
    <2> QED
      BY <1>2, <2>1, <2>2, StorageNew
  <1>13. CASE UNCHANGED <<disk, dirh, refcount>>
    <2>1. DiskOK(disk, tx + 1)
      BY <1>2, StorageFacts, DiskGrows
    <2>2. DirhOK'
      <3>1. ASSUME dirh # NULL PROVE BitsOK(dirh, disk.dirf, tx + 1) /\ refcount > 0
        BY <1>2, <3>1, BitsGrow DEF StorageOK
      <3>2. \/ dirh' = NULL
            \/ BitsOK(dirh', disk'.dirf, tx') /\ refcount' > 0
        BY <1>2, <1>13, <3>1
      <3> QED
        BY <3>2 DEF DirhOK, BitsOK, Numbered, Used
    <2> QED
      BY <1>2, <1>13, <2>1, <2>2, StorageNew
  <1>14. CASE LosePower(Created) \/ LosePower(d2)
    BY <1>2, <1>3, <1>5, <1>14, StorageLost
  <1> QED
    BY <1>9, <1>10, <1>11, <1>12, <1>13, <1>14

\* ree_fs_write: the hash of an entry changes, or nothing when the entry is not
\* there.
LEMMA HashFacts ==
    ASSUME StorageOK, tx < MaxTx, NEW fh \in FileType
    PROVE  /\ update_hash(fh) \in Seq(DentType) /\ DirfOK(update_hash(fh), tx + 1)
           /\ Numbered(update_hash(fh)) = Numbered(disk.dirf)
  <1>1. tx \in Nat /\ tx + 1 \in Nat /\ tx <= tx + 1 /\ tx + 1 \in 1 .. MaxTx
    BY StorageFacts, ReeFsAssumption
  <1>2. PICK d, i : d = disk.dirf /\ i = fh.idx
    OBVIOUS
  <1>3. d \in Seq(DentType) /\ DirfOK(d, tx) /\ DOMAIN d = 1 .. Len(d)
    BY <1>2, StorageFacts, DentFacts
  <1>4. CASE i \in 1 .. Len(d)
    <2>1. PICK e : e = [d[i] EXCEPT !.hash = tx + 1]
      OBVIOUS
    <2>2. d[i] \in DentType
      BY <1>3, <1>4, DentFacts
    <2>3. /\ e \in DentType /\ e.f = d[i].f /\ e.name = d[i].name /\ e.hash = tx + 1
      BY <1>1, <2>1, <2>2 DEF DentType
    <2>4. e.hash # 0
      BY <1>1, <2>3
    <2>5. \A j \in Used(d) \ {i} : d[j].name # e.name
      <3>1. CASE i \in Used(d)
        BY <1>3, <2>3, <3>1 DEF DirfOK
      <3>2. CASE i \notin Used(d)
        BY <1>3, <1>4, <2>3, <3>2 DEF Used
      <3> QED
        BY <3>1, <3>2
    <2>6. /\ [d EXCEPT ![i] = e] \in Seq(DentType) /\ DirfOK([d EXCEPT ![i] = e], tx + 1)
          /\ Numbered([d EXCEPT ![i] = e]) = Numbered(d)
      BY <1>1, <1>3, <1>4, <2>3, <2>4, <2>5, DirfChange
    <2>7. update_hash(fh) = [d EXCEPT ![i] = e]
      BY <1>2, <2>1 DEF update_hash
    <2> QED
      BY <1>2, <2>6, <2>7
  <1>5. CASE i \notin 1 .. Len(d)
    <2>1. update_hash(fh) = d
      BY <1>2, <1>3, <1>5 DEF update_hash
    <2> QED
      BY <1>1, <1>2, <1>3, <2>1, DirfGrows
  <1> QED
    BY <1>4, <1>5

LEMMA StorageWrite ==
    ASSUME StorageOK, CoreType, NEW t \in Threads, ree_fs_write(t)
    PROVE  StorageOK'
  <1>1. tx < MaxTx /\ tx' = tx + 1 /\ tx' \in 0 .. MaxTx /\ tx \in Nat /\ refcount \in Nat
    <2>1. tx < setup.updates /\ tx' = tx + 1
      BY DEF ree_fs_write
    <2>2. tx \in Nat /\ setup.updates \in 0 .. MaxTx
      BY SetupFacts, StorageFacts
    <2>3. refcount \in Nat
      BY DEF CoreType
    <2> QED
      BY <2>1, <2>2, <2>3, ReeFsAssumption
  <1>0. PICK h \in Handles : \E d0 \in BeforeWrite(obj[h].fh) :
            LET fh == obj[h].fh
                torn == Written(d0, fh, Bad)
                d1 == Written(d0, fh, tx + 1)
                d2 == [d1 EXCEPT !.dirf = update_hash(fh)]
            IN  /\ obj[h] # NULL
                /\ \/ \E c \in CommitOutcomes :
                         disk' = Commit(d1, c, update_hash(fh)) /\ put_dirh(Bits, c.failed)
                   \/ disk' \in {disk, torn, d1} /\ close_dirh
                   \/ UNCHANGED <<disk, dirh, refcount>>
                   \/ \E d \in {d0, torn, d1} \cup (IF dirht THEN {d2} ELSE {}) : LosePower(d)
    BY ZenonT(60) DEF ree_fs_write, mem, Uses
  <1>2. PICK d0 \in BeforeWrite(obj[h].fh) :
            LET fh == obj[h].fh
                torn == Written(d0, fh, Bad)
                d1 == Written(d0, fh, tx + 1)
                d2 == [d1 EXCEPT !.dirf = update_hash(fh)]
            IN  /\ obj[h] # NULL
                /\ \/ \E c \in CommitOutcomes :
                         disk' = Commit(d1, c, update_hash(fh)) /\ put_dirh(Bits, c.failed)
                   \/ disk' \in {disk, torn, d1} /\ close_dirh
                   \/ UNCHANGED <<disk, dirh, refcount>>
                   \/ \E d \in {d0, torn, d1} \cup (IF dirht THEN {d2} ELSE {}) : LosePower(d)
    BY <1>0
  <1>3. PICK fh, torn, d1, d2 :
           /\ fh = obj[h].fh /\ torn = Written(d0, fh, Bad) /\ d1 = Written(d0, fh, tx + 1)
           /\ d2 = [d1 EXCEPT !.dirf = update_hash(fh)]
    OBVIOUS
  <1>4. fh \in FileType /\ fh.ino \in Inodes /\ fh.slot \in Vers /\ WrittenSlot(fh) \in Vers
    <2>1. fh \in FileType
      BY <1>2, <1>3 DEF CoreType, ObjType
    <2> QED
      BY <2>1 DEF FileType, WrittenSlot, Vers
  <1>5. tx + 1 \in Nat /\ tx <= tx + 1 /\ tx + 1 \in 0 .. MaxTx /\ Bad \in 0 .. MaxTx
    BY <1>1, ReeFsAssumption DEF Bad
  <1>6. DiskOK(disk, tx + 1)
    BY <1>1, <1>5, StorageFacts, DiskGrows
  <1>7. DiskOK(d0, tx + 1) /\ d0.dirf = disk.dirf
    <2>1. d0 = disk \/ d0 = [disk EXCEPT !.data[fh.ino][fh.slot] = Bad]
      BY <1>2, <1>3 DEF BeforeWrite, CutFile
    <2>2. CASE d0 = disk
      BY <1>6, <2>2
    <2>3. CASE d0 = [disk EXCEPT !.data[fh.ino][fh.slot] = Bad]
      BY <1>4, <1>5, <1>6, <2>3, DataChanged
    <2> QED
      BY <2>1, <2>2, <2>3
  <1>8. /\ DiskOK(torn, tx + 1) /\ torn.dirf = disk.dirf
        /\ DiskOK(d1, tx + 1) /\ d1.dirf = disk.dirf
    BY <1>3, <1>4, <1>5, <1>7, DataChanged DEF Written
  <1>9. /\ update_hash(fh) \in Seq(DentType) /\ DirfOK(update_hash(fh), tx + 1)
        /\ Numbered(update_hash(fh)) = Numbered(disk.dirf)
    BY <1>1, <1>4, HashFacts
  <1>10. DiskOK(d2, tx + 1)
    BY <1>3, <1>5, <1>8, <1>9, DirfReplaced
  <1>11. BitsOK(Bits, disk.dirf, tx + 1) /\ BitsOK(Bits, update_hash(fh), tx + 1)
    <2>1. BitsOK(Bits, disk.dirf, tx + 1)
      BY <1>1, <1>5, StorageFacts, BitsGrow
    <2> QED
      BY <1>9, <2>1 DEF BitsOK
  <1>12. ASSUME NEW c \in CommitOutcomes,
                disk' = Commit(d1, c, update_hash(fh)), put_dirh(Bits, c.failed)
         PROVE  StorageOK'
    <2>1. DiskOK(disk', tx + 1) /\ disk'.dirf \in {disk.dirf, update_hash(fh)}
      BY <1>5, <1>8, <1>9, <1>12, CommitFacts
    <2>2. BitsOK(Bits, disk'.dirf, tx')
      BY <1>1, <1>11, <2>1
    <2>3. DirhOK'
      BY <1>1, <1>12, <2>2, PutDirh
    <2> QED
      BY <1>1, <2>1, <2>3, StorageNew
  <1>13. CASE disk' \in {disk, torn, d1} /\ close_dirh
    <2>1. DiskOK(disk', tx')
      BY <1>1, <1>6, <1>8, <1>13
    <2>2. DirhOK'
      BY <1>13, CloseDirh DEF DirhOK
    <2> QED
      BY <1>1, <2>1, <2>2, StorageNew
  <1>14. CASE UNCHANGED <<disk, dirh, refcount>>
    <2>1. DirhOK'
      <3>1. ASSUME dirh # NULL PROVE BitsOK(dirh, disk.dirf, tx + 1) /\ refcount > 0
        BY <1>1, <1>5, <3>1, BitsGrow DEF StorageOK
      <3>2. \/ dirh' = NULL
            \/ BitsOK(dirh', disk'.dirf, tx') /\ refcount' > 0
        BY <1>1, <1>14, <3>1
      <3> QED
        BY <3>2 DEF DirhOK, BitsOK, Numbered, Used
    <2> QED
      BY <1>1, <1>6, <1>14, <2>1, StorageNew
  <1>15. ASSUME NEW d \in {d0, torn, d1} \cup (IF dirht THEN {d2} ELSE {}), LosePower(d)
         PROVE  StorageOK'
    <2>1. DiskOK(d, tx')
      BY <1>1, <1>7, <1>8, <1>10, <1>15
    <2> QED
      BY <1>1, <1>15, <2>1, StorageLost
  <1> QED
    BY <1>2, <1>3, <1>12, <1>13, <1>14, <1>15

LEMMA StorageRemove ==
    ASSUME StorageOK, CoreType, NEW t \in Threads, ree_fs_remove(t)
    PROVE  StorageOK'
  <1>1. PICK i, f, dirf :
           /\ i = Find(disk.dirf, pobj[call[t].po].name)
           /\ f = disk.dirf[i].f
           /\ dirf = [disk.dirf EXCEPT ![i] = FreeDent]
           /\ \/ close_dirh /\ UNCHANGED disk
              \/ /\ i # 0
                 /\ \E c \in CommitOutcomes :
                       /\ disk' \in IF c.failed THEN {Commit(disk, c, dirf)}
                                    ELSE Removed([disk EXCEPT !.dirf = dirf], f)
                       /\ \/ put_dirh(Bits \ {f}, c.failed)
                          \/ ~c.failed /\ fetch_fails /\ put_failed_dirh(Bits \ {f})
              \/ i # 0 /\ LosePower([disk EXCEPT !.dirf = dirf])
    BY DEF ree_fs_remove
  <1>2. /\ tx' = tx /\ tx \in Nat /\ tx \in 0 .. MaxTx /\ refcount \in Nat
        /\ DiskOK(disk, tx) /\ disk.dirf \in Seq(DentType) /\ DirfOK(disk.dirf, tx)
        /\ BitsOK(Bits, disk.dirf, tx)
    BY StorageFacts DEF ree_fs_remove, CoreType, StorageOK
  <1>3. CASE close_dirh /\ UNCHANGED disk
    BY <1>2, <1>3, CloseDirh, StorageHandle
  <1>4. ASSUME i # 0
        PROVE  /\ f \in Numbers
               /\ dirf \in Seq(DentType) /\ DirfOK(dirf, tx)
               /\ BitsOK(Bits \ {f}, dirf, tx)
    <2>1. i \in Used(disk.dirf)
      BY <1>1, <1>2, <1>4, FindFacts
    <2>2. f \in Numbers
      BY <1>1, <1>2, <2>1, DentFacts
    <2>3. /\ dirf \in Seq(DentType) /\ DirfOK(dirf, tx)
          /\ Numbered(dirf) \subseteq Numbered(disk.dirf) \ {f}
      BY <1>1, <1>2, <2>1, DirfFree
    <2>4. BitsOK(Bits \ {f}, dirf, tx)
      BY <1>2, <2>3 DEF BitsOK
    <2> QED
      BY <2>2, <2>3, <2>4
  <1>5. PICK d2 : d2 = [disk EXCEPT !.dirf = dirf]
    OBVIOUS
  <1>6. i # 0 => DiskOK(d2, tx) /\ d2.dirf = dirf
    BY <1>2, <1>4, <1>5, DirfReplaced
  <1>7. ASSUME i # 0, NEW c \in CommitOutcomes,
               disk' \in IF c.failed THEN {Commit(disk, c, dirf)} ELSE Removed(d2, f),
               \/ put_dirh(Bits \ {f}, c.failed)
               \/ ~c.failed /\ fetch_fails /\ put_failed_dirh(Bits \ {f})
        PROVE  StorageOK'
    <2>1. CASE ~c.failed
      <3>1. disk' \in Removed(d2, f)
        BY <1>7, <2>1
      <3>2. DiskOK(disk', tx) /\ disk'.dirf = dirf
        BY <1>2, <1>4, <1>6, <1>7, <3>1, RemovedFacts
      <3>3. BitsOK(Bits \ {f}, disk'.dirf, tx')
        BY <1>2, <1>4, <1>7, <3>2
      <3>4. DirhOK'
        BY <1>2, <1>7, <3>3, PutDirh, PutFailedDirh
      <3> QED
        BY <1>2, <3>2, <3>4, StorageNew
    <2>2. CASE c.failed
      <3>1. disk' = Commit(disk, c, dirf)
        BY <1>7, <2>2
      <3>2. DiskOK(disk', tx)
        BY <1>2, <1>4, <1>7, <3>1, CommitFacts
      <3>3. DirhOK'
        BY <1>2, <1>7, <2>2, PutDirh
      <3> QED
        BY <1>2, <3>2, <3>3, StorageNew
    <2> QED
      BY <2>1, <2>2
  <1>8. CASE i # 0 /\ LosePower(d2)
    BY <1>2, <1>6, <1>8, StorageLost
  <1> QED
    BY <1>1, <1>3, <1>5, <1>7, <1>8

LEMMA StorageRename ==
    ASSUME StorageOK, CoreType, NEW t \in Threads, ree_fs_rename(t),
           pobj[call[t].po].name \in Names
    PROVE  StorageOK'
  <1>1. PICK i, m, dirf :
           /\ i = Find(disk.dirf, pobj[obj[call[t].h].po].name)
           /\ m = pobj[call[t].po].name
           /\ dirf = RenamedDirf(i, m)
    OBVIOUS
  <1>0. \/ dirh' = NULL /\ UNCHANGED disk
        \/ /\ i # 0 /\ Find(disk.dirf, m) = 0
           /\ \E c \in CommitOutcomes :
                 disk' = Commit(disk, c, dirf) /\ put_dirh(Bits, c.failed)
        \/ /\ i # 0 /\ Find(disk.dirf, m) = 0
           /\ LosePower([disk EXCEPT !.dirf = dirf])
    BY <1>1, CloseDirh DEF ree_fs_rename
  <1>2. /\ tx' = tx /\ tx \in Nat /\ tx \in 0 .. MaxTx /\ refcount \in Nat
        /\ DiskOK(disk, tx) /\ disk.dirf \in Seq(DentType) /\ DirfOK(disk.dirf, tx)
        /\ BitsOK(Bits, disk.dirf, tx)
    BY StorageFacts DEF ree_fs_rename, CoreType, StorageOK
  <1>3. CASE dirh' = NULL /\ UNCHANGED disk
    BY <1>2, <1>3, StorageHandle
  <1>4. ASSUME i # 0, Find(disk.dirf, m) = 0
        PROVE  /\ dirf \in Seq(DentType) /\ DirfOK(dirf, tx)
               /\ BitsOK(Bits, dirf, tx)
    <2>1. PICK d : d = disk.dirf
      OBVIOUS
    <2>2. i \in Used(d) /\ i \in 1 .. Len(d) /\ d[i] \in DentType
      BY <1>1, <1>2, <1>4, <2>1, FindFacts, DentFacts
    <2>3. m \in Names /\ m # NULL
      BY <1>1, ReeFsAssumption
    <2>4. \A j \in Used(d) : d[j].name # m
      <3>1. ASSUME NEW j \in Used(d), d[j].name = m PROVE FALSE
        <4>1. Find(d, m) \in Used(d)
          BY <1>2, <2>1, <3>1, FindFacts
        <4>2. 0 \notin Used(d)
          BY <1>2, <2>1, DentFacts
        <4> QED
          BY <1>4, <2>1, <4>1, <4>2
      <3> QED
        BY <3>1
    <2>5. PICK e : e = [d[i] EXCEPT !.name = m]
      OBVIOUS
    <2>6. e \in DentType /\ e.f = d[i].f /\ e.name = m /\ e.hash = d[i].hash
      BY <2>2, <2>3, <2>5 DEF DentType
    <2>7. e.hash # 0 /\ (e.name = NULL <=> d[i].name = NULL)
      BY <1>2, <2>1, <2>2, <2>3, <2>6 DEF DirfOK, Used
    <2>8. /\ [d EXCEPT ![i] = e] \in Seq(DentType) /\ DirfOK([d EXCEPT ![i] = e], tx)
          /\ Numbered([d EXCEPT ![i] = e]) = Numbered(d)
      BY <1>2, <2>1, <2>2, <2>4, <2>6, <2>7, DirfChange
    <2>9. dirf = [d EXCEPT ![i] = e]
      BY <1>1, <2>1, <2>5 DEF RenamedDirf
    <2> QED
      BY <1>2, <2>1, <2>8, <2>9 DEF BitsOK
  <1>5. ASSUME i # 0, Find(disk.dirf, m) = 0, NEW c \in CommitOutcomes,
               disk' = Commit(disk, c, dirf), put_dirh(Bits, c.failed)
        PROVE  StorageOK'
    <2>1. DiskOK(disk', tx) /\ disk'.dirf \in {disk.dirf, dirf}
      BY <1>2, <1>4, <1>5, CommitFacts
    <2>2. BitsOK(Bits, disk'.dirf, tx')
      BY <1>2, <1>4, <1>5, <2>1
    <2>3. DirhOK'
      BY <1>2, <1>5, <2>2, PutDirh
    <2> QED
      BY <1>2, <2>1, <2>3, StorageNew
  <1>6. CASE i # 0 /\ Find(disk.dirf, m) = 0 /\ LosePower([disk EXCEPT !.dirf = dirf])
    BY <1>2, <1>4, <1>6, DirfReplaced, StorageLost
  <1> QED
    BY <1>0, <1>3, <1>5, <1>6

-----------------------------------------------------------------------------
(* Counting *)

LEMMA OneOff ==
    ASSUME NEW U, IsFiniteSet(U), NEW A \in SUBSET U, NEW B \in SUBSET U, NEW x \in U,
           \A y \in U \ {x} : y \in A <=> y \in B
    PROVE  /\ Cardinality(A) \in Nat /\ Cardinality(B) \in Nat
           /\ (x \in A <=> x \in B) => Cardinality(B) = Cardinality(A)
           /\ x \notin A /\ x \in B => Cardinality(B) = Cardinality(A) + 1
           /\ x \in A /\ x \notin B => Cardinality(A) = Cardinality(B) + 1
  <1>1. IsFiniteSet(A) /\ IsFiniteSet(B)
    BY FS_Subset
  <1>2. Cardinality(A) \in Nat /\ Cardinality(B) \in Nat
    BY <1>1, FS_CardinalityType
  <1>3. (x \in A <=> x \in B) => A = B
    OBVIOUS
  <1>4. ASSUME x \notin A, x \in B PROVE Cardinality(B) = Cardinality(A) + 1
    <2>1. B = A \cup {x}
      BY <1>4
    <2> QED
      BY <1>1, <1>4, <2>1, FS_AddElement
  <1>5. ASSUME x \in A, x \notin B PROVE Cardinality(A) = Cardinality(B) + 1
    <2>1. A = B \cup {x}
      BY <1>5
    <2> QED
      BY <1>1, <1>5, <2>1, FS_AddElement
  <1> QED
    BY <1>2, <1>3, <1>4, <1>5

LEMMA Finite == IsFiniteSet(Handles) /\ IsFiniteSet(Threads)
  <1>1. IsFiniteSet(Handles)
    BY FS_Interval, ReeFsAssumption DEF Handles
  <1> QED
    BY <1>1, ReeFsAssumption

\* What one handle, one call and one enumeration add to the counts
HasOne(o, p) == IF HasPobj(o, p) THEN 1 ELSE 0
UsesOne(c, p) == IF UsesPobj(c, p) THEN 1 ELSE 0
ObjOne(o) == IF o # NULL THEN 1 ELSE 0
DirOne(d) == IF d.idx # -1 THEN 1 ELSE 0
HeadOne(c) == IF c.fh # NULL THEN 1 ELSE 0

LEMMA HandlesOfStep ==
    ASSUME CoreType, NEW h \in Handles, NEW o, obj' = [obj EXCEPT ![h] = o], NEW p
    PROVE  /\ Cardinality(HandlesOf(p)) \in Nat /\ Cardinality(HandlesOf(p)') \in Nat
           /\ Cardinality(HandlesOf(p)') + HasOne(obj[h], p) =
                 Cardinality(HandlesOf(p)) + HasOne(o, p)
  <1>1. obj'[h] = o /\ \A k \in Handles \ {h} : obj'[k] = obj[k]
    BY DEF CoreType
  <1>2. PICK A, B : A = HandlesOf(p) /\ B = HandlesOf(p)'
    OBVIOUS
  <1>3. /\ A \in SUBSET Handles /\ B \in SUBSET Handles
        /\ \A k \in Handles : (k \in A <=> HasPobj(obj[k], p)) /\ (k \in B <=> HasPobj(obj'[k], p))
    BY <1>2 DEF HandlesOf, HasPobj
  <1>4. \A k \in Handles \ {h} : k \in A <=> k \in B
    BY <1>1, <1>3
  <1>5. (h \in A <=> HasPobj(obj[h], p)) /\ (h \in B <=> HasPobj(o, p))
    BY <1>1, <1>3
  <1>6. /\ Cardinality(A) \in Nat /\ Cardinality(B) \in Nat
        /\ (h \in A <=> h \in B) => Cardinality(B) = Cardinality(A)
        /\ h \notin A /\ h \in B => Cardinality(B) = Cardinality(A) + 1
        /\ h \in A /\ h \notin B => Cardinality(A) = Cardinality(B) + 1
    BY <1>3, <1>4, Finite, OneOff
  <1>7. Cardinality(B) + HasOne(obj[h], p) = Cardinality(A) + HasOne(o, p)
    BY <1>5, <1>6 DEF HasOne
  <1> QED
    BY <1>2, <1>6, <1>7

LEMMA CallsOfStep ==
    ASSUME CoreType, NEW t \in Threads, NEW c, call' = [call EXCEPT ![t] = c], NEW p
    PROVE  /\ Cardinality(CallsOf(p)) \in Nat /\ Cardinality(CallsOf(p)') \in Nat
           /\ Cardinality(CallsOf(p)') + UsesOne(call[t], p) =
                 Cardinality(CallsOf(p)) + UsesOne(c, p)
  <1>1. call'[t] = c /\ \A k \in Threads \ {t} : call'[k] = call[k]
    BY DEF CoreType
  <1>2. PICK A, B : A = CallsOf(p) /\ B = CallsOf(p)'
    OBVIOUS
  <1>3. /\ A \in SUBSET Threads /\ B \in SUBSET Threads
        /\ \A k \in Threads : (k \in A <=> UsesPobj(call[k], p)) /\ (k \in B <=> UsesPobj(call'[k], p))
    BY <1>2 DEF CallsOf, UsesPobj, Referring
  <1>4. \A k \in Threads \ {t} : k \in A <=> k \in B
    BY <1>1, <1>3
  <1>5. (t \in A <=> UsesPobj(call[t], p)) /\ (t \in B <=> UsesPobj(c, p))
    BY <1>1, <1>3
  <1>6. /\ Cardinality(A) \in Nat /\ Cardinality(B) \in Nat
        /\ (t \in A <=> t \in B) => Cardinality(B) = Cardinality(A)
        /\ t \notin A /\ t \in B => Cardinality(B) = Cardinality(A) + 1
        /\ t \in A /\ t \notin B => Cardinality(A) = Cardinality(B) + 1
    BY <1>3, <1>4, Finite, OneOff
  <1>7. Cardinality(B) + UsesOne(call[t], p) = Cardinality(A) + UsesOne(c, p)
    BY <1>5, <1>6 DEF UsesOne
  <1> QED
    BY <1>2, <1>6, <1>7

LEMMA ObjectsStep ==
    ASSUME CoreType, NEW h \in Handles, NEW o, obj' = [obj EXCEPT ![h] = o]
    PROVE  /\ Cardinality(OpenObjects) \in Nat /\ Cardinality(OpenObjects') \in Nat
           /\ Cardinality(OpenObjects') + ObjOne(obj[h]) = Cardinality(OpenObjects) + ObjOne(o)
  <1>1. obj'[h] = o /\ \A k \in Handles \ {h} : obj'[k] = obj[k]
    BY DEF CoreType
  <1>2. PICK A, B : A = OpenObjects /\ B = OpenObjects'
    OBVIOUS
  <1>3. /\ A \in SUBSET Handles /\ B \in SUBSET Handles
        /\ \A k \in Handles : (k \in A <=> obj[k] # NULL) /\ (k \in B <=> obj'[k] # NULL)
    BY <1>2 DEF OpenObjects
  <1>4. \A k \in Handles \ {h} : k \in A <=> k \in B
    BY <1>1, <1>3
  <1>5. (h \in A <=> obj[h] # NULL) /\ (h \in B <=> o # NULL)
    BY <1>1, <1>3
  <1>6. /\ Cardinality(A) \in Nat /\ Cardinality(B) \in Nat
        /\ (h \in A <=> h \in B) => Cardinality(B) = Cardinality(A)
        /\ h \notin A /\ h \in B => Cardinality(B) = Cardinality(A) + 1
        /\ h \in A /\ h \notin B => Cardinality(A) = Cardinality(B) + 1
    BY <1>3, <1>4, Finite, OneOff
  <1>7. Cardinality(B) + ObjOne(obj[h]) = Cardinality(A) + ObjOne(o)
    BY <1>5, <1>6 DEF ObjOne
  <1> QED
    BY <1>2, <1>6, <1>7

LEMMA HeadsStep ==
    ASSUME CoreType, NEW t \in Threads, NEW c, call' = [call EXCEPT ![t] = c]
    PROVE  /\ Cardinality(OpenHeads) \in Nat /\ Cardinality(OpenHeads') \in Nat
           /\ Cardinality(OpenHeads') + HeadOne(call[t]) = Cardinality(OpenHeads) + HeadOne(c)
  <1>1. call'[t] = c /\ \A k \in Threads \ {t} : call'[k] = call[k]
    BY DEF CoreType
  <1>2. PICK A, B : A = OpenHeads /\ B = OpenHeads'
    OBVIOUS
  <1>3. /\ A \in SUBSET Threads /\ B \in SUBSET Threads
        /\ \A k \in Threads : (k \in A <=> call[k].fh # NULL) /\ (k \in B <=> call'[k].fh # NULL)
    BY <1>2 DEF OpenHeads
  <1>4. \A k \in Threads \ {t} : k \in A <=> k \in B
    BY <1>1, <1>3
  <1>5. (t \in A <=> call[t].fh # NULL) /\ (t \in B <=> c.fh # NULL)
    BY <1>1, <1>3
  <1>6. /\ Cardinality(A) \in Nat /\ Cardinality(B) \in Nat
        /\ (t \in A <=> t \in B) => Cardinality(B) = Cardinality(A)
        /\ t \notin A /\ t \in B => Cardinality(B) = Cardinality(A) + 1
        /\ t \in A /\ t \notin B => Cardinality(A) = Cardinality(B) + 1
    BY <1>3, <1>4, Finite, OneOff
  <1>7. Cardinality(B) + HeadOne(call[t]) = Cardinality(A) + HeadOne(c)
    BY <1>5, <1>6 DEF HeadOne
  <1> QED
    BY <1>2, <1>6, <1>7

LEMMA DirsStep ==
    ASSUME CoreType, NEW t \in Threads, \A u \in Threads \ {t} : dir'[u].idx = dir[u].idx
    PROVE  /\ Cardinality(OpenDirs) \in Nat /\ Cardinality(OpenDirs') \in Nat
           /\ Cardinality(OpenDirs') + DirOne(dir[t]) = Cardinality(OpenDirs) + DirOne(dir'[t])
  <1>2. PICK A, B : A = OpenDirs /\ B = OpenDirs'
    OBVIOUS
  <1>3. /\ A \in SUBSET Threads /\ B \in SUBSET Threads
        /\ \A k \in Threads : (k \in A <=> dir[k].idx # -1) /\ (k \in B <=> dir'[k].idx # -1)
    BY <1>2 DEF OpenDirs
  <1>4. \A k \in Threads \ {t} : k \in A <=> k \in B
    BY <1>3
  <1>5. (t \in A <=> dir[t].idx # -1) /\ (t \in B <=> dir'[t].idx # -1)
    BY <1>3
  <1>6. /\ Cardinality(A) \in Nat /\ Cardinality(B) \in Nat
        /\ (t \in A <=> t \in B) => Cardinality(B) = Cardinality(A)
        /\ t \notin A /\ t \in B => Cardinality(B) = Cardinality(A) + 1
        /\ t \in A /\ t \notin B => Cardinality(A) = Cardinality(B) + 1
    BY <1>3, <1>4, Finite, OneOff
  <1>7. Cardinality(B) + DirOne(dir[t]) = Cardinality(A) + DirOne(dir'[t])
    BY <1>5, <1>6 DEF DirOne
  <1> QED
    BY <1>2, <1>6, <1>7

-----------------------------------------------------------------------------
(* Steps of a thread *)

\* Thread t goes on with call c.
CallStep(t, c) ==
    /\ c \in CallType /\ call' = [call EXCEPT ![t] = c]
    /\ FileOK(c.fh, tx')
    /\ CallOK(t, c, obj')

\* One of the handles, free or of thread t, is oo before the step and o after it.
ObjStep(t, oo, o) ==
    /\ o # NULL => o \in ObjType /\ FileOK(o.fh, tx')
    /\ oo # NULL => oo \in ObjType /\ oo.own = t
    /\ \/ \E h \in Handles : oo = obj[h] /\ obj' = [obj EXCEPT ![h] = o]
       \/ oo = o /\ obj' = obj

\* The references to open objects follow the call and the handle.
PobjStep(t, c, oo, o) ==
    /\ pobj' \in [Pobjs -> PobjType \cup {NULL}]
    /\ \A p \in Pobjs :
          RefCnt(pobj'[p]) + UsesOne(call[t], p) + HasOne(oo, p) =
          RefCnt(pobj[p]) + UsesOne(c, p) + HasOne(o, p)

\* So do the references to the dirfile handle, with the enumeration.
DirhStep(t, c, oo, o) ==
    /\ dir' \in [Threads -> DirType]
    /\ \A u \in Threads \ {t} : dir'[u].idx = dir[u].idx
    /\ refcount' \in Int
    /\ refcount' + DirOne(dir[t]) + HeadOne(call[t]) + ObjOne(oo) =
       refcount + DirOne(dir'[t]) + HeadOne(c) + ObjOne(o)

\* The rest
Elsewhere == setup' = setup /\ panicked' \in BOOLEAN /\ tx' \in Nat /\ tx <= tx'

ThreadStep(t) ==
    /\ Elsewhere
    /\ \E c, oo, o : /\ CallStep(t, c) /\ ObjStep(t, oo, o)
                     /\ PobjStep(t, c, oo, o) /\ DirhStep(t, c, oo, o)

LEMMA FileGrows ==
    ASSUME tx \in Nat, Elsewhere, NEW fh, fh = NULL \/ fh \in FileType, FileOK(fh, tx)
    PROVE  FileOK(fh, tx')
  <1>1. CASE fh = NULL
    BY <1>1 DEF FileOK
  <1>2. CASE fh \in FileType
    <2>1. fh.ino \in Nat /\ fh # NULL
      BY <1>2, ReeFsAssumption DEF FileType, Inodes
    <2> QED
      BY <2>1 DEF FileOK, Elsewhere
  <1> QED
    BY <1>1, <1>2

\* The handle of the step, when there is one
LEMMA ObjChange ==
    ASSUME CoreType, NEW t \in Threads, NEW oo, NEW o, ObjStep(t, oo, o)
    PROVE  /\ obj' \in [Handles -> ObjType \cup {NULL}]
           /\ \A k \in Handles : \/ obj'[k] = obj[k]
                                 \/ obj'[k] = o /\ (obj[k] = NULL \/ obj[k].own = t)
  <1>1. CASE \E h \in Handles : oo = obj[h] /\ obj' = [obj EXCEPT ![h] = o]
    BY <1>1 DEF ObjStep, CoreType
  <1>2. CASE obj' = obj
    BY <1>2 DEF CoreType
  <1> QED
    BY <1>1, <1>2 DEF ObjStep

LEMMA HandleCounts ==
    ASSUME CoreType, NEW t \in Threads, NEW oo, NEW o, ObjStep(t, oo, o)
    PROVE  /\ Cardinality(OpenObjects) \in Nat /\ Cardinality(OpenObjects') \in Nat
           /\ Cardinality(OpenObjects') + ObjOne(oo) = Cardinality(OpenObjects) + ObjOne(o)
           /\ \A p \in Pobjs :
                /\ Cardinality(HandlesOf(p)) \in Nat /\ Cardinality(HandlesOf(p)') \in Nat
                /\ Cardinality(HandlesOf(p)') + HasOne(oo, p) =
                      Cardinality(HandlesOf(p)) + HasOne(o, p)
  <1>1. CASE \E h \in Handles : oo = obj[h] /\ obj' = [obj EXCEPT ![h] = o]
    <2>1. PICK h \in Handles : oo = obj[h] /\ obj' = [obj EXCEPT ![h] = o]
      BY <1>1
    <2> QED
      BY <2>1, ObjectsStep, HandlesOfStep
  <1>2. CASE oo = o /\ obj' = obj
    <2>1. OpenObjects' = OpenObjects /\ OpenObjects \in SUBSET Handles
      BY <1>2 DEF OpenObjects
    <2>2. Cardinality(OpenObjects) \in Nat
      BY <2>1, Finite, FS_Subset, FS_CardinalityType
    <2>3. ASSUME NEW p \in Pobjs
          PROVE  /\ Cardinality(HandlesOf(p)) \in Nat
                 /\ HandlesOf(p)' = HandlesOf(p)
      <3>1. HandlesOf(p)' = HandlesOf(p) /\ HandlesOf(p) \in SUBSET Handles
        BY <1>2 DEF HandlesOf, HasPobj
      <3> QED
        BY <3>1, Finite, FS_Subset, FS_CardinalityType
    <2> QED
      BY <1>2, <2>1, <2>2, <2>3
  <1> QED
    BY <1>1, <1>2 DEF ObjStep

\* The calls of other threads are not disturbed.
LEMMA OtherCalls ==
    ASSUME CoreType, NEW t \in Threads, NEW oo, NEW o, ObjStep(t, oo, o),
           NEW u \in Threads \ {t}, NEW c, CallOK(u, c, obj)
    PROVE  CallOK(u, c, obj')
  <1>1. \A k \in Handles : obj[k] # NULL /\ obj[k].own = u => obj'[k] = obj[k]
    BY ObjChange
  <1>2. c.pc = "create_final" =>
          \E h \in Handles : obj'[h] # NULL /\ obj'[h].own = u /\ obj'[h].po = c.po
    BY <1>1 DEF CallOK
  <1>3. c.pc \in {"rename", "pobj_rename"} =>
          c.h \in Handles /\ obj'[c.h] # NULL /\ obj'[c.h].own = u
    BY <1>1 DEF CallOK
  <1> QED
    BY <1>2, <1>3 DEF CallOK

LEMMA BothCounts ==
    ASSUME NEW r0 \in Int, NEW r1 \in Int, NEW a0 \in Int, NEW a1 \in Int,
           NEW b0 \in Int, NEW b1 \in Int, NEW x0 \in Int, NEW x1 \in Int,
           NEW y0 \in Int, NEW y1 \in Int,
           r0 = a0 + b0, a1 + x0 = a0 + x1, b1 + y0 = b0 + y1,
           r1 + y0 + x0 = r0 + y1 + x1
    PROVE  r1 = a1 + b1
  OBVIOUS

LEMMA ThreadStepKeeps ==
    ASSUME ReeFsInv, NEW t \in Threads, ThreadStep(t), StorageOK'
    PROVE  ReeFsInv'
  <1>1. PICK c, oo, o : /\ CallStep(t, c) /\ ObjStep(t, oo, o)
                        /\ PobjStep(t, c, oo, o) /\ DirhStep(t, c, oo, o)
    BY DEF ThreadStep
  <1>2. CoreType /\ Elsewhere /\ tx \in Nat
    BY StorageFacts DEF ReeFsInv, ThreadStep
  <1>3. call' \in [Threads -> CallType] /\ call'[t] = c /\ \A u \in Threads \ {t} : call'[u] = call[u]
    BY <1>1, <1>2 DEF CallStep, CoreType
  <1>4. /\ obj' \in [Handles -> ObjType \cup {NULL}]
        /\ \A k \in Handles : obj'[k] = obj[k] \/ obj'[k] = o
    BY <1>1, <1>2, ObjChange
  <1>5. DirhCount' /\ refcount' \in Nat
    <2>1. /\ Cardinality(OpenObjects) \in Nat /\ Cardinality(OpenObjects') \in Nat
          /\ Cardinality(OpenObjects') + ObjOne(oo) = Cardinality(OpenObjects) + ObjOne(o)
      BY <1>1, <1>2, HandleCounts
    <2>2. /\ Cardinality(OpenHeads) \in Nat /\ Cardinality(OpenHeads') \in Nat
          /\ Cardinality(OpenHeads') + HeadOne(call[t]) = Cardinality(OpenHeads) + HeadOne(c)
      BY <1>1, <1>2, HeadsStep DEF CallStep
    <2>3. /\ Cardinality(OpenDirs) \in Nat /\ Cardinality(OpenDirs') \in Nat
          /\ Cardinality(OpenDirs') + DirOne(dir[t]) = Cardinality(OpenDirs) + DirOne(dir'[t])
      BY <1>1, <1>2, DirsStep DEF DirhStep
    <2>4. /\ ObjOne(o) \in Int /\ ObjOne(oo) \in Int /\ HeadOne(c) \in Int
          /\ HeadOne(call[t]) \in Int /\ DirOne(dir[t]) \in Int /\ DirOne(dir'[t]) \in Int
      BY DEF ObjOne, HeadOne, DirOne
    <2>5. /\ refcount' \in Int
          /\ refcount' + DirOne(dir[t]) + HeadOne(call[t]) + ObjOne(oo) =
             refcount + DirOne(dir'[t]) + HeadOne(c) + ObjOne(o)
      BY <1>1 DEF DirhStep
    <2>6. refcount = Cardinality(OpenObjects) + Cardinality(OpenDirs) + Cardinality(OpenHeads)
      BY DEF ReeFsInv, DirhCount
    <2>7. refcount' = Cardinality(OpenObjects') + Cardinality(OpenDirs') + Cardinality(OpenHeads')
      <3>1. refcount \in Int
        BY <2>1, <2>2, <2>3, <2>6
      <3>2. PICK a0, a1, b0, b1, c0, c1 :
               /\ a0 = Cardinality(OpenObjects) /\ a1 = Cardinality(OpenObjects')
               /\ b0 = Cardinality(OpenDirs) /\ b1 = Cardinality(OpenDirs')
               /\ c0 = Cardinality(OpenHeads) /\ c1 = Cardinality(OpenHeads')
        OBVIOUS
      <3>3. PICK x0, x1, y0, y1, z0, z1 :
               /\ x0 = ObjOne(oo) /\ x1 = ObjOne(o)
               /\ y0 = DirOne(dir[t]) /\ y1 = DirOne(dir'[t])
               /\ z0 = HeadOne(call[t]) /\ z1 = HeadOne(c)
        OBVIOUS
      <3>4. /\ a0 \in Int /\ a1 \in Int /\ b0 \in Int /\ b1 \in Int /\ c0 \in Int /\ c1 \in Int
            /\ x0 \in Int /\ x1 \in Int /\ y0 \in Int /\ y1 \in Int /\ z0 \in Int /\ z1 \in Int
        BY <2>1, <2>2, <2>3, <2>4, <3>2, <3>3
      <3>5. /\ a1 + x0 = a0 + x1 /\ b1 + y0 = b0 + y1 /\ c1 + z0 = c0 + z1
            /\ refcount = a0 + b0 + c0
            /\ refcount' + y0 + z0 + x0 = refcount + y1 + z1 + x1
        BY <2>1, <2>2, <2>3, <2>5, <2>6, <3>2, <3>3
      <3>6. refcount' = a1 + b1 + c1
        <4>1. PICK r0, r1 : r0 = refcount /\ r1 = refcount'
          OBVIOUS
        <4>2. r0 \in Int /\ r1 \in Int
          BY <2>5, <3>1, <4>1
        <4>3. /\ a1 + x0 = a0 + x1 /\ b1 + y0 = b0 + y1 /\ c1 + z0 = c0 + z1
              /\ r0 = a0 + b0 + c0 /\ r1 + y0 + z0 + x0 = r0 + y1 + z1 + x1
          BY <3>5, <4>1
        <4>4. r1 = a1 + b1 + c1
          BY <3>4, <4>2, <4>3
        <4> QED
          BY <4>1, <4>4
      <3> QED
        BY <3>2, <3>6
    <2> QED
      BY <2>1, <2>2, <2>3, <2>7 DEF DirhCount
  <1>6. CoreType'
    BY <1>1, <1>2, <1>3, <1>4, <1>5 DEF CoreType, Elsewhere, PobjStep, DirhStep
  <1>7. FilesOK'
    <2>1. ASSUME NEW h \in Handles, obj'[h] # NULL
          PROVE  FileOK(obj'[h].fh, tx')
      <3>1. CASE obj'[h] = o
        BY <1>1, <2>1, <3>1 DEF ObjStep
      <3>2. CASE obj'[h] = obj[h]
        <4>1. obj[h].fh \in FileType /\ FileOK(obj[h].fh, tx)
          BY <1>2, <2>1, <3>2 DEF CoreType, ObjType, ReeFsInv, FilesOK
        <4> QED
          BY <1>2, <3>2, <4>1, FileGrows
      <3> QED
        BY <1>4, <3>1, <3>2
    <2>2. ASSUME NEW u \in Threads
          PROVE  FileOK(call'[u].fh, tx')
      <3>1. CASE u = t
        BY <1>1, <1>3, <3>1 DEF CallStep
      <3>2. CASE u # t
        <4>1. call[u].fh \in FileType \cup {NULL} /\ FileOK(call[u].fh, tx)
          BY <1>2 DEF CoreType, CallType, ReeFsInv, FilesOK
        <4> QED
          BY <1>2, <1>3, <3>2, <4>1, FileGrows
      <3> QED
        BY <3>1, <3>2
    <2> QED
      BY <2>1, <2>2 DEF FilesOK, FileOK
  <1>8. CallsOK'
    <2>1. ASSUME NEW u \in Threads
          PROVE  CallOK(u, call'[u], obj')
      <3>1. CASE u = t
        BY <1>1, <1>3, <3>1 DEF CallStep
      <3>2. CASE u # t
        <4>1. CallOK(u, call[u], obj)
          BY DEF ReeFsInv, CallsOK
        <4> QED
          BY <1>1, <1>2, <1>3, <3>2, <4>1, OtherCalls
      <3> QED
        BY <3>1, <3>2
    <2> QED
      BY <2>1 DEF CallsOK, CallOK, Referring
  <1>9. PobjCounts'
    <2>1. ASSUME NEW p \in Pobjs
          PROVE  RefCnt(pobj'[p]) = Cardinality(HandlesOf(p)') + Cardinality(CallsOf(p)')
      <3>1. /\ Cardinality(HandlesOf(p)) \in Nat /\ Cardinality(HandlesOf(p)') \in Nat
            /\ Cardinality(HandlesOf(p)') + HasOne(oo, p) =
                  Cardinality(HandlesOf(p)) + HasOne(o, p)
        BY <1>1, <1>2, HandleCounts
      <3>2. /\ Cardinality(CallsOf(p)) \in Nat /\ Cardinality(CallsOf(p)') \in Nat
            /\ Cardinality(CallsOf(p)') + UsesOne(call[t], p) =
                  Cardinality(CallsOf(p)) + UsesOne(c, p)
        BY <1>1, <1>2, CallsOfStep DEF CallStep
      <3>3. /\ HasOne(o, p) \in Int /\ HasOne(oo, p) \in Int
            /\ UsesOne(c, p) \in Int /\ UsesOne(call[t], p) \in Int
        BY DEF HasOne, UsesOne
      <3>4. RefCnt(pobj[p]) = Cardinality(HandlesOf(p)) + Cardinality(CallsOf(p))
        BY DEF ReeFsInv, PobjCounts
      <3>5. /\ RefCnt(pobj'[p]) + UsesOne(call[t], p) + HasOne(oo, p) =
               RefCnt(pobj[p]) + UsesOne(c, p) + HasOne(o, p)
            /\ pobj'[p] \in PobjType \cup {NULL}
        BY <1>1 DEF PobjStep
      <3>6. RefCnt(pobj'[p]) \in Int
        BY <3>5 DEF RefCnt, PobjType
      <3>7. RefCnt(pobj[p]) \in Int
        BY <3>1, <3>2, <3>4
      <3> QED
        BY <3>1, <3>2, <3>3, <3>4, <3>5, <3>6, <3>7, BothCounts
    <2> QED
      BY <2>1 DEF PobjCounts, RefCnt
  <1> QED
    BY <1>5, <1>6, <1>7, <1>8, <1>9 DEF ReeFsInv

-----------------------------------------------------------------------------
(* After the start and after a loss of power nothing is open. *)

Fresh ==
    /\ setup \in Setups /\ panicked \in BOOLEAN /\ refcount = 0
    /\ pobj = Volatile.pobj /\ obj = Volatile.obj
    /\ dir = Volatile.dir /\ call = Volatile.call

LEMMA IdleFacts ==
    /\ Idle \in CallType /\ Idle.pc = "idle" /\ Idle.fh = NULL /\ Idle.h = NULL /\ ~Referring(Idle)
    /\ NoDir \in DirType /\ NoDir.idx = -1
  BY DEF Idle, CallType, PCs, Referring, NoDir, DirType

LEMMA FreshInv == Fresh /\ StorageOK => ReeFsInv
  <1> SUFFICES ASSUME Fresh, StorageOK PROVE ReeFsInv
    OBVIOUS
  <1>1. /\ pobj = [p \in Pobjs |-> NULL] /\ obj = [h \in Handles |-> NULL]
        /\ dir = [t \in Threads |-> NoDir] /\ call = [t \in Threads |-> Idle]
    BY DEF Fresh, Volatile
  <1>2. CoreType
    BY <1>1, IdleFacts DEF Fresh, CoreType
  <1>3. \A t \in Threads : call[t] = Idle /\ dir[t] = NoDir
    BY <1>1
  <1>4. (\A h \in Handles : obj[h] = NULL) /\ \A p \in Pobjs : pobj[p] = NULL
    BY <1>1
  <1>5. FilesOK
    BY <1>3, <1>4, IdleFacts DEF FilesOK, FileOK
  <1>6. CallsOK
    BY <1>3, IdleFacts DEF CallsOK, CallOK
  <1>7. PobjCounts
    <2>1. ASSUME NEW p \in Pobjs
          PROVE  HandlesOf(p) = {} /\ CallsOf(p) = {}
      BY <1>3, <1>4, IdleFacts DEF HandlesOf, HasPobj, CallsOf, UsesPobj
    <2>2. Cardinality({}) = 0
      BY FS_EmptySet
    <2> QED
      BY <1>4, <2>1, <2>2 DEF PobjCounts, RefCnt
  <1>8. DirhCount
    <2>1. OpenObjects = {} /\ OpenDirs = {} /\ OpenHeads = {}
      BY <1>3, <1>4, IdleFacts DEF OpenObjects, OpenDirs, OpenHeads
    <2>2. Cardinality({}) = 0
      BY FS_EmptySet
    <2> QED
      BY <2>1, <2>2 DEF DirhCount, Fresh
  <1> QED
    BY <1>2, <1>5, <1>6, <1>7, <1>8 DEF ReeFsInv

LEMMA FreshNext == Fresh' /\ StorageOK' => ReeFsInv'
  BY FreshInv, PTL

LEMMA LostKeeps ==
    ASSUME CoreType, NEW d, LosePower(d), setup' = setup, panicked' = panicked, StorageOK'
    PROVE  ReeFsInv'
  <1>1. Fresh'
    BY DEF CoreType, LosePower, Fresh, Volatile
  <1> QED
    BY <1>1, FreshNext

-----------------------------------------------------------------------------
(* What is referred to is there. *)

LEMMA PobjThere ==
    ASSUME ReeFsInv, NEW p \in Pobjs,
           \/ \E h \in Handles : HasPobj(obj[h], p)
           \/ \E t \in Threads : UsesPobj(call[t], p)
    PROVE  pobj[p] \in PobjType /\ pobj[p] # NULL /\ pobj[p].name \in Names
  <1>1. HandlesOf(p) \in SUBSET Handles /\ CallsOf(p) \in SUBSET Threads
    BY DEF HandlesOf, CallsOf
  <1>2. IsFiniteSet(HandlesOf(p)) /\ IsFiniteSet(CallsOf(p))
    BY <1>1, Finite, FS_Subset
  <1>3. /\ Cardinality(HandlesOf(p)) \in Nat /\ Cardinality(CallsOf(p)) \in Nat
        /\ Cardinality(HandlesOf(p)) = 0 <=> HandlesOf(p) = {}
        /\ Cardinality(CallsOf(p)) = 0 <=> CallsOf(p) = {}
    BY <1>2, FS_CardinalityType, FS_EmptySet
  <1>4. HandlesOf(p) # {} \/ CallsOf(p) # {}
    BY DEF HandlesOf, CallsOf
  <1>5. RefCnt(pobj[p]) = Cardinality(HandlesOf(p)) + Cardinality(CallsOf(p))
    BY DEF ReeFsInv, PobjCounts
  <1>6. RefCnt(pobj[p]) # 0
    BY <1>3, <1>4, <1>5
  <1>7. pobj[p] # NULL
    BY <1>6 DEF RefCnt
  <1>8. pobj[p] \in PobjType
    BY <1>7 DEF ReeFsInv, CoreType
  <1>9. pobj[p].name \in Names
    BY <1>8 DEF PobjType
  <1> QED
    BY <1>7, <1>8, <1>9

LEMMA DirhInUse ==
    ASSUME ReeFsInv,
           \/ \E h \in Handles : obj[h] # NULL
           \/ \E t \in Threads : dir[t].idx # -1
           \/ \E t \in Threads : call[t].fh # NULL
    PROVE  refcount \in Nat /\ refcount # 0
  <1>1. OpenObjects \in SUBSET Handles /\ OpenDirs \in SUBSET Threads /\ OpenHeads \in SUBSET Threads
    BY DEF OpenObjects, OpenDirs, OpenHeads
  <1>2. IsFiniteSet(OpenObjects) /\ IsFiniteSet(OpenDirs) /\ IsFiniteSet(OpenHeads)
    BY <1>1, Finite, FS_Subset
  <1>3. PICK a, b, c : /\ a = Cardinality(OpenObjects) /\ b = Cardinality(OpenDirs)
                       /\ c = Cardinality(OpenHeads)
    OBVIOUS
  <1>4. /\ a \in Nat /\ b \in Nat /\ c \in Nat
        /\ (a = 0 <=> OpenObjects = {}) /\ (b = 0 <=> OpenDirs = {}) /\ (c = 0 <=> OpenHeads = {})
    BY <1>2, <1>3, FS_CardinalityType, FS_EmptySet
  <1>5. OpenObjects # {} \/ OpenDirs # {} \/ OpenHeads # {}
    BY DEF OpenObjects, OpenDirs, OpenHeads
  <1>6. refcount = a + b + c
    BY <1>3 DEF ReeFsInv, DirhCount
  <1> QED
    BY <1>4, <1>5, <1>6

-----------------------------------------------------------------------------
(* The parts of a step *)

LEMMA CallFacts ==
    ASSUME CoreType, CallsOK, NEW t \in Threads
    PROVE  call[t] \in CallType /\ CallOK(t, call[t], obj)
  BY DEF CoreType, CallsOK

LEMMA NoHandle ==
    ASSUME NEW t, UNCHANGED obj
    PROVE  ObjStep(t, NULL, NULL)
  BY DEF ObjStep

LEMMA SameElsewhere ==
    ASSUME CoreType, StorageOK, UNCHANGED <<setup, tx, panicked>>
    PROVE  Elsewhere
  BY StorageFacts DEF Elsewhere, CoreType

\* Enumerations go on.
SameDirs == dir' \in [Threads -> DirType] /\ \A u \in Threads : dir'[u].idx = dir[u].idx

LEMMA DirsSame ==
    ASSUME CoreType, dir' = dir \/ dir' = Note(disk')
    PROVE  SameDirs
  <1>1. CASE dir' = dir
    BY <1>1 DEF CoreType, SameDirs
  <1>2. CASE dir' = Note(disk')
    <2>1. ASSUME NEW u \in Threads
          PROVE  dir'[u] \in DirType /\ dir'[u].idx = dir[u].idx
      <3>1. PICK s : s = Numbered(disk'.dirf)
        OBVIOUS
      <3>2. dir'[u] = [dir[u] EXCEPT !.due = dir[u].due \cap s, !.seen = dir[u].seen \cap s]
        BY <1>2, <3>1 DEF Note
      <3>3. dir[u] \in DirType
        BY DEF CoreType
      <3> QED
        BY <3>2, <3>3 DEF DirType
    <2>2. dir' = [u \in Threads |-> dir'[u]]
      BY <1>2 DEF Note
    <2> QED
      BY <2>1, <2>2 DEF SameDirs
  <1> QED
    BY <1>1, <1>2

LEMMA DirhSame ==
    ASSUME CoreType, NEW t \in Threads, NEW c, NEW oo, NEW o, SameDirs, UNCHANGED refcount,
           HeadOne(c) = HeadOne(call[t]), ObjOne(o) = ObjOne(oo)
    PROVE  DirhStep(t, c, oo, o)
  <1>1. DirOne(dir'[t]) = DirOne(dir[t]) /\ refcount' = refcount /\ refcount \in Int
    BY DEF SameDirs, DirOne, CoreType
  <1> QED
    BY <1>1 DEF DirhStep, SameDirs

LEMMA DirhKept ==
    ASSUME CoreType, NEW t \in Threads, NEW c, NEW oo, NEW o, SameDirs,
           NEW bits, keep_dirh(bits),
           HeadOne(c) + ObjOne(o) = HeadOne(call[t]) + ObjOne(oo) + 1
    PROVE  DirhStep(t, c, oo, o)
  <1>1. DirOne(dir'[t]) = DirOne(dir[t]) /\ refcount' = refcount + 1 /\ refcount \in Int
    BY DEF SameDirs, DirOne, CoreType, keep_dirh
  <1>2. /\ DirOne(dir[t]) \in Int /\ HeadOne(c) \in Int /\ HeadOne(call[t]) \in Int
        /\ ObjOne(oo) \in Int /\ ObjOne(o) \in Int
    BY DEF DirOne, HeadOne, ObjOne
  <1>3. refcount' + DirOne(dir[t]) + HeadOne(call[t]) + ObjOne(oo) =
        refcount + DirOne(dir'[t]) + HeadOne(c) + ObjOne(o)
    BY <1>1, <1>2
  <1> QED
    BY <1>1, <1>3 DEF DirhStep, SameDirs

LEMMA DirhPut ==
    ASSUME CoreType, NEW t \in Threads, NEW c, NEW oo, NEW o, SameDirs, put_dirh_primitive,
           HeadOne(c) + ObjOne(o) + 1 = HeadOne(call[t]) + ObjOne(oo)
    PROVE  DirhStep(t, c, oo, o)
  <1>1. DirOne(dir'[t]) = DirOne(dir[t]) /\ refcount' = refcount - 1 /\ refcount \in Int
    BY DEF SameDirs, DirOne, CoreType, put_dirh_primitive
  <1>2. PICK r, d, x, y, v, w : /\ r = refcount /\ d = DirOne(dir[t])
                                /\ x = HeadOne(call[t]) /\ y = HeadOne(c)
                                /\ v = ObjOne(oo) /\ w = ObjOne(o)
    OBVIOUS
  <1>3. /\ r \in Int /\ d \in Int /\ x \in Int /\ y \in Int /\ v \in Int /\ w \in Int
        /\ y + w + 1 = x + v
    BY <1>1, <1>2 DEF DirOne, HeadOne, ObjOne
  <1>4. (r - 1) + d + x + v = r + d + y + w
    BY <1>3
  <1>5. refcount' + DirOne(dir[t]) + HeadOne(call[t]) + ObjOne(oo) =
        refcount + DirOne(dir'[t]) + HeadOne(c) + ObjOne(o)
    BY <1>1, <1>2, <1>4
  <1> QED
    BY <1>1, <1>5 DEF DirhStep, SameDirs

LEMMA PobjSame ==
    ASSUME CoreType, NEW t \in Threads, NEW c, NEW oo, NEW o, UNCHANGED pobj,
           \A p \in Pobjs : UsesOne(call[t], p) + HasOne(oo, p) = UsesOne(c, p) + HasOne(o, p)
    PROVE  PobjStep(t, c, oo, o)
  <1>1. ASSUME NEW p \in Pobjs
        PROVE  RefCnt(pobj'[p]) + UsesOne(call[t], p) + HasOne(oo, p) =
               RefCnt(pobj[p]) + UsesOne(c, p) + HasOne(o, p)
    <2>1. /\ UsesOne(call[t], p) \in Int /\ HasOne(oo, p) \in Int /\ UsesOne(c, p) \in Int
          /\ HasOne(o, p) \in Int
      BY DEF UsesOne, HasOne
    <2>2. RefCnt(pobj[p]) \in Int
      BY DEF CoreType, RefCnt, PobjType
    <2> QED
      BY <2>1, <2>2
  <1>2. pobj' \in [Pobjs -> PobjType \cup {NULL}]
    BY DEF CoreType
  <1> QED
    BY <1>1, <1>2 DEF PobjStep

\* tee_pobj_get: the call gets a reference.
LEMMA PobjGot ==
    ASSUME CoreType, NEW t \in Threads, NEW c, NEW p \in Pobjs, NEW n \in Names,
           NEW fl \in SUBSET Modes, NEW usage, NEW over, tee_pobj_get(p, n, fl, usage, over),
           ~Referring(call[t]), Referring(c), c.po = p
    PROVE  PobjStep(t, c, NULL, NULL)
  <1>1. PICK r : pobj' = [pobj EXCEPT ![p] = r] /\ r \in PobjType
                 /\ RefCnt(r) = RefCnt(pobj[p]) + 1
    <2>1. CASE {q \in Pobjs : pobj[q] # NULL /\ pobj[q].name = n} # {}
      <3>1. pobj[p] # NULL /\ pobj' = [pobj EXCEPT ![p].refcnt = @ + 1]
        BY <2>1 DEF tee_pobj_get
      <3>2. pobj[p] \in PobjType
        BY <3>1 DEF CoreType
      <3>3. PICK r : r = [pobj[p] EXCEPT !.refcnt = pobj[p].refcnt + 1]
        OBVIOUS
      <3>4. r \in PobjType /\ r.refcnt = pobj[p].refcnt + 1
        BY <3>2, <3>3 DEF PobjType
      <3>5. RefCnt(r) = RefCnt(pobj[p]) + 1
        BY <3>1, <3>4, ReeFsAssumption DEF RefCnt
      <3>6. pobj' = [pobj EXCEPT ![p] = r]
        BY <3>1, <3>3
      <3> QED
        BY <3>4, <3>5, <3>6
    <2>2. CASE {q \in Pobjs : pobj[q] # NULL /\ pobj[q].name = n} = {}
      <3>1. PICK b \in BOOLEAN : b <=> usage = "create"
        OBVIOUS
      <3>2. pobj[p] = NULL /\ pobj' = [pobj EXCEPT ![p] = NewPobj(n, fl, usage = "create")]
        BY <2>2 DEF tee_pobj_get
      <3>3. NewPobj(n, fl, usage = "create") \in PobjType
        BY DEF NewPobj, PobjType
      <3>4. NewPobj(n, fl, usage = "create").refcnt = 1
        BY DEF NewPobj
      <3>5. RefCnt(NewPobj(n, fl, usage = "create")) = RefCnt(pobj[p]) + 1
        BY <3>2, <3>3, <3>4, ReeFsAssumption DEF RefCnt
      <3> QED
        BY <3>2, <3>3, <3>5
    <2> QED
      BY <2>1, <2>2
  <1>2. pobj' \in [Pobjs -> PobjType \cup {NULL}]
    BY <1>1 DEF CoreType
  <1>3. ASSUME NEW q \in Pobjs
        PROVE  RefCnt(pobj'[q]) + UsesOne(call[t], q) + HasOne(NULL, q) =
               RefCnt(pobj[q]) + UsesOne(c, q) + HasOne(NULL, q)
    <2>1. UsesOne(call[t], q) = 0 /\ HasOne(NULL, q) = 0
      BY DEF UsesOne, UsesPobj, HasOne, HasPobj
    <2>2. RefCnt(pobj[q]) \in Int /\ RefCnt(pobj'[q]) \in Int
      BY <1>2 DEF CoreType, RefCnt, PobjType
    <2>3. RefCnt(pobj'[q]) = RefCnt(pobj[q]) + UsesOne(c, q)
      <3>1. CASE q = p
        <4>1. UsesOne(c, q) = 1
          BY <3>1 DEF UsesOne, UsesPobj
        <4>2. pobj'[q] = r
          BY <1>1, <3>1 DEF CoreType
        <4> QED
          BY <1>1, <3>1, <4>1, <4>2
      <3>2. CASE q # p
        <4>1. UsesOne(c, q) = 0
          BY <3>2 DEF UsesOne, UsesPobj
        <4>2. pobj'[q] = pobj[q]
          BY <1>1, <3>2 DEF CoreType
        <4> QED
          BY <2>2, <4>1, <4>2
      <3> QED
        BY <3>1, <3>2
    <2>4. UsesOne(c, q) \in Int
      BY DEF UsesOne
    <2> QED
      BY <2>1, <2>2, <2>3, <2>4
  <1> QED
    BY <1>2, <1>3 DEF PobjStep

\* tee_pobj_release: the call gives it back.
LEMMA PobjReleased ==
    ASSUME ReeFsInv, NEW t \in Threads, tee_pobj_release(t)
    PROVE  PobjStep(t, Idle, NULL, NULL)
  <1>1. PICK p : p = call[t].po
    OBVIOUS
  <1>2. CoreType /\ CallOK(t, call[t], obj)
    BY CallFacts DEF ReeFsInv
  <1>3. Referring(call[t]) /\ p \in Pobjs
    BY <1>1, <1>2 DEF tee_pobj_release, Referring, CallOK
  <1>4. UsesPobj(call[t], p)
    BY <1>1, <1>3 DEF UsesPobj
  <1>5. pobj[p] \in PobjType /\ pobj[p] # NULL
    BY <1>3, <1>4, PobjThere
  <1>6. PICK r : r = IF pobj[p].refcnt = 1 THEN NULL
                     ELSE [pobj[p] EXCEPT !.refcnt = pobj[p].refcnt - 1]
    OBVIOUS
  <1>7. pobj' = [pobj EXCEPT ![p] = r]
    <2>1. pobj' = [pobj EXCEPT ![p] = IF pobj[p].refcnt = 1 THEN NULL
                                      ELSE [pobj[p] EXCEPT !.refcnt = pobj[p].refcnt - 1]]
      BY <1>1 DEF tee_pobj_release
    <2> QED
      BY <1>6, <2>1
  <1>8. r \in PobjType \cup {NULL} /\ RefCnt(r) = RefCnt(pobj[p]) - 1
    <2>1. pobj[p].refcnt \in Nat \ {0} /\ RefCnt(pobj[p]) = pobj[p].refcnt
      BY <1>5 DEF PobjType, RefCnt
    <2>2. CASE pobj[p].refcnt = 1
      BY <1>6, <2>1, <2>2 DEF RefCnt
    <2>3. CASE pobj[p].refcnt # 1
      <3>1. r = [pobj[p] EXCEPT !.refcnt = pobj[p].refcnt - 1] /\ pobj[p].refcnt - 1 \in Nat \ {0}
        BY <1>6, <2>1, <2>3
      <3>2. r \in PobjType /\ r.refcnt = pobj[p].refcnt - 1
        BY <1>5, <3>1 DEF PobjType
      <3> QED
        BY <2>1, <3>2, ReeFsAssumption DEF RefCnt
    <2> QED
      BY <2>2, <2>3
  <1>9. pobj' \in [Pobjs -> PobjType \cup {NULL}]
    BY <1>2, <1>3, <1>7, <1>8 DEF CoreType
  <1>10. ASSUME NEW q \in Pobjs
         PROVE  RefCnt(pobj'[q]) + UsesOne(call[t], q) + HasOne(NULL, q) =
                RefCnt(pobj[q]) + UsesOne(Idle, q) + HasOne(NULL, q)
    <2>1. UsesOne(Idle, q) = 0 /\ HasOne(NULL, q) = 0
      BY IdleFacts DEF UsesOne, UsesPobj, HasOne, HasPobj
    <2>2. RefCnt(pobj[q]) \in Int /\ RefCnt(pobj'[q]) \in Int
      BY <1>2, <1>9 DEF CoreType, RefCnt, PobjType
    <2>3. CASE q = p
      <3>1. UsesOne(call[t], q) = 1
        BY <1>4, <2>3 DEF UsesOne
      <3>2. RefCnt(pobj'[q]) = RefCnt(pobj[q]) - 1
        BY <1>2, <1>3, <1>7, <1>8, <2>3 DEF CoreType
      <3> QED
        BY <2>1, <2>2, <3>1, <3>2
    <2>4. CASE q # p
      <3>1. UsesOne(call[t], q) = 0
        BY <1>1, <2>4 DEF UsesOne, UsesPobj
      <3>2. pobj'[q] = pobj[q]
        BY <1>2, <1>7, <2>4 DEF CoreType
      <3> QED
        BY <2>1, <2>2, <3>1, <3>2
    <2> QED
      BY <2>3, <2>4
  <1> QED
    BY <1>9, <1>10 DEF PobjStep

\* Go: the call goes on at another point.
LEMMA GoFacts ==
    ASSUME CoreType, NEW t \in Threads, NEW pc \in PCs, Go(t, pc)
    PROVE  \E c \in CallType : /\ call' = [call EXCEPT ![t] = c]
                               /\ c.pc = pc /\ c.po = call[t].po /\ c.h = call[t].h
                               /\ c.fh = call[t].fh /\ c.name = call[t].name
  <1>1. PICK c : c = [call[t] EXCEPT !.pc = pc]
    OBVIOUS
  <1>2. /\ c \in CallType /\ c.pc = pc /\ c.po = call[t].po /\ c.h = call[t].h
        /\ c.fh = call[t].fh /\ c.name = call[t].name
    BY <1>1 DEF CoreType, CallType
  <1>3. call' = [call EXCEPT ![t] = c]
    BY <1>1 DEF Go
  <1> QED
    BY <1>2, <1>3

\* ree_fs_open: the file it finds
LEMMA OpenedFacts ==
    ASSUME StorageOK, NEW t, NEW fh \in Opened(t)
    PROVE  fh \in FileType /\ FileOK(fh, tx)
  <1>1. PICK i, n : n = pobj[call[t].po].name /\ i = Find(disk.dirf, n)
    OBVIOUS
  <1>2. FoundAt(t) = i
    BY <1>1 DEF FoundAt
  <1>3. i # 0
    BY <1>2 DEF Opened
  <1>4. PICK v \in Versions(disk, disk.dirf[i].f, disk.dirf[i].hash) : fh = FileAt(i, v)
    BY <1>2, <1>3 DEF Opened
  <1>5. i \in Used(disk.dirf) /\ i \in 1 .. Len(disk.dirf) /\ Len(disk.dirf) \in Nat
    BY <1>1, <1>3, StorageFacts, FindFacts, DentFacts
  <1>6. disk.dirf[i] \in DentType /\ disk.dirf[i].hash # 0
    BY <1>5, StorageFacts, DentFacts DEF DirfOK
  <1>7. disk.dirf[i].f \in Numbers /\ disk.dirf[i].hash \in 1 .. MaxTx
    BY <1>6, ReeFsAssumption DEF DentType
  <1>8. disk.files[disk.dirf[i].f] # NULL /\ v \in Vers
    BY <1>4 DEF Versions
  <1>9. disk.files[disk.dirf[i].f] \in Inodes /\ disk.files[disk.dirf[i].f] <= tx
    BY <1>7, <1>8, StorageFacts DEF DiskOK, DiskType
  <1>10. i \in Nat \ {0}
    BY <1>5
  <1>11. fh \in FileType /\ fh.ino = disk.files[disk.dirf[i].f]
    BY <1>4, <1>7, <1>8, <1>9, <1>10 DEF FileAt, FileType
  <1> QED
    BY <1>9, <1>11 DEF FileOK

\* The handle, if any, is of the same object before and after.
SameHandle(oo, o) == oo = o \/ (oo # NULL /\ o # NULL /\ o.po = oo.po)

\* The call refers to the same object before and after, or to none.
SameReference(b, c) == (Referring(b) <=> Referring(c)) /\ (Referring(c) => c.po = b.po)

LEMMA PobjStays ==
    ASSUME CoreType, NEW t \in Threads, NEW c, NEW oo, NEW o, UNCHANGED pobj,
           SameHandle(oo, o), SameReference(call[t], c)
    PROVE  PobjStep(t, c, oo, o)
  <1>1. \A p \in Pobjs : HasOne(oo, p) = HasOne(o, p) /\ HasOne(o, p) \in Int
    BY DEF SameHandle, HasOne, HasPobj
  <1>2. \A p \in Pobjs : UsesOne(call[t], p) = UsesOne(c, p) /\ UsesOne(c, p) \in Int
    BY DEF SameReference, UsesOne, UsesPobj
  <1> QED
    BY <1>1, <1>2, PobjSame

LEMMA DirhStays ==
    ASSUME CoreType, NEW t \in Threads, NEW c, NEW oo, NEW o, SameDirs, UNCHANGED refcount,
           SameHandle(oo, o), c.fh = call[t].fh
    PROVE  DirhStep(t, c, oo, o)
  <1>1. ObjOne(o) = ObjOne(oo) /\ HeadOne(c) = HeadOne(call[t])
    BY DEF SameHandle, ObjOne, HeadOne
  <1> QED
    BY <1>1, DirhSame

LEMMA StepIs ==
    ASSUME NEW t, NEW c, NEW oo, NEW o, Elsewhere, CallStep(t, c), ObjStep(t, oo, o),
           PobjStep(t, c, oo, o), DirhStep(t, c, oo, o)
    PROVE  ThreadStep(t)
  BY DEF ThreadStep

LEMMA ReleaseOK ==
    ASSUME NEW t, NEW c \in CallType, c.pc = "release", c.po \in Pobjs, c.fh = NULL, NEW ob
    PROVE  CallOK(t, c, ob) /\ FileOK(c.fh, tx') /\ Referring(c)
  BY DEF CallOK, FileOK, Referring

\* A call gives up: the reference it has is released next, or after the object
\* it refers to is removed.
LEMMA GivesUpTo ==
    ASSUME ReeFsInv, NEW t \in Threads, Referring(call[t]), call[t].pc # "enum_close",
           NEW pc \in {"release", "remove_corrupt"},
           pc = "remove_corrupt" => call[t].h = NULL,
           Go(t, pc), UNCHANGED <<pobj, obj, refcount>>, SameDirs, Elsewhere
    PROVE  ThreadStep(t)
  <1>1. CoreType /\ CallOK(t, call[t], obj)
    BY CallFacts DEF ReeFsInv
  <1>2. call[t].po \in Pobjs /\ call[t].fh = NULL
    BY <1>1 DEF CallOK
  <1>3. PICK c \in CallType : /\ call' = [call EXCEPT ![t] = c]
                              /\ c.pc = pc /\ c.po = call[t].po /\ c.fh = call[t].fh
                              /\ c.h = call[t].h
    <2>1. pc \in PCs
      BY DEF PCs
    <2> QED
      BY <1>1, <2>1, GoFacts
  <1>4. Referring(c) /\ CallStep(t, c)
    <2>1. CASE pc = "release"
      BY <1>2, <1>3, <2>1, ReleaseOK DEF CallStep
    <2>2. CASE pc = "remove_corrupt" /\ call[t].h = NULL
      BY <1>2, <1>3, <2>2 DEF CallStep, CallOK, FileOK, Referring
    <2> QED
      BY <2>1, <2>2
  <1>5. SameReference(call[t], c) /\ SameHandle(NULL, NULL)
    BY <1>3, <1>4 DEF SameReference, SameHandle
  <1>6. PobjStep(t, c, NULL, NULL) /\ DirhStep(t, c, NULL, NULL) /\ ObjStep(t, NULL, NULL)
    BY <1>1, <1>3, <1>5, PobjStays, DirhStays, NoHandle
  <1> QED
    BY <1>4, <1>6, StepIs

LEMMA GivesUp ==
    ASSUME ReeFsInv, NEW t \in Threads, Referring(call[t]), call[t].pc # "enum_close",
           Go(t, "release"), UNCHANGED <<pobj, obj, refcount>>, SameDirs, Elsewhere
    PROVE  ThreadStep(t)
  <1>1. "release" \in {"release", "remove_corrupt"} /\ "release" # "remove_corrupt"
    OBVIOUS
  <1> QED
    BY <1>1, GivesUpTo

-----------------------------------------------------------------------------
(* Opening and creating *)

LEMMA OpenStep ==
    ASSUME ReeFsInv, NEW t \in Threads, storage_obj_open(t)
    PROVE  ReeFsInv'
  <1>1. CoreType /\ StorageOK /\ CallOK(t, call[t], obj)
    BY CallFacts DEF ReeFsInv
  <1>2. PICK n \in Names, fl \in setup.flags, p \in Pobjs :
           /\ tee_pobj_get(p, n, fl, "open", FALSE)
           /\ call' = [call EXCEPT ![t] =
                 [Idle EXCEPT !.pc = "open", !.po = p, !.flags = fl]]
    BY DEF storage_obj_open
  <1>3. PICK c : c = [Idle EXCEPT !.pc = "open", !.po = p, !.flags = fl]
    OBVIOUS
  <1>4. fl \in SUBSET Modes
    BY <1>1, SetupFacts
  <1>5. c \in CallType /\ c.pc = "open" /\ c.po = p /\ c.h = NULL /\ c.fh = NULL
    BY <1>3, <1>4 DEF Idle, CallType, PCs
  <1>6. Referring(c) /\ CallStep(t, c)
    BY <1>2, <1>3, <1>5 DEF CallStep, CallOK, FileOK, Referring
  <1>7. ~Referring(call[t]) /\ call[t].fh = NULL
    BY <1>1 DEF storage_obj_open, Referring, CallOK
  <1>8. PobjStep(t, c, NULL, NULL)
    BY <1>1, <1>2, <1>4, <1>5, <1>6, <1>7, PobjGot
  <1>9. Untouched /\ Elsewhere /\ UNCHANGED <<obj, refcount, dir>>
    BY <1>1, SameElsewhere DEF storage_obj_open, mem, Untouched
  <1>10. DirhStep(t, c, NULL, NULL) /\ ObjStep(t, NULL, NULL)
    <2>1. SameDirs /\ SameHandle(NULL, NULL)
      BY <1>1, <1>9, DirsSame DEF SameHandle
    <2> QED
      BY <1>1, <1>5, <1>7, <1>9, <2>1, DirhStays, NoHandle
  <1>11. ThreadStep(t) /\ StorageOK'
    BY <1>1, <1>6, <1>8, <1>9, <1>10, StepIs, StorageStays
  <1> QED
    BY <1>11, ThreadStepKeeps

LEMMA CreateStartStep ==
    ASSUME ReeFsInv, NEW t \in Threads, storage_obj_create(t)
    PROVE  ReeFsInv'
  <1>1. CoreType /\ StorageOK /\ CallOK(t, call[t], obj)
    BY CallFacts DEF ReeFsInv
  <1>2. PICK n \in Names, fl \in setup.flags, p \in Pobjs, over \in BOOLEAN :
           /\ tee_pobj_get(p, n, fl, "create", over)
           /\ call' = [call EXCEPT ![t] =
                 [Idle EXCEPT !.pc = "create", !.po = p, !.flags = fl, !.over = over]]
    BY DEF storage_obj_create
  <1>3. PICK c : c = [Idle EXCEPT !.pc = "create", !.po = p, !.flags = fl, !.over = over]
    OBVIOUS
  <1>4. fl \in SUBSET Modes
    BY <1>1, SetupFacts
  <1>5. c \in CallType /\ c.pc = "create" /\ c.po = p /\ c.h = NULL /\ c.fh = NULL
    BY <1>3, <1>4 DEF Idle, CallType, PCs
  <1>6. Referring(c) /\ CallStep(t, c)
    BY <1>2, <1>3, <1>5 DEF CallStep, CallOK, FileOK, Referring
  <1>7. ~Referring(call[t]) /\ call[t].fh = NULL
    BY <1>1 DEF storage_obj_create, Referring, CallOK
  <1>8. PobjStep(t, c, NULL, NULL)
    BY <1>1, <1>2, <1>4, <1>5, <1>6, <1>7, PobjGot
  <1>9. Untouched /\ Elsewhere /\ UNCHANGED <<obj, refcount, dir>>
    BY <1>1, SameElsewhere DEF storage_obj_create, mem, Untouched
  <1>10. DirhStep(t, c, NULL, NULL) /\ ObjStep(t, NULL, NULL)
    <2>1. SameDirs /\ SameHandle(NULL, NULL)
      BY <1>1, <1>9, DirsSame DEF SameHandle
    <2> QED
      BY <1>1, <1>5, <1>7, <1>9, <2>1, DirhStays, NoHandle
  <1>11. ThreadStep(t) /\ StorageOK'
    BY <1>1, <1>6, <1>8, <1>9, <1>10, StepIs, StorageStays
  <1> QED
    BY <1>11, ThreadStepKeeps

\* A handle is filled and gets the reference of the call.
LEMMA HandleFilled ==
    ASSUME NEW t, NEW h \in Handles, FreeHandle(h), NEW o \in ObjType,
           FileOK(o.fh, tx'), obj' = [obj EXCEPT ![h] = o]
    PROVE  ObjStep(t, NULL, o) /\ o # NULL
  BY ReeFsAssumption DEF ObjStep, FreeHandle

LEMMA PobjToHandle ==
    ASSUME CoreType, NEW t \in Threads, NEW c, NEW o, o # NULL, UNCHANGED pobj,
           Referring(call[t]), call[t].po = o.po, ~Referring(c)
    PROVE  PobjStep(t, c, NULL, o)
  <1>1. \A p \in Pobjs : HasOne(NULL, p) = 0 /\ UsesOne(c, p) = 0
    BY DEF HasOne, HasPobj, UsesOne, UsesPobj
  <1>2. \A p \in Pobjs : UsesOne(call[t], p) = HasOne(o, p) /\ HasOne(o, p) \in Int
    BY DEF HasOne, HasPobj, UsesOne, UsesPobj
  <1>3. \A p \in Pobjs : UsesOne(call[t], p) + HasOne(NULL, p) = UsesOne(c, p) + HasOne(o, p)
    BY <1>1, <1>2
  <1> QED
    BY <1>3, PobjSame

LEMMA DirhToHandle ==
    ASSUME CoreType, NEW t \in Threads, NEW c, NEW o, o # NULL, c.fh = NULL,
           call[t].fh = NULL, SameDirs, NEW bits, keep_dirh(bits)
    PROVE  DirhStep(t, c, NULL, o)
  <1>1. ObjOne(o) = 1 /\ ObjOne(NULL) = 0 /\ HeadOne(c) = 0 /\ HeadOne(call[t]) = 0
    BY DEF ObjOne, HeadOne
  <1>2. HeadOne(c) + ObjOne(o) = HeadOne(call[t]) + ObjOne(NULL) + 1
    BY <1>1
  <1> QED
    BY <1>2, DirhKept

LEMMA OpenFileStep ==
    ASSUME ReeFsInv, NEW t \in Threads, ree_fs_open(t)
    PROVE  ReeFsInv'
  <1>1. CoreType /\ StorageOK /\ CallOK(t, call[t], obj) /\ call[t] \in CallType
    BY CallFacts DEF ReeFsInv
  <1>2. /\ call[t].pc = "open" /\ Referring(call[t]) /\ call[t].po \in Pobjs
        /\ call[t].h = NULL /\ call[t].fh = NULL
    BY <1>1 DEF ree_fs_open, CallOK, Referring
  <1>3. UNCHANGED <<pobj, dir, disk, tx>> /\ Elsewhere /\ SameDirs /\ refcount \in Nat
    BY <1>1, SameElsewhere, DirsSame DEF ree_fs_open, CoreType
  <1>4. ASSUME NEW fh \in Opened(t), NEW h \in Handles, FreeHandle(h),
               obj' = [obj EXCEPT ![h] =
                  [own |-> t, po |-> call[t].po, fh |-> fh,
                   flags |-> call[t].flags, failed |-> FALSE]],
               keep_dirh(Bits), Return(t)
        PROVE  ReeFsInv'
    <2>1. PICK o : o = [own |-> t, po |-> call[t].po, fh |-> fh,
                        flags |-> call[t].flags, failed |-> FALSE]
      OBVIOUS
    <2>2. fh \in FileType /\ FileOK(fh, tx) /\ tx' = tx
      BY <1>1, <1>3, <1>4, OpenedFacts
    <2>3. call[t].flags \in SUBSET Modes
      BY <1>1 DEF CallType
    <2>4. o \in ObjType /\ o.po = call[t].po /\ o.fh = fh
      BY <1>2, <2>1, <2>2, <2>3 DEF ObjType
    <2>5. ObjStep(t, NULL, o) /\ o # NULL
      BY <1>4, <2>1, <2>2, <2>4, HandleFilled
    <2>6. CallStep(t, Idle)
      BY <1>4, IdleFacts DEF CallStep, Return, CallOK, FileOK
    <2>7. PobjStep(t, Idle, NULL, o)
      BY <1>1, <1>2, <1>3, <2>4, <2>5, IdleFacts, PobjToHandle
    <2>8. DirhStep(t, Idle, NULL, o)
      BY <1>1, <1>2, <1>3, <1>4, <2>5, IdleFacts, DirhToHandle
    <2>9. StorageOK'
      BY <1>1, <1>3, <1>4, StorageHandle
    <2>10. ThreadStep(t)
      BY <1>3, <2>5, <2>6, <2>7, <2>8, StepIs
    <2> QED
      BY <2>9, <2>10, ThreadStepKeeps
  <1>5. ASSUME NEW pc \in {"release", "remove_corrupt"}, close_dirh, UNCHANGED obj, Go(t, pc)
        PROVE  ReeFsInv'
    <2>1. dirh' = NULL /\ UNCHANGED refcount
      BY <1>5, CloseDirh
    <2>2. ThreadStep(t)
      BY <1>2, <1>3, <1>5, <2>1, GivesUpTo
    <2>3. StorageOK'
      BY <1>1, <1>3, <2>1, StorageHandle
    <2> QED
      BY <2>2, <2>3, ThreadStepKeeps
  <1> QED
    BY <1>4, <1>5 DEF ree_fs_open

LEMMA CreateStep ==
    ASSUME ReeFsInv, NEW t \in Threads, ree_fs_create(t)
    PROVE  ReeFsInv'
  <1>1. CoreType /\ StorageOK /\ FilesOK /\ CallOK(t, call[t], obj) /\ call[t] \in CallType
    BY CallFacts DEF ReeFsInv
  <1>2. /\ call[t].pc = "create" /\ Referring(call[t]) /\ call[t].po \in Pobjs
        /\ call[t].h = NULL /\ call[t].fh = NULL
    BY <1>1 DEF ree_fs_create, CallOK, Referring
  <1>3. PICK n : n = pobj[call[t].po].name
    OBVIOUS
  <1>4. n \in Names
    <2>1. UsesPobj(call[t], call[t].po)
      BY <1>2 DEF UsesPobj
    <2> QED
      BY <1>2, <1>3, <2>1, PobjThere
  <1>5. StorageOK'
    BY <1>1, <1>3, <1>4, StorageCreate
  <1>6. /\ setup' = setup /\ panicked' = panicked /\ tx' = tx + 1 /\ tx < setup.updates
        /\ tx \in Nat
    BY <1>1, StorageFacts DEF ree_fs_create
  <1>7. tx < MaxTx /\ tx + 1 \in 1 .. MaxTx /\ Elsewhere
    BY <1>1, <1>6, SetupFacts, ReeFsAssumption DEF Elsewhere, CoreType
  <1>8. \/ /\ keep_dirh(Bits \cup {TmpNumber})
           /\ \E h \in Handles :
                /\ FreeHandle(h)
                /\ obj' = [obj EXCEPT ![h] =
                     [own |-> t, po |-> call[t].po, flags |-> call[t].flags,
                      failed |-> FALSE,
                      fh |-> [ino |-> NewInode(TmpNumber), f |-> TmpNumber,
                              idx |-> NewIdx(n), slot |-> 0, hash |-> tx + 1, ht |-> TRUE]]]
           /\ Go(t, "create_final") /\ UNCHANGED pobj
           /\ dir' = Note(disk')
        \/ /\ \E pc \in {"release", "remove_corrupt"} : Go(t, pc)
           /\ UNCHANGED <<refcount, obj, pobj>>
           /\ (dir' = dir \/ dir' = Note(disk'))
        \/ \E d : LosePower(d)
    BY <1>3, CloseDirh DEF ree_fs_create, NewIdx, mem
  <1>9. ASSUME keep_dirh(Bits \cup {TmpNumber}), NEW h \in Handles, FreeHandle(h),
               obj' = [obj EXCEPT ![h] =
                  [own |-> t, po |-> call[t].po, flags |-> call[t].flags,
                   failed |-> FALSE,
                   fh |-> [ino |-> NewInode(TmpNumber), f |-> TmpNumber,
                           idx |-> NewIdx(n), slot |-> 0, hash |-> tx + 1, ht |-> TRUE]]],
               Go(t, "create_final"), UNCHANGED pobj, dir' = Note(disk')
        PROVE  ReeFsInv'
    <2>1. PICK fh : fh = [ino |-> NewInode(TmpNumber), f |-> TmpNumber, idx |-> NewIdx(n),
                          slot |-> 0, hash |-> tx + 1, ht |-> TRUE]
      OBVIOUS
    <2>2. PICK o : o = [own |-> t, po |-> call[t].po, flags |-> call[t].flags,
                        failed |-> FALSE, fh |-> fh]
      OBVIOUS
    <2>3. TmpNumber \in Numbers /\ NewIdx(n) \in Nat \ {0}
      BY <1>1, <1>4, <1>7, TmpFacts, CreatedFacts
    <2>4. NewInode(TmpNumber) \in Inodes /\ NewInode(TmpNumber) <= tx + 1
      BY <1>1, <2>3, InodeFacts
    <2>5. fh \in FileType /\ fh.ino = NewInode(TmpNumber)
      BY <1>7, <2>1, <2>3, <2>4 DEF FileType, Vers
    <2>6. FileOK(fh, tx')
      BY <1>6, <2>4, <2>5 DEF FileOK
    <2>7. call[t].flags \in SUBSET Modes
      BY <1>1 DEF CallType
    <2>8. o \in ObjType /\ o.po = call[t].po /\ o.fh = fh /\ o.own = t
      BY <1>2, <2>2, <2>5, <2>7 DEF ObjType
    <2>9. obj' = [obj EXCEPT ![h] = o]
      BY <1>9, <2>1, <2>2
    <2>10. ObjStep(t, NULL, o) /\ o # NULL
      BY <1>9, <2>6, <2>8, <2>9, HandleFilled
    <2>11. PICK c \in CallType : /\ call' = [call EXCEPT ![t] = c]
                                 /\ c.pc = "create_final" /\ c.po = call[t].po
                                 /\ c.h = call[t].h /\ c.fh = call[t].fh
      <3>1. "create_final" \in PCs
        BY DEF PCs
      <3> QED
        BY <1>1, <1>9, <3>1, GoFacts
    <2>12. obj'[h] = o
      BY <1>1, <2>9 DEF CoreType
    <2>13. ~Referring(c) /\ CallStep(t, c)
      BY <1>2, <2>8, <2>10, <2>11, <2>12 DEF CallStep, CallOK, FileOK, Referring
    <2>14. PobjStep(t, c, NULL, o)
      BY <1>1, <1>2, <1>9, <2>8, <2>10, <2>13, PobjToHandle
    <2>15. SameDirs
      BY <1>1, <1>9, DirsSame
    <2>16. DirhStep(t, c, NULL, o)
      BY <1>1, <1>2, <1>9, <2>10, <2>11, <2>15, DirhToHandle
    <2>17. ThreadStep(t)
      BY <1>7, <2>10, <2>13, <2>14, <2>16, StepIs
    <2> QED
      BY <1>5, <2>17, ThreadStepKeeps
  <1>10. CASE /\ \E pc \in {"release", "remove_corrupt"} : Go(t, pc)
              /\ UNCHANGED <<refcount, obj, pobj>>
              /\ (dir' = dir \/ dir' = Note(disk'))
    <2>1. SameDirs
      BY <1>1, <1>10, DirsSame
    <2>2. ThreadStep(t)
      BY <1>2, <1>7, <1>10, <2>1, GivesUpTo
    <2> QED
      BY <1>5, <2>2, ThreadStepKeeps
  <1>11. CASE \E d : LosePower(d)
    BY <1>1, <1>5, <1>6, <1>11, LostKeeps
  <1> QED
    BY <1>8, <1>9, <1>10, <1>11

\* An open object changes and keeps its count.
PobjRenewed(t, c, p, r) ==
    /\ p \in Pobjs /\ pobj[p] \in PobjType /\ r \in PobjType
    /\ r.refcnt = pobj[p].refcnt /\ pobj' = [pobj EXCEPT ![p] = r]
    /\ SameReference(call[t], c)

LEMMA PobjChanged ==
    ASSUME CoreType, NEW t \in Threads, NEW c, NEW p, NEW r, PobjRenewed(t, c, p, r)
    PROVE  PobjStep(t, c, NULL, NULL)
  <1>1. pobj' \in [Pobjs -> PobjType \cup {NULL}]
    BY DEF CoreType, PobjRenewed
  <1>2. ASSUME NEW q \in Pobjs
        PROVE  RefCnt(pobj'[q]) = RefCnt(pobj[q]) /\ RefCnt(pobj[q]) \in Int
    <2>1. RefCnt(r) = RefCnt(pobj[p]) /\ RefCnt(pobj[q]) \in Int
      BY ReeFsAssumption DEF PobjRenewed, RefCnt, PobjType, CoreType
    <2>2. pobj'[q] = IF q = p THEN r ELSE pobj[q]
      BY DEF PobjRenewed, CoreType
    <2> QED
      BY <2>1, <2>2
  <1>3. \A q \in Pobjs : HasOne(NULL, q) = 0
    BY DEF HasOne, HasPobj
  <1>4. \A q \in Pobjs : UsesOne(call[t], q) = UsesOne(c, q) /\ UsesOne(c, q) \in Int
    BY DEF PobjRenewed, SameReference, UsesOne, UsesPobj
  <1>5. ASSUME NEW q \in Pobjs
        PROVE  RefCnt(pobj'[q]) + UsesOne(call[t], q) + HasOne(NULL, q) =
               RefCnt(pobj[q]) + UsesOne(c, q) + HasOne(NULL, q)
    BY <1>2, <1>3, <1>4
  <1> QED
    BY <1>1, <1>5 DEF PobjStep

LEMMA CreateFinalStep ==
    ASSUME ReeFsInv, NEW t \in Threads, tee_pobj_create_final(t)
    PROVE  ReeFsInv'
  <1>1. CoreType /\ StorageOK /\ CallOK(t, call[t], obj) /\ call[t] \in CallType
    BY CallFacts DEF ReeFsInv
  <1>2. PICK p : p = call[t].po
    OBVIOUS
  <1>3. PICK h \in Handles : obj[h] # NULL /\ obj[h].po = p
    BY <1>1, <1>2 DEF tee_pobj_create_final, CallOK
  <1>4. p \in Pobjs /\ HasPobj(obj[h], p)
    BY <1>1, <1>3 DEF CoreType, ObjType, HasPobj
  <1>5. pobj[p] \in PobjType /\ pobj[p] # NULL
    BY <1>4, PobjThere
  <1>6. ~Referring(call[t]) /\ call[t].fh = NULL
    BY <1>1 DEF tee_pobj_create_final, CallOK, Referring
  <1>7. Untouched /\ Elsewhere /\ UNCHANGED <<obj, refcount, dir>>
    BY <1>1, SameElsewhere DEF tee_pobj_create_final, mem, Untouched
  <1>8. CallStep(t, Idle)
    BY IdleFacts DEF tee_pobj_create_final, CallStep, Return, CallOK, FileOK
  <1>9. SameReference(call[t], Idle) /\ SameHandle(NULL, NULL) /\ SameDirs
    BY <1>1, <1>6, <1>7, IdleFacts, DirsSame DEF SameReference, SameHandle
  <1>10. PobjStep(t, Idle, NULL, NULL)
    <2>1. pobj' = pobj \/ pobj' = [pobj EXCEPT ![p].creating = FALSE]
      BY <1>2 DEF tee_pobj_create_final
    <2>2. CASE pobj' = pobj
      BY <1>1, <1>9, <2>2, PobjStays
    <2>3. CASE pobj' = [pobj EXCEPT ![p].creating = FALSE]
      <3>1. PICK r : r = [pobj[p] EXCEPT !.creating = FALSE]
        OBVIOUS
      <3>2. r \in PobjType /\ r.refcnt = pobj[p].refcnt
        BY <1>5, <3>1 DEF PobjType
      <3>3. pobj' = [pobj EXCEPT ![p] = r]
        BY <2>3, <3>1
      <3>4. PobjRenewed(t, Idle, p, r)
        BY <3>2, <3>3, <1>4, <1>5, <1>9 DEF PobjRenewed
      <3> QED
        BY <1>1, <3>4, PobjChanged
    <2> QED
      BY <2>1, <2>2, <2>3
  <1>11. DirhStep(t, Idle, NULL, NULL) /\ ObjStep(t, NULL, NULL)
    BY <1>1, <1>6, <1>7, <1>9, IdleFacts, DirhStays, NoHandle
  <1>12. ThreadStep(t) /\ StorageOK'
    BY <1>1, <1>7, <1>8, <1>10, <1>11, StepIs, StorageStays
  <1> QED
    BY <1>12, ThreadStepKeeps

-----------------------------------------------------------------------------
(* Reading and writing *)

LEMMA HandleChanged ==
    ASSUME NEW t, NEW h \in Handles, obj[h] \in ObjType, obj[h].own = t, NEW o \in ObjType,
           o.po = obj[h].po, FileOK(o.fh, tx'), obj' = [obj EXCEPT ![h] = o]
    PROVE  ObjStep(t, obj[h], o) /\ SameHandle(obj[h], o)
  BY ReeFsAssumption DEF ObjStep, SameHandle

LEMMA UsesFacts ==
    ASSUME ReeFsInv, NEW t \in Threads, NEW h \in Handles, Uses(t, h)
    PROVE  /\ obj[h] # NULL /\ obj[h] \in ObjType /\ obj[h].own = t /\ obj[h].po \in Pobjs
           /\ obj[h].fh \in FileType /\ FileOK(obj[h].fh, tx)
           /\ call[t] \in CallType /\ call[t].pc = "idle" /\ ~Referring(call[t])
           /\ call[t].fh = NULL /\ CallOK(t, call[t], obj')
  <1>1. CoreType /\ FilesOK /\ CallOK(t, call[t], obj) /\ call[t] \in CallType
    BY CallFacts DEF ReeFsInv
  <1>2. obj[h] # NULL /\ obj[h].own = t /\ call[t].pc = "idle"
    BY DEF Uses
  <1>3. obj[h] \in ObjType /\ FileOK(obj[h].fh, tx)
    BY <1>1, <1>2 DEF CoreType, FilesOK
  <1>4. obj[h].po \in Pobjs /\ obj[h].fh \in FileType
    BY <1>3 DEF ObjType
  <1>5. ~Referring(call[t]) /\ call[t].fh = NULL /\ CallOK(t, call[t], obj')
    BY <1>1, <1>2 DEF Referring, CallOK
  <1> QED
    BY <1>1, <1>2, <1>3, <1>4, <1>5

\* The call that removes the object of a handle, corrupt or not
LEMMA HandleRemoved ==
    ASSUME NEW t \in Threads, NEW h \in Handles, NEW p \in Pobjs,
           NEW pc \in {"remove", "remove_corrupt"}, NEW c,
           c = [Idle EXCEPT !.pc = pc, !.po = p, !.h = h], call' = [call EXCEPT ![t] = c]
    PROVE  CallStep(t, c) /\ ~Referring(c) /\ c.fh = NULL
  <1>1. /\ c \in CallType /\ c.pc = pc /\ c.po = p /\ c.h = h /\ c.fh = NULL
    BY DEF Idle, CallType, PCs
  <1>2. h # NULL
    BY ReeFsAssumption DEF Handles
  <1> QED
    BY <1>1, <1>2 DEF CallStep, CallOK, FileOK, Referring

LEMMA HandleWritten ==
    ASSUME ReeFsInv, NEW t \in Threads, NEW h \in Handles, Uses(t, h), NEW o \in ObjType,
           o.po = obj[h].po, o.fh.ino = obj[h].fh.ino, obj' = [obj EXCEPT ![h] = o],
           UNCHANGED <<pobj, call, refcount>>, dir' = dir \/ dir' = Note(disk'),
           Elsewhere, StorageOK'
    PROVE  ReeFsInv'
  <1>1. CoreType /\ tx \in Nat
    BY StorageFacts DEF ReeFsInv
  <1>2. /\ obj[h] # NULL /\ obj[h] \in ObjType /\ obj[h].own = t
        /\ obj[h].fh \in FileType /\ FileOK(obj[h].fh, tx)
        /\ call[t] \in CallType /\ call[t].fh = NULL /\ CallOK(t, call[t], obj')
    BY UsesFacts
  <1>3. FileOK(obj[h].fh, tx')
    BY <1>1, <1>2, FileGrows
  <1>4. obj[h].fh # NULL /\ o.fh # NULL
    BY <1>2, ReeFsAssumption DEF ObjType
  <1>5. FileOK(o.fh, tx')
    BY <1>3, <1>4 DEF FileOK
  <1>6. ObjStep(t, obj[h], o) /\ SameHandle(obj[h], o)
    BY <1>2, <1>5, HandleChanged
  <1>7. PICK c : c = call[t]
    OBVIOUS
  <1>8. call' = [call EXCEPT ![t] = c]
    BY <1>1, <1>7 DEF CoreType
  <1>9. CallStep(t, c)
    BY <1>2, <1>7, <1>8 DEF CallStep, FileOK
  <1>10. SameReference(call[t], c) /\ SameDirs
    BY <1>1, <1>7, DirsSame DEF SameReference
  <1>11. PobjStep(t, c, obj[h], o) /\ DirhStep(t, c, obj[h], o)
    BY <1>1, <1>6, <1>7, <1>10, PobjStays, DirhStays
  <1>12. ThreadStep(t)
    BY <1>6, <1>9, <1>11, StepIs
  <1> QED
    BY <1>12, ThreadStepKeeps

\* A handle changes and the object it is of is removed next as corrupt.
LEMMA HandleCorrupted ==
    ASSUME ReeFsInv, NEW t \in Threads, NEW h \in Handles, Uses(t, h), NEW o \in ObjType,
           o.po = obj[h].po, o.fh.ino = obj[h].fh.ino, obj' = [obj EXCEPT ![h] = o],
           Corrupted(t, h), UNCHANGED <<pobj, dir, refcount>>, Elsewhere, StorageOK'
    PROVE  ReeFsInv'
  <1>1. CoreType /\ tx \in Nat
    BY StorageFacts DEF ReeFsInv
  <1>2. /\ obj[h] # NULL /\ obj[h] \in ObjType /\ obj[h].own = t /\ obj[h].po \in Pobjs
        /\ obj[h].fh \in FileType /\ FileOK(obj[h].fh, tx)
        /\ ~Referring(call[t]) /\ call[t].fh = NULL
    BY UsesFacts
  <1>3. PICK c : c = [Idle EXCEPT !.pc = "remove_corrupt", !.po = obj[h].po, !.h = h]
    OBVIOUS
  <1>4. CallStep(t, c) /\ ~Referring(c) /\ c.fh = NULL
    BY <1>2, <1>3, HandleRemoved DEF Corrupted
  <1>5. FileOK(obj[h].fh, tx')
    BY <1>1, <1>2, FileGrows
  <1>6. obj[h].fh # NULL /\ o.fh # NULL
    BY <1>2, ReeFsAssumption DEF ObjType
  <1>7. FileOK(o.fh, tx')
    BY <1>5, <1>6 DEF FileOK
  <1>8. ObjStep(t, obj[h], o) /\ SameHandle(obj[h], o)
    BY <1>2, <1>7, HandleChanged
  <1>9. SameReference(call[t], c) /\ SameDirs
    BY <1>1, <1>2, <1>4, DirsSame DEF SameReference
  <1>10. PobjStep(t, c, obj[h], o) /\ DirhStep(t, c, obj[h], o)
    BY <1>1, <1>2, <1>4, <1>8, <1>9, PobjStays, DirhStays
  <1>11. ThreadStep(t)
    BY <1>4, <1>8, <1>10, StepIs
  <1> QED
    BY <1>11, ThreadStepKeeps

LEMMA ReadStep ==
    ASSUME ReeFsInv, NEW t \in Threads, storage_obj_read(t)
    PROVE  ReeFsInv'
  <1>1. CoreType /\ StorageOK
    BY DEF ReeFsInv
  <1>2. PICK h \in Handles :
           /\ Uses(t, h)
           /\ \/ obj' = [obj EXCEPT ![h].fh.ht = FALSE] /\ Corrupted(t, h)
              \/ /\ obj' = [obj EXCEPT ![h].failed = TRUE, ![h].fh.ht = FALSE]
                 /\ UNCHANGED call
    BY DEF storage_obj_read
  <1>3. Untouched /\ Elsewhere /\ UNCHANGED <<pobj, refcount, dir, tx>>
    BY <1>1, SameElsewhere DEF storage_obj_read, mem, Untouched
  <1>4. StorageOK'
    BY <1>1, <1>3, StorageStays
  <1>5. obj[h] \in ObjType /\ obj[h].fh \in FileType
    BY <1>2, UsesFacts
  <1>6. PICK fh : fh = [obj[h].fh EXCEPT !.ht = FALSE]
    OBVIOUS
  <1>7. fh \in FileType /\ fh.ino = obj[h].fh.ino
    BY <1>5, <1>6 DEF FileType
  <1>8. CASE obj' = [obj EXCEPT ![h].fh.ht = FALSE] /\ Corrupted(t, h)
    <2>1. PICK o : o = [obj[h] EXCEPT !.fh = fh]
      OBVIOUS
    <2>2. o \in ObjType /\ o.fh = fh /\ o.po = obj[h].po
      BY <1>5, <1>7, <2>1 DEF ObjType
    <2>3. obj' = [obj EXCEPT ![h] = o]
      BY <1>6, <1>8, <2>1
    <2> QED
      BY <1>2, <1>3, <1>4, <1>7, <1>8, <2>2, <2>3, HandleCorrupted
  <1>9. CASE /\ obj' = [obj EXCEPT ![h].failed = TRUE, ![h].fh.ht = FALSE]
             /\ UNCHANGED call
    <2>1. PICK o : o = [obj[h] EXCEPT !.failed = TRUE, !.fh = fh]
      OBVIOUS
    <2>2. o \in ObjType /\ o.fh = fh /\ o.po = obj[h].po
      BY <1>5, <1>7, <2>1 DEF ObjType
    <2>3. obj' = [obj EXCEPT ![h] = o]
      BY <1>6, <1>9, <2>1
    <2> QED
      BY <1>2, <1>3, <1>4, <1>7, <1>9, <2>2, <2>3, HandleWritten
  <1> QED
    BY <1>2, <1>8, <1>9

LEMMA WriteStep ==
    ASSUME ReeFsInv, NEW t \in Threads, ree_fs_write(t)
    PROVE  ReeFsInv'
  <1>1. CoreType /\ StorageOK /\ tx \in Nat /\ StorageOK'
    BY StorageFacts, StorageWrite DEF ReeFsInv
  <1>2. PICK h \in Handles : /\ Uses(t, h)
           /\ tx < setup.updates /\ tx' = tx + 1 /\ setup' = setup
           /\ \/ /\ \E c \in CommitOutcomes :
                       /\ obj' = [obj EXCEPT ![h].failed = c.failed, ![h].fh =
                            [obj[h].fh EXCEPT !.slot = WrittenSlot(obj[h].fh), !.hash = tx + 1]]
                       /\ put_dirh(Bits, c.failed)
                 /\ panicked' = ~HashAssertion(obj[h].fh)
                 /\ UNCHANGED <<pobj, call>> /\ dir' = Note(disk')
              \/ /\ obj' = [obj EXCEPT ![h].failed = TRUE, ![h].fh =
                      [obj[h].fh EXCEPT !.slot = WrittenSlot(obj[h].fh), !.hash = tx + 1]]
                 /\ Corrupted(t, h)
                 /\ UNCHANGED <<refcount, pobj, dir, panicked>>
              \/ /\ obj' = [obj EXCEPT ![h].failed = TRUE, ![h].fh.ht = FALSE]
                 /\ UNCHANGED refcount
                 /\ UNCHANGED <<pobj, dir, call, panicked>>
              \/ /\ obj' = [obj EXCEPT ![h].failed = TRUE]
                 /\ UNCHANGED <<refcount, pobj, dir, call, panicked>>
              \/ /\ \E d : LosePower(d)
                 /\ UNCHANGED panicked
    BY CloseDirh DEF ree_fs_write, mem
  <1>3. obj[h] \in ObjType /\ obj[h].fh \in FileType
    BY <1>2, UsesFacts
  <1>4. tx + 1 \in 1 .. MaxTx /\ tx' \in Nat /\ tx <= tx'
    BY <1>1, <1>2, SetupFacts, ReeFsAssumption
  <1>5. WrittenSlot(obj[h].fh) \in Vers
    BY <1>3 DEF FileType, WrittenSlot, Vers
  <1>6. ASSUME NEW c \in CommitOutcomes,
               obj' = [obj EXCEPT ![h].failed = c.failed, ![h].fh =
                  [obj[h].fh EXCEPT !.slot = WrittenSlot(obj[h].fh), !.hash = tx + 1]],
               put_dirh(Bits, c.failed), panicked' = ~HashAssertion(obj[h].fh),
               UNCHANGED <<pobj, call>>, dir' = Note(disk')
        PROVE  ReeFsInv'
    <2>1. PICK x, fh : /\ x = c.failed
                       /\ fh = [obj[h].fh EXCEPT !.slot = WrittenSlot(obj[h].fh), !.hash = tx + 1]
      OBVIOUS
    <2>2. x \in BOOLEAN
      BY <2>1, Outcomes
    <2>3. PICK o : o = [obj[h] EXCEPT !.failed = x, !.fh = fh]
      OBVIOUS
    <2>4. fh \in FileType /\ fh.ino = obj[h].fh.ino
      BY <1>3, <1>4, <1>5, <2>1 DEF FileType
    <2>5. o \in ObjType /\ o.fh = fh /\ o.po = obj[h].po
      BY <1>3, <2>2, <2>3, <2>4 DEF ObjType
    <2>6. obj' = [obj EXCEPT ![h] = o]
      BY <1>6, <2>1, <2>3
    <2>7. Elsewhere
      BY <1>2, <1>4, <1>6 DEF Elsewhere
    <2>8. UNCHANGED refcount
      BY <1>6 DEF put_dirh
    <2> QED
      BY <1>1, <1>2, <1>6, <2>4, <2>5, <2>6, <2>7, <2>8, HandleWritten
  <1>7. CASE /\ obj' = [obj EXCEPT ![h].failed = TRUE, ![h].fh.ht = FALSE]
             /\ UNCHANGED refcount
             /\ UNCHANGED <<pobj, dir, call, panicked>>
    <2>1. PICK fh : fh = [obj[h].fh EXCEPT !.ht = FALSE]
      OBVIOUS
    <2>2. PICK o : o = [obj[h] EXCEPT !.failed = TRUE, !.fh = fh]
      OBVIOUS
    <2>3. fh \in FileType /\ fh.ino = obj[h].fh.ino
      BY <1>3, <2>1 DEF FileType
    <2>4. o \in ObjType /\ o.fh = fh /\ o.po = obj[h].po
      BY <1>3, <2>2, <2>3 DEF ObjType
    <2>5. obj' = [obj EXCEPT ![h] = o]
      BY <1>7, <2>1, <2>2
    <2>6. Elsewhere
      BY <1>1, <1>2, <1>4, <1>7 DEF Elsewhere, CoreType
    <2> QED
      BY <1>1, <1>2, <1>7, <2>3, <2>4, <2>5, <2>6, HandleWritten
  <1>8. CASE /\ obj' = [obj EXCEPT ![h].failed = TRUE]
             /\ UNCHANGED <<refcount, pobj, dir, call, panicked>>
    <2>1. PICK o : o = [obj[h] EXCEPT !.failed = TRUE]
      OBVIOUS
    <2>2. o \in ObjType /\ o.fh = obj[h].fh /\ o.po = obj[h].po
      BY <1>3, <2>1 DEF ObjType
    <2>3. obj' = [obj EXCEPT ![h] = o]
      BY <1>8, <2>1
    <2>4. Elsewhere
      BY <1>1, <1>2, <1>4, <1>8 DEF Elsewhere, CoreType
    <2> QED
      BY <1>1, <1>2, <1>8, <2>2, <2>3, <2>4, HandleWritten
  <1>9. CASE (\E d : LosePower(d)) /\ UNCHANGED panicked
    BY <1>1, <1>2, <1>9, LostKeeps
  <1>10. CASE /\ obj' = [obj EXCEPT ![h].failed = TRUE, ![h].fh =
                   [obj[h].fh EXCEPT !.slot = WrittenSlot(obj[h].fh), !.hash = tx + 1]]
              /\ Corrupted(t, h)
              /\ UNCHANGED <<refcount, pobj, dir, panicked>>
    <2>1. PICK fh : fh = [obj[h].fh EXCEPT !.slot = WrittenSlot(obj[h].fh), !.hash = tx + 1]
      OBVIOUS
    <2>2. PICK o : o = [obj[h] EXCEPT !.failed = TRUE, !.fh = fh]
      OBVIOUS
    <2>3. fh \in FileType /\ fh.ino = obj[h].fh.ino
      BY <1>3, <1>4, <1>5, <2>1 DEF FileType
    <2>4. o \in ObjType /\ o.fh = fh /\ o.po = obj[h].po
      BY <1>3, <2>2, <2>3 DEF ObjType
    <2>5. obj' = [obj EXCEPT ![h] = o]
      BY <1>10, <2>1, <2>2
    <2>6. Elsewhere
      BY <1>1, <1>2, <1>4, <1>10 DEF Elsewhere, CoreType
    <2> QED
      BY <1>1, <1>2, <1>10, <2>3, <2>4, <2>5, <2>6, HandleCorrupted
  <1> QED
    BY <1>2, <1>6, <1>7, <1>8, <1>9, <1>10

LEMMA WriteClosedStep ==
    ASSUME ReeFsInv, NEW t \in Threads, ree_fs_write_closed(t)
    PROVE  ReeFsInv'
  <1>1. CoreType /\ StorageOK /\ refcount \in Nat
    BY DEF ReeFsInv, CoreType
  <1>2. PICK h \in Handles : /\ Uses(t, h) /\ Corrupted(t, h)
                             /\ dirh' = NULL /\ UNCHANGED refcount
    BY CloseDirh DEF ree_fs_write_closed
  <1>3. obj[h].po \in Pobjs /\ ~Referring(call[t]) /\ call[t].fh = NULL
    BY <1>2, UsesFacts
  <1>4. PICK c : c = [Idle EXCEPT !.pc = "remove_corrupt", !.po = obj[h].po, !.h = h]
    OBVIOUS
  <1>5. CallStep(t, c) /\ ~Referring(c) /\ c.fh = NULL
    BY <1>2, <1>3, <1>4, HandleRemoved DEF Corrupted
  <1>6. Elsewhere /\ UNCHANGED <<pobj, obj, dir, disk, tx, refcount>>
    BY <1>1, <1>2, SameElsewhere DEF ree_fs_write_closed
  <1>7. SameReference(call[t], c) /\ SameDirs /\ SameHandle(NULL, NULL)
    BY <1>1, <1>3, <1>5, <1>6, DirsSame DEF SameReference, SameHandle
  <1>8. PobjStep(t, c, NULL, NULL) /\ DirhStep(t, c, NULL, NULL) /\ ObjStep(t, NULL, NULL)
    BY <1>1, <1>3, <1>5, <1>6, <1>7, PobjStays, DirhStays, NoHandle
  <1>9. StorageOK'
    BY <1>1, <1>2, <1>6, StorageHandle
  <1>10. ThreadStep(t)
    BY <1>5, <1>6, <1>8, StepIs
  <1> QED
    BY <1>9, <1>10, ThreadStepKeeps

-----------------------------------------------------------------------------
(* Removing and closing *)

LEMMA DelStep ==
    ASSUME ReeFsInv, NEW t \in Threads, storage_obj_del(t)
    PROVE  ReeFsInv'
  <1>1. CoreType /\ StorageOK
    BY DEF ReeFsInv
  <1>2. PICK h \in Handles :
           /\ Uses(t, h)
           /\ call' = [call EXCEPT ![t] =
                 [Idle EXCEPT !.pc = "remove", !.po = obj[h].po, !.h = h]]
    BY DEF storage_obj_del
  <1>3. obj[h].po \in Pobjs /\ ~Referring(call[t]) /\ call[t].fh = NULL
    BY <1>2, UsesFacts
  <1>4. PICK c : c = [Idle EXCEPT !.pc = "remove", !.po = obj[h].po, !.h = h]
    OBVIOUS
  <1>5. CallStep(t, c) /\ ~Referring(c) /\ c.fh = NULL
    BY <1>2, <1>3, <1>4, HandleRemoved
  <1>6. Elsewhere /\ Untouched /\ UNCHANGED <<pobj, obj, dir, refcount>>
    BY <1>1, SameElsewhere DEF storage_obj_del, mem, Untouched
  <1>7. SameReference(call[t], c) /\ SameDirs /\ SameHandle(NULL, NULL)
    BY <1>1, <1>3, <1>5, <1>6, DirsSame DEF SameReference, SameHandle
  <1>8. PobjStep(t, c, NULL, NULL) /\ DirhStep(t, c, NULL, NULL) /\ ObjStep(t, NULL, NULL)
    BY <1>1, <1>3, <1>5, <1>6, <1>7, PobjStays, DirhStays, NoHandle
  <1>9. ThreadStep(t) /\ StorageOK'
    BY <1>1, <1>5, <1>6, <1>8, StepIs, StorageStays
  <1> QED
    BY <1>9, ThreadStepKeeps

LEMMA RemoveStep ==
    ASSUME ReeFsInv, NEW t \in Threads, ree_fs_remove(t)
    PROVE  ReeFsInv'
  <1>1. CoreType /\ StorageOK /\ CallOK(t, call[t], obj) /\ call[t] \in CallType /\ StorageOK'
    BY CallFacts, StorageRemove DEF ReeFsInv
  <1>2. /\ call[t].pc \in {"remove", "remove_corrupt"} /\ call[t].fh = NULL
        /\ Referring(call[t]) <=> call[t].h = NULL
    BY <1>1 DEF ree_fs_remove, CallOK, Referring
  <1>3. \/ /\ Go(t, IF call[t].h = NULL THEN "release" ELSE "close")
           /\ UNCHANGED <<pobj, obj, refcount>>
           /\ (dir' = dir \/ dir' = Note(disk'))
        \/ \E d : LosePower(d)
    BY CloseDirh DEF ree_fs_remove, put_dirh, put_failed_dirh
  <1>4. Elsewhere /\ setup' = setup /\ panicked' = panicked
    BY <1>1, SameElsewhere DEF ree_fs_remove
  <1>5. ASSUME Go(t, IF call[t].h = NULL THEN "release" ELSE "close"),
               UNCHANGED <<pobj, obj, refcount>>, dir' = dir \/ dir' = Note(disk')
        PROVE  ReeFsInv'
    <2>1. SameDirs
      BY <1>1, <1>5, DirsSame
    <2>2. CASE call[t].h = NULL
      <3>1. Go(t, "release") /\ Referring(call[t]) /\ call[t].pc # "enum_close"
        BY <1>2, <1>5, <2>2
      <3>2. ThreadStep(t)
        BY <1>4, <1>5, <2>1, <3>1, GivesUp
      <3> QED
        BY <1>1, <3>2, ThreadStepKeeps
    <2>3. CASE call[t].h # NULL
      <3>1. PICK c \in CallType : /\ call' = [call EXCEPT ![t] = c]
                                  /\ c.pc = "close" /\ c.po = call[t].po
                                  /\ c.h = call[t].h /\ c.fh = call[t].fh
        <4>1. "close" \in PCs /\ Go(t, "close")
          BY <1>5, <2>3 DEF PCs
        <4> QED
          BY <1>1, <4>1, GoFacts
      <3>2. ~Referring(c) /\ CallStep(t, c)
        BY <1>2, <3>1 DEF CallStep, CallOK, FileOK, Referring
      <3>3. SameReference(call[t], c) /\ SameHandle(NULL, NULL)
        BY <1>2, <2>3, <3>2 DEF SameReference, SameHandle
      <3>4. PobjStep(t, c, NULL, NULL) /\ DirhStep(t, c, NULL, NULL) /\ ObjStep(t, NULL, NULL)
        BY <1>1, <1>5, <2>1, <3>1, <3>3, PobjStays, DirhStays, NoHandle
      <3>5. ThreadStep(t)
        BY <1>4, <3>2, <3>4, StepIs
      <3> QED
        BY <1>1, <3>5, ThreadStepKeeps
    <2> QED
      BY <2>2, <2>3
  <1>6. CASE \E d : LosePower(d)
    BY <1>1, <1>4, <1>6, LostKeeps
  <1> QED
    BY <1>3, <1>5, <1>6

LEMMA CloseStep ==
    ASSUME ReeFsInv, NEW t \in Threads, tee_obj_close(t)
    PROVE  ReeFsInv'
  <1>1. CoreType /\ StorageOK /\ CallOK(t, call[t], obj) /\ call[t] \in CallType
    BY CallFacts DEF ReeFsInv
  <1>2. PICK h \in Handles :
           /\ obj[h] # NULL /\ obj[h].own = t
           /\ call[t].pc \in {"idle", "close"}
           /\ obj' = [obj EXCEPT ![h] = NULL]
           /\ call' = [call EXCEPT ![t] = [Idle EXCEPT !.pc = "release", !.po = obj[h].po]]
    BY DEF tee_obj_close
  <1>3. PICK oo, c : oo = obj[h] /\ c = [Idle EXCEPT !.pc = "release", !.po = oo.po]
    OBVIOUS
  <1>4. oo # NULL /\ oo \in ObjType /\ oo.own = t /\ oo.po \in Pobjs
    BY <1>1, <1>2, <1>3 DEF CoreType, ObjType
  <1>5. ~Referring(call[t]) /\ call[t].fh = NULL
    BY <1>1, <1>2 DEF CallOK, Referring
  <1>6. c \in CallType /\ c.pc = "release" /\ c.po = oo.po /\ c.fh = NULL
    BY <1>3, <1>4 DEF Idle, CallType, PCs
  <1>7. Referring(c) /\ CallStep(t, c)
    BY <1>2, <1>3, <1>4, <1>6, ReleaseOK DEF CallStep
  <1>8. ObjStep(t, oo, NULL)
    BY <1>2, <1>3, <1>4 DEF ObjStep
  <1>9. /\ put_dirh_primitive /\ Elsewhere /\ SameDirs /\ UNCHANGED <<disk, tx, pobj>>
    BY <1>1, SameElsewhere, DirsSame DEF tee_obj_close
  <1>10. PobjStep(t, c, oo, NULL)
    <2>1. \A p \in Pobjs : UsesOne(call[t], p) = 0 /\ HasOne(NULL, p) = 0
      BY <1>5 DEF HasOne, HasPobj, UsesOne, UsesPobj
    <2>2. \A p \in Pobjs : UsesOne(c, p) = HasOne(oo, p) /\ HasOne(oo, p) \in Int
      BY <1>4, <1>6, <1>7 DEF HasOne, HasPobj, UsesOne, UsesPobj
    <2>3. \A p \in Pobjs : UsesOne(call[t], p) + HasOne(oo, p) = UsesOne(c, p) + HasOne(NULL, p)
      BY <2>1, <2>2
    <2> QED
      BY <1>1, <1>9, <2>3, PobjSame
  <1>11. DirhStep(t, c, oo, NULL)
    <2>1. ObjOne(oo) = 1 /\ ObjOne(NULL) = 0 /\ HeadOne(c) = 0 /\ HeadOne(call[t]) = 0
      BY <1>4, <1>5, <1>6 DEF ObjOne, HeadOne
    <2>2. HeadOne(c) + ObjOne(NULL) + 1 = HeadOne(call[t]) + ObjOne(oo)
      BY <2>1
    <2> QED
      BY <1>1, <1>9, <2>2, DirhPut
  <1>12. refcount \in Nat /\ refcount # 0
    BY <1>2, DirhInUse
  <1>13. StorageOK'
    BY <1>1, <1>9, <1>12, StoragePut
  <1>14. ThreadStep(t)
    BY <1>7, <1>8, <1>9, <1>10, <1>11, StepIs
  <1> QED
    BY <1>13, <1>14, ThreadStepKeeps

LEMMA ReleaseStep ==
    ASSUME ReeFsInv, NEW t \in Threads, tee_pobj_release(t)
    PROVE  ReeFsInv'
  <1>1. CoreType /\ StorageOK /\ CallOK(t, call[t], obj)
    BY CallFacts DEF ReeFsInv
  <1>2. call[t].fh = NULL
    BY <1>1 DEF tee_pobj_release, CallOK
  <1>3. Elsewhere /\ Untouched /\ UNCHANGED <<obj, dir, refcount>>
    BY <1>1, SameElsewhere DEF tee_pobj_release, mem, Untouched
  <1>4. CallStep(t, Idle)
    BY IdleFacts DEF tee_pobj_release, CallStep, Return, CallOK, FileOK
  <1>5. SameDirs /\ SameHandle(NULL, NULL)
    BY <1>1, <1>3, DirsSame DEF SameHandle
  <1>6. PobjStep(t, Idle, NULL, NULL) /\ DirhStep(t, Idle, NULL, NULL) /\ ObjStep(t, NULL, NULL)
    BY <1>1, <1>2, <1>3, <1>5, IdleFacts, PobjReleased, DirhStays, NoHandle
  <1>7. ThreadStep(t) /\ StorageOK'
    BY <1>1, <1>3, <1>4, <1>6, StepIs, StorageStays
  <1> QED
    BY <1>7, ThreadStepKeeps

-----------------------------------------------------------------------------
(* Renaming *)

LEMMA RenameStartStep ==
    ASSUME ReeFsInv, NEW t \in Threads, storage_obj_rename(t)
    PROVE  ReeFsInv'
  <1>1. CoreType /\ StorageOK
    BY DEF ReeFsInv
  <1>2. PICK h \in Handles, m \in Names, p \in Pobjs :
           /\ Uses(t, h)
           /\ tee_pobj_get(p, m, {"meta"}, "rename", FALSE)
           /\ call' = [call EXCEPT ![t] = [Idle EXCEPT !.pc = "rename", !.po = p, !.h = h]]
    BY DEF storage_obj_rename
  <1>3. PICK c : c = [Idle EXCEPT !.pc = "rename", !.po = p, !.h = h]
    OBVIOUS
  <1>4. c \in CallType /\ c.pc = "rename" /\ c.po = p /\ c.h = h /\ c.fh = NULL
    BY <1>3 DEF Idle, CallType, PCs
  <1>5. obj[h] # NULL /\ obj[h].own = t /\ ~Referring(call[t]) /\ call[t].fh = NULL
    BY <1>2, UsesFacts
  <1>6. Elsewhere /\ Untouched /\ UNCHANGED <<obj, dir, refcount>>
    BY <1>1, SameElsewhere DEF storage_obj_rename, mem, Untouched
  <1>7. Referring(c) /\ CallStep(t, c)
    BY <1>2, <1>3, <1>4, <1>5, <1>6 DEF CallStep, CallOK, FileOK, Referring
  <1>8. {"meta"} \in SUBSET Modes
    BY DEF Modes
  <1>9. PobjStep(t, c, NULL, NULL)
    BY <1>1, <1>2, <1>4, <1>5, <1>7, <1>8, PobjGot
  <1>10. SameDirs /\ SameHandle(NULL, NULL)
    BY <1>1, <1>6, DirsSame DEF SameHandle
  <1>11. DirhStep(t, c, NULL, NULL) /\ ObjStep(t, NULL, NULL)
    BY <1>1, <1>4, <1>5, <1>6, <1>10, DirhStays, NoHandle
  <1>12. ThreadStep(t) /\ StorageOK'
    BY <1>1, <1>6, <1>7, <1>9, <1>11, StepIs, StorageStays
  <1> QED
    BY <1>12, ThreadStepKeeps

LEMMA RenameStep ==
    ASSUME ReeFsInv, NEW t \in Threads, ree_fs_rename(t)
    PROVE  ReeFsInv'
  <1>1. CoreType /\ StorageOK /\ FilesOK /\ CallOK(t, call[t], obj) /\ call[t] \in CallType
    BY CallFacts DEF ReeFsInv
  <1>2. PICK h : h = call[t].h
    OBVIOUS
  <1>3. /\ call[t].pc = "rename" /\ Referring(call[t]) /\ call[t].po \in Pobjs /\ call[t].fh = NULL
        /\ h \in Handles /\ obj[h] # NULL /\ obj[h].own = t
    BY <1>1, <1>2 DEF ree_fs_rename, CallOK, Referring
  <1>4. pobj[call[t].po].name \in Names
    <2>1. UsesPobj(call[t], call[t].po)
      BY <1>3 DEF UsesPobj
    <2> QED
      BY <1>3, <2>1, PobjThere
  <1>5. StorageOK'
    BY <1>1, <1>4, StorageRename
  <1>6. Elsewhere /\ setup' = setup /\ panicked' = panicked /\ tx' = tx
    BY <1>1, SameElsewhere DEF ree_fs_rename
  <1>7. \/ Go(t, "release") /\ UNCHANGED <<pobj, obj, refcount, dir>>
        \/ /\ \E c \in CommitOutcomes :
                 /\ Go(t, IF c.failed THEN "release" ELSE "pobj_rename")
                 /\ obj' = [obj EXCEPT ![h].failed = c.failed]
           /\ dir' = Note(disk') /\ UNCHANGED <<pobj, refcount>>
        \/ \E d : LosePower(d)
    BY <1>2, CloseDirh DEF ree_fs_rename, put_dirh
  <1>8. CASE Go(t, "release") /\ UNCHANGED <<pobj, obj, refcount, dir>>
    <2>1. SameDirs
      BY <1>1, <1>8, DirsSame
    <2>2. ThreadStep(t)
      BY <1>3, <1>6, <1>8, <2>1, GivesUp
    <2> QED
      BY <1>5, <2>2, ThreadStepKeeps
  <1>9. ASSUME NEW k \in CommitOutcomes, Go(t, IF k.failed THEN "release" ELSE "pobj_rename"),
               obj' = [obj EXCEPT ![h].failed = k.failed],
               dir' = Note(disk'), UNCHANGED <<pobj, refcount>>
        PROVE  ReeFsInv'
    <2>1. PICK x, oo : x = k.failed /\ oo = obj[h]
      OBVIOUS
    <2>2. PICK o : o = [oo EXCEPT !.failed = x]
      OBVIOUS
    <2>3. x \in BOOLEAN
      BY <2>1, Outcomes
    <2>4. oo \in ObjType /\ FileOK(oo.fh, tx)
      BY <1>1, <1>3, <2>1 DEF CoreType, FilesOK
    <2>5. o \in ObjType /\ o.fh = oo.fh /\ o.po = oo.po /\ o.own = oo.own
      BY <2>2, <2>3, <2>4 DEF ObjType
    <2>6. obj' = [obj EXCEPT ![h] = o]
      BY <1>9, <2>1, <2>2
    <2>7. FileOK(o.fh, tx')
      BY <1>6, <2>4, <2>5
    <2>8. ObjStep(t, oo, o) /\ SameHandle(oo, o)
      BY <1>3, <2>1, <2>4, <2>5, <2>6, <2>7, HandleChanged
    <2>9. PICK pc \in {"release", "pobj_rename"} : Go(t, pc)
      BY <1>9
    <2>10. PICK c \in CallType : /\ call' = [call EXCEPT ![t] = c]
                                 /\ c.pc = pc /\ c.po = call[t].po
                                 /\ c.h = call[t].h /\ c.fh = call[t].fh
      <3>1. pc \in PCs
        BY DEF PCs
      <3> QED
        BY <1>1, <2>9, <3>1, GoFacts
    <2>11. obj'[h] # NULL /\ obj'[h].own = t
      BY <1>1, <1>3, <2>1, <2>5, <2>6, ReeFsAssumption DEF CoreType
    <2>12. Referring(c) /\ CallStep(t, c)
      BY <1>2, <1>3, <2>10, <2>11 DEF CallStep, CallOK, FileOK, Referring
    <2>13. SameReference(call[t], c) /\ SameDirs
      BY <1>1, <1>3, <1>9, <2>10, <2>12, DirsSame DEF SameReference
    <2>14. PobjStep(t, c, oo, o) /\ DirhStep(t, c, oo, o)
      BY <1>1, <1>9, <2>8, <2>10, <2>13, PobjStays, DirhStays
    <2>15. ThreadStep(t)
      BY <1>6, <2>8, <2>12, <2>14, StepIs
    <2> QED
      BY <1>5, <2>15, ThreadStepKeeps
  <1>10. CASE \E d : LosePower(d)
    BY <1>1, <1>5, <1>6, <1>10, LostKeeps
  <1> QED
    BY <1>7, <1>8, <1>9, <1>10

LEMMA PobjRenameStep ==
    ASSUME ReeFsInv, NEW t \in Threads, tee_pobj_rename(t)
    PROVE  ReeFsInv'
  <1>1. CoreType /\ StorageOK /\ CallOK(t, call[t], obj) /\ call[t] \in CallType
    BY CallFacts DEF ReeFsInv
  <1>2. PICK h, p : h = call[t].h /\ p = obj[h].po
    OBVIOUS
  <1>3. /\ Referring(call[t]) /\ call[t].po \in Pobjs /\ call[t].fh = NULL
        /\ h \in Handles /\ obj[h] # NULL
    BY <1>1, <1>2 DEF tee_pobj_rename, CallOK, Referring
  <1>4. p \in Pobjs /\ HasPobj(obj[h], p) /\ UsesPobj(call[t], call[t].po)
    BY <1>1, <1>2, <1>3 DEF CoreType, ObjType, HasPobj, UsesPobj
  <1>5. pobj[p] \in PobjType /\ pobj[call[t].po].name \in Names
    BY <1>3, <1>4, PobjThere
  <1>6. Elsewhere /\ Untouched /\ UNCHANGED <<obj, dir, refcount>>
    BY <1>1, SameElsewhere DEF tee_pobj_rename, mem, Untouched
  <1>7. PICK c \in CallType : /\ call' = [call EXCEPT ![t] = c]
                              /\ c.pc = "release" /\ c.po = call[t].po /\ c.fh = call[t].fh
    <2>1. "release" \in PCs /\ Go(t, "release")
      BY DEF PCs, tee_pobj_rename
    <2> QED
      BY <1>1, <2>1, GoFacts
  <1>8. Referring(c) /\ CallStep(t, c)
    BY <1>3, <1>7, ReleaseOK DEF CallStep
  <1>9. SameReference(call[t], c) /\ SameDirs /\ SameHandle(NULL, NULL)
    BY <1>1, <1>3, <1>6, <1>7, <1>8, DirsSame DEF SameReference, SameHandle
  <1>10. PobjStep(t, c, NULL, NULL)
    <2>1. \/ pobj' = pobj
          \/ pobj' = [pobj EXCEPT ![p].name = pobj[call[t].po].name]
      BY <1>2 DEF tee_pobj_rename
    <2>2. CASE pobj' = pobj
      BY <1>1, <1>9, <2>2, PobjStays
    <2>3. CASE pobj' = [pobj EXCEPT ![p].name = pobj[call[t].po].name]
      <3>1. PICK r : r = [pobj[p] EXCEPT !.name = pobj[call[t].po].name]
        OBVIOUS
      <3>2. r \in PobjType /\ r.refcnt = pobj[p].refcnt
        BY <1>5, <3>1 DEF PobjType
      <3>3. pobj' = [pobj EXCEPT ![p] = r]
        BY <2>3, <3>1
      <3>4. PobjRenewed(t, c, p, r)
        BY <1>4, <1>5, <1>9, <3>2, <3>3 DEF PobjRenewed
      <3> QED
        BY <1>1, <3>4, PobjChanged
    <2> QED
      BY <2>1, <2>2, <2>3
  <1>11. DirhStep(t, c, NULL, NULL) /\ ObjStep(t, NULL, NULL)
    BY <1>1, <1>6, <1>7, <1>9, DirhStays, NoHandle
  <1>12. ThreadStep(t) /\ StorageOK'
    BY <1>1, <1>6, <1>8, <1>10, <1>11, StepIs, StorageStays
  <1> QED
    BY <1>12, ThreadStepKeeps

-----------------------------------------------------------------------------
(* Enumerating *)

LEMMA NumberedFacts ==
    ASSUME StorageOK
    PROVE  /\ Numbered(disk.dirf) \in SUBSET Numbers
           /\ \A i \in Used(disk.dirf) :
                 /\ i \in Nat \ {0}
                 /\ disk.dirf[i].f \in Numbers /\ disk.dirf[i].name \in Names
  <1>1. \A i \in Used(disk.dirf) :
           /\ i \in 1 .. Len(disk.dirf) /\ Len(disk.dirf) \in Nat
           /\ disk.dirf[i].f \in Numbers /\ disk.dirf[i].name \in Names
    BY StorageFacts, DentFacts
  <1> QED
    BY <1>1 DEF Numbered

LEMMA IdleStays ==
    ASSUME ReeFsInv, NEW t \in Threads, call[t].pc = "idle", UNCHANGED <<call, obj>>
    PROVE  CallStep(t, call[t]) /\ SameReference(call[t], call[t]) /\ call[t].fh = NULL
  <1>1. CoreType /\ CallOK(t, call[t], obj) /\ call[t] \in CallType
    BY CallFacts DEF ReeFsInv
  <1>2. call[t].fh = NULL /\ call' = [call EXCEPT ![t] = call[t]]
    BY <1>1 DEF CallOK, CoreType
  <1>3. CallOK(t, call[t], obj')
    BY <1>1
  <1> QED
    BY <1>1, <1>2, <1>3 DEF CallStep, FileOK, SameReference

\* The enumeration of thread t changes.
LEMMA DirChanged ==
    ASSUME CoreType, NEW t \in Threads, NEW e \in DirType, dir' = [dir EXCEPT ![t] = e]
    PROVE  /\ dir' \in [Threads -> DirType] /\ dir'[t] = e
           /\ \A u \in Threads \ {t} : dir'[u].idx = dir[u].idx
  BY DEF CoreType

LEMMA OpendirStep ==
    ASSUME ReeFsInv, NEW t \in Threads, ree_fs_opendir(t)
    PROVE  ReeFsInv'
  <1>1. CoreType /\ StorageOK /\ refcount \in Nat
    BY DEF ReeFsInv, CoreType
  <1>2. /\ call[t].pc = "idle" /\ dir[t].idx = -1 /\ Elsewhere
        /\ UNCHANGED <<pobj, obj, call, disk, tx>>
    BY <1>1, SameElsewhere DEF ree_fs_opendir
  <1>3. CallStep(t, call[t]) /\ SameReference(call[t], call[t]) /\ call[t].fh = NULL
    BY <1>2, IdleStays
  <1>4. PobjStep(t, call[t], NULL, NULL) /\ ObjStep(t, NULL, NULL) /\ SameHandle(NULL, NULL)
    BY <1>1, <1>2, <1>3, PobjStays, NoHandle DEF SameHandle
  <1>5. CASE /\ keep_dirh(Bits)
             /\ dir' = [dir EXCEPT ![t] =
                   [idx |-> 0, due |-> Numbered(disk.dirf), seen |-> {}]]
    <2>1. PICK e : e = [idx |-> 0, due |-> Numbered(disk.dirf), seen |-> {}]
      OBVIOUS
    <2>2. e \in DirType /\ e.idx = 0
      BY <1>1, <2>1, NumberedFacts DEF DirType
    <2>3. /\ dir' \in [Threads -> DirType] /\ dir'[t] = e
          /\ \A u \in Threads \ {t} : dir'[u].idx = dir[u].idx
      BY <1>1, <1>5, <2>1, <2>2, DirChanged
    <2>4. DirOne(dir[t]) = 0 /\ DirOne(dir'[t]) = 1 /\ HeadOne(call[t]) = 0 /\ ObjOne(NULL) = 0
      BY <1>2, <1>3, <2>2, <2>3 DEF DirOne, HeadOne, ObjOne
    <2>5. refcount' = refcount + 1
      BY <1>5 DEF keep_dirh
    <2>6. refcount' + DirOne(dir[t]) + HeadOne(call[t]) + ObjOne(NULL) =
          refcount + DirOne(dir'[t]) + HeadOne(call[t]) + ObjOne(NULL)
      BY <1>1, <2>4, <2>5
    <2>7. DirhStep(t, call[t], NULL, NULL)
      BY <1>1, <2>3, <2>5, <2>6 DEF DirhStep
    <2>8. StorageOK'
      BY <1>1, <1>2, <1>5, StorageHandle
    <2>9. ThreadStep(t)
      BY <1>2, <1>3, <1>4, <2>7, StepIs
    <2> QED
      BY <2>8, <2>9, ThreadStepKeeps
  <1>6. CASE (put_dirh(Bits, FALSE) \/ put_failed_dirh(Bits)) /\ UNCHANGED dir
    <2>1. SameDirs /\ UNCHANGED refcount
      BY <1>1, <1>6, DirsSame DEF put_dirh, put_failed_dirh
    <2>2. DirhStep(t, call[t], NULL, NULL)
      BY <1>1, <1>4, <2>1, DirhStays
    <2>3. StorageOK'
      BY <1>1, <1>2, <1>6, StorageHandle
    <2>4. ThreadStep(t)
      BY <1>2, <1>3, <1>4, <2>2, StepIs
    <2> QED
      BY <2>3, <2>4, ThreadStepKeeps
  <1> QED
    BY <1>5, <1>6 DEF ree_fs_opendir

\* The enumeration of thread t stays open.
LEMMA DirhReads ==
    ASSUME CoreType, NEW t \in Threads, NEW c, c.fh = call[t].fh, NEW e \in DirType,
           dir' = [dir EXCEPT ![t] = e], dir[t].idx # -1, e.idx # -1, UNCHANGED refcount
    PROVE  DirhStep(t, c, NULL, NULL)
  <1>1. /\ dir' \in [Threads -> DirType] /\ dir'[t] = e
        /\ \A u \in Threads \ {t} : dir'[u].idx = dir[u].idx
    BY DirChanged
  <1>2. DirOne(dir'[t]) = DirOne(dir[t]) /\ HeadOne(c) = HeadOne(call[t])
    BY <1>1 DEF DirOne, HeadOne
  <1>3. refcount' = refcount /\ refcount \in Int
    BY DEF CoreType
  <1> QED
    BY <1>1, <1>2, <1>3 DEF DirhStep

LEMMA ReaddirStep ==
    ASSUME ReeFsInv, NEW t \in Threads, ree_fs_readdir(t)
    PROVE  ReeFsInv'
  <1>1. CoreType /\ StorageOK /\ CallOK(t, call[t], obj) /\ refcount \in Nat /\ dir[t] \in DirType
    BY CallFacts DEF ReeFsInv, CoreType
  <1>2. /\ call[t].pc = "idle" /\ dir[t].idx >= 0 /\ Elsewhere
        /\ put_dirh(Bits, FALSE) \/ dirh' = NULL
        /\ UNCHANGED <<pobj, obj, disk, tx, refcount>>
    BY <1>1, SameElsewhere, CloseDirh DEF ree_fs_readdir, put_dirh
  <1>3. dir[t].idx # -1 /\ ~Referring(call[t]) /\ call[t].fh = NULL
    BY <1>1, <1>2 DEF DirType, Referring, CallOK
  <1>4. StorageOK' /\ SameHandle(NULL, NULL) /\ ObjStep(t, NULL, NULL)
    BY <1>1, <1>2, StorageHandle, NoHandle DEF SameHandle
  <1>0. CASE UNCHANGED <<dir, call>>
    <2>1. CallStep(t, call[t]) /\ SameReference(call[t], call[t]) /\ SameDirs
      BY <1>0, <1>1, <1>2, IdleStays, DirsSame
    <2>2. PobjStep(t, call[t], NULL, NULL) /\ DirhStep(t, call[t], NULL, NULL)
      BY <1>1, <1>2, <1>4, <2>1, PobjStays, DirhStays
    <2>3. ThreadStep(t)
      BY <1>2, <1>4, <2>1, <2>2, StepIs
    <2> QED
      BY <1>4, <2>3, ThreadStepKeeps
  <1>5. CASE Ahead(t) # {} /\ ~UNCHANGED <<dir, call>>
    <2>1. PICK i, f, n : i = Min(Ahead(t)) /\ f = disk.dirf[i].f /\ n = disk.dirf[i].name
      OBVIOUS
    <2>2. PICK e, c : /\ e = [idx |-> i, due |-> dir[t].due \ {f}, seen |-> dir[t].seen \cup {f}]
                      /\ c = [Idle EXCEPT !.pc = "enum_get", !.name = n]
      OBVIOUS
    <2>3. dir' = [dir EXCEPT ![t] = e] /\ call' = [call EXCEPT ![t] = c]
      BY <1>5, <2>1, <2>2 DEF ree_fs_readdir
    <2>4. i \in Used(disk.dirf)
      <3>1. Ahead(t) \in SUBSET Nat /\ Ahead(t) \subseteq Used(disk.dirf)
        BY <1>1, NumberedFacts DEF Ahead
      <3> QED
        BY <1>5, <2>1, <3>1, MinIsLeast
    <2>5. i \in Nat \ {0} /\ f \in Numbers /\ n \in Names
      BY <1>1, <2>1, <2>4, NumberedFacts
    <2>6. e \in DirType /\ e.idx # -1
      BY <1>1, <2>2, <2>5 DEF DirType
    <2>7. c \in CallType /\ c.pc = "enum_get" /\ c.name = n /\ c.fh = NULL
      BY <2>2, <2>5 DEF Idle, CallType, PCs
    <2>8. ~Referring(c) /\ CallStep(t, c)
      BY <2>3, <2>5, <2>7 DEF CallStep, CallOK, FileOK, Referring
    <2>9. SameReference(call[t], c)
      BY <1>3, <2>8 DEF SameReference
    <2>10. PobjStep(t, c, NULL, NULL) /\ DirhStep(t, c, NULL, NULL)
      BY <1>1, <1>2, <1>3, <1>4, <2>3, <2>6, <2>7, <2>9, PobjStays, DirhReads
    <2>11. ThreadStep(t)
      BY <1>2, <1>4, <2>8, <2>10, StepIs
    <2> QED
      BY <1>4, <2>11, ThreadStepKeeps
  <1>6. CASE Ahead(t) = {} /\ ~UNCHANGED <<dir, call>>
    <2>1. dir' = [dir EXCEPT ![t].idx = -2] /\ UNCHANGED call
      BY <1>6 DEF ree_fs_readdir
    <2>2. PICK e : e = [dir[t] EXCEPT !.idx = -2]
      OBVIOUS
    <2>3. e \in DirType /\ e.idx # -1 /\ dir' = [dir EXCEPT ![t] = e]
      BY <1>1, <2>1, <2>2 DEF DirType
    <2>4. CallStep(t, call[t]) /\ SameReference(call[t], call[t])
      BY <1>2, <2>1, IdleStays
    <2>5. PobjStep(t, call[t], NULL, NULL) /\ DirhStep(t, call[t], NULL, NULL)
      BY <1>1, <1>2, <1>3, <1>4, <2>3, <2>4, PobjStays, DirhReads
    <2>6. ThreadStep(t)
      BY <1>2, <1>4, <2>4, <2>5, StepIs
    <2> QED
      BY <1>4, <2>6, ThreadStepKeeps
  <1> QED
    BY <1>0, <1>5, <1>6

LEMMA EnumGetStep ==
    ASSUME ReeFsInv, NEW t \in Threads, enum_get(t)
    PROVE  ReeFsInv'
  <1>1. CoreType /\ StorageOK /\ CallOK(t, call[t], obj) /\ call[t] \in CallType
    BY CallFacts DEF ReeFsInv
  <1>2. PICK p \in Pobjs :
           /\ tee_pobj_get(p, call[t].name, {}, "enum", FALSE)
           /\ call' = [call EXCEPT ![t].pc = "enum_open", ![t].po = p]
    BY DEF enum_get
  <1>3. call[t].name \in Names /\ ~Referring(call[t]) /\ call[t].fh = NULL
    BY <1>1 DEF enum_get, CallOK, Referring
  <1>4. PICK c : c = [call[t] EXCEPT !.pc = "enum_open", !.po = p]
    OBVIOUS
  <1>5. c \in CallType /\ c.pc = "enum_open" /\ c.po = p /\ c.fh = NULL
    BY <1>1, <1>3, <1>4 DEF CallType, PCs
  <1>6. call' = [call EXCEPT ![t] = c]
    BY <1>2, <1>4
  <1>7. Referring(c) /\ CallStep(t, c)
    BY <1>5, <1>6 DEF CallStep, CallOK, FileOK, Referring
  <1>8. {} \in SUBSET Modes
    OBVIOUS
  <1>9. PobjStep(t, c, NULL, NULL)
    BY <1>1, <1>2, <1>3, <1>5, <1>7, <1>8, PobjGot
  <1>10. Elsewhere /\ Untouched /\ UNCHANGED <<obj, dir, refcount>>
    BY <1>1, SameElsewhere DEF enum_get, mem, Untouched
  <1>11. SameDirs /\ SameHandle(NULL, NULL)
    BY <1>1, <1>10, DirsSame DEF SameHandle
  <1>12. DirhStep(t, c, NULL, NULL) /\ ObjStep(t, NULL, NULL)
    BY <1>1, <1>3, <1>5, <1>10, <1>11, DirhStays, NoHandle
  <1>13. ThreadStep(t) /\ StorageOK'
    BY <1>1, <1>7, <1>9, <1>10, <1>12, StepIs, StorageStays
  <1> QED
    BY <1>13, ThreadStepKeeps

LEMMA EnumOpenStep ==
    ASSUME ReeFsInv, NEW t \in Threads, enum_open(t)
    PROVE  ReeFsInv'
  <1>1. CoreType /\ StorageOK /\ CallOK(t, call[t], obj) /\ call[t] \in CallType
        /\ refcount \in Nat
    BY CallFacts DEF ReeFsInv, CoreType
  <1>2. /\ call[t].pc = "enum_open" /\ Referring(call[t]) /\ call[t].po \in Pobjs
        /\ call[t].fh = NULL
    BY <1>1 DEF enum_open, CallOK, Referring
  <1>3. Elsewhere /\ SameDirs /\ UNCHANGED <<obj, pobj, disk, tx>>
    BY <1>1, SameElsewhere, DirsSame DEF enum_open
  <1>4. ASSUME NEW fh \in Opened(t), keep_dirh(Bits),
               call' = [call EXCEPT ![t].pc = "enum_close", ![t].fh = fh]
        PROVE  ReeFsInv'
    <2>1. fh \in FileType /\ FileOK(fh, tx) /\ fh # NULL
      BY <1>1, OpenedFacts, ReeFsAssumption
    <2>2. PICK c : c = [call[t] EXCEPT !.pc = "enum_close", !.fh = fh]
      OBVIOUS
    <2>3. c \in CallType /\ c.pc = "enum_close" /\ c.po = call[t].po /\ c.fh = fh
      BY <1>1, <2>1, <2>2 DEF CallType, PCs
    <2>4. call' = [call EXCEPT ![t] = c]
      BY <1>4, <2>2
    <2>5. FileOK(c.fh, tx')
      BY <1>3, <2>1, <2>3
    <2>6. Referring(c) /\ CallStep(t, c)
      BY <1>2, <2>1, <2>3, <2>4, <2>5 DEF CallStep, CallOK, Referring
    <2>7. SameReference(call[t], c) /\ SameHandle(NULL, NULL)
      BY <1>2, <2>3, <2>6 DEF SameReference, SameHandle
    <2>8. PobjStep(t, c, NULL, NULL) /\ ObjStep(t, NULL, NULL)
      BY <1>1, <1>3, <2>7, PobjStays, NoHandle
    <2>9. HeadOne(c) = 1 /\ HeadOne(call[t]) = 0 /\ ObjOne(NULL) = 0
      BY <1>2, <2>1, <2>3 DEF HeadOne, ObjOne
    <2>10. HeadOne(c) + ObjOne(NULL) = HeadOne(call[t]) + ObjOne(NULL) + 1
      BY <2>9
    <2>11. DirhStep(t, c, NULL, NULL)
      BY <1>1, <1>3, <1>4, <2>10, DirhKept
    <2>12. StorageOK'
      BY <1>1, <1>3, <1>4, StorageHandle
    <2>13. ThreadStep(t)
      BY <1>3, <2>6, <2>8, <2>11, StepIs
    <2> QED
      BY <2>12, <2>13, ThreadStepKeeps
  <1>5. CASE close_dirh /\ Go(t, "release")
    <2>0. dirh' = NULL /\ UNCHANGED refcount
      BY <1>5, CloseDirh
    <2>1. ThreadStep(t)
      BY <1>2, <1>3, <1>5, <2>0, GivesUp
    <2>2. StorageOK'
      BY <1>1, <1>3, <2>0, StorageHandle
    <2> QED
      BY <2>1, <2>2, ThreadStepKeeps
  <1> QED
    BY <1>4, <1>5 DEF enum_open

LEMMA EnumCloseStep ==
    ASSUME ReeFsInv, NEW t \in Threads, enum_close(t)
    PROVE  ReeFsInv'
  <1>1. CoreType /\ StorageOK /\ CallOK(t, call[t], obj) /\ call[t] \in CallType
    BY CallFacts DEF ReeFsInv
  <1>2. /\ call[t].pc = "enum_close" /\ Referring(call[t]) /\ call[t].po \in Pobjs
        /\ call[t].fh # NULL
    BY <1>1 DEF enum_close, CallOK, Referring
  <1>3. /\ put_dirh_primitive /\ Elsewhere /\ SameDirs /\ UNCHANGED <<obj, pobj, disk, tx>>
    BY <1>1, SameElsewhere, DirsSame DEF enum_close
  <1>4. PICK c : c = [call[t] EXCEPT !.pc = "release", !.fh = NULL]
    OBVIOUS
  <1>5. c \in CallType /\ c.pc = "release" /\ c.po = call[t].po /\ c.fh = NULL
    BY <1>1, <1>4 DEF CallType, PCs
  <1>6. call' = [call EXCEPT ![t] = c]
    BY <1>4 DEF enum_close
  <1>7. Referring(c) /\ CallStep(t, c)
    BY <1>2, <1>5, <1>6, ReleaseOK DEF CallStep
  <1>8. SameReference(call[t], c) /\ SameHandle(NULL, NULL)
    BY <1>2, <1>5, <1>7 DEF SameReference, SameHandle
  <1>9. PobjStep(t, c, NULL, NULL) /\ ObjStep(t, NULL, NULL)
    BY <1>1, <1>3, <1>8, PobjStays, NoHandle
  <1>10. HeadOne(c) = 0 /\ HeadOne(call[t]) = 1 /\ ObjOne(NULL) = 0
    BY <1>2, <1>5 DEF HeadOne, ObjOne
  <1>11. HeadOne(c) + ObjOne(NULL) + 1 = HeadOne(call[t]) + ObjOne(NULL)
    BY <1>10
  <1>12. DirhStep(t, c, NULL, NULL)
    BY <1>1, <1>3, <1>11, DirhPut
  <1>13. refcount \in Nat /\ refcount # 0
    BY <1>2, DirhInUse
  <1>14. StorageOK'
    BY <1>1, <1>3, <1>13, StoragePut
  <1>15. ThreadStep(t)
    BY <1>3, <1>7, <1>9, <1>12, StepIs
  <1> QED
    BY <1>14, <1>15, ThreadStepKeeps

LEMMA ClosedirStep ==
    ASSUME ReeFsInv, NEW t \in Threads, ree_fs_closedir(t)
    PROVE  ReeFsInv'
  <1>1. CoreType /\ StorageOK
    BY DEF ReeFsInv
  <1>2. /\ call[t].pc = "idle" /\ dir[t].idx # -1 /\ put_dirh_primitive
        /\ dir' = [dir EXCEPT ![t] = NoDir]
        /\ Elsewhere /\ UNCHANGED <<obj, pobj, call, disk, tx>>
    BY <1>1, SameElsewhere DEF ree_fs_closedir
  <1>3. CallStep(t, call[t]) /\ SameReference(call[t], call[t]) /\ call[t].fh = NULL
    BY <1>2, IdleStays
  <1>4. SameHandle(NULL, NULL)
    BY DEF SameHandle
  <1>5. PobjStep(t, call[t], NULL, NULL) /\ ObjStep(t, NULL, NULL)
    BY <1>1, <1>2, <1>3, <1>4, PobjStays, NoHandle
  <1>6. /\ dir' \in [Threads -> DirType] /\ dir'[t] = NoDir
        /\ \A u \in Threads \ {t} : dir'[u].idx = dir[u].idx
    BY <1>1, <1>2, IdleFacts, DirChanged
  <1>7. DirOne(dir[t]) = 1 /\ DirOne(dir'[t]) = 0 /\ HeadOne(call[t]) = 0 /\ ObjOne(NULL) = 0
    BY <1>2, <1>3, <1>6, IdleFacts DEF DirOne, HeadOne, ObjOne
  <1>8. refcount \in Nat /\ refcount # 0 /\ refcount' = refcount - 1
    BY <1>2, DirhInUse DEF put_dirh_primitive
  <1>9. refcount' + DirOne(dir[t]) + HeadOne(call[t]) + ObjOne(NULL) =
        refcount + DirOne(dir'[t]) + HeadOne(call[t]) + ObjOne(NULL)
    BY <1>7, <1>8
  <1>10. DirhStep(t, call[t], NULL, NULL)
    BY <1>6, <1>8, <1>9 DEF DirhStep
  <1>11. StorageOK'
    BY <1>1, <1>2, <1>8, StoragePut
  <1>12. ThreadStep(t)
    BY <1>2, <1>3, <1>5, <1>10, StepIs
  <1> QED
    BY <1>11, <1>12, ThreadStepKeeps

-----------------------------------------------------------------------------
(* The theorems *)

LEMMA ReeFsStart == ReeFsInit => ReeFsInv
  <1> SUFFICES ASSUME ReeFsInit PROVE ReeFsInv
    OBVIOUS
  <1>1. Fresh
    BY DEF ReeFsInit, Fresh
  <1>2. tx = 0 /\ tx \in 0 .. MaxTx /\ disk = EmptyDisk /\ dirh = NULL
    BY ReeFsAssumption DEF ReeFsInit
  <1>3. /\ disk \in DiskType /\ disk.dirf = <<>>
        /\ \A f \in Numbers : disk.files[f] = NULL
    <2>1. NoFile \in [Vers -> 0 .. MaxTx]
      BY ReeFsAssumption DEF NoFile, Bad
    <2> QED
      BY <1>2, <2>1 DEF EmptyDisk, DiskType
  <1>4. Used(disk.dirf) = {}
    BY <1>3 DEF Used
  <1>5. DiskOK(disk, tx)
    BY <1>3, <1>4 DEF DiskOK, DirfOK
  <1>6. StorageOK
    BY <1>2, <1>5 DEF StorageOK
  <1> QED
    BY <1>1, <1>6, FreshInv

LEMMA ReeFsStutter ==
    ASSUME ReeFsInv, UNCHANGED ReeFsVars
    PROVE  ReeFsInv'
  <1>1. CoreType'
    BY DEF ReeFsInv, ReeFsVars, mem, CoreType
  <1>2. StorageOK'
    BY StorageStays DEF ReeFsInv, ReeFsVars, mem, Untouched
  <1>3. FilesOK'
    BY DEF ReeFsInv, ReeFsVars, FilesOK, FileOK
  <1>4. CallsOK'
    BY DEF ReeFsInv, ReeFsVars, CallsOK, CallOK, Referring
  <1>5. PobjCounts'
    BY DEF ReeFsInv, ReeFsVars, PobjCounts, HandlesOf, CallsOf, HasPobj, UsesPobj,
           Referring, RefCnt
  <1>6. DirhCount'
    BY DEF ReeFsInv, ReeFsVars, mem, DirhCount, OpenObjects, OpenDirs, OpenHeads
  <1> QED
    BY <1>1, <1>2, <1>3, <1>4, <1>5, <1>6 DEF ReeFsInv

LEMMA CrashStep ==
    ASSUME ReeFsInv, Crash
    PROVE  ReeFsInv'
  <1>1. CoreType /\ LosePower(disk) /\ UNCHANGED <<setup, tx, panicked>>
    BY DEF ReeFsInv, Crash
  <1>2. DiskOK(disk, tx') /\ tx' \in 0 .. MaxTx
    BY <1>1 DEF ReeFsInv, StorageOK
  <1>3. StorageOK'
    BY <1>1, <1>2, StorageLost
  <1> QED
    BY <1>1, <1>3, LostKeeps

LEMMA ReeFsStep == ReeFsInv /\ [ReeFsNext]_ReeFsVars => ReeFsInv'
  <1> SUFFICES ASSUME ReeFsInv, [ReeFsNext]_ReeFsVars PROVE ReeFsInv'
    OBVIOUS
  <1>1. CASE UNCHANGED ReeFsVars
    BY <1>1, ReeFsStutter
  <1>2. CASE Crash
    BY <1>2, CrashStep
  <1>3. ASSUME NEW t \in Threads,
               \/ storage_obj_open(t) \/ ree_fs_open(t) \/ storage_obj_create(t)
               \/ ree_fs_create(t) \/ tee_pobj_create_final(t)
        PROVE  ReeFsInv'
    BY <1>3, OpenStep, OpenFileStep, CreateStartStep, CreateStep, CreateFinalStep
  <1>4. ASSUME NEW t \in Threads,
               \/ storage_obj_read(t) \/ ree_fs_write(t) \/ ree_fs_write_closed(t)
               \/ storage_obj_del(t) \/ ree_fs_remove(t) \/ tee_obj_close(t)
               \/ tee_pobj_release(t)
        PROVE  ReeFsInv'
    BY <1>4, ReadStep, WriteStep, WriteClosedStep, DelStep, RemoveStep, CloseStep, ReleaseStep
  <1>5. ASSUME NEW t \in Threads,
               \/ storage_obj_rename(t) \/ ree_fs_rename(t) \/ tee_pobj_rename(t)
               \/ ree_fs_opendir(t) \/ ree_fs_readdir(t) \/ enum_get(t)
               \/ enum_open(t) \/ enum_close(t) \/ ree_fs_closedir(t)
        PROVE  ReeFsInv'
    BY <1>5, RenameStartStep, RenameStep, PobjRenameStep, OpendirStep, ReaddirStep,
       EnumGetStep, EnumOpenStep, EnumCloseStep, ClosedirStep
  <1>6. CASE ReeFsNext
    <2>1. CASE Crash
      BY <1>2, <2>1
    <2>2. CASE ~Crash
      <3>1. PICK t \in Threads :
               \/ storage_obj_open(t) \/ ree_fs_open(t) \/ storage_obj_create(t)
               \/ ree_fs_create(t) \/ tee_pobj_create_final(t) \/ storage_obj_read(t)
               \/ ree_fs_write(t) \/ ree_fs_write_closed(t) \/ storage_obj_del(t)
               \/ ree_fs_remove(t) \/ tee_obj_close(t) \/ tee_pobj_release(t)
               \/ storage_obj_rename(t) \/ ree_fs_rename(t) \/ tee_pobj_rename(t)
               \/ ree_fs_opendir(t) \/ ree_fs_readdir(t) \/ enum_get(t)
               \/ enum_open(t) \/ enum_close(t) \/ ree_fs_closedir(t)
        BY <1>6, <2>2 DEF ReeFsNext
      <3> QED
        BY <1>3, <1>4, <1>5, <3>1
    <2> QED
      BY <2>1, <2>2
  <1> QED
    BY <1>1, <1>6

LEMMA ReeFsInductive == ReeFsSpec => []ReeFsInv
  BY ReeFsStart, ReeFsStep, PTL DEF ReeFsSpec

-----------------------------------------------------------------------------
(* The tree of the dirfile *)

\* A tree is closed under a cached dirfile handle only by a failed read.
TreeOK ==
    /\ dirht \in BOOLEAN
    /\ ~dirht => dirh # NULL /\ "fetch" \in Faults

\* What a step does with the dirfile handle
TreeStep ==
    \/ UNCHANGED mem
    \/ \E bits, close : put_dirh(bits, close) /\ (close = TRUE \/ dirht)
    \/ dirht /\ \E bits : keep_dirh(bits)
    \/ put_dirh_primitive
    \/ /\ ~dirht \/ "fetch" \in Faults
       /\ \E bits : bits # NULL /\ put_failed_dirh(bits)
    \/ \E d : LosePower(d)

LEMMA BitsSet ==
    ASSUME ReeFsInv, NEW f
    PROVE  Bits # NULL /\ Bits \ {f} # NULL
  <1>1. Bits \subseteq 0 .. (tx - 1) /\ tx \in Nat /\ tx <= MaxTx
    BY StorageFacts DEF ReeFsInv, BitsOK
  <1>2. Bits \in SUBSET Numbers /\ Bits \ {f} \in SUBSET Numbers
    <2>1. \A x \in Bits : x \in Numbers
      BY <1>1, ReeFsAssumption DEF Numbers
    <2> QED
      BY <2>1
  <1> QED
    BY <1>2, ReeFsAssumption

LEMMA TreeKept ==
    ASSUME ReeFsInv, TreeOK, TreeStep, UNCHANGED setup
    PROVE  TreeOK'
  <1>1. UNCHANGED Faults
    BY DEF Faults
  <1>2. CASE UNCHANGED mem
    BY <1>1, <1>2 DEF TreeOK, mem
  <1>3. CASE \E bits, close : put_dirh(bits, close) /\ (close = TRUE \/ dirht)
    BY <1>3 DEF TreeOK, put_dirh
  <1>4. CASE dirht /\ \E bits : keep_dirh(bits)
    BY <1>4 DEF TreeOK, keep_dirh
  <1>5. CASE put_dirh_primitive
    BY <1>1, <1>5 DEF TreeOK, put_dirh_primitive
  <1>6. CASE /\ ~dirht \/ "fetch" \in Faults
             /\ \E bits : bits # NULL /\ put_failed_dirh(bits)
    BY <1>1, <1>6 DEF TreeOK, put_failed_dirh
  <1>7. CASE \E d : LosePower(d)
    BY <1>7 DEF TreeOK, LosePower
  <1> QED
    BY <1>2, <1>3, <1>4, <1>5, <1>6, <1>7 DEF TreeStep

LEMMA CloseIsTreeStep == close_dirh => TreeStep
  BY DEF close_dirh, TreeStep

LEMMA TreeSteps ==
    ASSUME ReeFsInv, NEW t \in Threads,
           \/ storage_obj_open(t) \/ ree_fs_open(t) \/ storage_obj_create(t)
           \/ ree_fs_create(t) \/ tee_pobj_create_final(t) \/ storage_obj_read(t)
           \/ ree_fs_write(t) \/ ree_fs_write_closed(t) \/ storage_obj_del(t)
           \/ ree_fs_remove(t) \/ tee_obj_close(t) \/ tee_pobj_release(t)
           \/ storage_obj_rename(t) \/ ree_fs_rename(t) \/ tee_pobj_rename(t)
           \/ ree_fs_opendir(t) \/ ree_fs_readdir(t) \/ enum_get(t)
           \/ enum_open(t) \/ enum_close(t) \/ ree_fs_closedir(t)
    PROVE  TreeStep /\ UNCHANGED setup
  <1>1. CASE \/ storage_obj_open(t) \/ storage_obj_create(t) \/ tee_pobj_create_final(t)
             \/ storage_obj_read(t) \/ storage_obj_del(t) \/ tee_pobj_release(t)
             \/ storage_obj_rename(t) \/ tee_pobj_rename(t) \/ enum_get(t)
    BY <1>1 DEF storage_obj_open, storage_obj_create, tee_pobj_create_final,
                storage_obj_read, storage_obj_del, tee_pobj_release,
                storage_obj_rename, tee_pobj_rename, enum_get, TreeStep
  <1>2. CASE tee_obj_close(t) \/ enum_close(t) \/ ree_fs_closedir(t)
    BY <1>2 DEF tee_obj_close, enum_close, ree_fs_closedir, TreeStep
  <1>3. CASE ree_fs_open(t) \/ enum_open(t) \/ ree_fs_write_closed(t)
    BY <1>3, CloseIsTreeStep DEF ree_fs_open, enum_open, ree_fs_write_closed, TreeStep
  <1>4. CASE ree_fs_create(t)
    BY <1>4, CloseIsTreeStep DEF ree_fs_create, TreeStep
  <1>5. CASE ree_fs_write(t)
    BY <1>5, CloseIsTreeStep DEF ree_fs_write, TreeStep
  <1>6. CASE ree_fs_remove(t)
    <2>1. PICK f : \/ close_dirh
                   \/ /\ dirht
                      /\ \E c : \/ put_dirh(Bits \ {f}, c)
                                \/ "fetch" \in Faults /\ put_failed_dirh(Bits \ {f})
                   \/ \E d : LosePower(d)
      BY <1>6 DEF ree_fs_remove, fetch_fails
    <2>2. UNCHANGED setup
      BY <1>6 DEF ree_fs_remove
    <2> QED
      BY <2>1, <2>2, CloseIsTreeStep, BitsSet DEF TreeStep
  <1>7. CASE ree_fs_rename(t)
    BY <1>7, CloseIsTreeStep DEF ree_fs_rename, TreeStep
  <1>8. CASE ree_fs_opendir(t)
    BY <1>8, BitsSet DEF ree_fs_opendir, TreeStep, fetch_fails
  <1>9. CASE ree_fs_readdir(t)
    BY <1>9, CloseIsTreeStep DEF ree_fs_readdir, TreeStep
  <1> QED
    BY <1>1, <1>2, <1>3, <1>4, <1>5, <1>6, <1>7, <1>8, <1>9

LEMMA TreeNext == ReeFsInv /\ TreeOK /\ [ReeFsNext]_ReeFsVars => TreeOK'
  <1> SUFFICES ASSUME ReeFsInv, TreeOK, [ReeFsNext]_ReeFsVars PROVE TreeOK'
    OBVIOUS
  <1>1. CASE UNCHANGED ReeFsVars
    BY <1>1, TreeKept DEF ReeFsVars, TreeStep
  <1>2. CASE Crash
    BY <1>2, TreeKept DEF Crash, TreeStep
  <1>3. CASE ReeFsNext /\ ~Crash
    BY <1>3, TreeSteps, TreeKept DEF ReeFsNext
  <1> QED
    BY <1>1, <1>2, <1>3

LEMMA TreeInductive == ReeFsSpec => []TreeOK
  <1>1. ReeFsInit => TreeOK
    BY DEF ReeFsInit, TreeOK
  <1> QED
    BY <1>1, TreeNext, ReeFsInductive, PTL DEF ReeFsSpec

-----------------------------------------------------------------------------
(* What the invariant gives *)

LEMMA InvType == ReeFsInv /\ TreeOK => ReeFsTypeOK
  <1> SUFFICES ASSUME ReeFsInv, TreeOK PROVE ReeFsTypeOK
    OBVIOUS
  <1>1. CoreType /\ StorageOK /\ disk \in DiskType /\ tx \in 0 .. MaxTx
    BY StorageFacts DEF ReeFsInv, StorageOK
  <1>2. /\ disk.dirf \in Seq([name : Names \cup {NULL}, f : Numbers, hash : 0 .. MaxTx])
        /\ disk.files \in [Numbers -> Inodes \cup {NULL}]
        /\ disk.data \in [Inodes -> [Vers -> 0 .. MaxTx]]
    BY <1>1 DEF DiskType, DentType
  <1>3. dirh = NULL \/ dirh \subseteq Numbers
    <2>1. ASSUME dirh # NULL PROVE dirh \subseteq Numbers
      <3>1. dirh \subseteq 0 .. (tx - 1) /\ tx \in Nat /\ tx <= MaxTx
        BY <1>1, <2>1, ReeFsAssumption DEF StorageOK, BitsOK
      <3> QED
        BY <3>1, ReeFsAssumption DEF Numbers
    <2> QED
      BY <2>1
  <1>4. \A t \in Threads : call[t].fh \in FileType \cup {NULL}
    BY <1>1 DEF CoreType, CallType
  <1> QED
    BY <1>1, <1>2, <1>3, <1>4 DEF ReeFsTypeOK, CoreType, TreeOK

LEMMA InvPobjRefs == ReeFsInv => PobjRefs
  <1> SUFFICES ASSUME ReeFsInv, NEW p \in Pobjs, pobj[p] # NULL
               PROVE  pobj[p].refcnt =
                  Cardinality({h \in Handles : obj[h] # NULL /\ obj[h].po = p})
                  + Cardinality({t \in Threads :
                       /\ call[t].po = p
                       /\ \/ call[t].pc \in {"open", "create", "rename", "pobj_rename",
                                             "enum_open", "enum_close", "release"}
                          \/ call[t].pc = "remove_corrupt" /\ call[t].h = NULL})
    BY DEF PobjRefs
  <1>1. HandlesOf(p) = {h \in Handles : obj[h] # NULL /\ obj[h].po = p}
    BY DEF HandlesOf, HasPobj
  <1>2. CallsOf(p) = {t \in Threads :
                       /\ call[t].po = p
                       /\ \/ call[t].pc \in {"open", "create", "rename", "pobj_rename",
                                             "enum_open", "enum_close", "release"}
                          \/ call[t].pc = "remove_corrupt" /\ call[t].h = NULL}
    BY DEF CallsOf, UsesPobj, Referring
  <1>3. pobj[p].refcnt = Cardinality(HandlesOf(p)) + Cardinality(CallsOf(p))
    BY DEF ReeFsInv, PobjCounts, RefCnt
  <1> QED
    BY <1>1, <1>2, <1>3

LEMMA InvDirhRefs == ReeFsInv /\ TreeOK => DirhRefs
  BY DEF ReeFsInv, TreeOK, DirhRefs, DirhCount, OpenObjects, OpenDirs, OpenHeads, StorageOK, BitsOK

\* What is stored and what is open stay well formed (the state of tee_ree_fs.c,
\* fs_dirfile.c, tee_pobj.c and of the system calls).
THEOREM ReeFsTypeCorrect == ReeFsSpec => []ReeFsTypeOK
  BY ReeFsInductive, TreeInductive, InvType, PTL

\* The count of an open object is the number of handles and calls that refer to
\* it, on every path of the system calls, failing ones included (tee_pobj_get
\* and tee_pobj_release in tee_pobj.c).
THEOREM PobjReferencesExact == ReeFsSpec => []PobjRefs
  BY ReeFsInductive, InvPobjRefs, PTL

\* The dirfile handle counts its users, also while it is closed after an error,
\* and when it is open it knows the number of every object (get_dirh, put_dirh
\* in tee_ree_fs.c, open_dirh and tee_fs_dirfile_get_tmp).
THEOREM DirhStaysExact == ReeFsSpec => []DirhRefs
  BY ReeFsInductive, TreeInductive, InvDirhRefs, PTL

\* Entries of the dirfile have different names and different numbers.
EntriesDiffer ==
    \A i, j \in Used(disk.dirf) : i # j =>
        disk.dirf[i].name # disk.dirf[j].name /\ disk.dirf[i].f # disk.dirf[j].f

\* No two objects have one name or share a file, whatever fails and whenever
\* power is lost, shared writers and retries included (tee_fs_dirfile_get_tmp,
\* tee_fs_dirfile_rename and the search by name that comes before each).
THEOREM ObjectsStayApart == ReeFsSpec => []EntriesDiffer
  <1>1. ReeFsInv => EntriesDiffer
    BY DEF ReeFsInv, StorageOK, DiskOK, DirfOK, EntriesDiffer
  <1> QED
    BY <1>1, ReeFsInductive, PTL
=============================================================================
