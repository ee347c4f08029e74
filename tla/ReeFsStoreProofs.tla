-------------------------- MODULE ReeFsStoreProofs --------------------------
(***************************************************************************)
(* Proofs about what ReeFs stores, on top of the counts of ReeFsProofs.    *)
(* Enumerations are complete whatever happens.  Where the applications and *)
(* normal world are careful (Careful), every object can be read, handles   *)
(* exclude each other as their flags say, and the file system implements   *)
(* ObjectStore.                                                            *)
(***************************************************************************)
EXTENDS ReeFsProofs

-----------------------------------------------------------------------------
(* Enumerations *)

\* Enumeration e of dirfile d: what is due lies ahead of its index, what was
\* seen does not.
EnumOK(e, d) ==
    /\ e.due \subseteq Numbered(d) /\ e.seen \subseteq Numbered(d)
    /\ e.idx = -2 => e.due = {}
    /\ e.idx >= 0 => \A i \in Used(d) : /\ d[i].f \in e.due => i > e.idx
                                        /\ d[i].f \in e.seen => ~(i > e.idx)
EnumInv == \A t \in Threads : EnumOK(dir[t], disk.dirf)

\* The entries of dirfile g are at the index they have in d, or have a number
\* that is new.
Placed(d, g) ==
    \A i \in Used(g) : (i \in Used(d) /\ d[i].f = g[i].f) \/ g[i].f \notin Numbered(d)

LEMMA PlacedChange ==
    ASSUME NEW d \in Seq(DentType), NEW i \in 1 .. Len(d), NEW e \in DentType,
           e.name = NULL \/ (i \in Used(d) /\ e.f = d[i].f)
    PROVE  Placed(d, [d EXCEPT ![i] = e])
  <1> SUFFICES ASSUME NEW j \in Used([d EXCEPT ![i] = e])
               PROVE  j \in Used(d) /\ d[j].f = [d EXCEPT ![i] = e][j].f
    BY DEF Placed
  <1>1. DOMAIN d = 1 .. Len(d) /\ DOMAIN [d EXCEPT ![i] = e] = 1 .. Len(d)
    BY DentFacts
  <1>2. j \in 1 .. Len(d) /\ [d EXCEPT ![i] = e][j].name # NULL
    BY <1>1 DEF Used
  <1>3. CASE j = i
    <2>1. [d EXCEPT ![i] = e][j] = e
      BY <1>1, <1>3
    <2> QED
      BY <1>2, <1>3, <2>1
  <1>4. CASE j # i
    <2>1. [d EXCEPT ![i] = e][j] = d[j]
      BY <1>1, <1>2, <1>4
    <2> QED
      BY <1>1, <1>2, <2>1 DEF Used
  <1> QED
    BY <1>3, <1>4

LEMMA PlacedWrite ==
    ASSUME NEW d \in Seq(DentType), NEW i \in 1 .. Len(d) + 1, NEW e \in DentType,
           e.f \notin Numbered(d)
    PROVE  Placed(d, WriteDent(d, i, e))
  <1> SUFFICES ASSUME NEW j \in Used(WriteDent(d, i, e))
               PROVE  \/ j \in Used(d) /\ d[j].f = WriteDent(d, i, e)[j].f
                      \/ WriteDent(d, i, e)[j].f \notin Numbered(d)
    BY DEF Placed
  <1>1. DOMAIN d = 1 .. Len(d) /\ Len(d) \in Nat
    BY DentFacts
  <1>2. PICK g : g = WriteDent(d, i, e)
    OBVIOUS
  <1>3. j \in DOMAIN g /\ (g[j] = e \/ (j \in 1 .. Len(d) /\ g[j] = d[j]))
    <2>0. j \in DOMAIN g
      BY <1>2 DEF Used
    <2>1. CASE i > Len(d)
      <3>1. g = Append(d, e)
        BY <1>2, <2>1 DEF WriteDent
      <3>2. Len(g) = Len(d) + 1 /\ DOMAIN g = 1 .. Len(d) + 1
            /\ \A k \in 1 .. Len(d) + 1 : g[k] = IF k <= Len(d) THEN d[k] ELSE e
        BY <1>1, <3>1
      <3> QED
        BY <1>1, <2>0, <3>2
    <2>2. CASE ~(i > Len(d))
      <3>1. g = [d EXCEPT ![i] = e]
        BY <1>2, <2>2 DEF WriteDent
      <3> QED
        BY <1>1, <2>0, <3>1
    <2> QED
      BY <2>1, <2>2
  <1>4. CASE g[j] = e
    BY <1>2, <1>4
  <1>5. CASE j \in 1 .. Len(d) /\ g[j] = d[j]
    BY <1>1, <1>2, <1>5 DEF Used
  <1> QED
    BY <1>2, <1>3, <1>4, <1>5

LEMMA PlacedSame ==
    ASSUME NEW d
    PROVE  Placed(d, d)
  BY DEF Placed

\* What is left of an enumeration when the dirfile is replaced
Noted(e, d) == [e EXCEPT !.due = @ \cap Numbered(d), !.seen = @ \cap Numbered(d)]

LEMMA NotedFacts ==
    ASSUME NEW e \in DirType, NEW d, NEW g, EnumOK(e, d), Placed(d, g)
    PROVE  EnumOK(Noted(e, g), g)
  <1>1. PICK x : x = Noted(e, g)
    OBVIOUS
  <1>2. /\ x.idx = e.idx /\ x.due = e.due \cap Numbered(g)
        /\ x.seen = e.seen \cap Numbered(g)
    BY <1>1 DEF Noted, DirType
  <1>3. \A i \in Used(g) : g[i].f \in e.due \cup e.seen => i \in Used(d) /\ d[i].f = g[i].f
    BY DEF Placed, EnumOK
  <1>4. x.due \subseteq Numbered(g) /\ x.seen \subseteq Numbered(g)
    BY <1>2
  <1>5. x.idx = -2 => x.due = {}
    BY <1>2 DEF EnumOK
  <1>6. ASSUME x.idx >= 0, NEW i \in Used(g)
        PROVE  /\ g[i].f \in x.due => i > x.idx
               /\ g[i].f \in x.seen => ~(i > x.idx)
    BY <1>2, <1>3, <1>6 DEF EnumOK
  <1>7. EnumOK(x, g)
    BY <1>4, <1>5, <1>6 DEF EnumOK
  <1> QED
    BY <1>1, <1>7

LEMMA EnumNoted ==
    ASSUME CoreType, EnumInv, dir' = Note(disk'), Placed(disk.dirf, disk'.dirf)
    PROVE  EnumInv'
  <1> SUFFICES ASSUME NEW t \in Threads PROVE EnumOK(dir'[t], disk'.dirf)
    BY DEF EnumInv, EnumOK, Numbered, Used
  <1>1. dir[t] \in DirType
    BY DEF CoreType
  <1>2. EnumOK(dir[t], disk.dirf)
    BY DEF EnumInv
  <1>3. dir'[t] = Noted(dir[t], disk'.dirf)
    BY DEF Note, Noted
  <1>4. PICK g : g = disk'.dirf
    OBVIOUS
  <1> QED
    BY <1>1, <1>2, <1>3, <1>4, NotedFacts

LEMMA EnumSame ==
    ASSUME EnumInv, dir' = dir, disk'.dirf = disk.dirf
    PROVE  EnumInv'
  BY DEF EnumInv, EnumOK, Numbered, Used

LEMMA EnumLost ==
    ASSUME dir' = Volatile.dir
    PROVE  EnumInv'
  <1>1. \A t \in Threads : dir'[t] = NoDir
    BY DEF Volatile
  <1> QED
    BY <1>1 DEF EnumInv, EnumOK, NoDir

LEMMA CreatePlaced ==
    ASSUME StorageOK, CoreType, FilesOK, tx < MaxTx, NEW n \in Names
    PROVE  Placed(disk.dirf, NewDirf(n)) /\ Created.dirf = disk.dirf
  <1>1. /\ disk.dirf \in Seq(DentType) /\ BitsOK(Bits, disk.dirf, tx) /\ disk \in DiskType
        /\ tx \in Nat
    BY StorageFacts
  <1>2. NewIdx(n) \in 1 .. Len(disk.dirf) + 1
    <2>1. CASE Find(disk.dirf, n) # 0
      <3>1. NewIdx(n) \in Used(disk.dirf)
        BY <1>1, <2>1, FindFacts DEF NewIdx
      <3> QED
        BY <1>1, <3>1, DentFacts
    <2>2. CASE Find(disk.dirf, n) = 0
      BY <1>1, <2>2, EmptyFacts DEF NewIdx
    <2> QED
      BY <2>1, <2>2
  <1>3. TmpNumber \in Numbers /\ TmpNumber \notin Numbered(disk.dirf)
    BY <1>1, TmpFacts DEF BitsOK
  <1>4. NewDent(n) \in DentType /\ NewDent(n).f = TmpNumber
    BY <1>1, <1>3, ReeFsAssumption DEF NewDent, DentType
  <1>5. Placed(disk.dirf, NewDirf(n))
    BY <1>1, <1>2, <1>3, <1>4, PlacedWrite DEF NewDirf
  <1>6. Created.dirf = disk.dirf
    BY <1>1 DEF Created, CreatedFile, DiskType
  <1> QED
    BY <1>5, <1>6

LEMMA CreateBound ==
    ASSUME StorageOK, CoreType, tx < setup.updates
    PROVE  tx < MaxTx /\ tx \in Nat
  BY SetupFacts, StorageFacts, ReeFsAssumption

LEMMA EnumCreate ==
    ASSUME ReeFsInv, EnumInv, NEW t \in Threads, ree_fs_create(t)
    PROVE  EnumInv'
  <1>0. CoreType /\ StorageOK /\ FilesOK /\ CallsOK
    BY DEF ReeFsInv
  <1>1. PICK n : n = pobj[call[t].po].name
    OBVIOUS
  <1>2. n \in Names
    <2>1. Referring(call[t]) /\ CallOK(t, call[t], obj)
      BY <1>0, CallFacts DEF ree_fs_create, Referring
    <2>2. call[t].po \in Pobjs /\ UsesPobj(call[t], call[t].po)
      BY <2>1 DEF CallOK, UsesPobj
    <2> QED
      BY <1>1, <2>2, PobjThere
  <1>3. tx < MaxTx /\ tx \in Nat
    BY <1>0, CreateBound DEF ree_fs_create
  <1>4. /\ Placed(disk.dirf, NewDirf(n)) /\ Created.dirf = disk.dirf
        /\ DiskOK(Created, tx + 1) /\ NewDirf(n) \in Seq(DentType)
        /\ DirfOK(NewDirf(n), tx + 1) /\ TmpNumber \in Numbers
    BY <1>0, <1>2, <1>3, CreatePlaced, CreatedFacts, TmpFacts
  <1>5. PICK d2 : d2 = [Created EXCEPT !.dirf = NewDirf(n)]
    OBVIOUS
  <1>6. DiskOK(d2, tx + 1) /\ d2.dirf = NewDirf(n)
    BY <1>3, <1>4, <1>5, DirfReplaced
  <1>7. PICK old : old = Find(disk.dirf, n)
    OBVIOUS
  <1>8. old # 0 => disk.dirf[old].f \in Numbers
    BY <1>0, <1>7, StorageFacts, FindFacts, DentFacts
  <1>9. \/ /\ disk' \in IF old = 0 THEN {d2} ELSE Removed(d2, disk.dirf[old].f)
           /\ dir' = Note(disk')
        \/ /\ \E c \in CommitOutcomes : disk' \in Removed(Commit(Created, c, NewDirf(n)), TmpNumber)
           /\ dir' = Note(disk')
        \/ disk' \in Removed(Created, TmpNumber) /\ dir' = dir
        \/ UNCHANGED <<disk, dir>>
        \/ \E d : LosePower(d)
    BY <1>1, <1>5, <1>7 DEF ree_fs_create, Created, NewDirf, NewIdx, NewDent
  <1>10. CASE /\ disk' \in IF old = 0 THEN {d2} ELSE Removed(d2, disk.dirf[old].f)
              /\ dir' = Note(disk')
    <2>1. disk'.dirf = NewDirf(n)
      <3>1. CASE old = 0
        BY <1>6, <1>10, <3>1
      <3>2. CASE old # 0
        BY <1>3, <1>6, <1>8, <1>10, <3>2, RemovedFacts
      <3> QED
        BY <3>1, <3>2
    <2> QED
      BY <1>0, <1>4, <1>10, <2>1, EnumNoted
  <1>11. CASE /\ \E c \in CommitOutcomes : disk' \in Removed(Commit(Created, c, NewDirf(n)), TmpNumber)
              /\ dir' = Note(disk')
    <2>1. PICK c \in CommitOutcomes : disk' \in Removed(Commit(Created, c, NewDirf(n)), TmpNumber)
      BY <1>11
    <2>2. /\ DiskOK(Commit(Created, c, NewDirf(n)), tx + 1)
          /\ Commit(Created, c, NewDirf(n)).dirf \in {disk.dirf, NewDirf(n)}
      BY <1>3, <1>4, CommitFacts
    <2>3. disk'.dirf \in {disk.dirf, NewDirf(n)}
      BY <1>3, <1>4, <2>1, <2>2, RemovedFacts
    <2>4. Placed(disk.dirf, disk'.dirf)
      BY <1>4, <2>3, PlacedSame
    <2> QED
      BY <1>0, <1>11, <2>4, EnumNoted
  <1>12. CASE disk' \in Removed(Created, TmpNumber) /\ dir' = dir
    <2>1. disk'.dirf = disk.dirf
      BY <1>3, <1>4, <1>12, RemovedFacts
    <2> QED
      BY <1>12, <2>1, EnumSame
  <1>13. CASE UNCHANGED <<disk, dir>>
    BY <1>13, EnumSame
  <1>14. CASE \E d : LosePower(d)
    BY <1>14, EnumLost DEF LosePower
  <1> QED
    BY <1>9, <1>10, <1>11, <1>12, <1>13, <1>14

LEMMA EnumWrite ==
    ASSUME ReeFsInv, EnumInv, NEW t \in Threads, ree_fs_write(t)
    PROVE  EnumInv'
  <1>0. CoreType /\ StorageOK
    BY DEF ReeFsInv
  <1>1. /\ disk.dirf \in Seq(DentType) /\ disk \in DiskType /\ tx < MaxTx /\ tx \in Nat
        /\ DirfOK(disk.dirf, tx)
    BY <1>0, StorageFacts, CreateBound DEF ree_fs_write
  <1>2. PICK h \in Handles : Uses(t, h) /\
           \E d0 \in BeforeWrite(obj[h].fh) :
            LET fh == obj[h].fh
                torn == Written(d0, fh, Bad)
                d1 == Written(d0, fh, tx + 1)
            IN  \/ /\ fh.idx \in DOMAIN disk.dirf
                   /\ \E c \in CommitOutcomes : disk' = Commit(d1, c, update_hash(fh))
                   /\ dir' = Note(disk')
                \/ disk' \in {disk, torn, d1} /\ dir' = dir
                \/ UNCHANGED <<disk, dir>>
                \/ \E d : LosePower(d)
    BY DEF ree_fs_write
  <1>3. PICK fh \in FileType : fh = obj[h].fh
    BY <1>2, UsesFacts
  <1>4. PICK d0 : /\ d0 \in BeforeWrite(fh)
                  /\ LET torn == Written(d0, fh, Bad)
                         d1 == Written(d0, fh, tx + 1)
                     IN  \/ /\ fh.idx \in DOMAIN disk.dirf
                            /\ \E c \in CommitOutcomes : disk' = Commit(d1, c, update_hash(fh))
                            /\ dir' = Note(disk')
                         \/ disk' \in {disk, torn, d1} /\ dir' = dir
                         \/ UNCHANGED <<disk, dir>>
                         \/ \E d : LosePower(d)
    BY <1>2, <1>3
  <1>5. d0.dirf = disk.dirf /\ DOMAIN d0 = {"dirf", "files", "data"}
    BY <1>1, <1>4 DEF BeforeWrite, CutFile, DiskType
  <1>6. \A x : Written(d0, fh, x).dirf = disk.dirf
    BY <1>5 DEF Written
  <1>7. CASE \E c \in CommitOutcomes : /\ fh.idx \in DOMAIN disk.dirf
                                       /\ disk' = Commit(Written(d0, fh, tx + 1), c, update_hash(fh))
                                       /\ dir' = Note(disk')
    <2>1. PICK c \in CommitOutcomes : disk' = Commit(Written(d0, fh, tx + 1), c, update_hash(fh))
      BY <1>7
    <2>2. disk'.dirf \in {disk.dirf, update_hash(fh)}
      <3>1. Written(d0, fh, tx + 1).dirf = disk.dirf
        BY <1>6
      <3>2. PICK d1, g : d1 = Written(d0, fh, tx + 1) /\ g = update_hash(fh)
        OBVIOUS
      <3>3. "dirf" \in DOMAIN d1
        BY <1>5, <3>2 DEF Written
      <3>4. [d1 EXCEPT !.dirf = g].dirf = g
        BY <3>3
      <3>5. disk' \in {d1, [d1 EXCEPT !.dirf = g]}
        BY <2>1, <3>2 DEF Commit
      <3> QED
        BY <3>1, <3>2, <3>4, <3>5
    <2>3. Placed(disk.dirf, update_hash(fh))
      <3>1. PICK i : i = fh.idx /\ i \in 1 .. Len(disk.dirf)
        BY <1>1, <1>7, DentFacts
      <3>2. disk.dirf[i] \in DentType
        BY <1>1, <3>1, DentFacts
      <3>3. PICK e : e = [disk.dirf[i] EXCEPT !.hash = tx + 1]
        OBVIOUS
      <3>a. tx + 1 \in 0 .. MaxTx
        BY <1>1, ReeFsAssumption
      <3>4. /\ e \in DentType /\ e.f = disk.dirf[i].f
            /\ e.name = disk.dirf[i].name
        BY <3>2, <3>3, <3>a DEF DentType
      <3>5. update_hash(fh) = [disk.dirf EXCEPT ![i] = e]
        BY <3>1, <3>3 DEF update_hash
      <3>6. e.name = NULL \/ (i \in Used(disk.dirf) /\ e.f = disk.dirf[i].f)
        BY <1>1, <3>1, <3>4, DentFacts DEF Used
      <3> QED
        BY <1>1, <3>1, <3>4, <3>5, <3>6, PlacedChange
    <2>4. Placed(disk.dirf, disk'.dirf)
      BY <2>2, <2>3, PlacedSame
    <2> QED
      BY <1>0, <1>7, <2>4, EnumNoted
  <1>8. CASE disk' \in {disk, Written(d0, fh, Bad), Written(d0, fh, tx + 1)} /\ dir' = dir
    <2>1. disk'.dirf = disk.dirf
      BY <1>6, <1>8
    <2> QED
      BY <1>8, <2>1, EnumSame
  <1>9. CASE UNCHANGED <<disk, dir>>
    BY <1>9, EnumSame
  <1>10. CASE \E d : LosePower(d)
    BY <1>10, EnumLost DEF LosePower
  <1> QED
    BY <1>4, <1>7, <1>8, <1>9, <1>10

LEMMA EnumRemove ==
    ASSUME ReeFsInv, EnumInv, NEW t \in Threads, ree_fs_remove(t)
    PROVE  EnumInv'
  <1>0. CoreType /\ StorageOK
    BY DEF ReeFsInv
  <1>1. /\ disk.dirf \in Seq(DentType) /\ DiskOK(disk, tx) /\ tx \in Nat
        /\ DirfOK(disk.dirf, tx)
    BY <1>0, StorageFacts
  <1>2. PICK i, f, dirf :
           /\ i = Find(disk.dirf, pobj[call[t].po].name)
           /\ f = disk.dirf[i].f
           /\ dirf = [disk.dirf EXCEPT ![i] = FreeDent]
           /\ \/ UNCHANGED <<disk, dir>>
              \/ /\ i # 0
                 /\ \E c \in CommitOutcomes :
                       disk' \in IF c.failed THEN {Commit(disk, c, dirf)}
                                 ELSE Removed([disk EXCEPT !.dirf = dirf], f)
                 /\ dir' = Note(disk')
              \/ \E d : LosePower(d)
    BY DEF ree_fs_remove
  <1>3. CASE UNCHANGED <<disk, dir>>
    BY <1>3, EnumSame
  <1>4. CASE \E d : LosePower(d)
    BY <1>4, EnumLost DEF LosePower
  <1>5. CASE /\ i # 0 /\ dir' = Note(disk')
             /\ \E c \in CommitOutcomes :
                   disk' \in IF c.failed THEN {Commit(disk, c, dirf)}
                             ELSE Removed([disk EXCEPT !.dirf = dirf], f)
    <2>1. PICK c \in CommitOutcomes :
             disk' \in IF c.failed THEN {Commit(disk, c, dirf)}
                       ELSE Removed([disk EXCEPT !.dirf = dirf], f)
      BY <1>5
    <2>2. i \in Used(disk.dirf)
      BY <1>1, <1>2, <1>5, FindFacts
    <2>3. i \in 1 .. Len(disk.dirf) /\ f \in Numbers
      BY <1>1, <1>2, <2>2, DentFacts
    <2>4. dirf \in Seq(DentType) /\ DirfOK(dirf, tx)
      BY <1>1, <1>2, <2>2, DirfFree
    <2>5. FreeDent \in DentType /\ FreeDent.name = NULL
      BY ReeFsAssumption DEF FreeDent, DentType, Bad, Numbers
    <2>6. Placed(disk.dirf, dirf)
      BY <1>1, <1>2, <2>3, <2>5, PlacedChange
    <2>7. disk'.dirf \in {disk.dirf, dirf}
      <3>1. CASE c.failed
        BY <1>1, <2>1, <2>4, <3>1, CommitFacts
      <3>2. CASE ~c.failed
        <4>1. PICK d2 : d2 = [disk EXCEPT !.dirf = dirf]
          OBVIOUS
        <4>2. DiskOK(d2, tx) /\ d2.dirf = dirf
          BY <1>1, <2>4, <4>1, DirfReplaced
        <4> QED
          BY <1>1, <2>1, <2>3, <3>2, <4>1, <4>2, RemovedFacts
      <3> QED
        BY <3>1, <3>2
    <2>8. Placed(disk.dirf, disk'.dirf)
      BY <2>6, <2>7, PlacedSame
    <2> QED
      BY <1>0, <1>5, <2>8, EnumNoted
  <1> QED
    BY <1>2, <1>3, <1>4, <1>5

LEMMA EnumRename ==
    ASSUME ReeFsInv, EnumInv, NEW t \in Threads, ree_fs_rename(t)
    PROVE  EnumInv'
  <1>0. CoreType /\ StorageOK /\ CallsOK
    BY DEF ReeFsInv
  <1>1. disk.dirf \in Seq(DentType) /\ disk \in DiskType
    BY <1>0, StorageFacts
  <1>2. PICK i, m, dirf :
           /\ i = Find(disk.dirf, pobj[obj[call[t].h].po].name)
           /\ m = pobj[call[t].po].name
           /\ dirf = RenamedDirf(i, m)
    OBVIOUS
  <1>6. \/ UNCHANGED <<disk, dir>>
        \/ /\ i # 0 /\ dir' = Note(disk')
           /\ \E c \in CommitOutcomes : disk' = Commit(disk, c, dirf)
        \/ \E d : LosePower(d)
    BY <1>2 DEF ree_fs_rename
  <1>3. CASE UNCHANGED <<disk, dir>>
    BY <1>3, EnumSame
  <1>4. CASE \E d : LosePower(d)
    BY <1>4, EnumLost DEF LosePower
  <1>5. CASE /\ i # 0 /\ dir' = Note(disk')
             /\ \E c \in CommitOutcomes : disk' = Commit(disk, c, dirf)
    <2>1. i \in Used(disk.dirf)
      BY <1>1, <1>2, <1>5, FindFacts
    <2>2. i \in 1 .. Len(disk.dirf) /\ disk.dirf[i] \in DentType
      BY <1>1, <2>1, DentFacts
    <2>3. m \in Names
      <3>1. Referring(call[t]) /\ CallOK(t, call[t], obj)
        BY <1>0, CallFacts DEF ree_fs_rename, Referring
      <3>2. call[t].po \in Pobjs /\ UsesPobj(call[t], call[t].po)
        BY <3>1 DEF CallOK, UsesPobj
      <3> QED
        BY <1>2, <3>2, PobjThere
    <2>4. PICK e : e = [disk.dirf[i] EXCEPT !.name = m]
      OBVIOUS
    <2>5. e \in DentType /\ e.f = disk.dirf[i].f
      BY <2>2, <2>3, <2>4 DEF DentType
    <2>6. dirf = [disk.dirf EXCEPT ![i] = e]
      BY <1>2, <2>4 DEF RenamedDirf
    <2>7. Placed(disk.dirf, dirf)
      BY <1>1, <2>1, <2>2, <2>5, <2>6, PlacedChange
    <2>8. disk'.dirf \in {disk.dirf, dirf}
      <3>1. disk' \in {disk, [disk EXCEPT !.dirf = dirf]}
        BY <1>5 DEF Commit
      <3>2. [disk EXCEPT !.dirf = dirf].dirf = dirf
        BY <1>1 DEF DiskType
      <3> QED
        BY <3>1, <3>2
    <2>9. Placed(disk.dirf, disk'.dirf)
      BY <2>7, <2>8, PlacedSame
    <2> QED
      BY <1>0, <1>5, <2>9, EnumNoted
  <1> QED
    BY <1>3, <1>4, <1>5, <1>6

\* The enumeration of thread t changes, the dirfile stays.
LEMMA EnumChanged ==
    ASSUME CoreType, EnumInv, NEW t \in Threads, NEW e \in DirType,
           dir' = [dir EXCEPT ![t] = e], EnumOK(e, disk.dirf), UNCHANGED disk
    PROVE  EnumInv'
  <1>1. \A u \in Threads : EnumOK(dir'[u], disk.dirf)
    <2>1. dir \in [Threads -> DirType]
      BY DEF CoreType
    <2> QED
      BY <2>1 DEF EnumInv
  <1> QED
    BY <1>1 DEF EnumInv, EnumOK, Numbered, Used

LEMMA EnumOpendir ==
    ASSUME ReeFsInv, EnumInv, NEW t \in Threads, ree_fs_opendir(t)
    PROVE  EnumInv'
  <1>0. CoreType /\ StorageOK
    BY DEF ReeFsInv
  <1>1. CASE dir' = dir
    BY <1>1, EnumSame DEF ree_fs_opendir
  <1>2. PICK e : e = [idx |-> 0, due |-> Numbered(disk.dirf), seen |-> {}]
    OBVIOUS
  <1>3. CASE dir' = [dir EXCEPT ![t] = e]
    <2>1. e \in DirType
      BY <1>0, <1>2, NumberedFacts DEF DirType
    <2>2. \A i \in Used(disk.dirf) : i \in Nat /\ i > 0
      BY <1>0, NumberedFacts
    <2>3. EnumOK(e, disk.dirf)
      BY <1>2, <2>2 DEF EnumOK
    <2> QED
      BY <1>0, <1>3, <2>1, <2>3, EnumChanged DEF ree_fs_opendir
  <1> QED
    BY <1>1, <1>2, <1>3 DEF ree_fs_opendir

LEMMA EnumReaddir ==
    ASSUME ReeFsInv, EnumInv, NEW t \in Threads, ree_fs_readdir(t)
    PROVE  EnumInv'
  <1>0. CoreType /\ StorageOK
    BY DEF ReeFsInv
  <1>1. /\ dir[t].idx >= 0 /\ dir[t] \in DirType /\ dir[t].idx \in Int
        /\ EnumOK(dir[t], disk.dirf) /\ UNCHANGED disk
    BY <1>0 DEF ree_fs_readdir, CoreType, EnumInv, DirType
  <1>2. \A i \in Used(disk.dirf) : i \in Nat
    BY <1>0, NumberedFacts
  <1>a. \/ /\ Ahead(t) # {}
           /\ \E i, f : /\ i = Min(Ahead(t)) /\ f = disk.dirf[i].f
                        /\ dir' = [dir EXCEPT ![t] = [idx |-> i, due |-> @.due \ {f},
                                                     seen |-> @.seen \cup {f}]]
        \/ Ahead(t) = {} /\ dir' = [dir EXCEPT ![t].idx = -2]
        \/ dir' = dir
    BY DEF ree_fs_readdir
  <1>b. CASE dir' = dir
    BY <1>1, <1>b, EnumSame
  <1>3. CASE Ahead(t) # {} /\ dir' # dir
    <2>1. PICK i, f, e :
             /\ i = Min(Ahead(t)) /\ f = disk.dirf[i].f
             /\ e = [idx |-> i, due |-> dir[t].due \ {f}, seen |-> dir[t].seen \cup {f}]
      OBVIOUS
    <2>2. dir' = [dir EXCEPT ![t] = e]
      BY <1>0, <1>a, <1>3, <2>1 DEF CoreType
    <2>3. Ahead(t) \in SUBSET Nat
      BY <1>2 DEF Ahead
    <2>4. i \in Ahead(t) /\ \A j \in Ahead(t) : i <= j
      BY <1>3, <2>1, <2>3, MinIsLeast
    <2>5. i \in Used(disk.dirf) /\ i > dir[t].idx /\ i \in Nat
      BY <1>2, <2>4 DEF Ahead
    <2>6. f \in Numbers /\ f \in Numbered(disk.dirf)
      BY <1>0, <2>1, <2>5, NumberedFacts DEF Numbered
    <2>7. e \in DirType
      BY <1>1, <2>1, <2>5, <2>6 DEF DirType
    <2>8. \A j \in Used(disk.dirf) : disk.dirf[j].f = f => j = i
      BY <1>0, <2>1, <2>5, StorageFacts DEF DirfOK
    <2>9. ASSUME NEW j \in Used(disk.dirf)
          PROVE  /\ disk.dirf[j].f \in e.due => j > i
                 /\ disk.dirf[j].f \in e.seen => ~(j > i)
      <3>1. ASSUME disk.dirf[j].f \in e.due PROVE j > i
        <4>1. j > dir[t].idx /\ j # i
          BY <1>1, <2>1, <3>1 DEF EnumOK
        <4>2. i <= j /\ j \in Nat
          BY <1>2, <2>4, <4>1 DEF Ahead
        <4> QED
          BY <2>5, <4>1, <4>2
      <3>2. ASSUME disk.dirf[j].f \in e.seen PROVE ~(j > i)
        <4>1. CASE disk.dirf[j].f = f
          BY <2>5, <2>8, <4>1
        <4>2. CASE disk.dirf[j].f \in dir[t].seen
          <5>1. ~(j > dir[t].idx) /\ j \in Nat
            BY <1>1, <1>2, <4>2 DEF EnumOK
          <5> QED
            BY <1>1, <2>5, <5>1
        <4> QED
          BY <2>1, <3>2, <4>1, <4>2
      <3> QED
        BY <3>1, <3>2
    <2>10. e.due \subseteq Numbered(disk.dirf) /\ e.seen \subseteq Numbered(disk.dirf)
      BY <1>1, <2>1, <2>6 DEF EnumOK
    <2>11. EnumOK(e, disk.dirf)
      <3>1. e.idx = i /\ e.idx # -2
        BY <2>1, <2>5
      <3> QED
        BY <2>9, <2>10, <3>1 DEF EnumOK
    <2> QED
      BY <1>0, <1>1, <2>2, <2>7, <2>11, EnumChanged
  <1>4. CASE Ahead(t) = {} /\ dir' # dir
    <2>1. PICK e : e = [dir[t] EXCEPT !.idx = -2]
      OBVIOUS
    <2>2. dir' = [dir EXCEPT ![t] = e]
      BY <1>a, <1>4, <2>1
    <2>3. e \in DirType /\ e.idx = -2 /\ e.due = dir[t].due /\ e.seen = dir[t].seen
      BY <1>1, <2>1 DEF DirType
    <2>4. dir[t].due = {}
      BY <1>1, <1>4 DEF EnumOK, Ahead, Numbered
    <2>5. EnumOK(e, disk.dirf)
      BY <1>1, <2>3, <2>4 DEF EnumOK
    <2> QED
      BY <1>0, <1>1, <2>2, <2>3, <2>5, EnumChanged
  <1> QED
    BY <1>b, <1>3, <1>4

LEMMA EnumClosedir ==
    ASSUME ReeFsInv, EnumInv, NEW t \in Threads, ree_fs_closedir(t)
    PROVE  EnumInv'
  <1>1. NoDir \in DirType /\ EnumOK(NoDir, disk.dirf)
    BY IdleFacts DEF EnumOK, NoDir
  <1> QED
    BY <1>1, EnumChanged DEF ree_fs_closedir, ReeFsInv

LEMMA EnumStep == ReeFsInv /\ EnumInv /\ [ReeFsNext]_ReeFsVars => EnumInv'
  <1> SUFFICES ASSUME ReeFsInv, EnumInv, [ReeFsNext]_ReeFsVars PROVE EnumInv'
    OBVIOUS
  <1>1. CASE UNCHANGED ReeFsVars
    BY <1>1, EnumSame DEF ReeFsVars
  <1>2. CASE Crash
    BY <1>2, EnumLost DEF Crash, LosePower
  <1>3. ASSUME NEW t \in Threads,
               \/ storage_obj_open(t) \/ ree_fs_open(t) \/ storage_obj_create(t)
               \/ tee_pobj_create_final(t) \/ storage_obj_read(t)
               \/ ree_fs_write_closed(t) \/ storage_obj_del(t) \/ tee_obj_close(t)
               \/ tee_pobj_release(t)
        PROVE  EnumInv'
    <2>1. dir' = dir /\ disk' = disk
      BY <1>3 DEF storage_obj_open, ree_fs_open, storage_obj_create, tee_pobj_create_final,
                  storage_obj_read, ree_fs_write_closed, storage_obj_del, tee_obj_close,
                  tee_pobj_release
    <2> QED
      BY <2>1, EnumSame
  <1>4. ASSUME NEW t \in Threads,
               \/ storage_obj_rename(t) \/ tee_pobj_rename(t) \/ enum_get(t)
               \/ enum_open(t) \/ enum_close(t)
        PROVE  EnumInv'
    <2>1. dir' = dir /\ disk' = disk
      BY <1>4 DEF storage_obj_rename, tee_pobj_rename, enum_get, enum_open, enum_close
    <2> QED
      BY <2>1, EnumSame
  <1>5. ASSUME NEW t \in Threads,
               \/ ree_fs_create(t) \/ ree_fs_write(t) \/ ree_fs_remove(t) \/ ree_fs_rename(t)
               \/ ree_fs_opendir(t) \/ ree_fs_readdir(t) \/ ree_fs_closedir(t)
        PROVE  EnumInv'
    BY <1>5, EnumCreate, EnumWrite, EnumRemove, EnumRename, EnumOpendir, EnumReaddir,
       EnumClosedir
  <1>6. CASE ReeFsNext
    BY <1>2, <1>3, <1>4, <1>5, <1>6 DEF ReeFsNext
  <1> QED
    BY <1>1, <1>6

\* An enumeration returns every object that is there all the time and none
\* twice, in every setup: whatever other threads create, rename and delete
\* meanwhile, and whatever requests fail (tee_fs_dirfile_get_next, with
\* tee_fs_dirfile_rename in place and the entries of new objects).
THEOREM EnumerationsComplete == ReeFsSpec => []EnumerationComplete
  <1>1. ReeFsInit => EnumInv
    BY EnumSame DEF ReeFsInit, EnumInv, EnumOK, Volatile, NoDir
  <1>2. ReeFsInv /\ EnumInv => EnumerationComplete
    BY DEF EnumInv, EnumOK, EnumerationComplete, Ahead
  <1>3. ReeFsSpec => []EnumInv
    BY <1>1, EnumStep, ReeFsInductive, PTL DEF ReeFsSpec
  <1> QED
    BY <1>2, <1>3, ReeFsInductive, PTL

-----------------------------------------------------------------------------
(* Who uses an open object *)

\* A handle or a call with flags fl may use an object that was opened with F.
Fits(F, fl) == fl = F \/ check_access(F, fl)
SharedWrite(fl) == "write" \in fl /\ "share_write" \in fl

LEMMA AccessFacts ==
    ASSUME NEW F, NEW x, check_access(F, x)
    PROVE  Sharable(F) /\ Fits(F, x)
  BY DEF check_access, Sharable, Fits

LEMMA FitsShare ==
    ASSUME NEW F, NEW x, NEW y, Sharable(F), Fits(F, x), Fits(F, y)
    PROVE  check_access(x, y)
  BY DEF check_access, Sharable, Fits

\* Objects are written, renamed and deleted exclusively.
LEMMA FitsAlone ==
    ASSUME NEW F, NEW x, Fits(F, x), "write" \in x \/ "meta" \in x, ~SharedWrite(x)
    PROVE  ~Sharable(F)
  BY DEF check_access, Sharable, Fits, SharedWrite

LEMMA FitsSharable ==
    ASSUME NEW F, NEW x, Fits(F, x), ~Sharable(x)
    PROVE  ~Sharable(F)
  BY DEF check_access, Sharable, Fits

LEMMA MetaAlone ==
    /\ ~Sharable({"meta"}) /\ ~SharedWrite({"meta"}) /\ ~SharedWrite({})
    /\ \A x : ~check_access(x, {"meta"}) /\ ~check_access({"meta"}, x)
  BY DEF check_access, Sharable, SharedWrite

\* Call c uses p for more than an enumeration.
UserOf(c, p) == UsesPobj(c, p) /\ c.name = NULL

\* The object under the new name of an object that was renamed, or was not
Temp(c) == c.pc = "release" /\ c.h # NULL
Renaming(c) == c.pc \in {"rename", "pobj_rename"} \/ Temp(c)

\* A call that could not read the entry of its object and takes it for corrupt
GaveUp(c) == c.pc = "remove_corrupt" /\ c.h = NULL

\* What call c of thread t may rely on in setup s, with handles ob and open
\* objects po
CallFor(s, t, c, ob, po) ==
    /\ c.pc = "idle" => c.h = NULL /\ c.name = NULL
    /\ c.pc \in {"enum_get", "enum_open", "enum_close"} => c.name # NULL
    /\ c.name # NULL => /\ c.pc \in {"enum_get", "enum_open", "enum_close", "release"}
                        /\ c.h = NULL /\ "enum" \in s.calls
    /\ c.pc \in {"open", "create"} => c.flags \in s.flags /\ Fits(po[c.po].flags, c.flags)
    /\ c.over => "overwrite" \in s.calls
    /\ c.pc \in {"remove", "remove_corrupt", "close"} =>
          \/ c.h \in Handles /\ ob[c.h] # NULL /\ ob[c.h].own = t /\ ob[c.h].po = c.po
          \/ GaveUp(c) /\ c.flags \in s.flags /\ Fits(po[c.po].flags, c.flags)
    /\ c.pc = "remove" => "meta" \in ob[c.h].flags
    /\ c.pc = "remove_corrupt" => /\ c.h # NULL => "write" \in ob[c.h].flags
                                  /\ (c.h # NULL /\ s.retry) \/ "fetch" \in s.faults
    /\ c.pc \in {"rename", "pobj_rename"} => "meta" \in ob[c.h].flags
    /\ c.pc = "rename" /\ ob[c.h].failed => s.retry
    /\ Renaming(c) => "rename" \in s.calls /\ po[c.po].flags = {"meta"}

\* An open handle o
HandleFor(s, o, po) ==
    /\ o.flags \in s.flags /\ Fits(po[o.po].flags, o.flags)
    /\ ~o.fh.ht => (o.failed \/ s.retry) /\ (s.retry => "write" \in o.flags)

CallsFor == \A t \in Threads : CallFor(setup, t, call[t], obj, pobj)
HandlesFor == \A h \in Handles : obj[h] # NULL => HandleFor(setup, obj[h], pobj)
FlagsFor == \A p \in Pobjs : pobj[p] # NULL => ~SharedWrite(pobj[p].flags)
DirsFor == \A t \in Threads : dir[t].idx # -1 => "enum" \in setup.calls
OneAtATime ==
    setup.concurrent \/ \A t, u \in Threads :
        t # u => call[t].pc = "idle" \/ call[u].pc = "idle"

\* At most one handle or call uses p, enumerations apart.
AloneAt(p) ==
    /\ \A h, k \in Handles : HasPobj(obj[h], p) /\ HasPobj(obj[k], p) => h = k
    /\ \A h \in Handles, t \in Threads : ~(HasPobj(obj[h], p) /\ UserOf(call[t], p))
    /\ \A t, u \in Threads : UserOf(call[t], p) /\ UserOf(call[u], p) => t = u
Alone == \A p \in Pobjs : pobj[p] # NULL /\ ~Sharable(pobj[p].flags) => AloneAt(p)

\* Open objects have different names, but for a moment after a rename.
NamesApart ==
    \A p, q \in Pobjs :
        p # q /\ pobj[p] # NULL /\ pobj[q] # NULL /\ pobj[p].name = pobj[q].name =>
           \E t \in Threads : Temp(call[t]) /\ call[t].po \in {p, q}

UseInv == /\ CallsFor /\ HandlesFor /\ FlagsFor /\ DirsFor /\ OneAtATime
          /\ Alone /\ NamesApart

-----------------------------------------------------------------------------
(* What a step leaves alone *)

\* Every object that a handle or a call refers to is there.
PobjsThere ==
    \A p \in Pobjs :
        \/ \E h \in Handles : HasPobj(obj[h], p)
        \/ \E t \in Threads : UsesPobj(call[t], p)
        => pobj[p] \in PobjType /\ pobj[p] # NULL /\ pobj[p].name \in Names

LEMMA AllThere == ReeFsInv => PobjsThere
  BY PobjThere DEF PobjsThere

LEMMA AllThereNext == ReeFsInv' => PobjsThere'
  BY AllThere, PTL

LEMMA CallsThere == ReeFsInv => \A t \in Threads : call[t] \in CallType /\ CallOK(t, call[t], obj)
  BY CallFacts DEF ReeFsInv

\* Open objects keep their flags.
PobjKept == \A p \in Pobjs : pobj[p] # NULL /\ pobj'[p] # NULL => pobj'[p].flags = pobj[p].flags

\* A step of thread t
Frame(t) ==
    /\ setup' = setup
    /\ \A u \in Threads \ {t} : call'[u] = call[u]
    /\ \A h \in Handles : obj[h] # NULL /\ obj[h].own # t => obj'[h] = obj[h]
    /\ PobjKept

LEMMA CallsForStep ==
    ASSUME ReeFsInv, ReeFsInv', CallsFor, NEW t \in Threads, Frame(t),
           CallFor(setup', t, call'[t], obj', pobj')
    PROVE  CallsFor'
  <1> SUFFICES ASSUME NEW u \in Threads PROVE CallFor(setup', u, call'[u], obj', pobj')
    BY DEF CallsFor
  <1>1. CASE u = t
    BY <1>1
  <1>2. CASE u # t
    <2>1. PICK c : c = call[u]
      OBVIOUS
    <2>2. call'[u] = c /\ setup' = setup
      BY <1>2, <2>1 DEF Frame
    <2>3. CallFor(setup, u, c, obj, pobj) /\ CallOK(u, c, obj)
      BY <2>1, CallsThere DEF CallsFor
    <2>4. ASSUME c.pc \in {"open", "create"} \/ GaveUp(c) \/ Renaming(c)
          PROVE  pobj'[c.po].flags = pobj[c.po].flags
      <3>1. Referring(c)
        BY <2>4 DEF Renaming, Temp, Referring, GaveUp
      <3>2. c.po \in Pobjs /\ UsesPobj(call[u], c.po) /\ UsesPobj(call'[u], c.po)
        BY <2>1, <2>2, <2>3, <3>1 DEF CallOK, UsesPobj
      <3>3. pobj[c.po] # NULL
        BY <3>2, AllThere DEF PobjsThere
      <3>4. pobj'[c.po] # NULL
        BY <3>2, AllThereNext DEF PobjsThere
      <3> QED
        BY <3>2, <3>3, <3>4 DEF Frame, PobjKept
    <2>5. ASSUME c.pc \in {"remove", "remove_corrupt", "close", "rename", "pobj_rename"},
                 ~GaveUp(c)
          PROVE  obj'[c.h] = obj[c.h]
      <3>1. c.h \in Handles /\ obj[c.h] # NULL /\ obj[c.h].own = u
        BY <2>3, <2>5 DEF CallFor, CallOK
      <3> QED
        BY <1>2, <3>1 DEF Frame
    <2>6. CallFor(setup, u, c, obj', pobj')
      <3>1. /\ c.pc = "idle" => c.h = NULL /\ c.name = NULL
            /\ c.pc \in {"enum_get", "enum_open", "enum_close"} => c.name # NULL
            /\ c.name # NULL => /\ c.pc \in {"enum_get", "enum_open", "enum_close", "release"}
                                /\ c.h = NULL /\ "enum" \in setup.calls
            /\ c.over => "overwrite" \in setup.calls
        BY <2>3 DEF CallFor
      <3>2. /\ c.pc \in {"open", "create"} =>
                   c.flags \in setup.flags /\ Fits(pobj'[c.po].flags, c.flags)
            /\ Renaming(c) => "rename" \in setup.calls /\ pobj'[c.po].flags = {"meta"}
        BY <2>3, <2>4 DEF CallFor
      <3>3. /\ c.pc \in {"remove", "remove_corrupt", "close"} =>
                  \/ /\ c.h \in Handles /\ obj'[c.h] # NULL /\ obj'[c.h].own = u
                     /\ obj'[c.h].po = c.po
                  \/ GaveUp(c)
            /\ c.pc = "remove" => "meta" \in obj'[c.h].flags
            /\ c.pc = "remove_corrupt" => /\ c.h # NULL => "write" \in obj'[c.h].flags
                                          /\ (c.h # NULL /\ setup.retry) \/ "fetch" \in setup.faults
            /\ c.pc \in {"rename", "pobj_rename"} => "meta" \in obj'[c.h].flags
            /\ c.pc = "rename" /\ obj'[c.h].failed => setup.retry
        BY <2>3, <2>5 DEF CallFor, GaveUp
      <3>4. GaveUp(c) => c.flags \in setup.flags /\ Fits(pobj'[c.po].flags, c.flags)
        <4>1. GaveUp(c) => c.h \notin Handles
          BY ReeFsAssumption DEF GaveUp, Handles
        <4> QED
          BY <2>3, <2>4, <4>1 DEF CallFor, GaveUp
      <3> QED
        BY <3>1, <3>2, <3>3, <3>4 DEF CallFor
    <2> QED
      BY <2>2, <2>6
  <1> QED
    BY <1>1, <1>2

LEMMA HandlesForStep ==
    ASSUME ReeFsInv, ReeFsInv', HandlesFor, NEW t \in Threads, Frame(t),
           \A h \in Handles : \/ obj'[h] = NULL \/ obj'[h] = obj[h]
                              \/ HandleFor(setup', obj'[h], pobj')
    PROVE  HandlesFor'
  <1> SUFFICES ASSUME NEW h \in Handles, obj'[h] # NULL
               PROVE  HandleFor(setup', obj'[h], pobj')
    BY DEF HandlesFor
  <1>1. CASE obj'[h] = obj[h]
    <2>1. HandleFor(setup, obj[h], pobj) /\ obj[h] # NULL
      BY <1>1 DEF HandlesFor
    <2>2. obj[h] \in ObjType
      BY <2>1 DEF ReeFsInv, CoreType
    <2>3. PICK p : p = obj[h].po
      OBVIOUS
    <2>4. p \in Pobjs /\ HasPobj(obj[h], p) /\ HasPobj(obj'[h], p)
      BY <1>1, <2>1, <2>2, <2>3 DEF ObjType, HasPobj
    <2>5. pobj[p] # NULL
      BY <2>4, AllThere DEF PobjsThere
    <2>6. pobj'[p] # NULL
      BY <2>4, AllThereNext DEF PobjsThere
    <2>7. pobj'[p].flags = pobj[p].flags /\ setup' = setup
      BY <2>4, <2>5, <2>6 DEF Frame, PobjKept
    <2> QED
      BY <1>1, <2>1, <2>3, <2>7 DEF HandleFor
  <1>2. CASE HandleFor(setup', obj'[h], pobj')
    BY <1>2
  <1> QED
    BY <1>1, <1>2

LEMMA FlagsForStep ==
    ASSUME FlagsFor, PobjKept,
           \A p \in Pobjs : pobj'[p] # NULL => pobj[p] # NULL \/ ~SharedWrite(pobj'[p].flags)
    PROVE  FlagsFor'
  BY DEF FlagsFor, PobjKept, SharedWrite

LEMMA DirsForStep ==
    ASSUME DirsFor, setup' = setup,
           \A t \in Threads : dir'[t].idx = dir[t].idx \/ dir'[t].idx = -1 \/ "enum" \in Calls
    PROVE  DirsFor'
  BY DEF DirsFor, Calls

\* The condition on other threads in ReeFsNext
Others(t) == setup.concurrent \/ \A u \in Threads \ {t} : Passive(u)

LEMMA OneAtATimeStep ==
    ASSUME NEW t \in Threads, Others(t), Frame(t), OneAtATime
    PROVE  OneAtATime'
  BY DEF Others, Passive, Frame, OneAtATime

-----------------------------------------------------------------------------
(* Users of an object stay apart. *)

NoUser(p) == /\ \A h \in Handles : ~HasPobj(obj[h], p)
             /\ \A t \in Threads : ~UserOf(call[t], p)

LEMMA NoUsers ==
    ASSUME ReeFsInv, NEW p \in Pobjs, pobj[p] = NULL
    PROVE  NoUser(p)
  BY AllThere DEF PobjsThere, NoUser, UserOf

\* An object that will not be sharable has at most one user before the step.
LEMMA AloneBefore ==
    ASSUME ReeFsInv, Alone, PobjKept, NEW p \in Pobjs, pobj'[p] # NULL,
           ~Sharable(pobj'[p].flags)
    PROVE  AloneAt(p)
  <1>1. CASE pobj[p] = NULL
    <2>1. NoUser(p)
      BY <1>1, NoUsers
    <2> QED
      BY <2>1 DEF NoUser, AloneAt
  <1>2. CASE pobj[p] # NULL
    BY <1>2 DEF Alone, PobjKept, Sharable
  <1> QED
    BY <1>1, <1>2

LEMMA AloneSuffices ==
    ASSUME ReeFsInv, Alone, PobjKept,
           \A p \in Pobjs : AloneAt(p) /\ ~Sharable(pobj'[p].flags) => AloneAt(p)'
    PROVE  Alone'
  <1> SUFFICES ASSUME NEW p \in Pobjs, pobj'[p] # NULL, ~Sharable(pobj'[p].flags)
               PROVE  AloneAt(p)'
    BY DEF Alone, Sharable, check_access
  <1>1. AloneAt(p)
    BY AloneBefore
  <1> QED
    BY <1>1

\* No handle and no call uses an object that it did not use before.
LEMMA AloneFewer ==
    ASSUME ReeFsInv, Alone, PobjKept,
           \A h \in Handles : obj'[h] = NULL \/ SameHandle(obj[h], obj'[h]),
           \A t \in Threads, p \in Pobjs : UserOf(call'[t], p) => UserOf(call[t], p)
    PROVE  Alone'
  <1>1. \A h \in Handles, p \in Pobjs : HasPobj(obj'[h], p) => HasPobj(obj[h], p)
    BY DEF HasPobj, SameHandle
  <1>2. ASSUME NEW p \in Pobjs, AloneAt(p)
        PROVE  AloneAt(p)'
    BY <1>1, <1>2 DEF AloneAt, HasPobj, UserOf, UsesPobj, Referring
  <1> QED
    BY <1>2, AloneSuffices

\* The call of thread t hands its object to handle h.
LEMMA AloneToHandle ==
    ASSUME ReeFsInv, Alone, PobjKept, NEW t \in Threads, NEW h \in Handles, NEW o,
           \A u \in Threads \ {t} : call'[u] = call[u],
           obj' = [obj EXCEPT ![h] = o], UserOf(call[t], o.po),
           \A p \in Pobjs : ~UserOf(call'[t], p)
    PROVE  Alone'
  <1>1. /\ \A k \in Handles \ {h} : obj'[k] = obj[k]
        /\ obj'[h] = o
    BY DEF ReeFsInv, CoreType
  <1>2. ASSUME NEW p \in Pobjs, AloneAt(p)
        PROVE  AloneAt(p)'
    <2>1. \A k \in Handles : HasPobj(obj'[k], p) =>
             (k # h /\ HasPobj(obj[k], p)) \/ (k = h /\ UserOf(call[t], p))
      BY <1>1 DEF HasPobj
    <2>2. \A u \in Threads : UserOf(call'[u], p) => u # t /\ UserOf(call[u], p)
      OBVIOUS
    <2>3. \A k, l \in Handles : HasPobj(obj'[k], p) /\ HasPobj(obj'[l], p) => k = l
      BY <1>2, <2>1 DEF AloneAt
    <2>4. \A k \in Handles, u \in Threads : ~(HasPobj(obj'[k], p) /\ UserOf(call'[u], p))
      BY <1>2, <2>1, <2>2 DEF AloneAt
    <2>5. \A u, v \in Threads : UserOf(call'[u], p) /\ UserOf(call'[v], p) => u = v
      BY <1>2, <2>2 DEF AloneAt
    <2> QED
      BY <2>3, <2>4, <2>5 DEF AloneAt, HasPobj, UserOf, UsesPobj, Referring
  <1> QED
    BY <1>2, AloneSuffices

\* Handle h is closed and its object goes to the call of thread t.
LEMMA AloneToCall ==
    ASSUME ReeFsInv, Alone, PobjKept, NEW t \in Threads, NEW h \in Handles,
           \A u \in Threads \ {t} : call'[u] = call[u],
           obj' = [obj EXCEPT ![h] = NULL],
           \A p \in Pobjs : UserOf(call'[t], p) => HasPobj(obj[h], p)
    PROVE  Alone'
  <1>1. /\ \A k \in Handles \ {h} : obj'[k] = obj[k]
        /\ obj'[h] = NULL
    BY DEF ReeFsInv, CoreType
  <1>2. ASSUME NEW p \in Pobjs, AloneAt(p)
        PROVE  AloneAt(p)'
    <2>1. \A k \in Handles : HasPobj(obj'[k], p) => k # h /\ HasPobj(obj[k], p)
      BY <1>1 DEF HasPobj
    <2>2. \A u \in Threads : UserOf(call'[u], p) =>
             (u # t /\ UserOf(call[u], p)) \/ (u = t /\ HasPobj(obj[h], p))
      OBVIOUS
    <2>3. \A k, l \in Handles : HasPobj(obj'[k], p) /\ HasPobj(obj'[l], p) => k = l
      BY <1>2, <2>1 DEF AloneAt
    <2>4. \A k \in Handles, u \in Threads : ~(HasPobj(obj'[k], p) /\ UserOf(call'[u], p))
      BY <1>2, <2>1, <2>2 DEF AloneAt
    <2>5. \A u, v \in Threads : UserOf(call'[u], p) /\ UserOf(call'[v], p) => u = v
      BY <1>2, <2>2 DEF AloneAt
    <2> QED
      BY <2>3, <2>4, <2>5 DEF AloneAt, HasPobj, UserOf, UsesPobj, Referring
  <1> QED
    BY <1>2, AloneSuffices

\* The call of thread t gets object q: new, or sharable.
LEMMA AloneGot ==
    ASSUME ReeFsInv, Alone, PobjKept, NEW t \in Threads, NEW q \in Pobjs,
           \A u \in Threads \ {t} : call'[u] = call[u], obj' = obj,
           \A p \in Pobjs : UserOf(call'[t], p) => p = q,
           pobj[q] = NULL \/ Sharable(pobj[q].flags), pobj'[q] # NULL
    PROVE  Alone'
  <1>1. ASSUME NEW p \in Pobjs, AloneAt(p), ~Sharable(pobj'[p].flags)
        PROVE  AloneAt(p)'
    <2>1. CASE p # q
      <3>1. \A u \in Threads : UserOf(call'[u], p) => UserOf(call[u], p)
        BY <2>1
      <3> QED
        BY <1>1, <3>1 DEF AloneAt, HasPobj, UserOf, UsesPobj, Referring
    <2>2. CASE p = q
      <3>1. pobj[q] = NULL
        BY <1>1, <2>2 DEF PobjKept
      <3>2. NoUser(p)
        BY <2>2, <3>1, NoUsers
      <3>3. \A u \in Threads : UserOf(call'[u], p) => u = t
        BY <3>2 DEF NoUser
      <3>4. \A h \in Handles : ~HasPobj(obj'[h], p)
        BY <3>2 DEF NoUser
      <3> QED
        BY <3>3, <3>4 DEF AloneAt, HasPobj, UserOf, UsesPobj, Referring
    <2> QED
      BY <2>1, <2>2
  <1> QED
    BY <1>1, AloneSuffices

-----------------------------------------------------------------------------
(* Names stay apart. *)

\* Thread t was not at the end of a rename, and no open object gets a name.
LEMMA NamesKept ==
    ASSUME NamesApart, NEW t \in Threads, ~Temp(call[t]),
           \A u \in Threads \ {t} : call'[u] = call[u],
           \A p \in Pobjs : pobj'[p] # NULL => pobj[p] # NULL /\ pobj'[p].name = pobj[p].name
    PROVE  NamesApart'
  <1> SUFFICES ASSUME NEW p \in Pobjs, NEW q \in Pobjs, p # q, pobj'[p] # NULL, pobj'[q] # NULL,
                      pobj'[p].name = pobj'[q].name
               PROVE  \E u \in Threads : Temp(call'[u]) /\ call'[u].po \in {p, q}
    BY DEF NamesApart, Temp
  <1>1. PICK u \in Threads : Temp(call[u]) /\ call[u].po \in {p, q}
    BY DEF NamesApart
  <1>2. call'[u] = call[u]
    BY <1>1
  <1> QED
    BY <1>1, <1>2 DEF Temp

\* An object appears under a name that no other has.
LEMMA NamesNew ==
    ASSUME NamesApart, NEW t \in Threads, ~Temp(call[t]), NEW r \in Pobjs,
           \A u \in Threads \ {t} : call'[u] = call[u],
           \A p \in Pobjs \ {r} : pobj'[p] = pobj[p] /\ (pobj[p] # NULL => pobj[p].name # pobj'[r].name)
    PROVE  NamesApart'
  <1> SUFFICES ASSUME NEW p \in Pobjs, NEW q \in Pobjs, p # q, pobj'[p] # NULL, pobj'[q] # NULL,
                      pobj'[p].name = pobj'[q].name
               PROVE  \E u \in Threads : Temp(call'[u]) /\ call'[u].po \in {p, q}
    BY DEF NamesApart, Temp
  <1>0. p # r /\ q # r
    OBVIOUS
  <1>1. PICK u \in Threads : Temp(call[u]) /\ call[u].po \in {p, q}
    BY <1>0 DEF NamesApart
  <1>2. call'[u] = call[u]
    BY <1>1
  <1> QED
    BY <1>1, <1>2 DEF Temp

-----------------------------------------------------------------------------
(* Steps that keep the use of objects in order *)

LEMMA UseStep ==
    ASSUME ReeFsInv, ReeFsInv', UseInv, NEW t \in Threads, Others(t), Frame(t),
           CallFor(setup', t, call'[t], obj', pobj'),
           \A h \in Handles : \/ obj'[h] = NULL \/ obj'[h] = obj[h]
                              \/ HandleFor(setup', obj'[h], pobj'),
           \A p \in Pobjs : pobj'[p] # NULL => pobj[p] # NULL \/ ~SharedWrite(pobj'[p].flags),
           \A u \in Threads : dir'[u].idx = dir[u].idx \/ dir'[u].idx = -1 \/ "enum" \in Calls,
           Alone', NamesApart'
    PROVE  UseInv'
  <1>1. CallsFor' /\ HandlesFor'
    BY CallsForStep, HandlesForStep DEF UseInv
  <1>2. FlagsFor' /\ DirsFor' /\ OneAtATime'
    BY FlagsForStep, DirsForStep, OneAtATimeStep DEF UseInv, Frame
  <1> QED
    BY <1>1, <1>2 DEF UseInv

\* Thread t goes on with call c; open objects stay as they are.
Quiet(t, c) == UNCHANGED <<setup, pobj>> /\ call' = [call EXCEPT ![t] = c]

LEMMA CallStepFacts ==
    ASSUME CoreType, NEW t \in Threads, NEW c, call' = [call EXCEPT ![t] = c]
    PROVE  call'[t] = c /\ \A u \in Threads \ {t} : call'[u] = call[u]
  BY DEF CoreType

LEMMA UseQuiet ==
    ASSUME ReeFsInv, ReeFsInv', UseInv, NEW t \in Threads, Others(t), NEW c, Quiet(t, c),
           ~Temp(call[t]), \A p \in Pobjs : UserOf(c, p) => UserOf(call[t], p),
           CallFor(setup, t, c, obj', pobj),
           \A k \in Handles :
               \/ obj'[k] = obj[k]
               \/ /\ obj[k] # NULL /\ obj[k].own = t /\ SameHandle(obj[k], obj'[k])
                  /\ HandleFor(setup, obj'[k], pobj),
           \A u \in Threads : dir'[u].idx = dir[u].idx \/ dir'[u].idx = -1 \/ "enum" \in Calls
    PROVE  UseInv'
  <1>1. /\ setup' = setup /\ pobj' = pobj /\ call'[t] = c
        /\ \A u \in Threads \ {t} : call'[u] = call[u]
    BY CallStepFacts DEF Quiet, ReeFsInv
  <1>2. PobjKept
    BY <1>1 DEF PobjKept
  <1>3. Frame(t)
    BY <1>1, <1>2 DEF Frame
  <1>4. CallFor(setup', t, call'[t], obj', pobj')
    BY <1>1
  <1>5. \A h \in Handles : \/ obj'[h] = NULL \/ obj'[h] = obj[h]
                           \/ HandleFor(setup', obj'[h], pobj')
    BY <1>1
  <1>6. Alone'
    <2>1. \A h \in Handles : obj'[h] = NULL \/ SameHandle(obj[h], obj'[h])
      BY DEF SameHandle
    <2>2. \A u \in Threads, p \in Pobjs : UserOf(call'[u], p) => UserOf(call[u], p)
      BY <1>1
    <2> QED
      BY <1>2, <2>1, <2>2, AloneFewer DEF UseInv
  <1>7. NamesApart'
    <2>1. \A p \in Pobjs : pobj'[p] # NULL => pobj[p] # NULL /\ pobj'[p].name = pobj[p].name
      BY <1>1
    <2> QED
      BY <1>1, <2>1, NamesKept DEF UseInv
  <1> QED
    BY <1>1, <1>3, <1>4, <1>5, <1>6, <1>7, UseStep

LEMMA IdleFor ==
    ASSUME NEW s, NEW t, NEW ob, NEW po
    PROVE  CallFor(s, t, Idle, ob, po) /\ ~Temp(Idle) /\ \A p : ~UserOf(Idle, p)
  BY DEF CallFor, Idle, Renaming, Temp, UserOf, UsesPobj, Referring

\* After a loss of power
LEMMA UseLost ==
    ASSUME NEW d, LosePower(d)
    PROVE  UseInv'
  <1>1. /\ \A p \in Pobjs : pobj'[p] = NULL
        /\ \A h \in Handles : obj'[h] = NULL
        /\ \A t \in Threads : call'[t] = Idle /\ dir'[t].idx = -1
    BY DEF LosePower, Volatile, NoDir
  <1>2. CallsFor'
    BY <1>1, IdleFor DEF CallsFor
  <1>3. OneAtATime'
    BY <1>1 DEF OneAtATime, Idle
  <1>4. HandlesFor' /\ FlagsFor' /\ DirsFor' /\ Alone' /\ NamesApart'
    BY <1>1 DEF HandlesFor, FlagsFor, DirsFor, Alone, NamesApart
  <1> QED
    BY <1>2, <1>3, <1>4 DEF UseInv

LEMMA GoAll ==
    ASSUME CoreType, NEW t \in Threads, NEW pc, Go(t, pc)
    PROVE  \E c : /\ call' = [call EXCEPT ![t] = c]
                  /\ c.pc = pc /\ c.po = call[t].po /\ c.h = call[t].h
                  /\ c.name = call[t].name /\ c.over = call[t].over
                  /\ c.flags = call[t].flags
  <1>1. call[t] \in CallType
    BY DEF CoreType
  <1>2. PICK c : c = [call[t] EXCEPT !.pc = pc]
    OBVIOUS
  <1>3. call' = [call EXCEPT ![t] = c]
    BY <1>2 DEF Go
  <1>4. /\ c.pc = pc /\ c.po = call[t].po /\ c.h = call[t].h
        /\ c.name = call[t].name /\ c.over = call[t].over /\ c.flags = call[t].flags
    BY <1>1, <1>2 DEF CallType
  <1> QED
    BY <1>3, <1>4

\* A call that opens or creates an object gives up and takes it for corrupt.
LEMMA UseGaveUp ==
    ASSUME ReeFsInv, ReeFsInv', UseInv, NEW t \in Threads, Others(t),
           call[t].pc \in {"open", "create"}, "fetch" \in setup.faults,
           Go(t, "remove_corrupt"), UNCHANGED <<setup, pobj, obj>>,
           \A u \in Threads : dir'[u].idx = dir[u].idx
    PROVE  UseInv'
  <1>1. PICK c : /\ call' = [call EXCEPT ![t] = c]
                 /\ c.pc = "remove_corrupt" /\ c.po = call[t].po /\ c.h = call[t].h
                 /\ c.name = call[t].name /\ c.over = call[t].over
                 /\ c.flags = call[t].flags
    BY GoAll DEF ReeFsInv
  <1>2. CallFor(setup, t, call[t], obj, pobj) /\ CallOK(t, call[t], obj)
    BY CallsThere DEF UseInv, CallsFor
  <1>3. GaveUp(c) /\ call[t].name = NULL
    BY <1>1, <1>2 DEF CallFor, CallOK, GaveUp
  <1>4. CallFor(setup, t, c, obj', pobj)
    BY <1>1, <1>2, <1>3 DEF CallFor, Renaming, Temp, GaveUp
  <1>5. \A p \in Pobjs : UserOf(c, p) => UserOf(call[t], p)
    BY <1>1 DEF UserOf, UsesPobj, Referring
  <1>6. Quiet(t, c) /\ ~Temp(call[t])
    BY <1>1 DEF Quiet, Temp
  <1> QED
    BY <1>4, <1>5, <1>6, UseQuiet

\* A call gives up and releases the object it has.
LEMMA UseGivesUp ==
    ASSUME ReeFsInv, ReeFsInv', UseInv, NEW t \in Threads, Others(t), Referring(call[t]),
           ~Temp(call[t]), call[t].h # NULL => Renaming(call[t]),
           Go(t, "release"), UNCHANGED <<setup, pobj>>,
           \A u \in Threads : dir'[u].idx = dir[u].idx,
           \A k \in Handles :
               \/ obj'[k] = obj[k]
               \/ /\ obj[k] # NULL /\ obj[k].own = t /\ SameHandle(obj[k], obj'[k])
                  /\ HandleFor(setup, obj'[k], pobj)
    PROVE  UseInv'
  <1>1. PICK c : /\ call' = [call EXCEPT ![t] = c]
                 /\ c.pc = "release" /\ c.po = call[t].po /\ c.h = call[t].h
                 /\ c.name = call[t].name /\ c.over = call[t].over
    BY GoAll DEF ReeFsInv
  <1>2. CallFor(setup, t, call[t], obj, pobj)
    BY DEF UseInv, CallsFor
  <1>3. CallFor(setup, t, c, obj', pobj)
    BY <1>1, <1>2 DEF CallFor, Renaming, Temp
  <1>4. \A p \in Pobjs : UserOf(c, p) => UserOf(call[t], p)
    BY <1>1 DEF UserOf, UsesPobj
  <1>5. Quiet(t, c)
    BY <1>1 DEF Quiet
  <1> QED
    BY <1>3, <1>4, <1>5, UseQuiet

\* tee_pobj_get: the object is new, or the flags let it be shared.
LEMMA GetFacts ==
    ASSUME CoreType, NEW p \in Pobjs, NEW n \in Names, NEW fl \in SUBSET Modes,
           NEW usage, NEW over, tee_pobj_get(p, n, fl, usage, over)
    PROVE  /\ PobjKept /\ pobj'[p] # NULL /\ pobj'[p].name = n
           /\ \/ /\ pobj[p] = NULL /\ pobj'[p].flags = fl
                 /\ \A q \in Pobjs \ {p} :
                       pobj'[q] = pobj[q] /\ (pobj[q] # NULL => pobj[q].name # n)
              \/ /\ pobj[p] # NULL /\ pobj'[p].flags = pobj[p].flags
                 /\ usage = "enum" \/ check_access(pobj[p].flags, fl)
                 /\ \A q \in Pobjs : pobj'[q] # NULL =>
                       pobj[q] # NULL /\ pobj'[q].name = pobj[q].name
  <1>1. pobj \in [Pobjs -> PobjType \cup {NULL}]
    BY DEF CoreType
  <1>2. CASE \E q \in Pobjs : pobj[q] # NULL /\ pobj[q].name = n
    <2>1. /\ pobj[p] # NULL /\ pobj[p].name = n
          /\ usage = "enum" \/ check_access(pobj[p].flags, fl)
          /\ pobj' = [pobj EXCEPT ![p].refcnt = @ + 1]
      BY <1>2 DEF tee_pobj_get
    <2>2. PICK r : r = [pobj[p] EXCEPT !.refcnt = @ + 1]
      OBVIOUS
    <2>3. pobj[p] \in PobjType
      BY <1>1, <2>1
    <2>4. r \in PobjType /\ r.flags = pobj[p].flags /\ r.name = n
      BY <2>1, <2>2, <2>3 DEF PobjType
    <2>5. r # NULL
      BY <2>4, ReeFsAssumption
    <2>6. pobj' = [pobj EXCEPT ![p] = r]
      BY <2>1, <2>2
    <2>7. pobj'[p] = r /\ \A q \in Pobjs \ {p} : pobj'[q] = pobj[q]
      BY <1>1, <2>6
    <2> QED
      BY <2>1, <2>4, <2>5, <2>7 DEF PobjKept
  <1>3. CASE ~\E q \in Pobjs : pobj[q] # NULL /\ pobj[q].name = n
    <2>1. PICK r : r = NewPobj(n, fl, usage = "create")
      OBVIOUS
    <2>2. pobj[p] = NULL /\ pobj' = [pobj EXCEPT ![p] = r]
      BY <1>3, <2>1 DEF tee_pobj_get
    <2>3. r.flags = fl /\ r.name = n
      BY <2>1 DEF NewPobj
    <2>4. pobj'[p] = r /\ \A q \in Pobjs \ {p} : pobj'[q] = pobj[q]
      BY <1>1, <2>2
    <2>5. r # NULL
      <3>1. (usage = "create") \in BOOLEAN
        OBVIOUS
      <3>2. r \in PobjType
        BY <2>1, <3>1 DEF NewPobj, PobjType
      <3> QED
        BY <3>2, ReeFsAssumption
    <2> QED
      BY <1>3, <2>2, <2>3, <2>4, <2>5 DEF PobjKept
  <1> QED
    BY <1>2, <1>3

\* Call c uses p, or only enumerates it.
UsesFor(c, p, usage) == \A q \in Pobjs : UserOf(c, q) => q = p /\ usage # "enum"

\* A call gets an object: to use it, or to read its head in an enumeration.
LEMMA UseGet ==
    ASSUME ReeFsInv, ReeFsInv', UseInv, NEW t \in Threads, Others(t),
           NEW p \in Pobjs, NEW n \in Names, NEW fl \in SUBSET Modes, ~SharedWrite(fl),
           NEW usage, NEW over, tee_pobj_get(p, n, fl, usage, over),
           ~Temp(call[t]), NEW c, call' = [call EXCEPT ![t] = c],
           UNCHANGED <<setup, obj, dir>>, CallFor(setup, t, c, obj, pobj'),
           UsesFor(c, p, usage)
    PROVE  UseInv'
  <1>1. CoreType /\ Alone /\ NamesApart
    BY DEF ReeFsInv, UseInv
  <1>2. call'[t] = c /\ \A u \in Threads \ {t} : call'[u] = call[u]
    BY <1>1, CallStepFacts
  <1>3. /\ PobjKept /\ pobj'[p] # NULL /\ pobj'[p].name = n
        /\ \/ /\ pobj[p] = NULL /\ pobj'[p].flags = fl
              /\ \A q \in Pobjs \ {p} :
                    pobj'[q] = pobj[q] /\ (pobj[q] # NULL => pobj[q].name # n)
           \/ /\ pobj[p] # NULL /\ pobj'[p].flags = pobj[p].flags
              /\ usage = "enum" \/ check_access(pobj[p].flags, fl)
              /\ \A q \in Pobjs : pobj'[q] # NULL =>
                    pobj[q] # NULL /\ pobj'[q].name = pobj[q].name
    BY <1>1, GetFacts
  <1>4. Frame(t)
    BY <1>2, <1>3 DEF Frame
  <1>5. CallFor(setup', t, call'[t], obj', pobj')
    BY <1>2
  <1>6. \A q \in Pobjs : pobj'[q] # NULL => pobj[q] # NULL \/ ~SharedWrite(pobj'[q].flags)
    BY <1>3
  <1>7. Alone'
    <2>1. CASE usage = "enum"
      <3>1. \A u \in Threads, q \in Pobjs : UserOf(call'[u], q) => UserOf(call[u], q)
        BY <1>2, <2>1 DEF UsesFor
      <3>2. \A h \in Handles : obj'[h] = NULL \/ SameHandle(obj[h], obj'[h])
        BY DEF SameHandle
      <3> QED
        BY <1>1, <1>3, <3>1, <3>2, AloneFewer
    <2>2. CASE usage # "enum"
      <3>1. pobj[p] = NULL \/ Sharable(pobj[p].flags)
        BY <1>3, <2>2, AccessFacts
      <3>2. \A q \in Pobjs : UserOf(call'[t], q) => q = p
        BY <1>2 DEF UsesFor
      <3> QED
        BY <1>1, <1>2, <1>3, <3>1, <3>2, AloneGot
    <2> QED
      BY <2>1, <2>2
  <1>8. NamesApart'
    <2>1. CASE pobj[p] = NULL
      BY <1>1, <1>2, <1>3, <2>1, NamesNew
    <2>2. CASE pobj[p] # NULL
      BY <1>1, <1>2, <1>3, <2>2, NamesKept
    <2> QED
      BY <2>1, <2>2
  <1> QED
    BY <1>4, <1>5, <1>6, <1>7, <1>8, UseStep

LEMMA UseOpenStart ==
    ASSUME ReeFsInv, ReeFsInv', UseInv, Careful(setup), NEW t \in Threads, Others(t),
           storage_obj_open(t)
    PROVE  UseInv'
  <1>1. PICK n \in Names, fl \in setup.flags, p \in Pobjs :
           /\ tee_pobj_get(p, n, fl, "open", FALSE)
           /\ call' = [call EXCEPT ![t] = [Idle EXCEPT !.pc = "open", !.po = p, !.flags = fl]]
    BY DEF storage_obj_open
  <1>2. CoreType
    BY DEF ReeFsInv
  <1>u. PICK us, ov : /\ us = "open" /\ us # "enum" /\ ov = FALSE
                      /\ tee_pobj_get(p, n, fl, us, ov)
    BY <1>1, Zenon
  <1>3. fl \in SUBSET Modes /\ ~SharedWrite(fl)
    BY <1>2, SetupFacts DEF Careful, SharedWrite
  <1>4. PICK c : c = [Idle EXCEPT !.pc = "open", !.po = p, !.flags = fl]
    OBVIOUS
  <1>5. /\ c.pc = "open" /\ c.po = p /\ c.flags = fl /\ c.h = NULL /\ c.name = NULL
        /\ c.over = FALSE
    BY <1>4 DEF Idle
  <1>6. Fits(pobj'[p].flags, fl)
    BY <1>2, <1>3, <1>u, GetFacts DEF Fits
  <1>7. CallFor(setup, t, c, obj, pobj')
    BY <1>5, <1>6 DEF CallFor, Renaming, Temp
  <1>8. ~Temp(call[t]) /\ UNCHANGED <<setup, obj, dir>>
    BY DEF storage_obj_open, Temp
  <1>9. UsesFor(c, p, us)
    BY <1>5, <1>u DEF UsesFor, UserOf, UsesPobj
  <1>c. call' = [call EXCEPT ![t] = c]
    BY <1>1, <1>4
  <1> QED
    BY <1>1, <1>3, <1>c, <1>7, <1>8, <1>9, <1>u, UseGet

LEMMA UseCreateStart ==
    ASSUME ReeFsInv, ReeFsInv', UseInv, Careful(setup), NEW t \in Threads, Others(t),
           storage_obj_create(t)
    PROVE  UseInv'
  <1>1. PICK n \in Names, fl \in setup.flags, p \in Pobjs, over \in BOOLEAN :
           /\ over => "overwrite" \in Calls
           /\ tee_pobj_get(p, n, fl, "create", over)
           /\ call' = [call EXCEPT ![t] =
                 [Idle EXCEPT !.pc = "create", !.po = p, !.flags = fl, !.over = over]]
    BY DEF storage_obj_create
  <1>2. CoreType
    BY DEF ReeFsInv
  <1>u. PICK us, ov : /\ us = "create" /\ us # "enum" /\ ov = over
                      /\ tee_pobj_get(p, n, fl, us, ov)
    BY <1>1, Zenon
  <1>3. fl \in SUBSET Modes /\ ~SharedWrite(fl)
    BY <1>2, SetupFacts DEF Careful, SharedWrite
  <1>4. PICK c : c = [Idle EXCEPT !.pc = "create", !.po = p, !.flags = fl, !.over = over]
    OBVIOUS
  <1>5. /\ c.pc = "create" /\ c.po = p /\ c.flags = fl /\ c.h = NULL /\ c.name = NULL
        /\ c.over = over
    BY <1>4 DEF Idle
  <1>6. Fits(pobj'[p].flags, fl)
    BY <1>2, <1>3, <1>u, GetFacts DEF Fits
  <1>7. CallFor(setup, t, c, obj, pobj')
    BY <1>1, <1>5, <1>6 DEF CallFor, Renaming, Temp, Calls
  <1>8. ~Temp(call[t]) /\ UNCHANGED <<setup, obj, dir>>
    BY DEF storage_obj_create, Temp
  <1>9. UsesFor(c, p, us)
    BY <1>5, <1>u DEF UsesFor, UserOf, UsesPobj
  <1>c. call' = [call EXCEPT ![t] = c]
    BY <1>1, <1>4
  <1> QED
    BY <1>1, <1>3, <1>c, <1>7, <1>8, <1>9, <1>u, UseGet

LEMMA UseRenameStart ==
    ASSUME ReeFsInv, ReeFsInv', UseInv, Careful(setup), NEW t \in Threads, Others(t),
           storage_obj_rename(t)
    PROVE  UseInv'
  <1>1. PICK h \in Handles, m \in Names, p \in Pobjs :
           /\ Uses(t, h) /\ "meta" \in obj[h].flags
           /\ tee_pobj_get(p, m, {"meta"}, "rename", FALSE)
           /\ call' = [call EXCEPT ![t] = [Idle EXCEPT !.pc = "rename", !.po = p, !.h = h]]
    BY DEF storage_obj_rename
  <1>2. CoreType
    BY DEF ReeFsInv
  <1>u. PICK us, ov : /\ us = "rename" /\ us # "enum" /\ ov = FALSE
                      /\ tee_pobj_get(p, m, {"meta"}, us, ov)
    BY <1>1, Zenon
  <1>3. {"meta"} \in SUBSET Modes /\ ~SharedWrite({"meta"})
    BY MetaAlone DEF Modes
  <1>4. PICK c : c = [Idle EXCEPT !.pc = "rename", !.po = p, !.h = h]
    OBVIOUS
  <1>5. /\ c.pc = "rename" /\ c.po = p /\ c.h = h /\ c.name = NULL /\ c.over = FALSE
    BY <1>4 DEF Idle
  <1>6. pobj'[p].flags = {"meta"}
    <2>1. \/ pobj'[p].flags = {"meta"}
          \/ check_access(pobj[p].flags, {"meta"}) \/ us = "enum"
      BY <1>2, <1>3, <1>u, GetFacts
    <2> QED
      BY <1>u, <2>1, MetaAlone
  <1>7. "rename" \in setup.calls /\ (obj[h].failed => setup.retry)
    BY <1>1 DEF storage_obj_rename, Calls, Uses
  <1>8. CallFor(setup, t, c, obj, pobj')
    BY <1>1, <1>5, <1>6, <1>7 DEF CallFor, Renaming, Temp
  <1>9. ~Temp(call[t]) /\ UNCHANGED <<setup, obj, dir>>
    BY <1>1 DEF storage_obj_rename, Uses, Temp
  <1>10. UsesFor(c, p, us)
    BY <1>5, <1>u DEF UsesFor, UserOf, UsesPobj
  <1>c. call' = [call EXCEPT ![t] = c]
    BY <1>1, <1>4
  <1> QED
    BY <1>1, <1>3, <1>c, <1>8, <1>9, <1>10, <1>u, UseGet

LEMMA UseEnumGet ==
    ASSUME ReeFsInv, ReeFsInv', UseInv, NEW t \in Threads, Others(t), enum_get(t)
    PROVE  UseInv'
  <1>1. PICK p \in Pobjs :
           /\ tee_pobj_get(p, call[t].name, {}, "enum", FALSE)
           /\ call' = [call EXCEPT ![t].pc = "enum_open", ![t].po = p]
    BY DEF enum_get
  <1>2. CoreType /\ call[t] \in CallType /\ CallOK(t, call[t], obj)
        /\ CallFor(setup, t, call[t], obj, pobj) /\ call[t].pc = "enum_get"
    BY CallsThere DEF ReeFsInv, UseInv, CallsFor, enum_get
  <1>3. {} \in SUBSET Modes /\ ~SharedWrite({}) /\ call[t].name \in Names
    BY <1>2, MetaAlone DEF CallOK
  <1>4. PICK c : c = [call[t] EXCEPT !.pc = "enum_open", !.po = p]
    OBVIOUS
  <1>5. /\ c.pc = "enum_open" /\ c.po = p /\ c.h = call[t].h /\ c.name = call[t].name
        /\ c.over = call[t].over
    BY <1>2, <1>4 DEF CallType
  <1>6. call' = [call EXCEPT ![t] = c]
    BY <1>1, <1>2, <1>4 DEF CoreType
  <1>7. CallFor(setup, t, c, obj, pobj') /\ c.name # NULL
    BY <1>2, <1>5 DEF CallFor, Renaming, Temp
  <1>8. ~Temp(call[t]) /\ UNCHANGED <<setup, obj, dir>>
    BY <1>2 DEF enum_get, Temp
  <1>9. UsesFor(c, p, "enum")
    BY <1>7 DEF UsesFor, UserOf
  <1> QED
    BY <1>1, <1>3, <1>6, <1>7, <1>8, <1>9, UseGet

-----------------------------------------------------------------------------
(* What is stored *)

\* A handle that can still be used
Live(h) == obj[h] # NULL /\ ~Closing(h)

\* The name under which the file of handle h is: the new one already, when the
\* dirfile was changed by a rename and the open object is not yet.
NameIn(h, o, c, po) ==
    IF c.pc = "pobj_rename" /\ c.h = h THEN po[c.po].name ELSE po[o.po].name
NameOf(h) == NameIn(h, obj[h], call[obj[h].own], pobj)

\* The file of a handle is the one of its entry.
Linked(d, fh) == d.dirf[fh.idx].f = fh.f /\ d.files[fh.f] = fh.ino

\* It was replaced and removed; its readers still have it.
Orphan(d, o) == /\ "write" \notin o.flags /\ "meta" \notin o.flags
                /\ \A f \in Numbers : d.files[f] # o.fh.ino

\* An open handle o whose file has name n on disk d, in setup s
FileFor(s, o, n, d) ==
    /\ o.fh.idx \in Used(d.dirf) /\ d.dirf[o.fh.idx].name = n
    /\ Linked(d, o.fh) \/ Orphan(d, o)
    /\ o.fh.ht => d.data[o.fh.ino][o.fh.slot] = o.fh.hash
    /\ "write" \in o.flags /\ o.fh.ht /\ (o.failed => s.retry) =>
          d.dirf[o.fh.idx].hash = o.fh.hash

FilesFor == \A h \in Handles : Live(h) => FileFor(setup, obj[h], NameOf(h), disk)
SameFile ==
    \A h, k \in Handles :
        Live(h) /\ Live(k) /\ obj[h].fh.ino = obj[k].fh.ino => obj[h].po = obj[k].po

\* No two numbers are of one file, and every entry has its content.
FilesApart(d) == \A f, g \in Numbers : d.files[f] # NULL /\ d.files[f] = d.files[g] => f = g
EntriesRead(d) == \A i \in Used(d.dirf) : Versions(d, d.dirf[i].f, d.dirf[i].hash) # {}

DiskInv == /\ FilesFor /\ SameFile /\ FilesApart(disk) /\ EntriesRead(disk)
           /\ panicked = FALSE

LEMMA NotCorrupt ==
    ASSUME StorageOK, EntriesRead(disk), NEW t
    PROVE  ~IsCorrupt(t)
  <1>1. disk.dirf \in Seq(DentType)
    BY StorageFacts
  <1>2. PICK i : i = FoundAt(t)
    OBVIOUS
  <1>3. ASSUME i # 0 PROVE Opened(t) # {}
    <2>1. i \in Used(disk.dirf)
      BY <1>1, <1>2, <1>3, FindFacts DEF FoundAt
    <2>2. PICK v : v \in Versions(disk, disk.dirf[i].f, disk.dirf[i].hash)
      BY <2>1 DEF EntriesRead
    <2>3. FileAt(i, v) \in Opened(t)
      BY <1>2, <1>3, <2>2 DEF Opened
    <2> QED
      BY <2>3
  <1> QED
    BY <1>2, <1>3 DEF IsCorrupt

-----------------------------------------------------------------------------
(* The use of objects: opening and creating *)

\* A free handle is filled and gets the object of the call.
LEMMA UseFilled ==
    ASSUME ReeFsInv, ReeFsInv', UseInv, NEW t \in Threads, Others(t), NEW c, Quiet(t, c),
           ~Temp(call[t]), NEW h \in Handles, FreeHandle(h), NEW o,
           obj' = [obj EXCEPT ![h] = o], HandleFor(setup, o, pobj),
           UserOf(call[t], o.po), \A p \in Pobjs : ~UserOf(c, p),
           CallFor(setup, t, c, obj', pobj), SameDirs
    PROVE  UseInv'
  <1>1. /\ setup' = setup /\ pobj' = pobj /\ call'[t] = c
        /\ \A u \in Threads \ {t} : call'[u] = call[u]
    BY CallStepFacts DEF Quiet, ReeFsInv
  <1>2. obj[h] = NULL /\ obj'[h] = o /\ \A k \in Handles \ {h} : obj'[k] = obj[k]
    BY DEF FreeHandle, ReeFsInv, CoreType
  <1>3. PobjKept
    BY <1>1 DEF PobjKept
  <1>4. Frame(t)
    BY <1>1, <1>2, <1>3 DEF Frame
  <1>5. CallFor(setup', t, call'[t], obj', pobj')
    BY <1>1
  <1>6. \A k \in Handles : \/ obj'[k] = NULL \/ obj'[k] = obj[k]
                           \/ HandleFor(setup', obj'[k], pobj')
    BY <1>1, <1>2
  <1>7. Alone'
    <2>1. \A p \in Pobjs : ~UserOf(call'[t], p)
      BY <1>1
    <2> QED
      BY <1>1, <1>3, <2>1, AloneToHandle DEF UseInv
  <1>8. NamesApart'
    <2>1. \A p \in Pobjs : pobj'[p] # NULL => pobj[p] # NULL /\ pobj'[p].name = pobj[p].name
      BY <1>1
    <2> QED
      BY <1>1, <2>1, NamesKept DEF UseInv
  <1>9. \A u \in Threads : dir'[u].idx = dir[u].idx
    BY DEF SameDirs
  <1> QED
    BY <1>1, <1>4, <1>5, <1>6, <1>7, <1>8, <1>9, UseStep

LEMMA OwnCall ==
    ASSUME ReeFsInv, UseInv, NEW t \in Threads
    PROVE  /\ call[t] \in CallType /\ CallOK(t, call[t], obj)
           /\ CallFor(setup, t, call[t], obj, pobj)
  BY CallsThere DEF UseInv, CallsFor

\* The call of a thread that opens or creates an object
LEMMA OpeningFacts ==
    ASSUME ReeFsInv, UseInv, NEW t \in Threads,
           call[t].pc \in {"open", "create"} \/ GaveUp(call[t])
    PROVE  /\ Referring(call[t]) /\ ~Temp(call[t]) /\ call[t].h = NULL /\ call[t].name = NULL
           /\ call[t].po \in Pobjs /\ UserOf(call[t], call[t].po)
           /\ call[t].flags \in setup.flags /\ Fits(pobj[call[t].po].flags, call[t].flags)
           /\ call[t].over => "overwrite" \in setup.calls
  <1>1. CallOK(t, call[t], obj) /\ CallFor(setup, t, call[t], obj, pobj)
    BY OwnCall
  <1>2. Referring(call[t])
    BY DEF Referring, GaveUp
  <1>3. GaveUp(call[t]) => call[t].h \notin Handles
    BY ReeFsAssumption DEF GaveUp, Handles
  <1> QED
    BY <1>1, <1>2, <1>3 DEF CallOK, CallFor, Temp, UserOf, UsesPobj, GaveUp

LEMMA SameDirsFacts ==
    ASSUME CoreType, dir' = dir \/ dir' = Note(disk')
    PROVE  SameDirs /\ \A u \in Threads : dir'[u].idx = dir[u].idx
  BY DirsSame DEF SameDirs

LEMMA UseOpen ==
    ASSUME ReeFsInv, ReeFsInv', UseInv, TreeOK, EntriesRead(disk), NEW t \in Threads,
           Others(t), ree_fs_open(t)
    PROVE  UseInv'
  <1>0. CoreType /\ StorageOK
    BY DEF ReeFsInv
  <1>1. /\ call[t].pc = "open" /\ setup' = setup /\ pobj' = pobj /\ dir' = dir
        /\ SameDirs /\ \A u \in Threads : dir'[u].idx = dir[u].idx
    BY <1>0, SameDirsFacts DEF ree_fs_open
  <1>2. ~IsCorrupt(t)
    BY <1>0, NotCorrupt
  <1>3. ASSUME NEW fh \in Opened(t), NEW h \in Handles, FreeHandle(h), NEW o,
               o = [own |-> t, po |-> call[t].po, fh |-> fh, flags |-> call[t].flags,
                    failed |-> FALSE],
               obj' = [obj EXCEPT ![h] = o], Return(t)
        PROVE  UseInv'
    <2>1. fh.ht = TRUE
      BY DEF Opened, FileAt
    <2>2. /\ o.po = call[t].po /\ o.flags = call[t].flags /\ o.fh = fh
      BY <1>3
    <2>3. HandleFor(setup, o, pobj) /\ UserOf(call[t], o.po) /\ ~Temp(call[t])
      BY <1>1, <2>1, <2>2, OpeningFacts DEF HandleFor
    <2>4. Quiet(t, Idle)
      BY <1>1, <1>3 DEF Quiet, Return
    <2>5. CallFor(setup, t, Idle, obj', pobj) /\ \A p \in Pobjs : ~UserOf(Idle, p)
      BY IdleFor
    <2> QED
      BY <1>1, <1>3, <2>3, <2>4, <2>5, UseFilled
  <1>4. CASE Go(t, "release") /\ UNCHANGED obj
    <2>1. Referring(call[t]) /\ ~Temp(call[t]) /\ call[t].h = NULL
      BY <1>1, OpeningFacts
    <2> QED
      BY <1>1, <1>4, <2>1, UseGivesUp
  <1>5. CASE ~dirht /\ Go(t, "remove_corrupt") /\ UNCHANGED obj
    <2>1. "fetch" \in setup.faults
      BY <1>5 DEF TreeOK, Faults
    <2> QED
      BY <1>1, <1>5, <2>1, UseGaveUp
  <1> QED
    BY <1>2, <1>3, <1>4, <1>5 DEF ree_fs_open

LEMMA UseCreate ==
    ASSUME ReeFsInv, ReeFsInv', UseInv, TreeOK, NEW t \in Threads, Others(t), ree_fs_create(t)
    PROVE  UseInv'
  <1>0. CoreType
    BY DEF ReeFsInv
  <1>1. call[t].pc = "create" /\ setup' = setup
    BY DEF ree_fs_create
  <1>2. \/ /\ dir' = Note(disk') /\ Go(t, "create_final") /\ UNCHANGED pobj
           /\ \E h \in Handles : \E fh :
                 /\ FreeHandle(h) /\ fh.ht = TRUE
                 /\ obj' = [obj EXCEPT ![h] =
                       [own |-> t, po |-> call[t].po, flags |-> call[t].flags,
                        failed |-> FALSE, fh |-> fh]]
        \/ /\ dir' = dir \/ dir' = Note(disk')
           /\ Go(t, "release") /\ UNCHANGED <<obj, pobj>>
        \/ /\ ~dirht \/ fetch_fails
           /\ dir' = dir /\ Go(t, "remove_corrupt") /\ UNCHANGED <<obj, pobj>>
        \/ \E d : LosePower(d)
    <2>1. PICK idx, i :
             /\ idx = IF Find(disk.dirf, pobj[call[t].po].name) # 0
                      THEN Find(disk.dirf, pobj[call[t].po].name) ELSE EmptyIdx(disk.dirf)
             /\ i = NewInode(TmpNumber)
      OBVIOUS
    <2>2. PICK fh : fh = [ino |-> i, f |-> TmpNumber, idx |-> idx, slot |-> 0,
                          hash |-> tx + 1, ht |-> TRUE]
      OBVIOUS
    <2>3. fh.ht = TRUE
      BY <2>2
    <2> QED
      BY <2>1, <2>2, <2>3 DEF ree_fs_create
  <1>3. /\ Referring(call[t]) /\ ~Temp(call[t]) /\ call[t].h = NULL /\ call[t].name = NULL
        /\ UserOf(call[t], call[t].po) /\ call[t].flags \in setup.flags
        /\ Fits(pobj[call[t].po].flags, call[t].flags)
        /\ call[t].over => "overwrite" \in setup.calls
    BY <1>1, OpeningFacts
  <1>4. ASSUME dir' = Note(disk'), Go(t, "create_final"), UNCHANGED pobj,
               NEW h \in Handles, NEW fh, FreeHandle(h), fh.ht = TRUE, NEW o,
               o = [own |-> t, po |-> call[t].po, flags |-> call[t].flags,
                    failed |-> FALSE, fh |-> fh],
               obj' = [obj EXCEPT ![h] = o]
        PROVE  UseInv'
    <2>1. PICK c : /\ call' = [call EXCEPT ![t] = c]
                   /\ c.pc = "create_final" /\ c.po = call[t].po /\ c.h = call[t].h
                   /\ c.name = call[t].name /\ c.over = call[t].over
      BY <1>0, <1>4, GoAll
    <2>2. CallFor(setup, t, c, obj', pobj)
      BY <1>3, <2>1 DEF CallFor, Renaming, Temp
    <2>3. \A p \in Pobjs : ~UserOf(c, p)
      BY <2>1 DEF UserOf, UsesPobj, Referring
    <2>4. o.po = call[t].po /\ o.flags = call[t].flags /\ o.fh = fh
      BY <1>4
    <2>5. HandleFor(setup, o, pobj) /\ UserOf(call[t], o.po)
      BY <1>3, <1>4, <2>4 DEF HandleFor
    <2>6. Quiet(t, c)
      BY <1>1, <1>4, <2>1 DEF Quiet
    <2>7. SameDirs
      BY <1>0, <1>4, SameDirsFacts
    <2> QED
      BY <1>3, <1>4, <2>2, <2>3, <2>5, <2>6, <2>7, UseFilled
  <1>5. CASE /\ dir' = dir \/ dir' = Note(disk')
             /\ Go(t, "release") /\ UNCHANGED <<obj, pobj>>
    <2>1. \A u \in Threads : dir'[u].idx = dir[u].idx
      BY <1>0, <1>5, SameDirsFacts
    <2> QED
      BY <1>1, <1>3, <1>5, <2>1, UseGivesUp
  <1>6. CASE \E d : LosePower(d)
    BY <1>6, UseLost
  <1>7. CASE /\ ~dirht \/ fetch_fails
             /\ dir' = dir /\ Go(t, "remove_corrupt") /\ UNCHANGED <<obj, pobj>>
    <2>1. "fetch" \in setup.faults
      BY <1>7 DEF TreeOK, fetch_fails, Faults
    <2> QED
      BY <1>1, <1>7, <2>1, UseGaveUp
  <1> QED
    BY <1>2, <1>4, <1>5, <1>6, <1>7

LEMMA UseCreateFinal ==
    ASSUME ReeFsInv, ReeFsInv', UseInv, NEW t \in Threads, Others(t), tee_pobj_create_final(t)
    PROVE  UseInv'
  <1>0. CoreType
    BY DEF ReeFsInv
  <1>1. /\ call[t].pc = "create_final" /\ call' = [call EXCEPT ![t] = Idle]
        /\ UNCHANGED <<setup, obj, dir>>
        /\ pobj' = pobj \/ pobj' = [pobj EXCEPT ![call[t].po].creating = FALSE]
    BY DEF tee_pobj_create_final, Return
  <1>2. call'[t] = Idle /\ \A u \in Threads \ {t} : call'[u] = call[u]
    BY <1>0, <1>1, CallStepFacts
  <1>3. \A p \in Pobjs : /\ pobj'[p] # NULL => pobj[p] # NULL
                         /\ pobj[p] # NULL => /\ pobj'[p].flags = pobj[p].flags
                                              /\ pobj'[p].name = pobj[p].name
    <2>1. PICK q : q = call[t].po
      OBVIOUS
    <2>2. q \in Pobjs /\ pobj[q] \in PobjType
      <3>1. CallOK(t, call[t], obj)
        BY OwnCall
      <3>2. PICK h \in Handles : obj[h] # NULL /\ obj[h].po = q
        BY <1>1, <2>1, <3>1 DEF CallOK
      <3>3. q \in Pobjs /\ HasPobj(obj[h], q)
        BY <1>0, <3>2 DEF CoreType, ObjType, HasPobj
      <3> QED
        BY <3>3, AllThere DEF PobjsThere
    <2>3. PICK r : r = [pobj[q] EXCEPT !.creating = FALSE]
      OBVIOUS
    <2>4. r.flags = pobj[q].flags /\ r.name = pobj[q].name /\ pobj[q] # NULL
      BY <2>2, <2>3, ReeFsAssumption DEF PobjType
    <2>5. pobj' = pobj \/ pobj' = [pobj EXCEPT ![q] = r]
      BY <1>1, <2>1, <2>3
    <2> QED
      BY <1>0, <2>2, <2>4, <2>5 DEF CoreType
  <1>4. PobjKept
    BY <1>3 DEF PobjKept
  <1>5. Frame(t)
    BY <1>1, <1>2, <1>4 DEF Frame
  <1>6. CallFor(setup', t, call'[t], obj', pobj') /\ \A p \in Pobjs : ~UserOf(call'[t], p)
    BY <1>2, IdleFor
  <1>7. Alone'
    <2>1. \A h \in Handles : obj'[h] = NULL \/ SameHandle(obj[h], obj'[h])
      BY <1>1 DEF SameHandle
    <2>2. \A u \in Threads, p \in Pobjs : UserOf(call'[u], p) => UserOf(call[u], p)
      BY <1>2, <1>6
    <2> QED
      BY <1>4, <2>1, <2>2, AloneFewer DEF UseInv
  <1>8. NamesApart'
    <2>1. ~Temp(call[t])
      BY <1>1 DEF Temp
    <2>2. \A p \in Pobjs : pobj'[p] # NULL => pobj[p] # NULL /\ pobj'[p].name = pobj[p].name
      BY <1>3
    <2> QED
      BY <1>2, <2>1, <2>2, NamesKept DEF UseInv
  <1> QED
    BY <1>1, <1>3, <1>5, <1>6, <1>7, <1>8, UseStep

-----------------------------------------------------------------------------
(* The use of objects: with a handle *)

\* A handle that an idle thread uses is live.
LEMMA UsesLive ==
    ASSUME ReeFsInv, UseInv, NEW t \in Threads, NEW h \in Handles, Uses(t, h)
    PROVE  Live(h) /\ HandleFor(setup, obj[h], pobj) /\ (obj[h].failed => setup.retry)
  <1>1. /\ call[t].pc = "idle" /\ obj[h] # NULL /\ obj[h].own = t
        /\ obj[h].failed => setup.retry
    BY DEF Uses
  <1>2. ~Closing(h)
    <2> SUFFICES ASSUME NEW u \in Threads, call[u].pc = "close", call[u].h = h PROVE FALSE
      BY DEF Closing
    <2>1. CallFor(setup, u, call[u], obj, pobj)
      BY OwnCall
    <2>2. obj[h].own = u
      BY <2>1 DEF CallFor, GaveUp
    <2> QED
      BY <1>1, <2>2
  <1> QED
    BY <1>1, <1>2 DEF Live, UseInv, HandlesFor

LEMMA UseCorrupted ==
    ASSUME ReeFsInv, ReeFsInv', UseInv, NEW t \in Threads, Others(t), NEW h \in Handles,
           Uses(t, h), ~obj[h].fh.ht, Corrupted(t, h), UNCHANGED <<setup, pobj, obj, dir>>
    PROVE  UseInv'
  <1>1. PICK c : c = [Idle EXCEPT !.pc = "remove_corrupt", !.po = obj[h].po, !.h = h]
    OBVIOUS
  <1>2. /\ c.pc = "remove_corrupt" /\ c.po = obj[h].po /\ c.h = h /\ c.name = NULL
        /\ c.over = FALSE
    BY <1>1 DEF Idle
  <1>3. "write" \in obj[h].flags /\ setup.retry
    BY UsesLive DEF HandleFor
  <1>4. obj[h] # NULL /\ obj[h].own = t /\ call[t].pc = "idle" /\ h # NULL
    BY ReeFsAssumption DEF Uses, Handles
  <1>5. CallFor(setup, t, c, obj', pobj)
    BY <1>2, <1>3, <1>4 DEF CallFor, Renaming, Temp
  <1>6. \A p \in Pobjs : ~UserOf(c, p)
    BY <1>2, <1>4 DEF UserOf, UsesPobj, Referring
  <1>7. Quiet(t, c) /\ ~Temp(call[t])
    BY <1>1, <1>4 DEF Quiet, Corrupted, Temp
  <1> QED
    BY <1>5, <1>6, <1>7, UseQuiet

\* Handle h of thread t is o now.
HandleNow(t, h, o) ==
    /\ obj' = [obj EXCEPT ![h] = o] /\ o \in ObjType /\ o # NULL
    /\ o.own = t /\ o.po = obj[h].po /\ o.flags = obj[h].flags

\* A read finds the tree of the handle closed, or the request fails.
ReadClosed(t, h) == ~obj[h].fh.ht /\ Corrupted(t, h) /\ obj' = obj
ReadFails(t, h, o) == /\ HandleNow(t, h, o) /\ o.failed = TRUE
                      /\ o.fh = [obj[h].fh EXCEPT !.ht = FALSE]
                      /\ "fetch" \in setup.faults /\ call' = call

LEMMA ReadCases ==
    ASSUME ReeFsInv, UseInv, FilesFor, NEW t \in Threads, storage_obj_read(t)
    PROVE  /\ UNCHANGED <<setup, disk, pobj, dir, panicked>>
           /\ \E h \in Handles : Uses(t, h) /\ (ReadClosed(t, h) \/ \E o : ReadFails(t, h, o))
  <1>0. UNCHANGED <<setup, disk, pobj, dir, panicked>>
    BY DEF storage_obj_read
  <1>1. PICK h \in Handles :
           /\ Uses(t, h)
           /\ \/ /\ ~obj[h].fh.ht \/ disk.data[obj[h].fh.ino][obj[h].fh.slot] # obj[h].fh.hash
                 /\ obj' = [obj EXCEPT ![h].fh.ht = FALSE]
                 /\ Corrupted(t, h)
              \/ /\ "fetch" \in Faults
                 /\ obj' = [obj EXCEPT ![h].failed = TRUE, ![h].fh.ht = FALSE]
                 /\ UNCHANGED call
    BY DEF storage_obj_read
  <1>2. obj[h] \in ObjType /\ obj[h].fh \in FileType /\ obj[h].own = t
    BY <1>1, UsesFacts
  <1>3. PICK fh : fh = [obj[h].fh EXCEPT !.ht = FALSE]
    OBVIOUS
  <1>4. fh \in FileType
    BY <1>2, <1>3 DEF FileType
  <1>5. CASE /\ ~obj[h].fh.ht \/ disk.data[obj[h].fh.ino][obj[h].fh.slot] # obj[h].fh.hash
             /\ obj' = [obj EXCEPT ![h].fh.ht = FALSE]
             /\ Corrupted(t, h)
    <2>1. ~obj[h].fh.ht
      BY <1>1, <1>5, UsesLive DEF FilesFor, FileFor
    <2>2. obj[h].fh.ht = FALSE
      BY <1>2, <2>1 DEF FileType
    <2>3. fh = obj[h].fh
      BY <1>2, <1>3, <2>2 DEF FileType
    <2>4. [obj[h] EXCEPT !.fh = fh] = obj[h]
      BY <1>2, <2>3 DEF ObjType
    <2>5. obj' = obj
      BY <1>3, <1>5, <2>4 DEF ReeFsInv, CoreType
    <2> QED
      BY <1>0, <1>1, <1>5, <2>1, <2>5 DEF ReadClosed
  <1>6. CASE /\ "fetch" \in Faults
             /\ obj' = [obj EXCEPT ![h].failed = TRUE, ![h].fh.ht = FALSE]
             /\ UNCHANGED call
    <2>1. PICK o : o = [obj[h] EXCEPT !.failed = TRUE, !.fh = fh]
      OBVIOUS
    <2>2. /\ o \in ObjType /\ o.own = t /\ o.po = obj[h].po /\ o.flags = obj[h].flags
          /\ o.failed = TRUE /\ o.fh = fh
      BY <1>2, <1>4, <2>1 DEF ObjType
    <2>3. obj' = [obj EXCEPT ![h] = o]
      BY <1>3, <1>6, <2>1
    <2>4. o # NULL
      BY <2>2, ReeFsAssumption
    <2>5. ReadFails(t, h, o)
      BY <1>3, <1>6, <2>2, <2>3, <2>4 DEF ReadFails, HandleNow, Faults
    <2> QED
      BY <1>0, <1>1, <2>5
  <1> QED
    BY <1>1, <1>5, <1>6

LEMMA UseWriteClosed ==
    ASSUME ReeFsInv, ReeFsInv', UseInv, NEW t \in Threads, Others(t), ree_fs_write_closed(t)
    PROVE  UseInv'
  BY UseCorrupted DEF ree_fs_write_closed

\* An idle thread changes the state of its handle.
LEMMA UseWritten ==
    ASSUME ReeFsInv, ReeFsInv', UseInv, NEW t \in Threads, Others(t), NEW h \in Handles,
           Uses(t, h), NEW o, obj' = [obj EXCEPT ![h] = o], o # NULL, o.po = obj[h].po,
           HandleFor(setup, o, pobj), UNCHANGED <<setup, pobj, call>>,
           dir' = dir \/ dir' = Note(disk')
    PROVE  UseInv'
  <1>1. PICK c : c = call[t]
    OBVIOUS
  <1>2. CoreType
    BY DEF ReeFsInv
  <1>3. Quiet(t, c)
    BY <1>1, <1>2 DEF Quiet, CoreType
  <1>4. call[t].pc = "idle" /\ obj[h] # NULL /\ obj[h].own = t
    BY DEF Uses
  <1>5. CallFor(setup, t, c, obj, pobj)
    BY <1>1, OwnCall
  <1>6. CallFor(setup, t, c, obj', pobj) /\ ~Temp(call[t])
    BY <1>1, <1>4, <1>5 DEF CallFor, Renaming, Temp
  <1>7. \A p \in Pobjs : UserOf(c, p) => UserOf(call[t], p)
    BY <1>1
  <1>8. obj'[h] = o /\ \A k \in Handles \ {h} : obj'[k] = obj[k]
    BY <1>2 DEF CoreType
  <1>9. \A k \in Handles :
               \/ obj'[k] = obj[k]
               \/ /\ obj[k] # NULL /\ obj[k].own = t /\ SameHandle(obj[k], obj'[k])
                  /\ HandleFor(setup, obj'[k], pobj)
    BY <1>4, <1>8 DEF SameHandle
  <1>10. \A u \in Threads : dir'[u].idx = dir[u].idx
    BY <1>2, SameDirsFacts
  <1> QED
    BY <1>3, <1>6, <1>7, <1>9, <1>10, UseQuiet

\* Handle h of thread t is o after the step.
LEMMA UseRead ==
    ASSUME ReeFsInv, ReeFsInv', UseInv, Careful(setup), FilesFor, NEW t \in Threads,
           Others(t), storage_obj_read(t)
    PROVE  UseInv'
  <1>0. UNCHANGED <<setup, disk, pobj, dir, panicked>>
    BY ReadCases
  <1>1. PICK h \in Handles : Uses(t, h) /\ (ReadClosed(t, h) \/ \E o : ReadFails(t, h, o))
    BY ReadCases
  <1>2. CASE ReadClosed(t, h)
    BY <1>0, <1>1, <1>2, UseCorrupted DEF ReadClosed
  <1>3. ASSUME NEW o, ReadFails(t, h, o) PROVE UseInv'
    <2>1. ~setup.retry
      BY <1>3 DEF Careful, ReadFails
    <2>2. HandleFor(setup, obj[h], pobj)
      BY <1>1, UsesLive
    <2>3. HandleFor(setup, o, pobj)
      BY <1>3, <2>1, <2>2 DEF HandleFor, ReadFails, HandleNow
    <2> QED
      BY <1>0, <1>1, <1>3, <2>3, UseWritten DEF ReadFails, HandleNow
  <1> QED
    BY <1>1, <1>2, <1>3

\* A handle changes and its object is taken for corrupt.
LEMMA UseShut ==
    ASSUME ReeFsInv, ReeFsInv', UseInv, NEW t \in Threads, Others(t), NEW h \in Handles,
           Uses(t, h), NEW o, HandleNow(t, h, o), HandleFor(setup, o, pobj),
           "write" \in obj[h].flags, "fetch" \in setup.faults, Corrupted(t, h),
           UNCHANGED <<setup, pobj, dir>>
    PROVE  UseInv'
  <1>0. obj \in [Handles -> ObjType \cup {NULL}]
    BY DEF ReeFsInv, CoreType
  <1>1. PICK c : c = [Idle EXCEPT !.pc = "remove_corrupt", !.po = obj[h].po, !.h = h]
    OBVIOUS
  <1>2. /\ c.pc = "remove_corrupt" /\ c.po = obj[h].po /\ c.h = h /\ c.name = NULL
        /\ c.over = FALSE
    BY <1>1 DEF Idle
  <1>3. obj[h] # NULL /\ obj[h].own = t /\ call[t].pc = "idle" /\ h # NULL
    BY ReeFsAssumption DEF Uses, Handles
  <1>4. /\ obj'[h] = o /\ o # NULL /\ o.own = t /\ o.po = obj[h].po
        /\ o.flags = obj[h].flags /\ \A k \in Handles \ {h} : obj'[k] = obj[k]
    BY <1>0 DEF HandleNow
  <1>5. CallFor(setup, t, c, obj', pobj)
    BY <1>2, <1>3, <1>4 DEF CallFor, Renaming, Temp
  <1>6. \A p \in Pobjs : ~UserOf(c, p)
    BY <1>2, <1>3 DEF UserOf, UsesPobj, Referring
  <1>7. Quiet(t, c) /\ ~Temp(call[t])
    BY <1>1, <1>3 DEF Quiet, Corrupted, Temp
  <1>8. \A k \in Handles :
           \/ obj'[k] = obj[k]
           \/ /\ obj[k] # NULL /\ obj[k].own = t /\ SameHandle(obj[k], obj'[k])
              /\ HandleFor(setup, obj'[k], pobj)
    BY <1>3, <1>4 DEF SameHandle
  <1> QED
    BY <1>5, <1>6, <1>7, <1>8, UseQuiet

\* A write of file fh, on disk d0 to begin with: the commit has outcome c, a
\* request fails, the dirfile cannot be read, or power is lost.
WriteDone(t, h, fh, d0, c, o) ==
    /\ HandleNow(t, h, o) /\ o.failed = c.failed
    /\ o.fh = [fh EXCEPT !.slot = WrittenSlot(fh), !.hash = tx + 1]
    /\ disk' = Commit(Written(d0, fh, tx + 1), c, update_hash(fh))
    /\ panicked' = ~HashAssertion(fh)
    /\ dir' = Note(disk') /\ UNCHANGED <<setup, pobj, call>>
WriteFails(t, h, fh, d0, o) ==
    /\ HandleNow(t, h, o) /\ o.failed = TRUE
    /\ \/ /\ "sync" \in Faults /\ o.fh = [fh EXCEPT !.ht = FALSE]
          /\ disk' \in {disk, Written(d0, fh, Bad), Written(d0, fh, tx + 1)}
       \/ o.fh = fh /\ disk' = disk
    /\ UNCHANGED <<setup, pobj, call, dir, panicked>>
WriteShut(t, h, fh, d0, o) ==
    /\ HandleNow(t, h, o) /\ o.failed = TRUE
    /\ o.fh = [fh EXCEPT !.slot = WrittenSlot(fh), !.hash = tx + 1]
    /\ disk' = Written(d0, fh, tx + 1) /\ ~dirht /\ Corrupted(t, h)
    /\ UNCHANGED <<setup, pobj, dir, panicked>>
WriteCut(fh, d0) ==
    /\ \E d \in {d0, Written(d0, fh, Bad), Written(d0, fh, tx + 1),
                 [Written(d0, fh, tx + 1) EXCEPT !.dirf = update_hash(fh)]} : LosePower(d)
    /\ UNCHANGED <<setup, panicked>>

LEMMA WriteCases ==
    ASSUME ReeFsInv, NEW t \in Threads, ree_fs_write(t)
    PROVE  \E h \in Handles, fh \in FileType : 
              /\ Uses(t, h) /\ "write" \in obj[h].flags /\ fh = obj[h].fh /\ fh.ht
              /\ tx \in Nat /\ tx < MaxTx /\ tx' = tx + 1
              /\ \E d0 \in BeforeWrite(fh) :
                    \/ \E c \in CommitOutcomes : \E o : WriteDone(t, h, fh, d0, c, o)
                    \/ \E o : WriteFails(t, h, fh, d0, o)
                    \/ \E o : WriteShut(t, h, fh, d0, o)
                    \/ WriteCut(fh, d0)
  <1>1. PICK h \in Handles :
          /\ Uses(t, h) /\ "write" \in obj[h].flags /\ obj[h].fh.ht
          /\ tx < setup.updates /\ tx' = tx + 1
          /\ \E d0 \in BeforeWrite(obj[h].fh) :
            LET fh == obj[h].fh
                torn == Written(d0, fh, Bad)
                d1 == Written(d0, fh, tx + 1)
                d2 == [d1 EXCEPT !.dirf = update_hash(fh)]
            IN  /\ \/ /\ \E c \in CommitOutcomes :
                            /\ disk' = Commit(d1, c, update_hash(fh))
                            /\ obj' = [obj EXCEPT ![h].failed = c.failed, ![h].fh =
                                 [fh EXCEPT !.slot = WrittenSlot(fh), !.hash = tx + 1]]
                      /\ panicked' = ~HashAssertion(fh)
                      /\ UNCHANGED <<pobj, call>>
                      /\ dir' = Note(disk')
                   \/ /\ ~dirht /\ disk' = d1
                      /\ obj' = [obj EXCEPT ![h].failed = TRUE, ![h].fh =
                           [fh EXCEPT !.slot = WrittenSlot(fh), !.hash = tx + 1]]
                      /\ Corrupted(t, h)
                      /\ UNCHANGED <<pobj, dir, panicked>>
                   \/ /\ "sync" \in Faults
                      /\ disk' \in {disk, torn, d1}
                      /\ obj' = [obj EXCEPT ![h].failed = TRUE, ![h].fh.ht = FALSE]
                      /\ UNCHANGED <<pobj, dir, call, panicked>>
                   \/ /\ obj' = [obj EXCEPT ![h].failed = TRUE]
                      /\ UNCHANGED <<disk, pobj, dir, call, panicked>>
                   \/ /\ \E d \in {d0, torn, d1} \cup (IF dirht THEN {d2} ELSE {}) : LosePower(d)
                      /\ UNCHANGED panicked
                /\ UNCHANGED setup
    BY ZenonT(60) DEF ree_fs_write
  <1>2. PICK ob, fh : ob = obj[h] /\ fh = ob.fh
    OBVIOUS
  <1>3. ob \in ObjType /\ fh \in FileType /\ ob.own = t /\ tx + 1 \in 1 .. MaxTx
        /\ tx < MaxTx /\ tx \in Nat
    <2>1. tx < MaxTx /\ tx \in Nat
      BY <1>1, CreateBound DEF ReeFsInv
    <2> QED
      BY <1>1, <1>2, <2>1, UsesFacts, ReeFsAssumption
  <1>4. PICK d0 \in BeforeWrite(fh) :
           /\ \/ /\ \E c \in CommitOutcomes :
                       /\ disk' = Commit(Written(d0, fh, tx + 1), c, update_hash(fh))
                       /\ obj' = [obj EXCEPT ![h].failed = c.failed, ![h].fh =
                            [fh EXCEPT !.slot = WrittenSlot(fh), !.hash = tx + 1]]
                 /\ panicked' = ~HashAssertion(fh)
                 /\ UNCHANGED <<pobj, call>>
                 /\ dir' = Note(disk')
              \/ /\ ~dirht /\ disk' = Written(d0, fh, tx + 1)
                 /\ obj' = [obj EXCEPT ![h].failed = TRUE, ![h].fh =
                      [fh EXCEPT !.slot = WrittenSlot(fh), !.hash = tx + 1]]
                 /\ Corrupted(t, h)
                 /\ UNCHANGED <<pobj, dir, panicked>>
              \/ /\ "sync" \in Faults
                 /\ disk' \in {disk, Written(d0, fh, Bad), Written(d0, fh, tx + 1)}
                 /\ obj' = [obj EXCEPT ![h].failed = TRUE, ![h].fh.ht = FALSE]
                 /\ UNCHANGED <<pobj, dir, call, panicked>>
              \/ /\ obj' = [obj EXCEPT ![h].failed = TRUE]
                 /\ UNCHANGED <<disk, pobj, dir, call, panicked>>
              \/ /\ \E d \in {d0, Written(d0, fh, Bad), Written(d0, fh, tx + 1)} \cup
                             (IF dirht THEN {[Written(d0, fh, tx + 1) EXCEPT
                                                !.dirf = update_hash(fh)]} ELSE {}) :
                       LosePower(d)
                 /\ UNCHANGED panicked
           /\ UNCHANGED setup
    BY <1>1, <1>2
  <1>5. \A o \in ObjType : o # NULL
    BY ReeFsAssumption
  <1>6. ASSUME NEW failed \in BOOLEAN,
               obj' = [obj EXCEPT ![h].failed = failed, ![h].fh =
                         [fh EXCEPT !.slot = WrittenSlot(fh), !.hash = tx + 1]]
        PROVE  \E o \in ObjType :
                       /\ obj' = [obj EXCEPT ![h] = o] /\ o # NULL
                       /\ o.own = t /\ o.po = ob.po /\ o.flags = ob.flags
                       /\ o.failed = failed
                       /\ o.fh = [fh EXCEPT !.slot = WrittenSlot(fh), !.hash = tx + 1]
    <2>1. PICK gh : gh = [fh EXCEPT !.slot = WrittenSlot(fh), !.hash = tx + 1]
      OBVIOUS
    <2>2. gh \in FileType
      <3>1. WrittenSlot(fh) \in Vers
        BY <1>3 DEF WrittenSlot, Vers, FileType
      <3> QED
        BY <1>3, <2>1, <3>1 DEF FileType
    <2>3. PICK o : o = [ob EXCEPT !.failed = failed, !.fh = gh]
      OBVIOUS
    <2>5. /\ o \in ObjType /\ o.own = ob.own /\ o.po = ob.po /\ o.flags = ob.flags
          /\ o.failed = failed /\ o.fh = gh
      BY <1>3, <2>2, <2>3 DEF ObjType
    <2>6. obj' = [obj EXCEPT ![h] = o]
      BY <1>2, <1>6, <2>1, <2>3
    <2> QED
      BY <1>3, <1>5, <2>1, <2>5, <2>6
  <1>7. ASSUME NEW b, b \in {[fh EXCEPT !.ht = FALSE], fh}
        PROVE  \E o \in ObjType :
                       /\ o = [ob EXCEPT !.failed = TRUE, !.fh = b] /\ o # NULL
                       /\ o.own = t /\ o.po = ob.po /\ o.flags = ob.flags
                       /\ o.failed = TRUE /\ o.fh = b
    <2>1. b \in FileType
      BY <1>3, <1>7 DEF FileType
    <2>2. PICK o : o = [ob EXCEPT !.failed = TRUE, !.fh = b]
      OBVIOUS
    <2>3. /\ o \in ObjType /\ o.own = ob.own /\ o.po = ob.po /\ o.flags = ob.flags
          /\ o.failed = TRUE /\ o.fh = b
      BY <1>3, <2>1, <2>2 DEF ObjType
    <2> QED
      BY <1>3, <1>5, <2>2, <2>3
  <1>8. CASE /\ "sync" \in Faults
             /\ disk' \in {disk, Written(d0, fh, Bad), Written(d0, fh, tx + 1)}
             /\ obj' = [obj EXCEPT ![h].failed = TRUE, ![h].fh.ht = FALSE]
             /\ UNCHANGED <<pobj, dir, call, panicked>>
    <2>1. PICK b : b = [fh EXCEPT !.ht = FALSE]
      OBVIOUS
    <2>2. PICK o \in ObjType :
                       /\ o = [ob EXCEPT !.failed = TRUE, !.fh = b] /\ o # NULL
                       /\ o.own = t /\ o.po = ob.po /\ o.flags = ob.flags
                       /\ o.failed = TRUE /\ o.fh = b
      BY <1>7, <2>1
    <2>3. obj' = [obj EXCEPT ![h] = o]
      BY <1>2, <1>3, <1>8, <2>1, <2>2 DEF ObjType
    <2>4. WriteFails(t, h, fh, d0, o)
      BY <1>2, <1>4, <1>8, <2>1, <2>2, <2>3 DEF WriteFails, HandleNow
    <2> QED
      BY <1>1, <1>2, <1>3, <1>4, <2>4
  <1>9. CASE /\ obj' = [obj EXCEPT ![h].failed = TRUE]
             /\ UNCHANGED <<disk, pobj, dir, call, panicked>>
    <2>2. PICK o \in ObjType :
                       /\ o = [ob EXCEPT !.failed = TRUE, !.fh = fh] /\ o # NULL
                       /\ o.own = t /\ o.po = ob.po /\ o.flags = ob.flags
                       /\ o.failed = TRUE /\ o.fh = fh
      BY <1>7
    <2>3. o = [ob EXCEPT !.failed = TRUE]
      BY <1>2, <1>3, <2>2 DEF ObjType
    <2>4. obj' = [obj EXCEPT ![h] = o]
      BY <1>2, <1>9, <2>3
    <2>5. WriteFails(t, h, fh, d0, o)
      BY <1>2, <1>4, <1>9, <2>2, <2>4 DEF WriteFails, HandleNow
    <2> QED
      BY <1>1, <1>2, <1>3, <1>4, <2>5
  <1>10. CASE \E c \in CommitOutcomes :
                 /\ disk' = Commit(Written(d0, fh, tx + 1), c, update_hash(fh))
                 /\ obj' = [obj EXCEPT ![h].failed = c.failed, ![h].fh =
                            [fh EXCEPT !.slot = WrittenSlot(fh), !.hash = tx + 1]]
                 /\ panicked' = ~HashAssertion(fh)
                 /\ UNCHANGED <<pobj, call>>
                 /\ dir' = Note(disk')
    <2>1. PICK c \in CommitOutcomes :
                 /\ disk' = Commit(Written(d0, fh, tx + 1), c, update_hash(fh))
                 /\ obj' = [obj EXCEPT ![h].failed = c.failed, ![h].fh =
                            [fh EXCEPT !.slot = WrittenSlot(fh), !.hash = tx + 1]]
                 /\ panicked' = ~HashAssertion(fh)
                 /\ UNCHANGED <<pobj, call>>
                 /\ dir' = Note(disk')
      BY <1>10
    <2>2. PICK o \in ObjType :
                       /\ obj' = [obj EXCEPT ![h] = o] /\ o # NULL
                       /\ o.own = t /\ o.po = ob.po /\ o.flags = ob.flags
                       /\ o.failed = c.failed
                       /\ o.fh = [fh EXCEPT !.slot = WrittenSlot(fh), !.hash = tx + 1]
      BY <1>6, <2>1, Outcomes
    <2>3. WriteDone(t, h, fh, d0, c, o)
      BY <1>2, <1>4, <2>1, <2>2 DEF WriteDone, HandleNow
    <2> QED
      BY <1>1, <1>2, <1>3, <1>4, <2>3
  <1>11. CASE /\ \E d \in {d0, Written(d0, fh, Bad), Written(d0, fh, tx + 1),
                          [Written(d0, fh, tx + 1) EXCEPT !.dirf = update_hash(fh)]} :
                    LosePower(d)
              /\ UNCHANGED panicked
    <2>1. WriteCut(fh, d0)
      BY <1>4, <1>11 DEF WriteCut
    <2> QED
      BY <1>1, <1>2, <1>3, <1>4, <2>1
  <1>12. CASE /\ ~dirht /\ disk' = Written(d0, fh, tx + 1)
              /\ obj' = [obj EXCEPT ![h].failed = TRUE, ![h].fh =
                   [fh EXCEPT !.slot = WrittenSlot(fh), !.hash = tx + 1]]
              /\ Corrupted(t, h)
              /\ UNCHANGED <<pobj, dir, panicked>>
    <2>1. PICK o \in ObjType :
                       /\ obj' = [obj EXCEPT ![h] = o] /\ o # NULL
                       /\ o.own = t /\ o.po = ob.po /\ o.flags = ob.flags
                       /\ o.failed = TRUE
                       /\ o.fh = [fh EXCEPT !.slot = WrittenSlot(fh), !.hash = tx + 1]
      BY <1>6, <1>12
    <2>2. WriteShut(t, h, fh, d0, o)
      BY <1>2, <1>4, <1>12, <2>1 DEF WriteShut, HandleNow
    <2> QED
      BY <1>1, <1>2, <1>3, <1>4, <2>2
  <1> QED
    BY <1>4, <1>8, <1>9, <1>10, <1>11, <1>12

LEMMA UseWrite ==
    ASSUME ReeFsInv, ReeFsInv', UseInv, TreeOK, NEW t \in Threads, Others(t), ree_fs_write(t)
    PROVE  UseInv'
  <1>1. PICK h, fh, d0 :
           /\ h \in Handles /\ fh \in FileType
           /\ Uses(t, h) /\ "write" \in obj[h].flags /\ fh = obj[h].fh /\ fh.ht
           /\ \/ \E c \in CommitOutcomes : \E o : WriteDone(t, h, fh, d0, c, o)
              \/ \E o : WriteFails(t, h, fh, d0, o)
              \/ \E o : WriteShut(t, h, fh, d0, o)
              \/ WriteCut(fh, d0)
    BY WriteCases
  <1>2. HandleFor(setup, obj[h], pobj)
    BY <1>1, UsesLive
  <1>3. ASSUME NEW o, HandleNow(t, h, o), ~o.fh.ht => o.failed,
               UNCHANGED <<setup, pobj, call>>, dir' = dir \/ dir' = Note(disk')
        PROVE  UseInv'
    <2>1. HandleFor(setup, o, pobj)
      BY <1>1, <1>2, <1>3 DEF HandleFor, HandleNow
    <2> QED
      BY <1>1, <1>3, <2>1, UseWritten DEF HandleNow
  <1>4. ASSUME NEW c, NEW o, WriteDone(t, h, fh, d0, c, o)
        PROVE  UseInv'
    <2>1. o.fh.ht = fh.ht
      BY <1>4 DEF WriteDone, FileType
    <2> QED
      BY <1>1, <1>3, <1>4, <2>1 DEF WriteDone
  <1>5. ASSUME NEW o, WriteFails(t, h, fh, d0, o)
        PROVE  UseInv'
    BY <1>3, <1>5 DEF WriteFails
  <1>6. CASE WriteCut(fh, d0)
    BY <1>6, UseLost DEF WriteCut
  <1>7. ASSUME NEW o, WriteShut(t, h, fh, d0, o)
        PROVE  UseInv'
    <2>1. "fetch" \in setup.faults
      BY <1>7 DEF WriteShut, TreeOK, Faults
    <2>2. o.fh.ht = fh.ht
      BY <1>7 DEF WriteShut, FileType
    <2>3. HandleFor(setup, o, pobj)
      BY <1>1, <1>2, <1>7, <2>2 DEF HandleFor, HandleNow, WriteShut
    <2> QED
      BY <1>1, <1>7, <2>1, <2>3, UseShut DEF WriteShut
  <1> QED
    BY <1>1, <1>4, <1>5, <1>6, <1>7

-----------------------------------------------------------------------------
(* The use of objects: removing and closing *)

LEMMA UseDel ==
    ASSUME ReeFsInv, ReeFsInv', UseInv, NEW t \in Threads, Others(t), storage_obj_del(t)
    PROVE  UseInv'
  <1>1. PICK h \in Handles :
           /\ Uses(t, h) /\ "meta" \in obj[h].flags
           /\ call' = [call EXCEPT ![t] =
                 [Idle EXCEPT !.pc = "remove", !.po = obj[h].po, !.h = h]]
    BY DEF storage_obj_del
  <1>2. PICK c : c = [Idle EXCEPT !.pc = "remove", !.po = obj[h].po, !.h = h]
    OBVIOUS
  <1>3. /\ c.pc = "remove" /\ c.po = obj[h].po /\ c.h = h /\ c.name = NULL /\ c.over = FALSE
    BY <1>2 DEF Idle
  <1>4. obj[h] # NULL /\ obj[h].own = t /\ call[t].pc = "idle" /\ UNCHANGED <<setup, pobj, obj, dir>>
    BY <1>1 DEF Uses, storage_obj_del
  <1>5. CallFor(setup, t, c, obj', pobj)
    BY <1>1, <1>3, <1>4 DEF CallFor, Renaming, Temp
  <1>6. \A p \in Pobjs : ~UserOf(c, p)
    BY <1>3 DEF UserOf, UsesPobj, Referring
  <1>7. Quiet(t, c) /\ ~Temp(call[t])
    BY <1>1, <1>2, <1>4 DEF Quiet, Temp
  <1> QED
    BY <1>4, <1>5, <1>6, <1>7, UseQuiet

\* The handle whose object is removed
LEMMA RemovingFacts ==
    ASSUME ReeFsInv, UseInv, NEW t \in Threads,
           call[t].pc \in {"remove", "remove_corrupt", "close"}, ~GaveUp(call[t])
    PROVE  /\ call[t].h \in Handles /\ call[t].h # NULL /\ obj[call[t].h] # NULL
           /\ obj[call[t].h].own = t /\ obj[call[t].h].po = call[t].po
           /\ call[t].po \in Pobjs /\ call[t].name = NULL
  <1>1. CallFor(setup, t, call[t], obj, pobj)
    BY OwnCall
  <1>2. /\ call[t].h \in Handles /\ obj[call[t].h] # NULL
        /\ obj[call[t].h].own = t /\ obj[call[t].h].po = call[t].po /\ call[t].name = NULL
    BY <1>1 DEF CallFor
  <1>3. obj[call[t].h] \in ObjType
    BY <1>2 DEF ReeFsInv, CoreType
  <1> QED
    BY <1>2, <1>3, ReeFsAssumption DEF ObjType, Handles

LEMMA UseRemove ==
    ASSUME ReeFsInv, ReeFsInv', UseInv, NEW t \in Threads, Others(t), ree_fs_remove(t)
    PROVE  UseInv'
  <1>0. CoreType /\ setup' = setup /\ call[t].pc \in {"remove", "remove_corrupt"}
    BY DEF ReeFsInv, ree_fs_remove
  <1>a. CASE GaveUp(call[t])
    <2>1. \/ /\ Go(t, "release") /\ UNCHANGED <<pobj, obj>>
             /\ dir' = dir \/ dir' = Note(disk')
          \/ \E d : LosePower(d)
      BY <1>a DEF ree_fs_remove, GaveUp
    <2>2. CASE /\ Go(t, "release") /\ UNCHANGED <<pobj, obj>>
               /\ dir' = dir \/ dir' = Note(disk')
      <3>1. \A u \in Threads : dir'[u].idx = dir[u].idx
        BY <1>0, <2>2, SameDirsFacts
      <3>2. Referring(call[t]) /\ ~Temp(call[t]) /\ call[t].h = NULL
        BY <1>a DEF Referring, Temp, GaveUp
      <3> QED
        BY <1>0, <2>2, <3>1, <3>2, UseGivesUp
    <2> QED
      BY <2>1, <2>2, UseLost
  <1> SUFFICES ASSUME ~GaveUp(call[t]) PROVE UseInv'
    BY <1>a
  <1>1. /\ call[t].h \in Handles /\ call[t].h # NULL /\ obj[call[t].h] # NULL
        /\ obj[call[t].h].own = t /\ obj[call[t].h].po = call[t].po
        /\ call[t].po \in Pobjs /\ call[t].name = NULL
    BY <1>0, RemovingFacts
  <1>2. \/ /\ Go(t, "close") /\ UNCHANGED <<pobj, obj>>
           /\ dir' = dir \/ dir' = Note(disk')
        \/ \E d : LosePower(d)
    BY <1>1 DEF ree_fs_remove
  <1>3. CASE /\ Go(t, "close") /\ UNCHANGED <<pobj, obj>>
             /\ dir' = dir \/ dir' = Note(disk')
    <2>1. PICK c : /\ call' = [call EXCEPT ![t] = c]
                   /\ c.pc = "close" /\ c.po = call[t].po /\ c.h = call[t].h
                   /\ c.name = call[t].name /\ c.over = call[t].over
      BY <1>0, <1>3, GoAll
    <2>2. CallFor(setup, t, call[t], obj, pobj)
      BY OwnCall
    <2>3. CallFor(setup, t, c, obj', pobj)
      BY <1>1, <1>3, <2>1, <2>2 DEF CallFor, Renaming, Temp
    <2>4. \A p \in Pobjs : ~UserOf(c, p)
      BY <2>1 DEF UserOf, UsesPobj, Referring
    <2>5. Quiet(t, c) /\ ~Temp(call[t])
      BY <1>0, <1>3, <2>1 DEF Quiet, Temp
    <2>6. \A u \in Threads : dir'[u].idx = dir[u].idx
      BY <1>0, <1>3, SameDirsFacts
    <2> QED
      BY <1>3, <2>3, <2>4, <2>5, <2>6, UseQuiet
  <1>4. CASE \E d : LosePower(d)
    BY <1>4, UseLost
  <1> QED
    BY <1>2, <1>3, <1>4

LEMMA UseClose ==
    ASSUME ReeFsInv, ReeFsInv', UseInv, NEW t \in Threads, Others(t), tee_obj_close(t)
    PROVE  UseInv'
  <1>0. CoreType /\ UNCHANGED <<setup, pobj, dir>> /\ ~Temp(call[t])
    BY DEF ReeFsInv, tee_obj_close, Temp
  <1>1. PICK h \in Handles :
           /\ obj[h] # NULL /\ obj[h].own = t /\ obj' = [obj EXCEPT ![h] = NULL]
           /\ call' = [call EXCEPT ![t] = [Idle EXCEPT !.pc = "release", !.po = obj[h].po]]
    BY DEF tee_obj_close
  <1>2. PICK c : c = [Idle EXCEPT !.pc = "release", !.po = obj[h].po]
    OBVIOUS
  <1>3. /\ c.pc = "release" /\ c.po = obj[h].po /\ c.h = NULL /\ c.name = NULL
        /\ c.over = FALSE
    BY <1>2 DEF Idle
  <1>4. call' = [call EXCEPT ![t] = c]
    BY <1>1, <1>2
  <1>5. call'[t] = c /\ \A u \in Threads \ {t} : call'[u] = call[u]
    BY <1>0, <1>4, CallStepFacts
  <1>6. obj'[h] = NULL /\ \A k \in Handles \ {h} : obj'[k] = obj[k]
    BY <1>0, <1>1 DEF CoreType
  <1>7. PobjKept
    BY <1>0 DEF PobjKept
  <1>8. Frame(t)
    BY <1>0, <1>1, <1>5, <1>6, <1>7 DEF Frame
  <1>9. CallFor(setup', t, call'[t], obj', pobj')
    BY <1>3, <1>5 DEF CallFor, Renaming, Temp
  <1>10. Alone'
    <2>1. \A p \in Pobjs : UserOf(call'[t], p) => HasPobj(obj[h], p)
      BY <1>1, <1>3, <1>5 DEF UserOf, UsesPobj, HasPobj
    <2> QED
      BY <1>1, <1>5, <1>7, <2>1, AloneToCall DEF UseInv
  <1>11. NamesApart'
    <2>1. \A p \in Pobjs : pobj'[p] # NULL => pobj[p] # NULL /\ pobj'[p].name = pobj[p].name
      BY <1>0
    <2> QED
      BY <1>0, <1>5, <2>1, NamesKept DEF UseInv
  <1>12. \A k \in Handles : \/ obj'[k] = NULL \/ obj'[k] = obj[k]
                            \/ HandleFor(setup', obj'[k], pobj')
    BY <1>6
  <1> QED
    BY <1>0, <1>8, <1>9, <1>10, <1>11, <1>12, UseStep

-----------------------------------------------------------------------------
(* The use of objects: renaming *)

\* Nobody enumerates while a thread renames.
LEMMA RenamingApart ==
    ASSUME ReeFsInv, UseInv, Careful(setup), NEW t \in Threads, Renaming(call[t])
    PROVE  \A u \in Threads : call[u].name = NULL
  <1> SUFFICES ASSUME NEW u \in Threads, call[u].name # NULL PROVE FALSE
    OBVIOUS
  <1>1. CallFor(setup, t, call[t], obj, pobj) /\ CallFor(setup, u, call[u], obj, pobj)
    BY OwnCall
  <1>2. /\ "rename" \in setup.calls /\ "enum" \in setup.calls
        /\ call[u].h = NULL /\ call[u].pc \in {"enum_get", "enum_open", "enum_close", "release"}
    BY <1>1 DEF CallFor
  <1>3. call[t].pc \in {"rename", "pobj_rename", "release"}
    BY DEF Renaming, Temp
  <1>4. t # u
    BY <1>2, ReeFsAssumption DEF Renaming, Temp
  <1>5. setup.concurrent
    BY <1>2, <1>3, <1>4 DEF UseInv, OneAtATime
  <1> QED
    BY <1>2, <1>5 DEF Careful

\* The object of an exclusive handle is used by nothing else.
LEMMA AloneHandle ==
    ASSUME ReeFsInv, UseInv, NEW h \in Handles, obj[h] # NULL, Careful(setup),
           "write" \in obj[h].flags \/ "meta" \in obj[h].flags
    PROVE  /\ obj[h].po \in Pobjs /\ pobj[obj[h].po] # NULL /\ ~Sharable(pobj[obj[h].po].flags)
           /\ AloneAt(obj[h].po)
  <1>1. HandleFor(setup, obj[h], pobj) /\ obj[h] \in ObjType
    BY DEF UseInv, HandlesFor, ReeFsInv, CoreType
  <1>2. PICK p : p = obj[h].po
    OBVIOUS
  <1>3. p \in Pobjs /\ HasPobj(obj[h], p)
    BY <1>1, <1>2 DEF ObjType, HasPobj
  <1>4. pobj[p] # NULL
    BY <1>3, AllThere DEF PobjsThere
  <1>5. ~SharedWrite(obj[h].flags) /\ Fits(pobj[p].flags, obj[h].flags)
    BY <1>1, <1>2 DEF HandleFor, Careful, SharedWrite
  <1>6. ~Sharable(pobj[p].flags)
    BY <1>5, FitsAlone
  <1> QED
    BY <1>2, <1>3, <1>4, <1>6 DEF UseInv, Alone

\* So is the object under the new name of a rename.
LEMMA AloneRename ==
    ASSUME ReeFsInv, UseInv, NEW t \in Threads, Renaming(call[t])
    PROVE  /\ call[t].po \in Pobjs /\ pobj[call[t].po] # NULL /\ pobj[call[t].po] \in PobjType
           /\ UserOf(call[t], call[t].po) /\ AloneAt(call[t].po)
  <1>1. CallOK(t, call[t], obj) /\ CallFor(setup, t, call[t], obj, pobj)
    BY OwnCall
  <1>2. PICK p : p = call[t].po
    OBVIOUS
  <1>3. Referring(call[t]) /\ pobj[p].flags = {"meta"}
    BY <1>1, <1>2 DEF Renaming, Temp, Referring, CallFor
  <1>4. p \in Pobjs /\ UsesPobj(call[t], p)
    BY <1>1, <1>2, <1>3 DEF CallOK, UsesPobj
  <1>5. call[t].name = NULL
    BY <1>1 DEF CallFor, Renaming, Temp
  <1>6. pobj[p] # NULL /\ pobj[p] \in PobjType
    BY <1>4, AllThere DEF PobjsThere
  <1>7. AloneAt(p)
    BY <1>3, <1>4, <1>6, MetaAlone DEF UseInv, Alone
  <1> QED
    BY <1>2, <1>4, <1>5, <1>6, <1>7 DEF UserOf

\* Then the count of the object is one: of the handle, or of the call.
LEMMA CountHandle ==
    ASSUME ReeFsInv, NEW h \in Handles, NEW p \in Pobjs, HasPobj(obj[h], p), AloneAt(p),
           \A u \in Threads : call[u].name = NULL
    PROVE  pobj[p].refcnt = 1
  <1>1. HandlesOf(p) = {h} /\ CallsOf(p) = {}
    BY DEF HandlesOf, CallsOf, AloneAt, UserOf
  <1>2. Cardinality(HandlesOf(p)) = 1 /\ Cardinality(CallsOf(p)) = 0
    BY <1>1, FS_Singleton, FS_EmptySet
  <1>3. RefCnt(pobj[p]) = 1
    BY <1>2 DEF ReeFsInv, PobjCounts
  <1> QED
    BY <1>3 DEF RefCnt

LEMMA CountCall ==
    ASSUME ReeFsInv, NEW t \in Threads, NEW p \in Pobjs, UserOf(call[t], p), AloneAt(p),
           \A u \in Threads : call[u].name = NULL
    PROVE  pobj[p].refcnt = 1
  <1>1. HandlesOf(p) = {} /\ CallsOf(p) = {t}
    BY DEF HandlesOf, CallsOf, AloneAt, UserOf
  <1>2. Cardinality(HandlesOf(p)) = 0 /\ Cardinality(CallsOf(p)) = 1
    BY <1>1, FS_Singleton, FS_EmptySet
  <1>3. RefCnt(pobj[p]) = 1
    BY <1>2 DEF ReeFsInv, PobjCounts
  <1> QED
    BY <1>3 DEF RefCnt

LEMMA UseRelease ==
    ASSUME ReeFsInv, ReeFsInv', UseInv, Careful(setup), NEW t \in Threads, Others(t),
           tee_pobj_release(t)
    PROVE  UseInv'
  <1>0. CoreType /\ UNCHANGED <<setup, obj, dir>> /\ call[t].pc = "release"
    BY DEF ReeFsInv, tee_pobj_release
  <1>1. PICK p : p = call[t].po
    OBVIOUS
  <1>2. p \in Pobjs /\ pobj[p] \in PobjType /\ pobj[p] # NULL
    <2>1. CallOK(t, call[t], obj) /\ Referring(call[t])
      BY <1>0, OwnCall DEF Referring
    <2>2. p \in Pobjs /\ UsesPobj(call[t], p)
      BY <1>1, <2>1 DEF CallOK, UsesPobj
    <2> QED
      BY <2>2, AllThere DEF PobjsThere
  <1>3. PICK r : /\ pobj' = [pobj EXCEPT ![p] = r]
                 /\ pobj[p].refcnt = 1 => r = NULL
                 /\ r # NULL => r.flags = pobj[p].flags /\ r.name = pobj[p].name
    <2>1. PICK r : r = IF pobj[p].refcnt = 1 THEN NULL ELSE [pobj[p] EXCEPT !.refcnt = @ - 1]
      OBVIOUS
    <2>2. PICK x : x = [pobj[p] EXCEPT !.refcnt = @ - 1]
      OBVIOUS
    <2>3. x.flags = pobj[p].flags /\ x.name = pobj[p].name
      BY <1>2, <2>2 DEF PobjType
    <2>4. pobj' = [pobj EXCEPT ![p] = r]
      BY <1>1, <2>1 DEF tee_pobj_release
    <2> QED
      BY <2>1, <2>2, <2>3, <2>4
  <1>4. pobj'[p] = r /\ \A q \in Pobjs \ {p} : pobj'[q] = pobj[q]
    BY <1>0, <1>2, <1>3 DEF CoreType
  <1>5. call'[t] = Idle /\ \A u \in Threads \ {t} : call'[u] = call[u]
    BY <1>0, CallStepFacts DEF tee_pobj_release, Return
  <1>6. PobjKept
    BY <1>3, <1>4 DEF PobjKept
  <1>7. Frame(t)
    BY <1>0, <1>5, <1>6 DEF Frame
  <1>8. CallFor(setup', t, call'[t], obj', pobj') /\ \A q \in Pobjs : ~UserOf(call'[t], q)
    BY <1>5, IdleFor
  <1>9. Alone'
    <2>1. \A h \in Handles : obj'[h] = NULL \/ SameHandle(obj[h], obj'[h])
      BY <1>0 DEF SameHandle
    <2>2. \A u \in Threads, q \in Pobjs : UserOf(call'[u], q) => UserOf(call[u], q)
      BY <1>5, <1>8
    <2> QED
      BY <1>6, <2>1, <2>2, AloneFewer DEF UseInv
  <1>10. NamesApart'
    <2>1. CASE ~Temp(call[t])
      <3>1. \A q \in Pobjs : pobj'[q] # NULL => pobj[q] # NULL /\ pobj'[q].name = pobj[q].name
        BY <1>2, <1>3, <1>4
      <3> QED
        BY <1>5, <2>1, <3>1, NamesKept DEF UseInv
    <2>2. CASE Temp(call[t])
      <3>1. Renaming(call[t])
        BY <2>2 DEF Renaming
      <3>2. pobj[p].refcnt = 1
        BY <1>1, <1>2, <3>1, RenamingApart, AloneRename, CountCall
      <3>3. pobj'[p] = NULL
        BY <1>3, <1>4, <3>2
      <3> SUFFICES ASSUME NEW q \in Pobjs, NEW s \in Pobjs, q # s, pobj'[q] # NULL,
                          pobj'[s] # NULL, pobj'[q].name = pobj'[s].name
                   PROVE  \E u \in Threads : Temp(call'[u]) /\ call'[u].po \in {q, s}
        BY DEF NamesApart, Temp
      <3>4. q # p /\ s # p
        BY <3>3
      <3>5. PICK u \in Threads : Temp(call[u]) /\ call[u].po \in {q, s}
        BY <1>4, <3>4 DEF UseInv, NamesApart
      <3>6. u # t
        BY <1>1, <3>4, <3>5
      <3> QED
        BY <1>5, <3>5, <3>6 DEF Temp
    <2> QED
      BY <2>1, <2>2
  <1>11. \A q \in Pobjs : pobj'[q] # NULL => pobj[q] # NULL \/ ~SharedWrite(pobj'[q].flags)
    BY <1>2, <1>4
  <1> QED
    BY <1>0, <1>7, <1>8, <1>9, <1>10, <1>11, UseStep

\* The handle that is renamed, and the object that is to get its place
LEMMA RenameFacts ==
    ASSUME ReeFsInv, UseInv, NEW t \in Threads, call[t].pc \in {"rename", "pobj_rename"}
    PROVE  /\ Renaming(call[t]) /\ Referring(call[t]) /\ ~Temp(call[t])
           /\ call[t].h \in Handles /\ call[t].h # NULL /\ obj[call[t].h] # NULL
           /\ obj[call[t].h] \in ObjType /\ obj[call[t].h].own = t
           /\ "meta" \in obj[call[t].h].flags
           /\ call[t].pc = "rename" /\ obj[call[t].h].failed => setup.retry
           /\ call[t].name = NULL
  <1>1. CallOK(t, call[t], obj) /\ CallFor(setup, t, call[t], obj, pobj)
    BY OwnCall
  <1>2. /\ call[t].h \in Handles /\ obj[call[t].h] # NULL /\ obj[call[t].h].own = t
    BY <1>1 DEF CallOK
  <1>3. /\ "meta" \in obj[call[t].h].flags
        /\ call[t].pc = "rename" /\ obj[call[t].h].failed => setup.retry
        /\ call[t].name = NULL
    BY <1>1 DEF CallFor
  <1>4. obj[call[t].h] \in ObjType /\ call[t].h # NULL
    BY <1>2, ReeFsAssumption DEF ReeFsInv, CoreType, Handles
  <1> QED
    BY <1>2, <1>3, <1>4 DEF Renaming, Referring, Temp

\* ree_fs_rename of handle h, at index i of the dirfile, to name m: refused, or
\* the commit has outcome c, or power is lost.
RenameRefused(t) ==
    /\ Go(t, "release") /\ UNCHANGED <<setup, disk, pobj, obj, dir, tx, panicked>>
RenameDone(t, h, i, m, c, o) ==
    /\ i # 0 /\ Find(disk.dirf, m) = 0
    /\ HandleNow(t, h, o) /\ o.fh = obj[h].fh /\ o.failed = c.failed
    /\ disk' = Commit(disk, c, RenamedDirf(i, m)) /\ dir' = Note(disk')
    /\ Go(t, IF c.failed THEN "release" ELSE "pobj_rename")
    /\ UNCHANGED <<setup, pobj, tx, panicked>>
RenameCut(i, m) ==
    /\ i # 0 /\ Find(disk.dirf, m) = 0
    /\ LosePower([disk EXCEPT !.dirf = RenamedDirf(i, m)])
    /\ UNCHANGED <<setup, tx, panicked>>

LEMMA RenameCases ==
    ASSUME ReeFsInv, UseInv, NEW t \in Threads, ree_fs_rename(t)
    PROVE  \E h, i, m :
              /\ h \in Handles
              /\ call[t].pc = "rename" /\ h = call[t].h
              /\ i = Find(disk.dirf, pobj[obj[h].po].name) /\ m = pobj[call[t].po].name
              /\ \/ RenameRefused(t)
                 \/ \E c \in CommitOutcomes : \E o : RenameDone(t, h, i, m, c, o)
                 \/ RenameCut(i, m)
  <1>0. call[t].pc = "rename"
    BY DEF ree_fs_rename
  <1>1. PICK h, i, m : /\ h = call[t].h
                       /\ i = Find(disk.dirf, pobj[obj[h].po].name) /\ m = pobj[call[t].po].name
    OBVIOUS
  <1>2. h \in Handles /\ obj[h] \in ObjType /\ obj[h].own = t
    BY <1>0, <1>1, RenameFacts
  <1>3. \/ /\ Go(t, "release") /\ UNCHANGED <<setup, disk, pobj, obj, dir, tx, panicked>>
        \/ /\ i # 0 /\ Find(disk.dirf, m) = 0
           /\ \E c \in CommitOutcomes :
                 /\ disk' = Commit(disk, c, RenamedDirf(i, m)) /\ dir' = Note(disk')
                 /\ Go(t, IF c.failed THEN "release" ELSE "pobj_rename")
                 /\ obj' = [obj EXCEPT ![h].failed = c.failed]
                 /\ UNCHANGED <<setup, pobj, tx, panicked>>
        \/ RenameCut(i, m)
    BY <1>1 DEF ree_fs_rename, RenameCut
  <1>4. ASSUME NEW c \in CommitOutcomes, obj' = [obj EXCEPT ![h].failed = c.failed]
        PROVE  \E o : HandleNow(t, h, o) /\ o.fh = obj[h].fh /\ o.failed = c.failed
    <2>1. PICK o : o = [obj[h] EXCEPT !.failed = c.failed]
      OBVIOUS
    <2>2. c.failed \in BOOLEAN
      BY Outcomes
    <2>3. /\ o \in ObjType /\ o.own = t /\ o.po = obj[h].po /\ o.flags = obj[h].flags
          /\ o.fh = obj[h].fh /\ o.failed = c.failed
      BY <1>2, <2>1, <2>2 DEF ObjType
    <2>4. o # NULL
      BY <2>3, ReeFsAssumption
    <2>5. obj' = [obj EXCEPT ![h] = o]
      BY <1>4, <2>1
    <2> QED
      BY <2>3, <2>4, <2>5 DEF HandleNow
  <1>5. ASSUME NEW c \in CommitOutcomes, i # 0, Find(disk.dirf, m) = 0,
               disk' = Commit(disk, c, RenamedDirf(i, m)), dir' = Note(disk'),
               Go(t, IF c.failed THEN "release" ELSE "pobj_rename"),
               obj' = [obj EXCEPT ![h].failed = c.failed],
               UNCHANGED <<setup, pobj, tx, panicked>>
        PROVE  \E o : RenameDone(t, h, i, m, c, o)
    BY <1>4, <1>5 DEF RenameDone
  <1>6. \/ RenameRefused(t)
        \/ \E c \in CommitOutcomes : \E o : RenameDone(t, h, i, m, c, o)
        \/ RenameCut(i, m)
    BY <1>3, <1>5 DEF RenameRefused
  <1> QED
    BY <1>0, <1>1, <1>2, <1>6

LEMMA UseRename ==
    ASSUME ReeFsInv, ReeFsInv', UseInv, NEW t \in Threads, Others(t), ree_fs_rename(t)
    PROVE  UseInv'
  <1>0. CoreType
    BY DEF ReeFsInv
  <1>1. PICK h, i, m :
              /\ h \in Handles
              /\ call[t].pc = "rename" /\ h = call[t].h
              /\ \/ RenameRefused(t)
                 \/ \E c \in CommitOutcomes : \E o : RenameDone(t, h, i, m, c, o)
                 \/ RenameCut(i, m)
    BY RenameCases
  <1>2. /\ Renaming(call[t]) /\ Referring(call[t]) /\ ~Temp(call[t])
        /\ h # NULL /\ obj[h] # NULL /\ obj[h] \in ObjType /\ obj[h].own = t
        /\ "meta" \in obj[h].flags /\ (obj[h].failed => setup.retry) /\ call[t].name = NULL
    BY <1>1, RenameFacts
  <1>3. CASE RenameRefused(t)
    BY <1>2, <1>3, UseGivesUp DEF RenameRefused
  <1>4. ASSUME NEW c \in CommitOutcomes, NEW o, RenameDone(t, h, i, m, c, o)
        PROVE  UseInv'
    <2>1. obj'[h] = o /\ \A k \in Handles \ {h} : obj'[k] = obj[k]
      BY <1>0, <1>1, <1>4 DEF CoreType, RenameDone, HandleNow
    <2>2. \A u \in Threads : dir'[u].idx = dir[u].idx
      BY <1>0, <1>4, SameDirsFacts DEF RenameDone
    <2>3. HandleFor(setup, obj[h], pobj)
      BY <1>1, <1>2 DEF UseInv, HandlesFor
    <2>4. /\ o # NULL /\ o.own = t /\ o.po = obj[h].po /\ o.flags = obj[h].flags
          /\ o.fh = obj[h].fh /\ o.failed = c.failed
          /\ UNCHANGED <<setup, pobj>>
      BY <1>4 DEF RenameDone, HandleNow
    <2>5. HandleFor(setup, o, pobj)
      BY <1>2, <2>3, <2>4 DEF HandleFor
    <2>6. \A k \in Handles :
               \/ obj'[k] = obj[k]
               \/ /\ obj[k] # NULL /\ obj[k].own = t /\ SameHandle(obj[k], obj'[k])
                  /\ HandleFor(setup, obj'[k], pobj)
      BY <1>2, <2>1, <2>4, <2>5 DEF SameHandle
    <2>7. CASE c.failed
      <3>1. Go(t, "release")
        BY <1>4, <2>7 DEF RenameDone
      <3> QED
        BY <1>2, <2>2, <2>4, <2>6, <3>1, UseGivesUp
    <2>8. CASE ~c.failed
      <3>1. Go(t, "pobj_rename")
        BY <1>4, <2>8 DEF RenameDone
      <3>2. PICK d : /\ call' = [call EXCEPT ![t] = d]
                     /\ d.pc = "pobj_rename" /\ d.po = call[t].po /\ d.h = h
                     /\ d.name = call[t].name /\ d.over = call[t].over
        BY <1>0, <1>1, <3>1, GoAll
      <3>3. CallFor(setup, t, call[t], obj, pobj)
        BY OwnCall
      <3>4. CallFor(setup, t, d, obj', pobj)
        BY <1>1, <1>2, <2>1, <2>4, <3>2, <3>3 DEF CallFor, Renaming, Temp
      <3>5. \A p \in Pobjs : UserOf(d, p) => UserOf(call[t], p)
        BY <1>2, <3>2 DEF UserOf, UsesPobj
      <3>6. Quiet(t, d)
        BY <2>4, <3>2 DEF Quiet
      <3> QED
        BY <1>2, <2>2, <2>6, <3>4, <3>5, <3>6, UseQuiet
    <2> QED
      BY <2>7, <2>8
  <1>5. CASE RenameCut(i, m)
    BY <1>5, UseLost DEF RenameCut
  <1> QED
    BY <1>1, <1>3, <1>4, <1>5

\* tee_pobj_rename does rename: nobody else uses the object.
LEMMA PobjRenamed ==
    ASSUME ReeFsInv, UseInv, Careful(setup), NEW t \in Threads, tee_pobj_rename(t),
           NEW h, NEW p, NEW q, h = call[t].h, p = obj[h].po, q = call[t].po
    PROVE  /\ p \in Pobjs /\ q \in Pobjs /\ p # q /\ AloneAt(p) /\ AloneAt(q)
           /\ pobj[p] # NULL /\ pobj[q] # NULL
           /\ pobj'[p] # NULL /\ pobj'[p].name = pobj[q].name
           /\ pobj'[p].flags = pobj[p].flags
           /\ \A r \in Pobjs \ {p} : pobj'[r] = pobj[r]
  <1>1. call[t].pc = "pobj_rename"
    BY DEF tee_pobj_rename
  <1>2. /\ Renaming(call[t]) /\ h \in Handles /\ obj[h] # NULL /\ "meta" \in obj[h].flags
    BY <1>1, RenameFacts
  <1>3. p \in Pobjs /\ pobj[p] # NULL /\ AloneAt(p) /\ HasPobj(obj[h], p)
    BY <1>2, AloneHandle DEF HasPobj
  <1>4. q \in Pobjs /\ pobj[q] # NULL /\ AloneAt(q) /\ UserOf(call[t], q) /\ pobj[q] \in PobjType
    BY <1>2, AloneRename
  <1>5. p # q
    BY <1>2, <1>3, <1>4 DEF AloneAt
  <1>6. pobj[p].refcnt = 1
    BY <1>2, <1>3, RenamingApart, CountHandle
  <1>7. pobj \in [Pobjs -> PobjType \cup {NULL}]
    BY DEF ReeFsInv, CoreType
  <1>8. PICK r : r = [pobj[p] EXCEPT !.name = pobj[q].name]
    OBVIOUS
  <1>9. pobj' = [pobj EXCEPT ![p] = r]
    BY <1>6, <1>8 DEF tee_pobj_rename
  <1>10. pobj[p] \in PobjType
    BY <1>3, <1>7
  <1>11. r \in PobjType /\ r.name = pobj[q].name /\ r.flags = pobj[p].flags
    BY <1>4, <1>8, <1>10 DEF PobjType
  <1>12. r # NULL
    BY <1>11, ReeFsAssumption
  <1> QED
    BY <1>3, <1>4, <1>5, <1>7, <1>9, <1>11, <1>12

LEMMA UsePobjRename ==
    ASSUME ReeFsInv, ReeFsInv', UseInv, Careful(setup), NEW t \in Threads, Others(t),
           tee_pobj_rename(t)
    PROVE  UseInv'
  <1>0. CoreType /\ UNCHANGED <<setup, obj, dir>> /\ call[t].pc = "pobj_rename" /\ Go(t, "release")
    BY DEF ReeFsInv, tee_pobj_rename
  <1>1. PICK h, p, q : h = call[t].h /\ p = obj[h].po /\ q = call[t].po
    OBVIOUS
  <1>2. /\ p \in Pobjs /\ q \in Pobjs /\ p # q /\ AloneAt(q)
        /\ pobj[p] # NULL /\ pobj[q] # NULL
        /\ pobj'[p] # NULL /\ pobj'[p].name = pobj[q].name
        /\ pobj'[p].flags = pobj[p].flags
        /\ \A r \in Pobjs \ {p} : pobj'[r] = pobj[r]
    BY <1>1, PobjRenamed
  <1>3. /\ ~Temp(call[t]) /\ h \in Handles /\ h # NULL /\ call[t].name = NULL
        /\ Renaming(call[t])
    BY <1>0, <1>1, RenameFacts
  <1>4. PICK c : /\ call' = [call EXCEPT ![t] = c]
                 /\ c.pc = "release" /\ c.po = q /\ c.h = h
                 /\ c.name = call[t].name /\ c.over = call[t].over
    BY <1>0, <1>1, GoAll
  <1>5. call'[t] = c /\ \A u \in Threads \ {t} : call'[u] = call[u]
    BY <1>0, <1>4, CallStepFacts
  <1>6. PobjKept
    BY <1>2 DEF PobjKept
  <1>7. Frame(t)
    BY <1>0, <1>5, <1>6 DEF Frame
  <1>8. CallFor(setup', t, call'[t], obj', pobj')
    <2>1. CallFor(setup, t, call[t], obj, pobj)
      BY OwnCall
    <2>2. "rename" \in setup.calls /\ pobj[q].flags = {"meta"} /\ (call[t].over => "overwrite" \in setup.calls)
      BY <1>1, <1>3, <2>1 DEF CallFor
    <2>3. pobj'[q] = pobj[q]
      BY <1>2
    <2> QED
      BY <1>0, <1>3, <1>4, <1>5, <2>2, <2>3 DEF CallFor
  <1>9. Alone'
    <2>1. \A k \in Handles : obj'[k] = NULL \/ SameHandle(obj[k], obj'[k])
      BY <1>0 DEF SameHandle
    <2>2. \A r \in Pobjs : UserOf(c, r) => UserOf(call[t], r)
      BY <1>0, <1>1, <1>4 DEF UserOf, UsesPobj, Referring
    <2>3. \A u \in Threads, r \in Pobjs : UserOf(call'[u], r) => UserOf(call[u], r)
      BY <1>5, <2>2
    <2> QED
      BY <1>6, <2>1, <2>3, AloneFewer DEF UseInv
  <1>10. NamesApart'
    <2>1. Temp(call'[t]) /\ call'[t].po = q
      BY <1>3, <1>4, <1>5 DEF Temp
    <2>2. \A u \in Threads : Temp(call[u]) => u # t /\ call'[u] = call[u] /\ call[u].po # q
      <3> SUFFICES ASSUME NEW u \in Threads, Temp(call[u])
                   PROVE  u # t /\ call'[u] = call[u] /\ call[u].po # q
        OBVIOUS
      <3>1. u # t
        BY <1>3
      <3>2. UserOf(call[u], call[u].po) /\ UserOf(call[t], q)
        BY <1>1, <1>3, AloneRename DEF Renaming
      <3> QED
        BY <1>2, <1>5, <3>1, <3>2 DEF AloneAt
    <2> SUFFICES ASSUME NEW a \in Pobjs, NEW b \in Pobjs, a # b, pobj'[a] # NULL,
                        pobj'[b] # NULL, pobj'[a].name = pobj'[b].name
                 PROVE  \E u \in Threads : Temp(call'[u]) /\ call'[u].po \in {a, b}
      BY DEF NamesApart, Temp
    <2>3. ASSUME NEW x \in Pobjs, x # p, x # q, pobj[x] # NULL, pobj[x].name = pobj[q].name
          PROVE  \E u \in Threads : Temp(call'[u]) /\ call'[u].po = x
      <3>1. PICK u \in Threads : Temp(call[u]) /\ call[u].po \in {x, q}
        BY <1>2, <2>3 DEF UseInv, NamesApart
      <3> QED
        BY <2>2, <3>1
    <2>4. CASE a = q \/ b = q
      BY <2>1, <2>4
    <2>5. CASE a = p /\ b # q
      BY <1>2, <2>3, <2>5
    <2>6. CASE b = p /\ a # q
      BY <1>2, <2>3, <2>6
    <2>7. CASE a # p /\ b # p
      <3>1. PICK u \in Threads : Temp(call[u]) /\ call[u].po \in {a, b}
        BY <1>2, <2>7 DEF UseInv, NamesApart
      <3> QED
        BY <2>2, <3>1
    <2> QED
      BY <2>4, <2>5, <2>6, <2>7
  <1>11. \A r \in Pobjs : pobj'[r] # NULL => pobj[r] # NULL
    BY <1>2
  <1> QED
    BY <1>0, <1>7, <1>8, <1>9, <1>10, <1>11, UseStep

-----------------------------------------------------------------------------
(* The use of objects: enumerating *)

LEMMA UseOpendir ==
    ASSUME ReeFsInv, ReeFsInv', UseInv, NEW t \in Threads, Others(t), ree_fs_opendir(t)
    PROVE  UseInv'
  <1>1. UNCHANGED <<setup, pobj, obj, call>> /\ "enum" \in Calls /\ call[t].pc = "idle"
    BY DEF ree_fs_opendir
  <1>2. PICK c : c = call[t]
    OBVIOUS
  <1>3. Quiet(t, c) /\ ~Temp(call[t])
    BY <1>1, <1>2 DEF Quiet, Temp, ReeFsInv, CoreType
  <1>4. CallFor(setup, t, c, obj', pobj)
    BY <1>1, <1>2, OwnCall
  <1> QED
    BY <1>1, <1>2, <1>3, <1>4, UseQuiet

LEMMA UseReaddir ==
    ASSUME ReeFsInv, ReeFsInv', UseInv, NEW t \in Threads, Others(t), ree_fs_readdir(t)
    PROVE  UseInv'
  <1>1. UNCHANGED <<setup, pobj, obj>> /\ call[t].pc = "idle" /\ dir[t].idx >= 0
    BY DEF ree_fs_readdir
  <1>2. "enum" \in Calls
    <2>1. dir[t].idx # -1
      BY <1>1 DEF ReeFsInv, CoreType, DirType
    <2> QED
      BY <2>1 DEF UseInv, DirsFor, Calls
  <1>3. ~Temp(call[t])
    BY <1>1 DEF Temp
  <1>4. CASE UNCHANGED call
    <2>1. PICK c : c = call[t]
      OBVIOUS
    <2>2. Quiet(t, c)
      BY <1>1, <1>4, <2>1 DEF Quiet, ReeFsInv, CoreType
    <2>3. CallFor(setup, t, c, obj', pobj)
      BY <1>1, <2>1, OwnCall
    <2> QED
      BY <1>1, <1>2, <1>3, <2>1, <2>2, <2>3, UseQuiet
  <1>5. ASSUME Ahead(t) # {}, NEW i, i = Min(Ahead(t)), NEW c,
               c = [Idle EXCEPT !.pc = "enum_get", !.name = disk.dirf[i].name],
               call' = [call EXCEPT ![t] = c]
        PROVE  UseInv'
    <2>1. disk.dirf \in Seq(DentType)
      BY StorageFacts DEF ReeFsInv
    <2>2. Ahead(t) \in SUBSET Nat
      BY <2>1, DentFacts DEF Ahead
    <2>3. i \in Used(disk.dirf)
      BY <1>5, <2>2, MinIsLeast DEF Ahead
    <2>4. disk.dirf[i].name # NULL
      BY <2>3 DEF Used
    <2>5. /\ c.pc = "enum_get" /\ c.name = disk.dirf[i].name /\ c.h = NULL /\ c.over = FALSE
      BY <1>5 DEF Idle
    <2>6. CallFor(setup, t, c, obj', pobj)
      BY <1>2, <2>4, <2>5 DEF CallFor, Renaming, Temp, Calls
    <2>7. Quiet(t, c)
      BY <1>1, <1>5 DEF Quiet
    <2>8. \A p \in Pobjs : ~UserOf(c, p)
      BY <2>4, <2>5 DEF UserOf
    <2> QED
      BY <1>1, <1>2, <1>3, <2>6, <2>7, <2>8, UseQuiet
  <1> QED
    BY <1>4, <1>5 DEF ree_fs_readdir

\* The call that reads the head of an object goes on.
LEMMA UseHead ==
    ASSUME ReeFsInv, ReeFsInv', UseInv, NEW t \in Threads, Others(t), NEW c, Quiet(t, c),
           call[t].pc \in {"enum_open", "enum_close"}, c.pc \in {"enum_close", "release"},
           c.name = call[t].name, c.h = call[t].h, c.over = call[t].over,
           UNCHANGED <<obj, dir>>
    PROVE  UseInv'
  <1>1. CallFor(setup, t, call[t], obj, pobj)
    BY OwnCall
  <1>2. call[t].name # NULL /\ call[t].h = NULL /\ ~Temp(call[t])
    BY <1>1 DEF CallFor, Temp
  <1>3. CallFor(setup, t, c, obj', pobj)
    BY <1>1, <1>2 DEF CallFor, Renaming, Temp
  <1>4. \A p \in Pobjs : ~UserOf(c, p)
    BY <1>2 DEF UserOf
  <1> QED
    BY <1>2, <1>3, <1>4, UseQuiet

LEMMA UseEnumOpen ==
    ASSUME ReeFsInv, ReeFsInv', UseInv, NEW t \in Threads, Others(t), enum_open(t)
    PROVE  UseInv'
  <1>0. CoreType /\ call[t] \in CallType
    BY DEF ReeFsInv, CoreType
  <1>1. UNCHANGED <<setup, pobj, obj, dir>> /\ call[t].pc = "enum_open"
    BY DEF enum_open
  <1>2. CASE Go(t, "release")
    <2>1. PICK c : /\ call' = [call EXCEPT ![t] = c]
                   /\ c.pc = "release" /\ c.po = call[t].po /\ c.h = call[t].h
                   /\ c.name = call[t].name /\ c.over = call[t].over
      BY <1>0, <1>2, GoAll
    <2>2. Quiet(t, c)
      BY <1>1, <2>1 DEF Quiet
    <2> QED
      BY <1>1, <2>1, <2>2, UseHead
  <1>3. ASSUME NEW fh, call' = [call EXCEPT ![t].pc = "enum_close", ![t].fh = fh]
        PROVE  UseInv'
    <2>1. PICK c : c = [call[t] EXCEPT !.pc = "enum_close", !.fh = fh]
      OBVIOUS
    <2>2. /\ c.pc = "enum_close" /\ c.h = call[t].h
          /\ c.name = call[t].name /\ c.over = call[t].over
      BY <1>0, <2>1 DEF CallType
    <2>3. Quiet(t, c)
      BY <1>0, <1>1, <1>3, <2>1 DEF Quiet, CoreType
    <2> QED
      BY <1>1, <2>2, <2>3, UseHead
  <1> QED
    BY <1>2, <1>3 DEF enum_open

LEMMA UseEnumClose ==
    ASSUME ReeFsInv, ReeFsInv', UseInv, NEW t \in Threads, Others(t), enum_close(t)
    PROVE  UseInv'
  <1>0. CoreType /\ call[t] \in CallType
    BY DEF ReeFsInv, CoreType
  <1>1. UNCHANGED <<setup, pobj, obj, dir>> /\ call[t].pc = "enum_close"
    BY DEF enum_close
  <1>2. PICK c : c = [call[t] EXCEPT !.pc = "release", !.fh = NULL]
    OBVIOUS
  <1>3. /\ c.pc = "release" /\ c.h = call[t].h
        /\ c.name = call[t].name /\ c.over = call[t].over
    BY <1>0, <1>2 DEF CallType
  <1>4. Quiet(t, c)
    BY <1>0, <1>1, <1>2 DEF Quiet, CoreType, enum_close
  <1> QED
    BY <1>1, <1>3, <1>4, UseHead

LEMMA UseClosedir ==
    ASSUME ReeFsInv, ReeFsInv', UseInv, NEW t \in Threads, Others(t), ree_fs_closedir(t)
    PROVE  UseInv'
  <1>1. UNCHANGED <<setup, pobj, obj, call>> /\ call[t].pc = "idle"
    BY DEF ree_fs_closedir
  <1>2. PICK c : c = call[t]
    OBVIOUS
  <1>3. Quiet(t, c) /\ ~Temp(call[t])
    BY <1>1, <1>2 DEF Quiet, Temp, ReeFsInv, CoreType
  <1>4. CallFor(setup, t, c, obj', pobj)
    BY <1>1, <1>2, OwnCall
  <1>5. \A u \in Threads : dir'[u].idx = dir[u].idx \/ dir'[u].idx = -1
    BY DEF ree_fs_closedir, NoDir, ReeFsInv, CoreType
  <1> QED
    BY <1>1, <1>2, <1>3, <1>4, <1>5, UseQuiet

-----------------------------------------------------------------------------
(* Handles that a step leaves alone *)

NameKept(p) == pobj[p] # NULL /\ pobj'[p] # NULL => pobj'[p].name = pobj[p].name

LEMMA HandleThere ==
    ASSUME ReeFsInv, NEW k \in Handles, obj[k] # NULL
    PROVE  /\ obj[k] \in ObjType /\ obj[k].own \in Threads /\ obj[k].po \in Pobjs
           /\ obj[k].fh \in FileType /\ HasPobj(obj[k], obj[k].po)
           /\ pobj[obj[k].po] # NULL /\ pobj[obj[k].po].name \in Names
  <1>1. obj[k] \in ObjType
    BY DEF ReeFsInv, CoreType
  <1>2. /\ obj[k].own \in Threads /\ obj[k].po \in Pobjs /\ obj[k].fh \in FileType
        /\ HasPobj(obj[k], obj[k].po)
    BY <1>1 DEF ObjType, HasPobj
  <1> QED
    BY <1>1, <1>2, AllThere DEF PobjsThere

LEMMA HandleThereNext ==
    ReeFsInv' => (\A k \in Handles : obj[k] # NULL => pobj[obj[k].po] # NULL)'
  <1>1. ReeFsInv => \A k \in Handles : obj[k] # NULL => pobj[obj[k].po] # NULL
    BY HandleThere
  <1> QED
    BY <1>1, PTL

LEMMA LiveKept ==
    ASSUME ReeFsInv, ReeFsInv', NEW t \in Threads, \A u \in Threads \ {t} : call'[u] = call[u],
           NEW k \in Handles, obj'[k] = obj[k], Live(k)', NameKept(obj[k].po),
           \A u \in Threads \ {t} : call[u].pc = "pobj_rename" => NameKept(call[u].po),
           call[t].pc \in {"close", "pobj_rename"} => call[t].h # k,
           call'[t].pc = "pobj_rename" => call'[t].h # k
    PROVE  Live(k) /\ NameOf(k)' = NameOf(k)
  <1>1. obj'[k] # NULL /\ ~Closing(k)'
    BY DEF Live
  <1>2. ~Closing(k)
    BY <1>1 DEF Closing
  <1>3. Live(k)
    BY <1>1, <1>2 DEF Live
  <1>4. PICK o : o = obj[k]
    OBVIOUS
  <1>5. o # NULL /\ o.own \in Threads /\ pobj[o.po] # NULL /\ pobj'[o.po] # NULL
    BY <1>1, <1>4, HandleThere, HandleThereNext
  <1>6. pobj'[o.po].name = pobj[o.po].name
    BY <1>4, <1>5 DEF NameKept
  <1>7. CASE o.own = t
    <2>1. NameOf(k) = pobj[o.po].name
      BY <1>4, <1>7 DEF NameOf, NameIn
    <2>2. NameOf(k)' = pobj'[o.po].name
      BY <1>4, <1>7 DEF NameOf, NameIn
    <2> QED
      BY <1>3, <1>6, <2>1, <2>2
  <1>8. CASE o.own # t
    <2>1. PICK c : c = call[o.own]
      OBVIOUS
    <2>2. call'[o.own] = c
      BY <1>5, <1>8, <2>1
    <2>3. ASSUME c.pc = "pobj_rename" PROVE pobj'[c.po].name = pobj[c.po].name
      <3>1. Referring(c) /\ CallOK(o.own, c, obj)
        BY <1>5, <2>1, <2>3, CallsThere DEF Referring
      <3>2. c.po \in Pobjs /\ UsesPobj(call[o.own], c.po) /\ UsesPobj(call'[o.own], c.po)
        BY <2>1, <2>2, <3>1 DEF CallOK, UsesPobj
      <3>3. pobj[c.po] # NULL
        BY <1>5, <3>2, AllThere DEF PobjsThere
      <3>4. pobj'[c.po] # NULL
        BY <1>5, <3>2, AllThereNext DEF PobjsThere
      <3> QED
        BY <1>5, <1>8, <2>1, <2>3, <3>3, <3>4 DEF NameKept
    <2>4. CASE c.pc = "pobj_rename" /\ c.h = k
      <3>1. NameOf(k) = pobj[c.po].name
        BY <1>4, <2>1, <2>4 DEF NameOf, NameIn
      <3>2. NameOf(k)' = pobj'[c.po].name
        BY <1>4, <2>2, <2>4 DEF NameOf, NameIn
      <3> QED
        BY <1>3, <2>3, <2>4, <3>1, <3>2
    <2>5. CASE ~(c.pc = "pobj_rename" /\ c.h = k)
      <3>1. NameOf(k) = pobj[o.po].name
        BY <1>4, <2>1, <2>5 DEF NameOf, NameIn
      <3>2. NameOf(k)' = pobj'[o.po].name
        BY <1>4, <2>2, <2>5 DEF NameOf, NameIn
      <3> QED
        BY <1>3, <1>6, <3>1, <3>2
    <2> QED
      BY <2>4, <2>5
  <1> QED
    BY <1>3, <1>7, <1>8

-----------------------------------------------------------------------------
(* One name, one object *)

\* The object under which handle k is stored, for NameOf
PobjOf(k) ==
    LET c == call[obj[k].own]
    IN  IF c.pc = "pobj_rename" /\ c.h = k THEN c.po ELSE obj[k].po

\* Object p is used by handle k, or by a call that gives it its new name.
LEMMA PobjOfFacts ==
    ASSUME ReeFsInv, UseInv, NEW k \in Handles, obj[k] # NULL
    PROVE  /\ PobjOf(k) \in Pobjs /\ pobj[PobjOf(k)] # NULL /\ NameOf(k) = pobj[PobjOf(k)].name
           /\ \/ PobjOf(k) = obj[k].po
              \/ Renaming(call[obj[k].own]) /\ ~Temp(call[obj[k].own])
                 /\ PobjOf(k) = call[obj[k].own].po
           /\ \A u \in Threads : Temp(call[u]) => call[u].po # PobjOf(k)
  <1>1. /\ obj[k].own \in Threads /\ obj[k].po \in Pobjs /\ HasPobj(obj[k], obj[k].po)
        /\ pobj[obj[k].po] # NULL
    BY HandleThere
  <1>2. PICK c, u : u = obj[k].own /\ c = call[u]
    OBVIOUS
  <1>3. CASE c.pc = "pobj_rename" /\ c.h = k
    <2>1. Renaming(c) /\ ~Temp(c)
      BY <1>3 DEF Renaming, Temp
    <2>2. /\ c.po \in Pobjs /\ pobj[c.po] # NULL /\ UserOf(c, c.po) /\ AloneAt(c.po)
      BY <1>1, <1>2, <2>1, AloneRename
    <2>3. \A v \in Threads : Temp(call[v]) => call[v].po # c.po
      <3> SUFFICES ASSUME NEW v \in Threads, Temp(call[v]), call[v].po = c.po PROVE FALSE
        OBVIOUS
      <3>1. UserOf(call[v], c.po)
        BY AloneRename DEF Renaming
      <3>2. v = u
        BY <1>1, <1>2, <2>2, <3>1 DEF AloneAt
      <3> QED
        BY <1>2, <2>1, <3>2
    <2>4. PobjOf(k) = c.po /\ NameOf(k) = pobj[c.po].name
      BY <1>2, <1>3 DEF PobjOf, NameOf, NameIn
    <2> QED
      BY <1>2, <2>1, <2>2, <2>3, <2>4
  <1>4. CASE ~(c.pc = "pobj_rename" /\ c.h = k)
    <2>1. PobjOf(k) = obj[k].po /\ NameOf(k) = pobj[obj[k].po].name
      BY <1>2, <1>4 DEF PobjOf, NameOf, NameIn
    <2>2. \A v \in Threads : Temp(call[v]) => call[v].po # obj[k].po
      <3> SUFFICES ASSUME NEW v \in Threads, Temp(call[v]), call[v].po = obj[k].po PROVE FALSE
        OBVIOUS
      <3>1. UserOf(call[v], obj[k].po) /\ AloneAt(obj[k].po)
        BY AloneRename DEF Renaming
      <3> QED
        BY <1>1, <3>1 DEF AloneAt
    <2> QED
      BY <1>1, <2>1, <2>2
  <1> QED
    BY <1>3, <1>4

LEMMA SameNames ==
    ASSUME ReeFsInv, UseInv, NEW h \in Handles, NEW k \in Handles, obj[h] # NULL, obj[k] # NULL,
           NameOf(h) = NameOf(k), PobjOf(h) = obj[h].po
    PROVE  obj[h].po = obj[k].po
  <1>1. /\ PobjOf(h) \in Pobjs /\ pobj[PobjOf(h)] # NULL /\ NameOf(h) = pobj[PobjOf(h)].name
        /\ \A u \in Threads : Temp(call[u]) => call[u].po # PobjOf(h)
    BY PobjOfFacts
  <1>2. /\ PobjOf(k) \in Pobjs /\ pobj[PobjOf(k)] # NULL /\ NameOf(k) = pobj[PobjOf(k)].name
        /\ \A u \in Threads : Temp(call[u]) => call[u].po # PobjOf(k)
        /\ \/ PobjOf(k) = obj[k].po
           \/ Renaming(call[obj[k].own]) /\ PobjOf(k) = call[obj[k].own].po
    BY PobjOfFacts
  <1>3. PobjOf(h) = PobjOf(k)
    <2>1. PICK p, q : p = PobjOf(h) /\ q = PobjOf(k)
      OBVIOUS
    <2>2. p \in Pobjs /\ q \in Pobjs /\ pobj[p] # NULL /\ pobj[q] # NULL
          /\ pobj[p].name = pobj[q].name
          /\ \A u \in Threads : Temp(call[u]) => call[u].po \notin {p, q}
      BY <1>1, <1>2, <2>1
    <2> QED
      BY <2>1, <2>2 DEF UseInv, NamesApart
  <1>4. CASE PobjOf(k) = obj[k].po
    BY <1>3, <1>4
  <1>5. CASE Renaming(call[obj[k].own]) /\ PobjOf(k) = call[obj[k].own].po
    <2>1. UserOf(call[obj[k].own], PobjOf(k)) /\ AloneAt(PobjOf(k)) /\ obj[k].own \in Threads
      BY <1>5, HandleThere, AloneRename
    <2>2. HasPobj(obj[h], PobjOf(k))
      BY <1>3, HandleThere
    <2> QED
      BY <1>2, <2>1, <2>2 DEF AloneAt
  <1> QED
    BY <1>2, <1>4, <1>5

\* The name of an object that is being opened or created
LEMMA NameOpening ==
    ASSUME ReeFsInv, UseInv, NEW t \in Threads,
           call[t].pc \in {"open", "create"} \/ GaveUp(call[t]),
           NEW k \in Handles, obj[k] # NULL, NameOf(k) = pobj[call[t].po].name
    PROVE  obj[k].po = call[t].po
  <1>1. PICK p : p = call[t].po
    OBVIOUS
  <1>2. p \in Pobjs /\ UserOf(call[t], p) /\ ~Renaming(call[t])
    BY <1>1, OpeningFacts DEF Renaming, Temp, GaveUp
  <1>3. pobj[p] # NULL
    BY <1>2, AllThere DEF PobjsThere, UserOf
  <1>4. /\ PobjOf(k) \in Pobjs /\ pobj[PobjOf(k)] # NULL /\ NameOf(k) = pobj[PobjOf(k)].name
        /\ \A u \in Threads : Temp(call[u]) => call[u].po # PobjOf(k)
        /\ \/ PobjOf(k) = obj[k].po
           \/ Renaming(call[obj[k].own]) /\ PobjOf(k) = call[obj[k].own].po
    BY PobjOfFacts
  <1>5. \A u \in Threads : Renaming(call[u]) => call[u].po # p
    <2> SUFFICES ASSUME NEW u \in Threads, Renaming(call[u]), call[u].po = p PROVE FALSE
      OBVIOUS
    <2>1. UserOf(call[u], p) /\ AloneAt(p)
      BY AloneRename
    <2> QED
      BY <1>2, <2>1 DEF AloneAt
  <1>6. PobjOf(k) = p
    <2> SUFFICES ASSUME PobjOf(k) # p PROVE FALSE
      OBVIOUS
    <2>1. PICK u \in Threads : Temp(call[u]) /\ call[u].po \in {PobjOf(k), p}
      BY <1>1, <1>2, <1>3, <1>4 DEF UseInv, NamesApart
    <2> QED
      BY <1>4, <1>5, <2>1 DEF Renaming
  <1> QED
    BY <1>1, <1>4, <1>5, <1>6, HandleThere

-----------------------------------------------------------------------------
(* Steps that leave the disk alone *)

LEMMA FilesForNext ==
    ASSUME \A k \in Handles : Live(k)' => FileFor(setup', obj'[k], NameOf(k)', disk')
    PROVE  FilesFor'
  BY DEF FilesFor, FileFor, Linked, Orphan, Used

LEMMA SameFileNext ==
    ASSUME \A h, k \in Handles :
              Live(h)' /\ Live(k)' /\ obj'[h].fh.ino = obj'[k].fh.ino => obj'[h].po = obj'[k].po
    PROVE  SameFile'
  BY DEF SameFile

LEMMA DiskSame ==
    ASSUME DiskInv, UNCHANGED <<disk, panicked>>
    PROVE  FilesApart(disk') /\ EntriesRead(disk') /\ panicked' = FALSE
  BY DEF DiskInv

LEMMA DiskNext ==
    ASSUME FilesFor', SameFile', FilesApart(disk'), EntriesRead(disk'), panicked' = FALSE
    PROVE  DiskInv'
  BY DEF DiskInv, FilesApart, EntriesRead, Versions, Used

LEMMA DiskStays ==
    ASSUME ReeFsInv, ReeFsInv', DiskInv, NEW t \in Threads,
           \A u \in Threads \ {t} : call'[u] = call[u], UNCHANGED <<setup, disk, panicked>>,
           \A k \in Handles : \/ obj'[k] = NULL
                              \/ /\ obj'[k] = obj[k]
                                 /\ call[t].pc \in {"close", "pobj_rename"} => call[t].h # k,
           call'[t].pc # "pobj_rename", \A p \in Pobjs : NameKept(p)
    PROVE  DiskInv'
  <1>1. ASSUME NEW k \in Handles, Live(k)'
        PROVE  obj'[k] = obj[k] /\ Live(k) /\ NameOf(k)' = NameOf(k)
    <2>1. obj'[k] # NULL
      BY <1>1 DEF Live
    <2>2. obj'[k] = obj[k] /\ (call[t].pc \in {"close", "pobj_rename"} => call[t].h # k)
      BY <2>1
    <2>3. NameKept(obj[k].po)
      BY <2>1, <2>2, HandleThere
    <2>4. \A u \in Threads \ {t} : call[u].pc = "pobj_rename" => NameKept(call[u].po)
      BY CallsThere DEF CallOK, Referring
    <2> QED
      BY <1>1, <2>2, <2>3, <2>4, LiveKept
  <1>2. FilesFor'
    <2>1. \A k \in Handles : Live(k)' => FileFor(setup', obj'[k], NameOf(k)', disk')
      BY <1>1 DEF DiskInv, FilesFor
    <2> QED
      BY <2>1, FilesForNext
  <1>3. SameFile'
    <2>1. \A h, k \in Handles :
             Live(h)' /\ Live(k)' /\ obj'[h].fh.ino = obj'[k].fh.ino => obj'[h].po = obj'[k].po
      BY <1>1 DEF DiskInv, SameFile
    <2> QED
      BY <2>1, SameFileNext
  <1> QED
    BY <1>2, <1>3, DiskSame, DiskNext

LEMMA DiskGet ==
    ASSUME ReeFsInv, ReeFsInv', DiskInv, NEW t \in Threads, UNCHANGED <<setup, disk, obj, panicked>>,
           NEW p \in Pobjs, NEW n \in Names, NEW fl \in SUBSET Modes, NEW usage, NEW over,
           tee_pobj_get(p, n, fl, usage, over),
           NEW c, call' = [call EXCEPT ![t] = c], c.pc # "pobj_rename",
           call[t].pc \in {"idle", "enum_get"}
    PROVE  DiskInv'
  <1>0. CoreType
    BY DEF ReeFsInv
  <1>1. call'[t] = c /\ \A u \in Threads \ {t} : call'[u] = call[u]
    BY <1>0, CallStepFacts
  <1>2. \A q \in Pobjs : NameKept(q)
    BY <1>0, GetFacts DEF NameKept
  <1> QED
    BY <1>1, <1>2, DiskStays

LEMMA DiskOpenStart ==
    ASSUME ReeFsInv, ReeFsInv', DiskInv, NEW t \in Threads,
           storage_obj_open(t) \/ storage_obj_create(t)
    PROVE  DiskInv'
  <1>0. CoreType
    BY DEF ReeFsInv
  <1>1. CASE storage_obj_open(t)
    <2>1. PICK n \in Names, fl \in setup.flags, p \in Pobjs :
             /\ tee_pobj_get(p, n, fl, "open", FALSE)
             /\ call' = [call EXCEPT ![t] = [Idle EXCEPT !.pc = "open", !.po = p, !.flags = fl]]
      BY <1>1 DEF storage_obj_open
    <2>2. PICK us, ov : tee_pobj_get(p, n, fl, us, ov)
      BY <2>1, Zenon
    <2>3. fl \in SUBSET Modes
      BY <1>0, SetupFacts
    <2>4. PICK c : c = [Idle EXCEPT !.pc = "open", !.po = p, !.flags = fl]
      OBVIOUS
    <2>5. c.pc = "open"
      BY <2>4 DEF Idle
    <2>6. UNCHANGED <<setup, disk, obj, panicked>> /\ call[t].pc = "idle"
      BY <1>1 DEF storage_obj_open
    <2>7. call' = [call EXCEPT ![t] = c]
      BY <2>1, <2>4
    <2> QED
      BY <2>2, <2>3, <2>5, <2>6, <2>7, DiskGet
  <1>2. CASE storage_obj_create(t)
    <2>1. PICK n \in Names, fl \in setup.flags, p \in Pobjs, over \in BOOLEAN :
             /\ tee_pobj_get(p, n, fl, "create", over)
             /\ call' = [call EXCEPT ![t] =
                   [Idle EXCEPT !.pc = "create", !.po = p, !.flags = fl, !.over = over]]
      BY <1>2 DEF storage_obj_create
    <2>2. PICK us, ov : tee_pobj_get(p, n, fl, us, ov)
      BY <2>1, Zenon
    <2>3. fl \in SUBSET Modes
      BY <1>0, SetupFacts
    <2>4. PICK c : c = [Idle EXCEPT !.pc = "create", !.po = p, !.flags = fl, !.over = over]
      OBVIOUS
    <2>5. c.pc = "create"
      BY <2>4 DEF Idle
    <2>6. UNCHANGED <<setup, disk, obj, panicked>> /\ call[t].pc = "idle"
      BY <1>2 DEF storage_obj_create
    <2>7. call' = [call EXCEPT ![t] = c]
      BY <2>1, <2>4
    <2> QED
      BY <2>2, <2>3, <2>5, <2>6, <2>7, DiskGet
  <1> QED
    BY <1>1, <1>2

LEMMA DiskRenameStart ==
    ASSUME ReeFsInv, ReeFsInv', DiskInv, NEW t \in Threads, storage_obj_rename(t)
    PROVE  DiskInv'
  <1>1. PICK h \in Handles, m \in Names, p \in Pobjs :
           /\ Uses(t, h) /\ tee_pobj_get(p, m, {"meta"}, "rename", FALSE)
           /\ call' = [call EXCEPT ![t] = [Idle EXCEPT !.pc = "rename", !.po = p, !.h = h]]
    BY DEF storage_obj_rename
  <1>2. PICK us, ov, fl : tee_pobj_get(p, m, fl, us, ov) /\ fl = {"meta"}
    BY <1>1, Zenon
  <1>3. fl \in SUBSET Modes
    BY <1>2 DEF Modes
  <1>4. PICK c : c = [Idle EXCEPT !.pc = "rename", !.po = p, !.h = h]
    OBVIOUS
  <1>5. c.pc = "rename"
    BY <1>4 DEF Idle
  <1>6. UNCHANGED <<setup, disk, obj, panicked>> /\ call[t].pc = "idle"
    BY <1>1 DEF storage_obj_rename, Uses
  <1>7. call' = [call EXCEPT ![t] = c]
    BY <1>1, <1>4
  <1> QED
    BY <1>2, <1>3, <1>5, <1>6, <1>7, DiskGet

LEMMA DiskEnumGet ==
    ASSUME ReeFsInv, ReeFsInv', DiskInv, NEW t \in Threads, enum_get(t)
    PROVE  DiskInv'
  <1>0. CoreType /\ call[t] \in CallType /\ CallOK(t, call[t], obj)
    BY CallsThere DEF ReeFsInv
  <1>1. PICK p \in Pobjs :
           /\ tee_pobj_get(p, call[t].name, {}, "enum", FALSE)
           /\ call' = [call EXCEPT ![t].pc = "enum_open", ![t].po = p]
    BY DEF enum_get
  <1>2. PICK n, us, ov, fl : tee_pobj_get(p, n, fl, us, ov) /\ fl = {} /\ n = call[t].name
    BY <1>1, Zenon
  <1>3. fl \in SUBSET Modes /\ n \in Names
    BY <1>0, <1>2 DEF CallOK, enum_get
  <1>4. PICK c : c = [call[t] EXCEPT !.pc = "enum_open", !.po = p]
    OBVIOUS
  <1>5. c.pc = "enum_open"
    BY <1>0, <1>4 DEF CallType
  <1>6. call' = [call EXCEPT ![t] = c]
    BY <1>0, <1>1, <1>4 DEF CoreType
  <1>7. UNCHANGED <<setup, disk, obj, panicked>> /\ call[t].pc = "enum_get"
    BY DEF enum_get
  <1> QED
    BY <1>2, <1>3, <1>5, <1>6, <1>7, DiskGet

\* The call of a thread goes on, or its handle is closed.
LEMMA DiskQuiet ==
    ASSUME ReeFsInv, ReeFsInv', DiskInv, NEW t \in Threads, NEW c,
           call' = [call EXCEPT ![t] = c], c.pc # "pobj_rename",
           UNCHANGED <<setup, disk, pobj, panicked>>,
           \/ obj' = obj /\ call[t].pc \notin {"close", "pobj_rename"}
           \/ \E h \in Handles : /\ obj' = [obj EXCEPT ![h] = NULL]
                                 /\ call[t].pc = "idle" \/ (call[t].pc = "close" /\ call[t].h = h)
    PROVE  DiskInv'
  <1>0. CoreType
    BY DEF ReeFsInv
  <1>1. call'[t] = c /\ \A u \in Threads \ {t} : call'[u] = call[u]
    BY <1>0, CallStepFacts
  <1>2. \A q \in Pobjs : NameKept(q)
    BY DEF NameKept
  <1>3. \A k \in Handles : \/ obj'[k] = NULL
                           \/ /\ obj'[k] = obj[k]
                              /\ call[t].pc \in {"close", "pobj_rename"} => call[t].h # k
    BY <1>0 DEF CoreType
  <1> QED
    BY <1>1, <1>2, <1>3, DiskStays

LEMMA DiskDel ==
    ASSUME ReeFsInv, ReeFsInv', DiskInv, NEW t \in Threads, storage_obj_del(t)
    PROVE  DiskInv'
  <1>1. PICK h \in Handles :
           /\ Uses(t, h)
           /\ call' = [call EXCEPT ![t] =
                 [Idle EXCEPT !.pc = "remove", !.po = obj[h].po, !.h = h]]
    BY DEF storage_obj_del
  <1>2. PICK c : c = [Idle EXCEPT !.pc = "remove", !.po = obj[h].po, !.h = h]
    OBVIOUS
  <1>3. c.pc = "remove" /\ call' = [call EXCEPT ![t] = c]
    BY <1>1, <1>2 DEF Idle
  <1>4. UNCHANGED <<setup, disk, pobj, obj, panicked>> /\ call[t].pc = "idle"
    BY <1>1 DEF storage_obj_del, Uses
  <1> QED
    BY <1>3, <1>4, DiskQuiet

\* The tree of a handle is closed.
LEMMA DiskHandleClosed ==
    ASSUME ReeFsInv, ReeFsInv', DiskInv, NEW t \in Threads, NEW h \in Handles, Uses(t, h),
           NEW o, HandleNow(t, h, o), o.fh = [obj[h].fh EXCEPT !.ht = FALSE], o.failed = TRUE,
           UNCHANGED <<setup, disk, pobj, call, panicked>>
    PROVE  DiskInv'
  <1>0. obj \in [Handles -> ObjType \cup {NULL}] /\ obj[h] # NULL /\ obj[h].own = t
        /\ obj[h].fh \in FileType
    BY UsesFacts DEF ReeFsInv, CoreType
  <1>1. /\ obj'[h] = o /\ o.own = t /\ o.po = obj[h].po /\ o.flags = obj[h].flags
        /\ \A k \in Handles \ {h} : obj'[k] = obj[k]
    BY <1>0 DEF HandleNow
  <1>2. /\ o.fh.ino = obj[h].fh.ino /\ o.fh.idx = obj[h].fh.idx /\ o.fh.f = obj[h].fh.f
        /\ ~o.fh.ht
    BY <1>0 DEF FileType
  <1>3. ASSUME NEW k \in Handles, Live(k)'
        PROVE  /\ Live(k) /\ NameOf(k)' = NameOf(k) /\ obj'[k].po = obj[k].po
               /\ obj'[k].fh.ino = obj[k].fh.ino
               /\ FileFor(setup', obj'[k], NameOf(k)', disk')
    <2>1. Live(k)
      BY <1>0, <1>1, <1>3 DEF Live, Closing
    <2>2. obj'[k].po = obj[k].po /\ obj'[k].own = obj[k].own /\ obj'[k].fh.ino = obj[k].fh.ino
      BY <1>0, <1>1, <1>2
    <2>3. NameOf(k)' = NameOf(k)
      BY <2>2 DEF NameOf, NameIn
    <2>4. FileFor(setup, obj[k], NameOf(k), disk)
      BY <2>1 DEF DiskInv, FilesFor
    <2>5. CASE k = h
      BY <1>1, <1>2, <2>1, <2>2, <2>3, <2>4, <2>5 DEF FileFor, Linked, Orphan
    <2>6. CASE k # h
      BY <1>1, <2>1, <2>2, <2>3, <2>4, <2>6
    <2> QED
      BY <2>5, <2>6
  <1>4. FilesFor'
    BY <1>3, FilesForNext
  <1>5. SameFile'
    <2>1. \A k, l \in Handles :
             Live(k)' /\ Live(l)' /\ obj'[k].fh.ino = obj'[l].fh.ino => obj'[k].po = obj'[l].po
      BY <1>3 DEF DiskInv, SameFile
    <2> QED
      BY <2>1, SameFileNext
  <1> QED
    BY <1>4, <1>5, DiskSame, DiskNext

LEMMA DiskCorrupted ==
    ASSUME ReeFsInv, ReeFsInv', UseInv, DiskInv, NEW t \in Threads,
           storage_obj_read(t) \/ ree_fs_write_closed(t)
    PROVE  DiskInv'
  <1>0. FilesFor
    BY DEF DiskInv
  <1>a. CASE \E h \in Handles : \E o : Uses(t, h) /\ ReadFails(t, h, o) /\ storage_obj_read(t)
    BY <1>0, <1>a, ReadCases, DiskHandleClosed DEF ReadFails
  <1>b. \/ \E h \in Handles : \E o : Uses(t, h) /\ ReadFails(t, h, o) /\ storage_obj_read(t)
        \/ \E h \in Handles : Uses(t, h) /\ Corrupted(t, h) /\ obj' = obj
    BY <1>0, ReadCases DEF ReadClosed, ree_fs_write_closed
  <1> SUFFICES ASSUME \E h \in Handles : Uses(t, h) /\ Corrupted(t, h) /\ obj' = obj
               PROVE  DiskInv'
    BY <1>a, <1>b
  <1>1. obj' = obj
    OBVIOUS
  <1>2. PICK h \in Handles : Uses(t, h) /\ Corrupted(t, h)
    OBVIOUS
  <1>3. PICK c : c = [Idle EXCEPT !.pc = "remove_corrupt", !.po = obj[h].po, !.h = h]
    OBVIOUS
  <1>4. c.pc = "remove_corrupt" /\ call' = [call EXCEPT ![t] = c] /\ call[t].pc = "idle"
    BY <1>2, <1>3 DEF Idle, Corrupted, Uses
  <1>5. UNCHANGED <<setup, disk, pobj, panicked>>
    BY DEF storage_obj_read, ree_fs_write_closed
  <1> QED
    BY <1>1, <1>4, <1>5, DiskQuiet

LEMMA DiskClose ==
    ASSUME ReeFsInv, ReeFsInv', DiskInv, NEW t \in Threads, tee_obj_close(t)
    PROVE  DiskInv'
  <1>1. PICK h \in Handles :
           /\ \/ call[t].pc = "idle"
              \/ call[t].pc = "close" /\ call[t].h = h
           /\ obj' = [obj EXCEPT ![h] = NULL]
           /\ call' = [call EXCEPT ![t] = [Idle EXCEPT !.pc = "release", !.po = obj[h].po]]
    BY DEF tee_obj_close
  <1>2. PICK c : c = [Idle EXCEPT !.pc = "release", !.po = obj[h].po]
    OBVIOUS
  <1>3. c.pc = "release" /\ call' = [call EXCEPT ![t] = c]
    BY <1>1, <1>2 DEF Idle
  <1>4. UNCHANGED <<setup, disk, pobj, panicked>>
    BY DEF tee_obj_close
  <1> QED
    BY <1>1, <1>3, <1>4, DiskQuiet

LEMMA DiskEnumSteps ==
    ASSUME ReeFsInv, ReeFsInv', DiskInv, NEW t \in Threads,
           \/ ree_fs_opendir(t) \/ ree_fs_readdir(t) \/ enum_open(t) \/ enum_close(t)
           \/ ree_fs_closedir(t)
    PROVE  DiskInv'
  <1>0. call \in [Threads -> CallType] /\ call[t] \in CallType
    BY DEF ReeFsInv, CoreType
  <1>1. /\ UNCHANGED <<setup, disk, pobj, obj, panicked>>
        /\ call[t].pc \in {"idle", "enum_open", "enum_close"}
    BY DEF ree_fs_opendir, ree_fs_readdir, enum_open, enum_close, ree_fs_closedir
  <1>2. \E c : call' = [call EXCEPT ![t] = c] /\ c.pc # "pobj_rename"
    <2>1. CASE UNCHANGED call
      <3>1. call' = [call EXCEPT ![t] = call[t]]
        BY <1>0, <2>1
      <3> QED
        BY <1>1, <3>1
    <2>2. ASSUME NEW n, call' = [call EXCEPT ![t] = [Idle EXCEPT !.pc = "enum_get", !.name = n]]
          PROVE  \E c : call' = [call EXCEPT ![t] = c] /\ c.pc # "pobj_rename"
      <3>1. PICK c : c = [Idle EXCEPT !.pc = "enum_get", !.name = n]
        OBVIOUS
      <3>2. c.pc = "enum_get"
        BY <3>1 DEF Idle
      <3> QED
        BY <2>2, <3>1, <3>2
    <2>3. ASSUME NEW pc, pc # "pobj_rename", NEW fh,
                 \/ call' = [call EXCEPT ![t].pc = pc, ![t].fh = fh]
                 \/ call' = [call EXCEPT ![t].pc = pc]
          PROVE  \E c : call' = [call EXCEPT ![t] = c] /\ c.pc # "pobj_rename"
      <3>1. PICK c, d : c = [call[t] EXCEPT !.pc = pc, !.fh = fh] /\ d = [call[t] EXCEPT !.pc = pc]
        OBVIOUS
      <3>2. c.pc = pc /\ d.pc = pc
        BY <1>0, <3>1 DEF CallType
      <3>3. \/ call' = [call EXCEPT ![t] = c]
            \/ call' = [call EXCEPT ![t] = d]
        BY <1>0, <2>3, <3>1
      <3> QED
        BY <2>3, <3>2, <3>3
    <2>4. CASE ree_fs_opendir(t) \/ ree_fs_closedir(t)
      BY <2>1, <2>4 DEF ree_fs_opendir, ree_fs_closedir
    <2>5. CASE ree_fs_readdir(t)
      BY <2>1, <2>2, <2>5 DEF ree_fs_readdir
    <2>6. CASE enum_open(t)
      BY <2>3, <2>6 DEF enum_open, Go
    <2>7. CASE enum_close(t)
      BY <2>3, <2>7 DEF enum_close
    <2> QED
      BY <2>4, <2>5, <2>6, <2>7
  <1> QED
    BY <1>1, <1>2, DiskQuiet

LEMMA DiskCreateFinal ==
    ASSUME ReeFsInv, ReeFsInv', DiskInv, NEW t \in Threads, tee_pobj_create_final(t)
    PROVE  DiskInv'
  <1>0. CoreType
    BY DEF ReeFsInv
  <1>1. /\ call[t].pc = "create_final" /\ call' = [call EXCEPT ![t] = Idle]
        /\ UNCHANGED <<setup, disk, obj, panicked>>
        /\ pobj' = pobj \/ pobj' = [pobj EXCEPT ![call[t].po].creating = FALSE]
    BY DEF tee_pobj_create_final, Return
  <1>2. call'[t] = Idle /\ \A u \in Threads \ {t} : call'[u] = call[u]
    BY <1>0, <1>1, CallStepFacts
  <1>3. \A p \in Pobjs : NameKept(p)
    <2> SUFFICES ASSUME NEW p \in Pobjs, pobj[p] # NULL, pobj'[p] # NULL
                 PROVE  pobj'[p].name = pobj[p].name
      BY DEF NameKept
    <2>1. pobj[p] \in PobjType
      BY <1>0 DEF CoreType
    <2>2. PICK r : r = [pobj[p] EXCEPT !.creating = FALSE]
      OBVIOUS
    <2>3. r.name = pobj[p].name
      BY <2>1, <2>2 DEF PobjType
    <2>4. pobj'[p] = pobj[p] \/ pobj'[p] = r
      BY <1>0, <1>1, <2>2 DEF CoreType
    <2> QED
      BY <2>3, <2>4
  <1> QED
    BY <1>1, <1>2, <1>3, DiskStays DEF Idle

LEMMA DiskRelease ==
    ASSUME ReeFsInv, ReeFsInv', DiskInv, NEW t \in Threads, tee_pobj_release(t)
    PROVE  DiskInv'
  <1>0. CoreType
    BY DEF ReeFsInv
  <1>1. /\ call[t].pc = "release" /\ call' = [call EXCEPT ![t] = Idle]
        /\ UNCHANGED <<setup, disk, obj, panicked>>
    BY DEF tee_pobj_release, Return
  <1>2. call'[t] = Idle /\ \A u \in Threads \ {t} : call'[u] = call[u]
    BY <1>0, <1>1, CallStepFacts
  <1>3. \A p \in Pobjs : NameKept(p)
    <2> SUFFICES ASSUME NEW p \in Pobjs, pobj[p] # NULL, pobj'[p] # NULL
                 PROVE  pobj'[p].name = pobj[p].name
      BY DEF NameKept
    <2>1. pobj[p] \in PobjType
      BY <1>0 DEF CoreType
    <2>2. PICK r : r = [pobj[p] EXCEPT !.refcnt = @ - 1]
      OBVIOUS
    <2>3. r.name = pobj[p].name
      BY <2>1, <2>2 DEF PobjType
    <2>4. pobj'[p] = pobj[p] \/ pobj'[p] = r
      BY <1>0, <2>2 DEF CoreType, tee_pobj_release
    <2> QED
      BY <2>3, <2>4
  <1> QED
    BY <1>1, <1>2, <1>3, DiskStays DEF Idle

LEMMA DiskPobjRename ==
    ASSUME ReeFsInv, ReeFsInv', UseInv, DiskInv, Careful(setup), NEW t \in Threads,
           tee_pobj_rename(t)
    PROVE  DiskInv'
  <1>0. /\ CoreType /\ UNCHANGED <<setup, disk, obj, panicked>>
        /\ call[t].pc = "pobj_rename" /\ Go(t, "release")
    BY DEF ReeFsInv, tee_pobj_rename
  <1>1. PICK h, p, q : h = call[t].h /\ p = obj[h].po /\ q = call[t].po
    OBVIOUS
  <1>2. /\ p \in Pobjs /\ AloneAt(p) /\ pobj'[p].name = pobj[q].name
        /\ \A r \in Pobjs \ {p} : pobj'[r] = pobj[r]
    BY <1>1, PobjRenamed
  <1>3. h \in Handles /\ obj[h] # NULL /\ obj[h].own = t /\ HasPobj(obj[h], p)
    BY <1>0, <1>1, RenameFacts DEF HasPobj
  <1>4. PICK c : call' = [call EXCEPT ![t] = c] /\ c.pc = "release"
    BY <1>0, GoAll
  <1>5. call'[t] = c /\ \A u \in Threads \ {t} : call'[u] = call[u]
    BY <1>0, <1>4, CallStepFacts
  <1>6. ASSUME NEW k \in Handles, Live(k)'
        PROVE  Live(k) /\ NameOf(k)' = NameOf(k)
    <2>0. obj'[k] = obj[k] /\ obj[k] # NULL /\ ~Closing(k)'
      BY <1>0, <1>6 DEF Live
    <2>1. CASE k = h
      <3>1. ~Closing(h)
        BY <1>0, <1>5, <2>0, <2>1 DEF Closing
      <3>2. NameOf(h) = pobj[q].name
        BY <1>0, <1>1, <1>3 DEF NameOf, NameIn
      <3>3. NameOf(h)' = pobj'[p].name
        BY <1>0, <1>1, <1>3, <1>4, <1>5 DEF NameOf, NameIn
      <3> QED
        BY <1>2, <2>0, <2>1, <3>1, <3>2, <3>3 DEF Live
    <2>2. CASE k # h
      <3>1. obj[k].po # p /\ obj[k].po \in Pobjs
        BY <1>2, <1>3, <2>0, <2>2, HandleThere DEF AloneAt
      <3>2. ASSUME NEW u \in Threads \ {t}, call[u].pc = "pobj_rename"
            PROVE  NameKept(call[u].po)
        <4>1. UserOf(call[u], call[u].po) /\ call[u].po \in Pobjs
          BY <3>2, AloneRename DEF Renaming
        <4>2. call[u].po # p
          BY <1>2, <1>3, <4>1 DEF AloneAt
        <4> QED
          BY <1>2, <4>1, <4>2 DEF NameKept
      <3>3. NameKept(obj[k].po)
        BY <1>2, <3>1 DEF NameKept
      <3> QED
        BY <1>1, <1>4, <1>5, <1>6, <2>0, <2>2, <3>2, <3>3, LiveKept
    <2> QED
      BY <2>1, <2>2
  <1>7. FilesFor'
    <2>1. \A k \in Handles : Live(k)' => FileFor(setup', obj'[k], NameOf(k)', disk')
      BY <1>0, <1>6 DEF DiskInv, FilesFor
    <2> QED
      BY <2>1, FilesForNext
  <1>8. SameFile'
    <2>1. \A k, l \in Handles :
             Live(k)' /\ Live(l)' /\ obj'[k].fh.ino = obj'[l].fh.ino => obj'[k].po = obj'[l].po
      BY <1>0, <1>6 DEF DiskInv, SameFile
    <2> QED
      BY <2>1, SameFileNext
  <1> QED
    BY <1>0, <1>7, <1>8, DiskSame, DiskNext

\* Call t goes on: handle k is as it was.
LEMMA QuietKept ==
    ASSUME ReeFsInv, ReeFsInv', NEW t \in Threads, NEW c, Quiet(t, c),
           NEW k \in Handles, obj'[k] = obj[k], Live(k)',
           c.pc = "pobj_rename" => c.h # k,
           call[t].pc \in {"close", "pobj_rename"} => call[t].h # k
    PROVE  Live(k) /\ NameOf(k)' = NameOf(k)
  <1>1. call'[t] = c /\ (\A u \in Threads \ {t} : call'[u] = call[u]) /\ pobj' = pobj
    BY CallStepFacts DEF Quiet, ReeFsInv
  <1>2. \A p : NameKept(p)
    BY <1>1 DEF NameKept
  <1> QED
    BY <1>1, <1>2, LiveKept

\* Handle h is o after the step.
Filled(h, o) == obj' = [obj EXCEPT ![h] = o]

LEMMA FilledFacts ==
    ASSUME ReeFsInv, NEW t \in Threads, NEW c, Quiet(t, c), c.pc # "pobj_rename",
           NEW h \in Handles, NEW o, o.own = t, Filled(h, o)
    PROVE  /\ \A k \in Handles \ {h} : obj'[k] = obj[k]
           /\ obj'[h] = o /\ NameOf(h)' = pobj[o.po].name
  <1>1. obj'[h] = o /\ \A k \in Handles \ {h} : obj'[k] = obj[k]
    BY DEF ReeFsInv, CoreType, Filled
  <1>2. call'[t] = c /\ pobj' = pobj
    BY CallStepFacts DEF Quiet, ReeFsInv
  <1>3. NameOf(h)' = pobj[o.po].name
    BY <1>1, <1>2 DEF NameOf, NameIn
  <1> QED
    BY <1>1, <1>3

LEMMA DiskLost ==
    ASSUME NEW d, LosePower(d), FilesApart(d), EntriesRead(d), panicked' = FALSE
    PROVE  DiskInv'
  <1>1. (\A h \in Handles : obj'[h] = NULL) /\ disk' = d
    BY DEF LosePower, Volatile
  <1>2. FilesFor' /\ SameFile'
    BY <1>1 DEF FilesFor, SameFile, Live
  <1>3. FilesApart(disk') /\ EntriesRead(disk')
    BY <1>1
  <1> QED
    BY <1>2, <1>3, DiskNext

\* The file of a handle that has an inode with a number is the file of its entry.
LEMMA FileLinked ==
    ASSUME ReeFsInv, DiskInv, NEW k \in Handles, Live(k), NEW f \in Numbers,
           disk.files[f] = obj[k].fh.ino
    PROVE  /\ Linked(disk, obj[k].fh) /\ obj[k].fh.f = f /\ disk.dirf[obj[k].fh.idx].f = f
           /\ obj[k].fh.idx \in Used(disk.dirf)
           /\ disk.dirf[obj[k].fh.idx].name = NameOf(k)
  <1>1. FileFor(setup, obj[k], NameOf(k), disk)
    BY DEF DiskInv, FilesFor
  <1>2. Linked(disk, obj[k].fh)
    BY <1>1 DEF FileFor, Orphan
  <1>3. obj[k].fh \in FileType
    BY HandleThere DEF Live
  <1>4. obj[k].fh.f \in Numbers /\ obj[k].fh.ino # NULL
    BY <1>3, ReeFsAssumption DEF FileType, Inodes
  <1>5. obj[k].fh.f = f
    BY <1>2, <1>4 DEF Linked, DiskInv, FilesApart
  <1> QED
    BY <1>1, <1>2, <1>5 DEF FileFor, Linked

LEMMA DiskOpen ==
    ASSUME ReeFsInv, ReeFsInv', UseInv, DiskInv, NEW t \in Threads, ree_fs_open(t)
    PROVE  DiskInv'
  <1>0. CoreType /\ StorageOK /\ EntriesRead(disk)
    BY DEF ReeFsInv, DiskInv
  <1>1. call[t].pc = "open" /\ UNCHANGED <<setup, disk, pobj, panicked>>
    BY DEF ree_fs_open
  <1>2. ~IsCorrupt(t)
    BY <1>0, NotCorrupt
  <1>3. CASE Go(t, "release") /\ obj' = obj
    <2>1. PICK c : call' = [call EXCEPT ![t] = c] /\ c.pc = "release"
      BY <1>0, <1>3, GoAll
    <2> QED
      BY <1>1, <1>3, <2>1, DiskQuiet
  <1>4. ASSUME NEW fh \in Opened(t), NEW h \in Handles, FreeHandle(h), NEW o,
               o = [own |-> t, po |-> call[t].po, fh |-> fh, flags |-> call[t].flags,
                    failed |-> FALSE],
               obj' = [obj EXCEPT ![h] = o], Return(t)
        PROVE  DiskInv'
    <2>0. PICK n, i : n = pobj[call[t].po].name /\ i = FoundAt(t)
      OBVIOUS
    <2>1. PICK v : /\ fh = FileAt(i, v) /\ i # 0
                   /\ v \in Versions(disk, disk.dirf[i].f, disk.dirf[i].hash)
      BY <1>4, <2>0 DEF Opened
    <2>2. i \in Used(disk.dirf) /\ disk.dirf[i].name = n /\ disk.dirf[i].f \in Numbers
      BY <1>0, <2>0, <2>1, StorageFacts, FindFacts, DentFacts DEF FoundAt
    <2>3. /\ fh.idx = i /\ fh.f = disk.dirf[i].f /\ fh.ino = disk.files[fh.f]
          /\ fh.slot = v /\ fh.hash = disk.dirf[i].hash
      BY <2>1 DEF FileAt
    <2>4. disk.data[fh.ino][v] = fh.hash
      BY <2>1, <2>3 DEF Versions
    <2>5. o.own = t /\ o.po = call[t].po /\ o.fh = fh /\ o.failed = FALSE
      BY <1>4
    <2>6. FileFor(setup, o, n, disk)
      BY <2>2, <2>3, <2>4, <2>5 DEF FileFor, Linked
    <2>a. Idle.pc # "pobj_rename"
      BY DEF Idle
    <2>7. PICK c : Quiet(t, c) /\ c.pc # "pobj_rename"
      BY <1>1, <1>4, <2>a DEF Quiet, Return
    <2>8. /\ \A k \in Handles \ {h} :
                obj'[k] = obj[k] /\ (Live(k)' => Live(k) /\ NameOf(k)' = NameOf(k))
          /\ obj'[h] = o /\ NameOf(h)' = n
      <3>1. o.own = t /\ Filled(h, o) /\ call[t].pc \in {"open", "create"}
        BY <1>1, <1>4, <2>5 DEF Filled
      <3>2. /\ \A k \in Handles \ {h} : obj'[k] = obj[k]
            /\ obj'[h] = o /\ NameOf(h)' = pobj[o.po].name
        BY <2>7, <3>1, FilledFacts
      <3>3. ASSUME NEW k \in Handles \ {h}, Live(k)'
            PROVE  Live(k) /\ NameOf(k)' = NameOf(k)
        BY <2>7, <3>1, <3>2, <3>3, QuietKept
      <3> QED
        BY <2>0, <2>5, <3>2, <3>3
    <2>9. FilesFor'
      <3>1. \A k \in Handles : Live(k)' => FileFor(setup', obj'[k], NameOf(k)', disk')
        BY <1>1, <2>6, <2>8 DEF DiskInv, FilesFor
      <3> QED
        BY <3>1, FilesForNext
    <2>10. SameFile'
      <3>1. ASSUME NEW k \in Handles \ {h}, Live(k)', obj'[k].fh.ino = fh.ino
            PROVE  obj'[k].po = call[t].po
        <4>1. Live(k) /\ obj'[k] = obj[k] /\ obj[k] # NULL
          BY <2>8, <3>1 DEF Live
        <4>2. PICK f \in Numbers : f = disk.dirf[i].f
          BY <2>2
        <4>3. disk.files[f] = obj[k].fh.ino
          BY <2>3, <3>1, <4>1, <4>2
        <4>4. /\ disk.dirf[obj[k].fh.idx].f = f /\ obj[k].fh.idx \in Used(disk.dirf)
              /\ disk.dirf[obj[k].fh.idx].name = NameOf(k)
          BY <4>1, <4>3, FileLinked
        <4>5. obj[k].fh.idx = i
          BY <1>0, <2>2, <4>2, <4>4, StorageFacts DEF DirfOK
        <4>6. NameOf(k) = pobj[call[t].po].name
          BY <2>0, <2>2, <4>4, <4>5
        <4> QED
          BY <1>1, <4>1, <4>6, NameOpening
      <3>2. \A k, l \in Handles :
               Live(k)' /\ Live(l)' /\ obj'[k].fh.ino = obj'[l].fh.ino => obj'[k].po = obj'[l].po
        <4> SUFFICES ASSUME NEW k \in Handles, NEW l \in Handles, Live(k)', Live(l)',
                            obj'[k].fh.ino = obj'[l].fh.ino
                     PROVE  obj'[k].po = obj'[l].po
          OBVIOUS
        <4>1. CASE k = h \/ l = h
          BY <2>5, <2>8, <3>1, <4>1
        <4>2. CASE k # h /\ l # h
          BY <2>8, <4>2 DEF DiskInv, SameFile
        <4> QED
          BY <4>1, <4>2
      <3> QED
        BY <3>2, SameFileNext
    <2> QED
      BY <1>1, <2>9, <2>10, DiskSame, DiskNext
  <1>5. CASE Go(t, "remove_corrupt") /\ obj' = obj
    <2>1. PICK c : call' = [call EXCEPT ![t] = c] /\ c.pc = "remove_corrupt"
      BY <1>0, <1>5, GoAll
    <2> QED
      BY <1>1, <1>5, <2>1, DiskQuiet
  <1> QED
    BY <1>2, <1>3, <1>4, <1>5 DEF ree_fs_open

-----------------------------------------------------------------------------
(* Creating a file *)

LEMMA NewInodeFree ==
    ASSUME StorageOK, CoreType, FilesOK, NEW f \in Numbers, disk.files[f] = NULL
    PROVE  NewInode(f) \notin InUse
  <1>1. tx + 1 \in Inodes /\ tx + 1 # NULL /\ tx \in Nat
    BY StorageFacts, ReeFsAssumption DEF Inodes
  <1>2. tx + 1 \notin {disk.files[g] : g \in Numbers}
    <2>1. \A g \in Numbers : disk.files[g] # NULL => disk.files[g] <= tx
      BY StorageFacts DEF DiskOK
    <2> QED
      BY <1>1, <2>1
  <1>3. ASSUME NEW fh \in OpenFiles \ {NULL}
        PROVE  fh.ino # tx + 1
    <2>1. FileOK(fh, tx)
      BY <1>3 DEF OpenFiles, FilesOK
    <2>2. fh.ino <= tx
      BY <1>3, <2>1 DEF FileOK
    <2> QED
      BY <1>1, <2>2
  <1>4. tx + 1 \notin InUse \cup {NULL}
    BY <1>1, <1>2, <1>3 DEF InUse
  <1>5. PICK s : s = Inodes \ (InUse \cup {NULL})
    OBVIOUS
  <1>6. s \in SUBSET Nat /\ s # {}
    BY <1>1, <1>4, <1>5 DEF Inodes
  <1>7. NewInode(f) = Min(s)
    BY <1>5 DEF NewInode
  <1>8. Min(s) \in s
    BY <1>6, MinIsLeast
  <1> QED
    BY <1>5, <1>7, <1>8

\* Number f and inode i are of no entry and of no open file.
Unused(f, i) ==
    /\ f \in Numbers /\ f \notin Numbered(disk.dirf) /\ i \in Inodes
    /\ \A g \in Numbers \ {f} : disk.files[g] # i
    /\ \A k \in Handles : Live(k) => obj[k].fh.ino # i

LEMMA NewUnused ==
    ASSUME ReeFsInv, DiskInv, NEW f, NEW i, f = TmpNumber, i = NewInode(f)
    PROVE  Unused(f, i)
  <1>0. StorageOK /\ CoreType /\ FilesOK
    BY DEF ReeFsInv
  <1>1. f \in Numbers /\ f \notin Numbered(disk.dirf)
    BY <1>0, TmpFacts, StorageFacts DEF BitsOK
  <1>2. i \in Inodes
    BY <1>0, <1>1, InodeFacts
  <1>3. CASE disk.files[f] # NULL
    <2>1. i = disk.files[f]
      BY <1>3 DEF NewInode
    <2>2. \A g \in Numbers \ {f} : disk.files[g] # i
      BY <1>1, <1>3, <2>1 DEF DiskInv, FilesApart
    <2>3. ASSUME NEW k \in Handles, Live(k) PROVE obj[k].fh.ino # i
      <3> SUFFICES ASSUME obj[k].fh.ino = i PROVE FALSE
        OBVIOUS
      <3>1. /\ disk.dirf[obj[k].fh.idx].f = f /\ obj[k].fh.idx \in Used(disk.dirf)
        BY <1>1, <2>1, <2>3, FileLinked
      <3> QED
        BY <1>1, <3>1 DEF Numbered
    <2> QED
      BY <1>1, <1>2, <2>2, <2>3 DEF Unused
  <1>4. CASE disk.files[f] = NULL
    <2>1. i \notin InUse
      BY <1>0, <1>1, <1>4, NewInodeFree
    <2>2. \A g \in Numbers : disk.files[g] # i
      BY <2>1 DEF InUse
    <2>3. ASSUME NEW k \in Handles, Live(k) PROVE obj[k].fh.ino # i
      <3>1. obj[k] # NULL /\ obj[k].fh \in FileType
        BY <2>3, HandleThere DEF Live
      <3>2. obj[k].fh \in OpenFiles \ {NULL}
        BY <3>1, ReeFsAssumption DEF OpenFiles
      <3> QED
        BY <2>1, <3>2 DEF InUse
    <2> QED
      BY <1>1, <1>2, <2>2, <2>3 DEF Unused
  <1> QED
    BY <1>3, <1>4

\* Disk e has the files of the disk; f may have a file i, those of G may be gone.
Grown(e, f, i, G) ==
    /\ \A g \in Numbers \ {f} : e.files[g] = disk.files[g] \/ (g \in G /\ e.files[g] = NULL)
    /\ e.files[f] \in {i, NULL}
    /\ \A j \in Inodes \ {i} : e.data[j] = disk.data[j]

LEMMA GrownApart ==
    ASSUME FilesApart(disk), NEW f, NEW i, Unused(f, i), NEW e, NEW G, Grown(e, f, i, G)
    PROVE  FilesApart(e)
  <1> SUFFICES ASSUME NEW g \in Numbers, NEW h \in Numbers, e.files[g] # NULL,
                      e.files[g] = e.files[h]
               PROVE  g = h
    BY DEF FilesApart
  <1>1. f \in Numbers /\ \A x \in Numbers \ {f} : disk.files[x] # i
    BY DEF Unused
  <1>2. \A x \in Numbers \ {f} : e.files[x] # NULL => e.files[x] = disk.files[x]
    BY DEF Grown
  <1>3. e.files[f] # NULL => e.files[f] = i
    BY DEF Grown
  <1> QED
    BY <1>1, <1>2, <1>3 DEF FilesApart

\* An entry whose file is not touched can still be read.
LEMMA GrownEntry ==
    ASSUME StorageOK, EntriesRead(disk), NEW f, NEW i, Unused(f, i), NEW e, NEW G,
           Grown(e, f, i, G), NEW j \in Used(disk.dirf), disk.dirf[j].f \notin G
    PROVE  Versions(e, disk.dirf[j].f, disk.dirf[j].hash) # {}
  <1>1. PICK g, x : g = disk.dirf[j].f /\ x = disk.dirf[j].hash
    OBVIOUS
  <1>2. g \in Numbers /\ g # f /\ disk \in DiskType
    BY <1>1, StorageFacts, DentFacts DEF Unused, Numbered
  <1>3. PICK v : v \in Versions(disk, g, x)
    BY <1>1 DEF EntriesRead
  <1>4. disk.files[g] # NULL /\ v \in Vers /\ disk.data[disk.files[g]][v] = x
    BY <1>3 DEF Versions
  <1>5. disk.files[g] \in Inodes /\ disk.files[g] # i
    BY <1>2, <1>4 DEF DiskType, Unused
  <1>6. e.files[g] = disk.files[g] /\ e.data[disk.files[g]] = disk.data[disk.files[g]]
    BY <1>1, <1>2, <1>5 DEF Grown
  <1>7. v \in Versions(e, g, x)
    BY <1>4, <1>6 DEF Versions
  <1> QED
    BY <1>1, <1>7

LEMMA GrownReads ==
    ASSUME StorageOK, EntriesRead(disk), NEW f, NEW i, Unused(f, i), NEW e, Grown(e, f, i, {}),
           e.dirf = disk.dirf
    PROVE  EntriesRead(e)
  BY GrownEntry DEF EntriesRead

\* So is the file of a handle, if its entry is the same.
LEMMA GrownFile ==
    ASSUME ReeFsInv, NEW f, NEW i, Unused(f, i), NEW e, NEW G, Grown(e, f, i, G),
           NEW k \in Handles, Live(k), FileFor(setup, obj[k], NameOf(k), disk),
           obj[k].fh.idx \in Used(e.dirf), e.dirf[obj[k].fh.idx] = disk.dirf[obj[k].fh.idx],
           disk.dirf[obj[k].fh.idx].f \notin G
    PROVE  FileFor(setup, obj[k], NameOf(k), e)
  <1>1. PICK o, fh : o = obj[k] /\ fh = o.fh
    OBVIOUS
  <1>2. fh \in FileType
    BY <1>1, HandleThere DEF Live
  <1>3. fh.ino \in Inodes /\ fh.ino # NULL /\ fh.f \in Numbers /\ fh.ino # i
    BY <1>1, <1>2, ReeFsAssumption DEF FileType, Inodes, Unused
  <1>4. /\ fh.idx \in Used(disk.dirf) /\ disk.dirf[fh.idx].name = NameOf(k)
        /\ Linked(disk, fh) \/ Orphan(disk, o)
        /\ fh.ht => disk.data[fh.ino][fh.slot] = fh.hash
        /\ "write" \in o.flags /\ fh.ht /\ (o.failed => setup.retry) =>
              disk.dirf[fh.idx].hash = fh.hash
    BY <1>1 DEF FileFor
  <1>5. e.data[fh.ino] = disk.data[fh.ino]
    BY <1>3 DEF Grown
  <1>6. ASSUME Linked(disk, fh) PROVE Linked(e, fh)
    <2>1. disk.dirf[fh.idx].f = fh.f /\ disk.files[fh.f] = fh.ino /\ fh.f \notin G
      BY <1>1, <1>6 DEF Linked
    <2>2. fh.f # f
      BY <1>4, <2>1 DEF Unused, Numbered
    <2>3. e.files[fh.f] = disk.files[fh.f]
      BY <1>3, <2>1, <2>2 DEF Grown
    <2> QED
      BY <1>1, <2>1, <2>3 DEF Linked
  <1>7. ASSUME Orphan(disk, o) PROVE Orphan(e, o)
    <2>1. ASSUME NEW g \in Numbers PROVE e.files[g] # fh.ino
      <3>1. e.files[g] \in {disk.files[g], NULL, i}
        BY DEF Grown
      <3>2. disk.files[g] # fh.ino
        BY <1>1, <1>7 DEF Orphan
      <3> QED
        BY <1>3, <3>1, <3>2
    <2> QED
      BY <1>1, <1>7, <2>1 DEF Orphan
  <1>8. FileFor(setup, o, NameOf(k), e)
    BY <1>1, <1>4, <1>5, <1>6, <1>7 DEF FileFor
  <1> QED
    BY <1>1, <1>8

\* The readers of a file that is replaced share it for reading.
LEMMA SharedReaders ==
    ASSUME ReeFsInv, UseInv, Careful(setup), NEW t \in Threads, call[t].pc \in {"open", "create"},
           NEW k \in Handles, obj[k] # NULL, obj[k].po = call[t].po
    PROVE  /\ "write" \notin obj[k].flags /\ "meta" \notin obj[k].flags
           /\ call[t].over => "remove" \notin Faults
  <1>1. PICK p, fl : p = call[t].po /\ fl = obj[k].flags
    OBVIOUS
  <1>2. p \in Pobjs /\ UserOf(call[t], p) /\ (call[t].over => "overwrite" \in setup.calls)
    BY <1>1, OpeningFacts
  <1>3. HasPobj(obj[k], p) /\ pobj[p] # NULL
    BY <1>1, HandleThere
  <1>4. Sharable(pobj[p].flags)
    BY <1>2, <1>3 DEF UseInv, Alone, AloneAt
  <1>5. fl \in setup.flags /\ Fits(pobj[p].flags, fl)
    BY <1>1 DEF UseInv, HandlesFor, HandleFor
  <1>6. Sharable(fl)
    BY <1>4, <1>5, FitsShare DEF Sharable
  <1>7. ~SharedWrite(fl)
    BY <1>5 DEF Careful, SharedWrite
  <1>8. "write" \notin fl /\ "meta" \notin fl
    BY <1>4, <1>5, <1>7, FitsAlone
  <1>9. call[t].over => "remove" \notin Faults
    BY <1>2, <1>5, <1>6 DEF Careful, Faults
  <1> QED
    BY <1>1, <1>8, <1>9

LEMMA CreatedDisk ==
    ASSUME ReeFsInv, NEW f, NEW i, f = TmpNumber, i = NewInode(f)
    PROVE  /\ Created \in [dirf : {disk.dirf}, files : [Numbers -> Inodes \cup {NULL}],
                           data : [Inodes -> [Vers -> Int]]]
           /\ Created.dirf = disk.dirf /\ Created.files[f] = i /\ Created.data[i][0] = tx + 1
           /\ Grown(Created, f, i, {})
  <1>0. StorageOK /\ CoreType /\ FilesOK
    BY DEF ReeFsInv
  <1>1. disk \in DiskType /\ f \in Numbers /\ i \in Inodes /\ tx \in Nat
    BY <1>0, StorageFacts, TmpFacts, InodeFacts
  <1>2. PICK x : x = [NoFile EXCEPT ![0] = tx + 1]
    OBVIOUS
  <1>3. x[0] = tx + 1 /\ x \in [Vers -> Int]
    BY <1>1, <1>2 DEF NoFile, Vers, Bad
  <1>4. PICK e : e = [disk EXCEPT !.files[f] = i, !.data[i] = x]
    OBVIOUS
  <1>5. /\ e.dirf = disk.dirf /\ e.files = [disk.files EXCEPT ![f] = i]
        /\ e.data = [disk.data EXCEPT ![i] = x]
        /\ e \in [dirf : {disk.dirf}, files : [Numbers -> Inodes \cup {NULL}],
                  data : [Inodes -> [Vers -> Int]]]
    <2>1. disk.files \in [Numbers -> Inodes \cup {NULL}]
      BY <1>1 DEF DiskType
    <2>2. disk.data \in [Inodes -> [Vers -> Int]]
      BY <1>1, ReeFsAssumption DEF DiskType
    <2>3. /\ [disk.files EXCEPT ![f] = i] \in [Numbers -> Inodes \cup {NULL}]
          /\ [disk.data EXCEPT ![i] = x] \in [Inodes -> [Vers -> Int]]
      BY <1>1, <1>3, <2>1, <2>2
    <2>4. e = [dirf |-> disk.dirf, files |-> [disk.files EXCEPT ![f] = i],
               data |-> [disk.data EXCEPT ![i] = x]]
      BY <1>1, <1>4 DEF DiskType
    <2> QED
      BY <2>3, <2>4
  <1>6. e.files[f] = i /\ e.data[i][0] = tx + 1
    BY <1>1, <1>3, <1>5 DEF DiskType
  <1>7. Grown(e, f, i, {})
    BY <1>1, <1>5 DEF DiskType, Grown
  <1>8. Created = e
    BY <1>2, <1>4 DEF Created, CreatedFile
  <1> QED
    BY <1>5, <1>6, <1>7, <1>8

\* A file is removed, or not.
LEMMA RemovedDisk ==
    ASSUME NEW d, "files" \in DOMAIN d, d.files \in [Numbers -> Inodes \cup {NULL}],
           NEW g \in Numbers, NEW e, e \in Removed(d, g)
    PROVE  /\ e.dirf = d.dirf /\ e.data = d.data
           /\ \A h \in Numbers \ {g} : e.files[h] = d.files[h]
           /\ e.files[g] \in {d.files[g], NULL}
           /\ "remove" \notin Faults => e.files[g] = NULL
  <1>1. PICK x : x = [d EXCEPT !.files[g] = NULL]
    OBVIOUS
  <1>2. x.dirf = d.dirf /\ x.data = d.data /\ x.files = [d.files EXCEPT ![g] = NULL]
    BY <1>1
  <1>3. e = x \/ (e = d /\ "remove" \in Faults)
    BY <1>1 DEF Removed
  <1> QED
    BY <1>2, <1>3

LEMMA NewDirfFacts ==
    ASSUME ReeFsInv, tx < MaxTx, NEW n \in Names, NEW d, NEW g, d = disk.dirf, g = NewDirf(n)
    PROVE  /\ NewIdx(n) \in Used(g) /\ g[NewIdx(n)] = NewDent(n)
           /\ \A j \in Used(d) \ {NewIdx(n)} : j \in Used(g) /\ g[j] = d[j]
           /\ \A j \in Used(g) \ {NewIdx(n)} : j \in Used(d) /\ g[j] = d[j]
           /\ NewIdx(n) \in Used(d) <=> Find(d, n) # 0
           /\ Find(d, n) # 0 => NewIdx(n) = Find(d, n)
  <1>0. StorageOK
    BY DEF ReeFsInv
  <1>1. d \in Seq(DentType)
    BY <1>0, StorageFacts
  <1>2. PICK i, e : i = NewIdx(n) /\ e = NewDent(n)
    OBVIOUS
  <1>3. e.name # NULL
    BY <1>2, ReeFsAssumption DEF NewDent
  <1>4. /\ i \in 1 .. Len(d) + 1
        /\ i \in Used(d) <=> Find(d, n) # 0
        /\ Find(d, n) # 0 => i = Find(d, n)
    <2>1. CASE Find(d, n) # 0
      <3>1. i = Find(d, n) /\ i \in Used(d)
        BY <1>1, <1>2, <2>1, FindFacts DEF NewIdx
      <3> QED
        BY <1>1, <2>1, <3>1, DentFacts
    <2>2. CASE Find(d, n) = 0
      <3>1. i = EmptyIdx(d)
        BY <1>2, <2>2 DEF NewIdx
      <3> QED
        BY <1>1, <2>2, <3>1, EmptyFacts
    <2> QED
      BY <2>1, <2>2
  <1>5. DOMAIN d = 1 .. Len(d) /\ Len(d) \in Nat /\ Used(d) \subseteq 1 .. Len(d)
    BY <1>1, DentFacts
  <1>6. /\ i \in DOMAIN g /\ g[i] = e
        /\ \A j : j # i => (j \in DOMAIN g <=> j \in DOMAIN d) /\ (j \in DOMAIN d => g[j] = d[j])
    <2>1. CASE i > Len(d)
      <3>1. g = Append(d, e) /\ i = Len(d) + 1
        BY <1>2, <1>4, <1>5, <2>1 DEF NewDirf, WriteDent
      <3>2. Len(g) = Len(d) + 1 /\ DOMAIN g = 1 .. Len(d) + 1
            /\ \A k \in 1 .. Len(d) + 1 : g[k] = IF k <= Len(d) THEN d[k] ELSE e
        BY <1>1, <1>5, <3>1
      <3>3. i \in DOMAIN g /\ g[i] = e
        BY <1>5, <3>1, <3>2
      <3>4. ASSUME NEW j, j # i
            PROVE  (j \in DOMAIN g <=> j \in DOMAIN d) /\ (j \in DOMAIN d => g[j] = d[j])
        BY <1>5, <3>1, <3>2, <3>4
      <3> QED
        BY <3>3, <3>4
    <2>2. CASE ~(i > Len(d))
      <3>1. g = [d EXCEPT ![i] = e] /\ i \in 1 .. Len(d)
        BY <1>2, <1>4, <1>5, <2>2 DEF NewDirf, WriteDent
      <3> QED
        BY <1>5, <3>1
    <2> QED
      BY <2>1, <2>2
  <1>7. i \in Used(g)
    BY <1>3, <1>6 DEF Used
  <1>8. /\ \A j \in Used(d) \ {i} : j \in Used(g) /\ g[j] = d[j]
        /\ \A j \in Used(g) \ {i} : j \in Used(d) /\ g[j] = d[j]
    BY <1>6 DEF Used
  <1> QED
    BY <1>2, <1>4, <1>6, <1>7, <1>8

LEMMA CarefulOutcome ==
    ASSUME Careful(setup), NEW c \in CommitOutcomes
    PROVE  /\ c.failed => ~c.done /\ ("commit" \in Faults \/ "fetch" \in Faults)
           /\ ~c.failed => c.done
           /\ c.failed \in BOOLEAN
  <1>1. PICK a, b, e : /\ a = [failed |-> FALSE, done |-> TRUE]
                       /\ b = [failed |-> TRUE, done |-> FALSE]
                       /\ e = [failed |-> TRUE, done |-> TRUE]
    OBVIOUS
  <1>2. "late" \notin Faults
    BY DEF Careful, Faults
  <1>3. CommitOutcomes = {a} \cup (IF "commit" \in Faults \/ fetch_fails THEN {b} ELSE {})
                             \cup (IF "late" \in Faults THEN {e} ELSE {})
    BY <1>1 DEF CommitOutcomes
  <1>4. c = a \/ (c = b /\ ("commit" \in Faults \/ "fetch" \in Faults))
    BY <1>2, <1>3 DEF fetch_fails
  <1>5. /\ a.failed = FALSE /\ a.done = TRUE
        /\ b.failed = TRUE /\ b.done = FALSE
    BY <1>1
  <1>6. CASE c = a
    BY <1>5, <1>6, Zenon
  <1>7. CASE c = b /\ ("commit" \in Faults \/ "fetch" \in Faults)
    BY <1>5, <1>7, Zenon
  <1> QED
    BY <1>4, <1>6, <1>7, Zenon

\* ree_fs_create: the commit succeeds, something fails, or power is lost.
CreatedWith(n) == [Created EXCEPT !.dirf = NewDirf(n)]
NewHandle(t, n) ==
    [own |-> t, po |-> call[t].po, flags |-> call[t].flags, failed |-> FALSE,
     fh |-> [ino |-> NewInode(TmpNumber), f |-> TmpNumber, idx |-> NewIdx(n), slot |-> 0,
             hash |-> tx + 1, ht |-> TRUE]]
CreateDone(t, n, h) ==
    /\ Find(disk.dirf, n) # 0 => call[t].over
    /\ disk' \in IF Find(disk.dirf, n) = 0 THEN {CreatedWith(n)}
                 ELSE Removed(CreatedWith(n), disk.dirf[Find(disk.dirf, n)].f)
    /\ FreeHandle(h) /\ Filled(h, NewHandle(t, n))
    /\ Go(t, "create_final") /\ UNCHANGED pobj
CreateFails(t) ==
    /\ disk' = disk \/ disk' \in Removed(Created, TmpNumber)
    /\ Go(t, "release") \/ Go(t, "remove_corrupt")
    /\ UNCHANGED <<obj, pobj>>
CreateCut(n) == \E d \in {Created, CreatedWith(n)} : LosePower(d)

LEMMA CreateCases ==
    ASSUME ReeFsInv, Careful(setup), NEW t \in Threads, ree_fs_create(t)
    PROVE  /\ call[t].pc = "create" /\ tx < MaxTx /\ tx \in Nat /\ tx' = tx + 1
           /\ UNCHANGED <<setup, panicked>>
           /\ \E n \in Names :
                 /\ n = pobj[call[t].po].name
                 /\ \/ \E h \in Handles : CreateDone(t, n, h)
                    \/ CreateFails(t)
                    \/ CreateCut(n)
  <1>0. CoreType /\ StorageOK /\ CallsOK
    BY DEF ReeFsInv
  <1>1. /\ call[t].pc = "create" /\ tx < setup.updates /\ tx' = tx + 1
        /\ UNCHANGED <<setup, panicked>>
    BY DEF ree_fs_create
  <1>2. tx < MaxTx /\ tx \in Nat
    BY <1>0, <1>1, CreateBound
  <1>3. PICK n : n = pobj[call[t].po].name
    OBVIOUS
  <1>4. n \in Names
    <2>1. Referring(call[t]) /\ CallOK(t, call[t], obj)
      BY <1>0, <1>1, CallFacts DEF Referring
    <2>2. call[t].po \in Pobjs /\ UsesPobj(call[t], call[t].po)
      BY <2>1 DEF CallOK, UsesPobj
    <2> QED
      BY <1>3, <2>2, PobjThere
  <1>5. PICK old : old = Find(disk.dirf, n)
    OBVIOUS
  <1>6. PICK d2, dirf, o, d1 :
           /\ d2 = CreatedWith(n) /\ dirf = NewDirf(n) /\ o = NewHandle(t, n) /\ d1 = Created
    OBVIOUS
  <1>7. \/ \E c \in CommitOutcomes, h \in Handles :
              /\ ~(old # 0 /\ ~call[t].over) /\ ~c.failed
              /\ disk' \in IF old = 0 THEN {d2} ELSE Removed(d2, disk.dirf[old].f)
              /\ FreeHandle(h) /\ obj' = [obj EXCEPT ![h] = o]
              /\ Go(t, "create_final") /\ UNCHANGED pobj
        \/ \E c \in CommitOutcomes :
              /\ c.failed /\ disk' \in Removed(Commit(d1, c, dirf), TmpNumber)
              /\ Go(t, "release") /\ UNCHANGED <<obj, pobj>>
        \/ /\ disk' \in Removed(d1, TmpNumber)
           /\ Go(t, "release") \/ Go(t, "remove_corrupt")
           /\ UNCHANGED <<obj, pobj>>
        \/ /\ disk' = disk
           /\ Go(t, "release") /\ UNCHANGED <<obj, pobj>>
        \/ \E d \in {d1, d2} : LosePower(d)
    BY <1>3, <1>5, <1>6 DEF ree_fs_create, Created, NewDirf, NewIdx, NewDent, CreatedWith,
                            NewHandle
  <1>8. ASSUME NEW c \in CommitOutcomes, c.failed PROVE Commit(d1, c, dirf) = d1
    BY <1>8, CarefulOutcome DEF Commit
  <1>9. \/ \E h \in Handles : CreateDone(t, n, h)
        \/ CreateFails(t)
        \/ CreateCut(n)
    BY <1>5, <1>6, <1>7, <1>8 DEF CreateDone, CreateFails, CreateCut, Filled
  <1> QED
    BY <1>1, <1>2, <1>3, <1>4, <1>9

LEMMA CreatedWithDisk ==
    ASSUME ReeFsInv, NEW n, NEW e, e = CreatedWith(n), NEW f, NEW i, f = TmpNumber,
           i = NewInode(f)
    PROVE  /\ e.dirf = NewDirf(n) /\ e.files = Created.files /\ e.data = Created.data
           /\ "files" \in DOMAIN e /\ e.files \in [Numbers -> Inodes \cup {NULL}]
           /\ e.files[f] = i /\ e.data[i][0] = tx + 1 /\ Grown(e, f, i, {})
  <1>1. PICK d, g : d = Created /\ g = NewDirf(n)
    OBVIOUS
  <1>2. /\ d \in [dirf : {disk.dirf}, files : [Numbers -> Inodes \cup {NULL}],
                  data : [Inodes -> [Vers -> Int]]]
        /\ d.files[f] = i /\ d.data[i][0] = tx + 1 /\ Grown(d, f, i, {})
    BY <1>1, CreatedDisk
  <1>3. e = [dirf |-> g, files |-> d.files, data |-> d.data]
    BY <1>1, <1>2 DEF CreatedWith
  <1>4. e.dirf = g /\ e.files = d.files /\ e.data = d.data /\ "files" \in DOMAIN e
    BY <1>3
  <1>5. d.files \in [Numbers -> Inodes \cup {NULL}]
    BY <1>2
  <1>6. Grown(e, f, i, {})
    BY <1>2, <1>4 DEF Grown
  <1> QED
    BY <1>1, <1>2, <1>4, <1>5, <1>6

\* Number x is of the entry that is replaced when n is created.
Replaced(n, x) == NewIdx(n) \in Used(disk.dirf) /\ x = disk.dirf[NewIdx(n)].f

\* The disk after the commit, the replaced file removed or not
LEMMA CreatedRemoved ==
    ASSUME ReeFsInv, tx < MaxTx, NEW n \in Names, NEW f, NEW i, f = TmpNumber, i = NewInode(f),
           NEW e, e \in IF Find(disk.dirf, n) = 0 THEN {CreatedWith(n)}
                        ELSE Removed(CreatedWith(n), disk.dirf[Find(disk.dirf, n)].f)
    PROVE  /\ e.dirf = NewDirf(n) /\ e.files[f] = i /\ e.data[i][0] = tx + 1
           /\ Grown(e, f, i, {x \in Numbers : Replaced(n, x)})
           /\ "remove" \notin Faults => \A x \in Numbers : Replaced(n, x) => e.files[x] = NULL
  <1>0. StorageOK
    BY DEF ReeFsInv
  <1>1. PICK d, old : d = CreatedWith(n) /\ old = Find(disk.dirf, n)
    OBVIOUS
  <1>2. /\ d.dirf = NewDirf(n) /\ "files" \in DOMAIN d
        /\ d.files \in [Numbers -> Inodes \cup {NULL}]
        /\ d.files[f] = i /\ d.data[i][0] = tx + 1 /\ Grown(d, f, i, {})
    BY <1>1, CreatedWithDisk
  <1>3. /\ NewIdx(n) \in Used(disk.dirf) <=> old # 0
        /\ old # 0 => NewIdx(n) = old
    BY <1>1, NewDirfFacts
  <1>4. CASE old = 0
    <2>1. e = d
      BY <1>1, <1>4
    <2>2. \A x : ~Replaced(n, x)
      BY <1>3, <1>4 DEF Replaced
    <2>3. Grown(e, f, i, {x \in Numbers : Replaced(n, x)})
      BY <1>2, <2>1 DEF Grown
    <2> QED
      BY <1>2, <2>1, <2>2, <2>3
  <1>5. CASE old # 0
    <2>1. PICK y : y = disk.dirf[old].f
      OBVIOUS
    <2>2. y \in Numbers /\ \A x : Replaced(n, x) <=> x = y
      BY <1>0, <1>3, <1>5, <2>1, StorageFacts, DentFacts DEF Replaced
    <2>3. y # f /\ f \in Numbers
      <3>1. y \in Numbered(disk.dirf)
        BY <1>3, <1>5, <2>1 DEF Numbered
      <3> QED
        BY <1>0, <3>1, TmpFacts, StorageFacts DEF BitsOK
    <2>4. /\ e.dirf = d.dirf /\ e.data = d.data
          /\ \A h \in Numbers \ {y} : e.files[h] = d.files[h]
          /\ e.files[y] \in {d.files[y], NULL}
          /\ "remove" \notin Faults => e.files[y] = NULL
      <3>1. e \in Removed(d, y)
        BY <1>1, <1>5, <2>1
      <3> QED
        BY <1>2, <2>2, <3>1, RemovedDisk
    <2>5. Grown(e, f, i, {x \in Numbers : Replaced(n, x)})
      <3>1. ASSUME NEW g \in Numbers \ {f}
            PROVE  e.files[g] = disk.files[g] \/ (Replaced(n, g) /\ e.files[g] = NULL)
        <4>1. d.files[g] = disk.files[g]
          BY <1>2 DEF Grown
        <4> QED
          BY <2>2, <2>4, <4>1
      <3>2. e.files[f] \in {i, NULL} /\ \A j \in Inodes \ {i} : e.data[j] = disk.data[j]
        BY <1>2, <2>3, <2>4 DEF Grown
      <3> QED
        BY <3>1, <3>2 DEF Grown
    <2> QED
      BY <1>2, <2>2, <2>3, <2>4, <2>5
  <1> QED
    BY <1>4, <1>5

\* Every entry of the new dirfile can be read.
LEMMA CreatedReads ==
    ASSUME ReeFsInv, tx < MaxTx, EntriesRead(disk), NEW n \in Names, NEW f, NEW i,
           f = TmpNumber, Unused(f, i), NEW e, NEW G, Grown(e, f, i, G),
           \A x \in G : Replaced(n, x), e.dirf = NewDirf(n), e.files[f] = i,
           e.data[i][0] = tx + 1
    PROVE  EntriesRead(e)
  <1>0. StorageOK
    BY DEF ReeFsInv
  <1>1. PICK d, g, m : d = disk.dirf /\ g = NewDirf(n) /\ m = NewIdx(n)
    OBVIOUS
  <1>2. /\ m \in Used(g) /\ g[m] = NewDent(n)
        /\ \A j \in Used(g) \ {m} : j \in Used(d) /\ g[j] = d[j]
    BY <1>1, NewDirfFacts
  <1> SUFFICES ASSUME NEW j \in Used(g) PROVE Versions(e, g[j].f, g[j].hash) # {}
    BY <1>1 DEF EntriesRead
  <1>3. CASE j = m
    <2>1. g[j].f = f /\ g[j].hash = tx + 1
      BY <1>2, <1>3 DEF NewDent
    <2>2. i # NULL /\ 0 \in Vers
      BY ReeFsAssumption DEF Unused, Inodes, Vers
    <2>3. 0 \in Versions(e, f, tx + 1)
      BY <2>2 DEF Versions
    <2> QED
      BY <2>1, <2>3
  <1>4. CASE j # m
    <2>1. j \in Used(d) /\ g[j] = d[j]
      BY <1>2, <1>4
    <2>2. d[j].f \notin G
      <3>1. ASSUME d[j].f \in G PROVE FALSE
        <4>1. m \in Used(d) /\ d[j].f = d[m].f
          BY <1>1, <3>1 DEF Replaced
        <4>2. d[j].f # d[m].f
          BY <1>0, <1>1, <1>4, <2>1, <4>1, StorageFacts DEF DirfOK
        <4> QED
          BY <4>1, <4>2
      <3> QED
        BY <3>1
    <2>3. Versions(e, d[j].f, d[j].hash) # {}
      BY <1>0, <1>1, <2>1, <2>2, GrownEntry
    <2> QED
      BY <2>1, <2>3
  <1> QED
    BY <1>3, <1>4

\* The reader of a file that is replaced keeps it.
LEMMA ReplacedFile ==
    ASSUME ReeFsInv, UseInv, DiskInv, Careful(setup), tx < MaxTx, NEW t \in Threads,
           call[t].pc = "create", NEW n \in Names, n = pobj[call[t].po].name,
           Find(disk.dirf, n) # 0 => call[t].over,
           NEW f, NEW i, f = TmpNumber, Unused(f, i), NEW e, NEW G, Grown(e, f, i, G),
           e.dirf = NewDirf(n),
           "remove" \notin Faults => \A x \in Numbers : Replaced(n, x) => e.files[x] = NULL,
           NEW k \in Handles, Live(k), obj[k].fh.idx = NewIdx(n)
    PROVE  FileFor(setup, obj[k], NameOf(k), e)
  <1>0. StorageOK
    BY DEF ReeFsInv
  <1>1. PICK o, fh, d, m : o = obj[k] /\ fh = o.fh /\ d = disk.dirf /\ m = NewIdx(n)
    OBVIOUS
  <1>2. FileFor(setup, o, NameOf(k), disk)
    BY <1>1 DEF DiskInv, FilesFor
  <1>3. fh.idx = m /\ m \in Used(d) /\ d[m].name = NameOf(k)
    BY <1>1, <1>2 DEF FileFor
  <1>4. /\ m \in Used(e.dirf) /\ e.dirf[m].name = n
        /\ Find(d, n) # 0 /\ m = Find(d, n)
    <2>1. /\ m \in Used(e.dirf) /\ e.dirf[m] = NewDent(n)
          /\ Find(d, n) # 0 /\ m = Find(d, n)
      BY <1>1, <1>3, NewDirfFacts
    <2> QED
      BY <2>1 DEF NewDent
  <1>5. d[m].name = n /\ d[m].f \in Numbers
    BY <1>0, <1>1, <1>3, <1>4, StorageFacts, FindFacts, DentFacts
  <1>6. obj[k] # NULL /\ NameOf(k) = n
    BY <1>3, <1>5 DEF Live
  <1>7. obj[k].po = call[t].po
    BY <1>6, NameOpening
  <1>8. "write" \notin o.flags /\ "meta" \notin o.flags /\ "remove" \notin Faults
    BY <1>1, <1>4, <1>6, <1>7, SharedReaders
  <1>9. e.files[d[m].f] = NULL
    <2>1. Replaced(n, d[m].f)
      BY <1>1, <1>3 DEF Replaced
    <2> QED
      BY <1>5, <1>8, <2>1
  <1>10. fh \in FileType
    BY <1>1, <1>6, HandleThere
  <1>11. fh.ino \in Inodes /\ fh.ino # NULL /\ fh.ino # i
    BY <1>1, <1>10, ReeFsAssumption DEF FileType, Inodes, Unused
  <1>12. ASSUME NEW g \in Numbers PROVE e.files[g] # fh.ino
    <2>1. SUFFICES ASSUME e.files[g] = fh.ino PROVE FALSE
      OBVIOUS
    <2>2. e.files[g] \in {disk.files[g], NULL, i}
      BY DEF Grown
    <2>3. disk.files[g] = obj[k].fh.ino
      BY <1>1, <1>11, <2>1, <2>2
    <2>4. disk.dirf[obj[k].fh.idx].f = g
      BY <2>3, FileLinked
    <2>5. g = d[m].f
      BY <1>1, <1>3, <2>4
    <2> QED
      BY <1>9, <1>11, <2>1, <2>5
  <1>13. Orphan(e, o)
    BY <1>1, <1>8, <1>12 DEF Orphan
  <1>14. fh.ht => e.data[fh.ino][fh.slot] = fh.hash
    <2>1. e.data[fh.ino] = disk.data[fh.ino]
      BY <1>11 DEF Grown
    <2> QED
      BY <1>1, <1>2, <2>1 DEF FileFor
  <1>15. FileFor(setup, o, n, e)
    BY <1>1, <1>3, <1>4, <1>8, <1>13, <1>14 DEF FileFor
  <1> QED
    BY <1>1, <1>6, <1>15

\* Any other handle keeps its file.
LEMMA OtherFile ==
    ASSUME ReeFsInv, DiskInv, tx < MaxTx, NEW n \in Names, NEW f, NEW i, f = TmpNumber,
           Unused(f, i), NEW e, NEW G, Grown(e, f, i, G), \A x \in G : Replaced(n, x),
           e.dirf = NewDirf(n), NEW k \in Handles, Live(k), obj[k].fh.idx # NewIdx(n)
    PROVE  FileFor(setup, obj[k], NameOf(k), e)
  <1>0. StorageOK
    BY DEF ReeFsInv
  <1>1. PICK d, m, j : d = disk.dirf /\ m = NewIdx(n) /\ j = obj[k].fh.idx
    OBVIOUS
  <1>2. FileFor(setup, obj[k], NameOf(k), disk)
    BY DEF DiskInv, FilesFor
  <1>3. j \in Used(d)
    BY <1>1, <1>2 DEF FileFor
  <1>4. j \in Used(e.dirf) /\ e.dirf[j] = d[j]
    BY <1>1, <1>3, NewDirfFacts
  <1>5. ASSUME d[j].f \in G PROVE FALSE
    <2>1. m \in Used(d) /\ d[j].f = d[m].f
      BY <1>1, <1>5 DEF Replaced
    <2> QED
      BY <1>0, <1>1, <1>3, <2>1, StorageFacts DEF DirfOK
  <1> QED
    BY <1>1, <1>2, <1>4, <1>5, GrownFile

LEMMA CreateDoneDisk ==
    ASSUME ReeFsInv, ReeFsInv', UseInv, DiskInv, Careful(setup), tx < MaxTx, NEW t \in Threads,
           call[t].pc = "create", NEW n \in Names, n = pobj[call[t].po].name,
           NEW h \in Handles, CreateDone(t, n, h), UNCHANGED <<setup, panicked>>
    PROVE  DiskInv'
  <1>0. CoreType /\ StorageOK /\ EntriesRead(disk) /\ FilesApart(disk)
    BY DEF ReeFsInv, DiskInv
  <1>1. PICK f, i, o, G, e :
           /\ f = TmpNumber /\ i = NewInode(f) /\ o = NewHandle(t, n) /\ e = disk'
           /\ G = {x \in Numbers : Replaced(n, x)}
    OBVIOUS
  <1>2. Unused(f, i)
    BY <1>1, NewUnused
  <1>3. /\ e.dirf = NewDirf(n) /\ e.files[f] = i /\ e.data[i][0] = tx + 1
        /\ Grown(e, f, i, G)
        /\ "remove" \notin Faults => \A x \in Numbers : Replaced(n, x) => e.files[x] = NULL
    <2>1. e \in IF Find(disk.dirf, n) = 0 THEN {CreatedWith(n)}
               ELSE Removed(CreatedWith(n), disk.dirf[Find(disk.dirf, n)].f)
      BY <1>1 DEF CreateDone
    <2>2. /\ e.dirf = NewDirf(n) /\ e.files[f] = i /\ e.data[i][0] = tx + 1
          /\ Grown(e, f, i, {x \in Numbers : Replaced(n, x)})
          /\ "remove" \notin Faults => \A x \in Numbers : Replaced(n, x) => e.files[x] = NULL
      BY <1>1, <2>1, CreatedRemoved
    <2> QED
      BY <1>1, <2>2
  <1>4. FilesApart(e) /\ EntriesRead(e)
    <2>1. \A x \in G : Replaced(n, x)
      BY <1>1
    <2> QED
      BY <1>0, <1>1, <1>2, <1>3, <2>1, GrownApart, CreatedReads
  <1>5. PICK c : Quiet(t, c) /\ c.pc # "pobj_rename"
    <2>1. PICK c : call' = [call EXCEPT ![t] = c] /\ c.pc = "create_final"
      BY <1>0, GoAll DEF CreateDone
    <2> QED
      BY <2>1 DEF Quiet, CreateDone
  <1>6. /\ o.own = t /\ o.po = call[t].po /\ o.fh.ino = i /\ o.fh.f = f /\ o.fh.idx = NewIdx(n)
        /\ o.fh.slot = 0 /\ o.fh.hash = tx + 1
    BY <1>1 DEF NewHandle
  <1>7. FreeHandle(h) /\ Filled(h, o)
    BY <1>1 DEF CreateDone
  <1>8. /\ \A k \in Handles \ {h} : obj'[k] = obj[k]
        /\ obj'[h] = o /\ NameOf(h)' = n
    BY <1>5, <1>6, <1>7, FilledFacts
  <1>9. ASSUME NEW k \in Handles \ {h}, Live(k)'
        PROVE  Live(k) /\ NameOf(k)' = NameOf(k)
    BY <1>5, <1>8, <1>9, QuietKept
  <1>10. FileFor(setup, o, n, e)
    <2>1. NewIdx(n) \in Used(e.dirf) /\ e.dirf[NewIdx(n)] = NewDent(n)
      BY <1>3, NewDirfFacts
    <2>2. /\ e.dirf[NewIdx(n)].name = n /\ e.dirf[NewIdx(n)].f = f
          /\ e.dirf[NewIdx(n)].hash = tx + 1
      BY <1>1, <2>1 DEF NewDent
    <2> QED
      BY <1>3, <1>6, <2>1, <2>2 DEF FileFor, Linked
  <1>11. FilesFor'
    <2>1. ASSUME NEW k \in Handles, Live(k)'
          PROVE  FileFor(setup', obj'[k], NameOf(k)', disk')
      <3>1. CASE k = h
        BY <1>1, <1>8, <1>10, <3>1
      <3>2. CASE k # h
        <4>1. Live(k) /\ NameOf(k)' = NameOf(k) /\ obj'[k] = obj[k]
          BY <1>8, <1>9, <2>1, <3>2
        <4>2. FileFor(setup, obj[k], NameOf(k), e)
          <5>1. Find(disk.dirf, n) # 0 => call[t].over
            BY DEF CreateDone
          <5>2. \A x \in G : Replaced(n, x)
            BY <1>1
          <5>3. CASE obj[k].fh.idx = NewIdx(n)
            BY <1>1, <1>2, <1>3, <4>1, <5>1, <5>3, ReplacedFile
          <5>4. CASE obj[k].fh.idx # NewIdx(n)
            BY <1>1, <1>2, <1>3, <4>1, <5>2, <5>4, OtherFile
          <5> QED
            BY <5>3, <5>4
        <4> QED
          BY <1>1, <4>1, <4>2
      <3> QED
        BY <3>1, <3>2
    <2> QED
      BY <2>1, FilesForNext
  <1>12. SameFile'
    <2>1. ASSUME NEW k \in Handles \ {h}, Live(k)'
          PROVE  obj'[k].fh.ino # i
      BY <1>2, <1>8, <1>9, <2>1 DEF Unused
    <2>2. \A k, l \in Handles :
             Live(k)' /\ Live(l)' /\ obj'[k].fh.ino = obj'[l].fh.ino => obj'[k].po = obj'[l].po
      <3> SUFFICES ASSUME NEW k \in Handles, NEW l \in Handles, Live(k)', Live(l)',
                          obj'[k].fh.ino = obj'[l].fh.ino
                   PROVE  obj'[k].po = obj'[l].po
        OBVIOUS
      <3>1. CASE k = h \/ l = h
        BY <1>6, <1>8, <2>1, <3>1
      <3>2. CASE k # h /\ l # h
        BY <1>8, <1>9, <3>2 DEF DiskInv, SameFile
      <3> QED
        BY <3>1, <3>2
    <2> QED
      BY <2>2, SameFileNext
  <1>13. panicked' = FALSE
    BY DEF DiskInv
  <1> QED
    BY <1>1, <1>4, <1>11, <1>12, <1>13, DiskNext

LEMMA DiskCreate ==
    ASSUME ReeFsInv, ReeFsInv', UseInv, DiskInv, Careful(setup), NEW t \in Threads,
           ree_fs_create(t)
    PROVE  DiskInv'
  <1>0. CoreType /\ StorageOK /\ EntriesRead(disk) /\ FilesApart(disk)
    BY DEF ReeFsInv, DiskInv
  <1>1. call[t].pc = "create" /\ tx < MaxTx /\ UNCHANGED <<setup, panicked>>
    BY CreateCases
  <1>2. PICK n \in Names : /\ n = pobj[call[t].po].name
                           /\ \/ \E h \in Handles : CreateDone(t, n, h)
                              \/ CreateFails(t)
                              \/ CreateCut(n)
    BY CreateCases
  <1>3. PICK f, i : f = TmpNumber /\ i = NewInode(f)
    OBVIOUS
  <1>4. Unused(f, i) /\ f \in Numbers
    BY <1>3, NewUnused DEF Unused
  <1>5. panicked' = FALSE
    BY <1>1 DEF DiskInv
  <1>6. CASE \E h \in Handles : CreateDone(t, n, h)
    BY <1>1, <1>2, <1>6, CreateDoneDisk
  <1>7. CASE CreateFails(t)
    <2>1. PICK e : e = disk'
      OBVIOUS
    <2>2. e.dirf = disk.dirf /\ (e = disk \/ Grown(e, f, i, {}))
      <3>1. CASE e = disk
        BY <3>1
      <3>2. CASE e \in Removed(Created, f)
        <4>1. PICK d : d = Created
          OBVIOUS
        <4>2. /\ "files" \in DOMAIN d /\ d.files \in [Numbers -> Inodes \cup {NULL}]
              /\ d.dirf = disk.dirf /\ d.files[f] = i /\ Grown(d, f, i, {})
          BY <1>3, <4>1, CreatedDisk
        <4>3. /\ e.dirf = d.dirf /\ e.data = d.data
              /\ \A h \in Numbers \ {f} : e.files[h] = d.files[h]
              /\ e.files[f] \in {d.files[f], NULL}
          BY <1>4, <3>2, <4>1, <4>2, RemovedDisk
        <4>4. Grown(e, f, i, {})
          BY <4>2, <4>3 DEF Grown
        <4> QED
          BY <4>2, <4>3, <4>4
      <3> QED
        BY <1>3, <1>7, <2>1, <3>1, <3>2 DEF CreateFails
    <2>3. FilesApart(e) /\ EntriesRead(e)
      BY <1>0, <1>4, <2>2, GrownApart, GrownReads
    <2>4. PICK c : Quiet(t, c) /\ c.pc # "pobj_rename"
      <3>1. PICK c : call' = [call EXCEPT ![t] = c] /\ c.pc # "pobj_rename"
        BY <1>0, <1>7, GoAll DEF CreateFails
      <3> QED
        BY <1>1, <1>7, <3>1 DEF Quiet, CreateFails
    <2>5. ASSUME NEW k \in Handles, Live(k)'
          PROVE  /\ Live(k) /\ obj'[k] = obj[k]
                 /\ FileFor(setup', obj'[k], NameOf(k)', disk')
      <3>1. obj'[k] = obj[k]
        BY <1>7 DEF CreateFails
      <3>2. Live(k) /\ NameOf(k)' = NameOf(k)
        BY <1>1, <2>4, <2>5, <3>1, QuietKept
      <3>3. FileFor(setup, obj[k], NameOf(k), disk)
        BY <3>2 DEF DiskInv, FilesFor
      <3>4. FileFor(setup, obj[k], NameOf(k), e)
        <4>1. obj[k].fh.idx \in Used(e.dirf) /\ e.dirf[obj[k].fh.idx] = disk.dirf[obj[k].fh.idx]
          BY <2>2, <3>3 DEF FileFor
        <4>2. CASE Grown(e, f, i, {})
          BY <1>4, <3>2, <3>3, <4>1, <4>2, GrownFile
        <4> QED
          BY <2>2, <3>3, <4>2
      <3> QED
        BY <1>1, <2>1, <3>1, <3>2, <3>4
    <2>6. FilesFor'
      BY <2>5, FilesForNext
    <2>7. SameFile'
      <3>1. \A k, l \in Handles :
               Live(k)' /\ Live(l)' /\ obj'[k].fh.ino = obj'[l].fh.ino => obj'[k].po = obj'[l].po
        BY <2>5 DEF DiskInv, SameFile
      <3> QED
        BY <3>1, SameFileNext
    <2> QED
      BY <1>5, <2>1, <2>3, <2>6, <2>7, DiskNext
  <1>8. CASE CreateCut(n)
    <2>1. PICK d : d \in {Created, CreatedWith(n)} /\ LosePower(d)
      BY <1>8 DEF CreateCut
    <2>2. FilesApart(d) /\ EntriesRead(d)
      <3>1. CASE d = Created
        <4>1. d.dirf = disk.dirf /\ Grown(d, f, i, {})
          BY <1>3, <3>1, CreatedDisk
        <4> QED
          BY <1>0, <1>4, <4>1, GrownApart, GrownReads
      <3>2. CASE d = CreatedWith(n)
        <4>1. /\ d.dirf = NewDirf(n) /\ d.files[f] = i /\ d.data[i][0] = tx + 1
              /\ Grown(d, f, i, {})
          BY <1>3, <3>2, CreatedWithDisk
        <4>2. \A x \in {} : Replaced(n, x)
          OBVIOUS
        <4> QED
          BY <1>0, <1>1, <1>3, <1>4, <4>1, <4>2, GrownApart, CreatedReads
      <3> QED
        BY <2>1, <3>1, <3>2
    <2> QED
      BY <1>5, <2>1, <2>2, DiskLost
  <1> QED
    BY <1>2, <1>6, <1>7, <1>8

-----------------------------------------------------------------------------
(* Writing a file *)

\* An exclusive handle shares neither its file nor its entry.
LEMMA Exclusive ==
    ASSUME ReeFsInv, UseInv, DiskInv, Careful(setup), NEW h \in Handles, Live(h),
           "write" \in obj[h].flags \/ "meta" \in obj[h].flags, PobjOf(h) = obj[h].po,
           NEW k \in Handles, k # h, Live(k)
    PROVE  /\ obj[k].fh.ino # obj[h].fh.ino /\ obj[k].fh.idx # obj[h].fh.idx
           /\ NameOf(k) # NameOf(h)
  <1>1. obj[h] # NULL /\ obj[k] # NULL
    BY DEF Live
  <1>2. obj[k].po # obj[h].po
    <2>1. obj[h].po \in Pobjs /\ AloneAt(obj[h].po)
      BY <1>1, AloneHandle
    <2>2. HasPobj(obj[h], obj[h].po)
      BY <1>1 DEF HasPobj
    <2>3. ~HasPobj(obj[k], obj[h].po)
      BY <2>1, <2>2 DEF AloneAt
    <2> QED
      BY <1>1, <2>3 DEF HasPobj
  <1>3. obj[k].fh.ino # obj[h].fh.ino
    BY <1>2 DEF DiskInv, SameFile
  <1>4. NameOf(k) # NameOf(h)
    BY <1>1, <1>2, SameNames
  <1>5. /\ disk.dirf[obj[h].fh.idx].name = NameOf(h)
        /\ disk.dirf[obj[k].fh.idx].name = NameOf(k)
    BY DEF DiskInv, FilesFor, FileFor
  <1> QED
    BY <1>3, <1>4, <1>5

\* A handle whose entry and whose file are not touched
LEMMA KeptFile ==
    ASSUME NEW s, NEW o, NEW n, NEW e, FileFor(s, o, n, disk), o.fh.ino # NULL,
           e.data[o.fh.ino] = disk.data[o.fh.ino],
           o.fh.idx \in Used(e.dirf), e.dirf[o.fh.idx] = disk.dirf[o.fh.idx],
           Linked(disk, o.fh) => e.files[o.fh.f] = disk.files[o.fh.f],
           \A g \in Numbers : e.files[g] = disk.files[g] \/ e.files[g] = NULL
    PROVE  FileFor(s, o, n, e)
  <1>1. Linked(disk, o.fh) => Linked(e, o.fh)
    BY DEF Linked
  <1>2. Orphan(disk, o) => Orphan(e, o)
    BY DEF Orphan
  <1> QED
    BY <1>1, <1>2 DEF FileFor

\* Disk e has the files of the disk, all but fh with the same content.
Touched(e, fh) == /\ e.files = disk.files
                  /\ \A j \in Inodes \ {fh.ino} : e.data[j] = disk.data[j]

\* The entry of fh gives its old content, or the new one.
OldContent(e, fh) == e.dirf = disk.dirf /\ e.data[fh.ino][fh.slot] = fh.hash
NewContent(e, fh) == e.dirf = update_hash(fh) /\ e.data[fh.ino][WrittenSlot(fh)] = tx + 1

LEMMA BeforeDisk ==
    ASSUME StorageOK, NEW fh \in FileType, NEW e \in BeforeWrite(fh)
    PROVE  /\ e.dirf = disk.dirf /\ Touched(e, fh)
           /\ "truncate" \notin Calls => e.data = disk.data
           /\ e \in [dirf : {disk.dirf}, files : {disk.files}, data : [Inodes -> [Vers -> Int]]]
  <1>1. disk \in DiskType /\ fh.ino \in Inodes /\ fh.slot \in Vers /\ disk.data \in [Inodes -> [Vers -> Int]]
    BY StorageFacts, ReeFsAssumption DEF DiskType, FileType
  <1>2. PICK x : x = [disk.data EXCEPT ![fh.ino] = [disk.data[fh.ino] EXCEPT ![fh.slot] = Bad]]
    OBVIOUS
  <1>3. x \in [Inodes -> [Vers -> Int]] /\ \A j \in Inodes \ {fh.ino} : x[j] = disk.data[j]
    BY <1>1, <1>2 DEF Bad
  <1>4. PICK y : y = [dirf |-> disk.dirf, files |-> disk.files, data |-> x]
    OBVIOUS
  <1>5. CutFile(fh) = y
    <2>1. CutFile(fh) = [disk EXCEPT !.data = x]
      BY <1>2 DEF CutFile
    <2> QED
      BY <1>1, <1>4, <2>1 DEF DiskType
  <1>6. e = disk \/ (e = y /\ "truncate" \in Calls)
    BY <1>5 DEF BeforeWrite
  <1>7. CASE e = disk
    <2>1. disk \in [dirf : {disk.dirf}, files : {disk.files}, data : [Inodes -> [Vers -> Int]]]
      BY <1>1 DEF DiskType
    <2> QED
      BY <1>7, <2>1 DEF Touched
  <1>8. CASE e = y /\ "truncate" \in Calls
    BY <1>3, <1>4, <1>8 DEF Touched
  <1> QED
    BY <1>6, <1>7, <1>8

LEMMA WrittenDisk ==
    ASSUME StorageOK, NEW fh \in FileType, NEW d \in BeforeWrite(fh), NEW x \in Int, NEW e,
           e = Written(d, fh, x)
    PROVE  /\ e.dirf = disk.dirf /\ Touched(e, fh) /\ e.data[fh.ino][WrittenSlot(fh)] = x
           /\ "truncate" \notin Calls =>
                 e.data[fh.ino][fh.slot] = disk.data[fh.ino][fh.slot]
           /\ "dirf" \in DOMAIN e
  <1>1. /\ d.dirf = disk.dirf /\ Touched(d, fh)
        /\ "truncate" \notin Calls => d.data = disk.data
        /\ d \in [dirf : {disk.dirf}, files : {disk.files}, data : [Inodes -> [Vers -> Int]]]
    BY BeforeDisk
  <1>2. PICK v : v = WrittenSlot(fh)
    OBVIOUS
  <1>3. fh.ino \in Inodes /\ fh.slot \in Vers /\ v \in Vers /\ v # fh.slot
    BY <1>2 DEF FileType, Vers, WrittenSlot
  <1>4. PICK y : y = [d.data EXCEPT ![fh.ino] = [d.data[fh.ino] EXCEPT ![v] = x]]
    OBVIOUS
  <1>5. e = [dirf |-> d.dirf, files |-> d.files, data |-> y]
    BY <1>1, <1>2, <1>4 DEF Written
  <1>6. e.dirf = d.dirf /\ e.files = d.files /\ e.data = y /\ "dirf" \in DOMAIN e
    BY <1>5
  <1>7. d.data \in [Inodes -> [Vers -> Int]]
    BY <1>1
  <1>8. /\ y[fh.ino][v] = x /\ y[fh.ino][fh.slot] = d.data[fh.ino][fh.slot]
        /\ \A j \in Inodes \ {fh.ino} : y[j] = d.data[j]
    BY <1>3, <1>4, <1>7
  <1>9. Touched(e, fh)
    BY <1>1, <1>6, <1>8 DEF Touched
  <1> QED
    BY <1>1, <1>2, <1>6, <1>8, <1>9

LEMMA UpdatedEntries ==
    ASSUME StorageOK, NEW fh \in FileType, fh.idx \in Used(disk.dirf), NEW g, g = update_hash(fh)
    PROVE  /\ Used(g) = Used(disk.dirf)
           /\ \A j \in Used(g) \ {fh.idx} : g[j] = disk.dirf[j]
           /\ g[fh.idx].name = disk.dirf[fh.idx].name /\ g[fh.idx].f = disk.dirf[fh.idx].f
           /\ g[fh.idx].hash = tx + 1
  <1>1. PICK d, i : d = disk.dirf /\ i = fh.idx
    OBVIOUS
  <1>2. d \in Seq(DentType) /\ i \in DOMAIN d
    BY <1>1, StorageFacts DEF Used
  <1>3. PICK x : x = [d[i] EXCEPT !.hash = tx + 1]
    OBVIOUS
  <1>4. d[i] \in DentType
    BY <1>2, DentFacts
  <1>5. x.name = d[i].name /\ x.f = d[i].f /\ x.hash = tx + 1
    BY <1>3, <1>4 DEF DentType
  <1>6. g = [d EXCEPT ![i] = x]
    BY <1>1, <1>3 DEF update_hash
  <1>7. DOMAIN g = DOMAIN d /\ g[i] = x /\ \A j \in DOMAIN d \ {i} : g[j] = d[j]
    BY <1>2, <1>6
  <1>8. Used(g) = Used(d)
    BY <1>2, <1>5, <1>7 DEF Used
  <1>9. \A j \in Used(g) \ {i} : g[j] = d[j]
    BY <1>7 DEF Used
  <1> QED
    BY <1>1, <1>5, <1>7, <1>8, <1>9

\* What holds of a handle that is written
LEMMA WritingFacts ==
    ASSUME ReeFsInv, UseInv, DiskInv, NEW t \in Threads, NEW h \in Handles, Uses(t, h),
           "write" \in obj[h].flags, obj[h].fh.ht, NEW fh, fh = obj[h].fh
    PROVE  /\ Live(h) /\ PobjOf(h) = obj[h].po /\ fh \in FileType
           /\ fh.idx \in Used(disk.dirf) /\ disk.dirf[fh.idx].name = NameOf(h)
           /\ Linked(disk, fh) /\ disk.data[fh.ino][fh.slot] = fh.hash
           /\ disk.dirf[fh.idx].hash = fh.hash /\ HashAssertion(fh)
           /\ obj[h].own = t /\ call[t].pc = "idle"
  <1>0. StorageOK
    BY DEF ReeFsInv
  <1>1. Live(h) /\ (obj[h].failed => setup.retry)
    BY UsesLive
  <1>2. obj[h].own = t /\ call[t].pc = "idle" /\ fh \in FileType
    BY UsesFacts
  <1>3. FileFor(setup, obj[h], NameOf(h), disk)
    BY <1>1 DEF DiskInv, FilesFor
  <1>4. /\ fh.idx \in Used(disk.dirf) /\ disk.dirf[fh.idx].name = NameOf(h)
        /\ Linked(disk, fh) /\ disk.data[fh.ino][fh.slot] = fh.hash
        /\ disk.dirf[fh.idx].hash = fh.hash
    BY <1>1, <1>3 DEF FileFor, Orphan
  <1>5. PobjOf(h) = obj[h].po
    BY <1>2 DEF PobjOf
  <1>6. HashAssertion(fh)
    <2>1. disk.dirf[fh.idx].f = fh.f
      BY <1>4 DEF Linked
    <2>2. fh.f \in Numbered(disk.dirf)
      BY <1>4, <2>1 DEF Numbered
    <2>3. Numbered(disk.dirf) \subseteq Bits
      BY <1>0, StorageFacts DEF BitsOK
    <2> QED
      BY <2>1, <2>2, <2>3 DEF HashAssertion
  <1> QED
    BY <1>1, <1>2, <1>4, <1>5, <1>6

\* The disk stays readable while the content of one file is replaced.
LEMMA TouchedReads ==
    ASSUME ReeFsInv, DiskInv, NEW fh \in FileType, fh.idx \in Used(disk.dirf), Linked(disk, fh),
           disk.dirf[fh.idx].hash = fh.hash, NEW e, Touched(e, fh),
           OldContent(e, fh) \/ NewContent(e, fh)
    PROVE  /\ FilesApart(e) /\ EntriesRead(e)
           /\ Used(e.dirf) = Used(disk.dirf) /\ e.dirf[fh.idx].name = disk.dirf[fh.idx].name
           /\ e.dirf[fh.idx].f = disk.dirf[fh.idx].f
           /\ \A j \in Used(e.dirf) \ {fh.idx} : e.dirf[j] = disk.dirf[j]
  <1>0. StorageOK /\ EntriesRead(disk) /\ FilesApart(disk)
    BY DEF ReeFsInv, DiskInv
  <1>1. PICK d, g, m : d = disk.dirf /\ g = e.dirf /\ m = fh.idx
    OBVIOUS
  <1>2. /\ Used(g) = Used(d) /\ g[m].name = d[m].name /\ g[m].f = d[m].f
        /\ \A j \in Used(g) \ {m} : g[j] = d[j]
    <2>1. CASE e.dirf = disk.dirf
      BY <1>1, <2>1
    <2>2. CASE e.dirf = update_hash(fh)
      BY <1>0, <1>1, <2>2, UpdatedEntries
    <2> QED
      BY <2>1, <2>2 DEF OldContent, NewContent
  <1>3. FilesApart(e)
    BY <1>0 DEF Touched, FilesApart
  <1>4. d[m].f = fh.f /\ disk.files[fh.f] = fh.ino /\ e.files = disk.files
    BY <1>1 DEF Linked, Touched
  <1>5. fh.ino \in Inodes /\ fh.ino # NULL /\ fh.slot \in Vers /\ WrittenSlot(fh) \in Vers
        /\ fh.f \in Numbers
    BY ReeFsAssumption DEF FileType, Inodes, Vers, WrittenSlot
  <1>6. Versions(e, g[m].f, g[m].hash) # {}
    <2>1. CASE OldContent(e, fh)
      <3>1. g[m].hash = fh.hash
        BY <1>1, <2>1 DEF OldContent
      <3>2. fh.slot \in Versions(e, fh.f, fh.hash)
        BY <1>4, <1>5, <2>1 DEF Versions, OldContent
      <3> QED
        BY <1>2, <1>4, <3>1, <3>2
    <2>2. CASE NewContent(e, fh)
      <3>1. g[m].hash = tx + 1
        BY <1>0, <1>1, <2>2, UpdatedEntries DEF NewContent
      <3>2. WrittenSlot(fh) \in Versions(e, fh.f, tx + 1)
        BY <1>4, <1>5, <2>2 DEF Versions, NewContent
      <3> QED
        BY <1>2, <1>4, <3>1, <3>2
    <2> QED
      BY <2>1, <2>2
  <1>7. ASSUME NEW j \in Used(g), j # m PROVE Versions(e, g[j].f, g[j].hash) # {}
    <2>1. j \in Used(d) /\ g[j] = d[j]
      BY <1>2, <1>7
    <2>2. PICK f, x, v : f = d[j].f /\ x = d[j].hash /\ v \in Versions(disk, f, x)
      BY <1>0, <1>1, <2>1 DEF EntriesRead
    <2>3. f \in Numbers /\ f # fh.f /\ disk \in DiskType
      <3>1. d[j].f # d[m].f
        BY <1>0, <1>1, <1>7, <2>1, StorageFacts DEF DirfOK
      <3> QED
        BY <1>0, <1>1, <1>4, <2>1, <2>2, <3>1, StorageFacts, DentFacts
    <2>4. disk.files[f] # NULL /\ v \in Vers /\ disk.data[disk.files[f]][v] = x
      BY <2>2 DEF Versions
    <2>5. disk.files[f] # fh.ino /\ disk.files[f] \in Inodes
      BY <1>0, <1>4, <1>5, <2>3, <2>4 DEF FilesApart, DiskType
    <2>6. e.data[disk.files[f]] = disk.data[disk.files[f]]
      BY <2>5 DEF Touched
    <2>7. v \in Versions(e, f, x)
      BY <1>4, <2>4, <2>6 DEF Versions
    <2> QED
      BY <2>1, <2>2, <2>7
  <1>8. EntriesRead(e)
    BY <1>1, <1>6, <1>7 DEF EntriesRead
  <1> QED
    BY <1>1, <1>2, <1>3, <1>8

\* Handle h is o after the step that wrote its file.
LEMMA WrittenHandle ==
    ASSUME ReeFsInv, ReeFsInv', UseInv, DiskInv, Careful(setup), NEW t \in Threads,
           NEW h \in Handles, Uses(t, h), "write" \in obj[h].flags, obj[h].fh.ht,
           NEW fh, fh = obj[h].fh, NEW o, HandleNow(t, h, o), o.fh.ino = fh.ino,
           NEW e, e = disk', Touched(e, fh), OldContent(e, fh) \/ NewContent(e, fh),
           FileFor(setup, o, NameOf(h), e), panicked' = FALSE,
           NEW c, Quiet(t, c), c.pc \in {"idle", "remove_corrupt"}
    PROVE  DiskInv'
  <1>1. /\ Live(h) /\ PobjOf(h) = obj[h].po /\ fh \in FileType
        /\ fh.idx \in Used(disk.dirf) /\ Linked(disk, fh) /\ disk.dirf[fh.idx].hash = fh.hash
        /\ obj[h].own = t /\ call[t].pc = "idle"
    BY WritingFacts
  <1>2. /\ FilesApart(e) /\ EntriesRead(e) /\ Used(e.dirf) = Used(disk.dirf)
        /\ \A j \in Used(e.dirf) \ {fh.idx} : e.dirf[j] = disk.dirf[j]
    BY <1>1, TouchedReads
  <1>3. obj \in [Handles -> ObjType \cup {NULL}] /\ call \in [Threads -> CallType]
    BY DEF ReeFsInv, CoreType
  <1>4. /\ obj'[h] = o /\ o.own = t /\ o.po = obj[h].po
        /\ \A k \in Handles \ {h} : obj'[k] = obj[k]
    BY <1>3 DEF HandleNow
  <1>5. setup' = setup /\ pobj' = pobj /\ call'[t] = c
    BY <1>3 DEF Quiet
  <1>6. NameOf(h)' = NameOf(h)
    <2>1. NameOf(h)' = pobj'[o.po].name
      BY <1>1, <1>4, <1>5 DEF NameOf, NameIn
    <2>2. NameOf(h) = pobj[obj[h].po].name
      BY <1>1 DEF NameOf, NameIn
    <2> QED
      BY <1>4, <1>5, <2>1, <2>2
  <1>7. ASSUME NEW k \in Handles, k # h, Live(k)'
        PROVE  /\ Live(k) /\ obj'[k] = obj[k]
               /\ FileFor(setup', obj'[k], NameOf(k)', disk')
    <2>1. Live(k) /\ NameOf(k)' = NameOf(k) /\ obj'[k] = obj[k]
      BY <1>1, <1>4, <1>7, QuietKept
    <2>2. obj[k].fh.ino # fh.ino /\ obj[k].fh.idx # fh.idx
      BY <1>1, <1>7, <2>1, Exclusive
    <2>3. FileFor(setup, obj[k], NameOf(k), disk)
      BY <2>1 DEF DiskInv, FilesFor
    <2>4. obj[k].fh.ino \in Inodes /\ obj[k].fh.ino # NULL
      <3>1. obj[k].fh \in FileType
        BY <2>1, HandleThere DEF Live
      <3> QED
        BY <3>1, ReeFsAssumption DEF FileType, Inodes
    <2>5. e.data[obj[k].fh.ino] = disk.data[obj[k].fh.ino] /\ e.files = disk.files
      BY <2>2, <2>4 DEF Touched
    <2>6. obj[k].fh.idx \in Used(e.dirf) /\ e.dirf[obj[k].fh.idx] = disk.dirf[obj[k].fh.idx]
      BY <1>2, <2>2, <2>3 DEF FileFor
    <2>7. FileFor(setup, obj[k], NameOf(k), e)
      BY <2>3, <2>4, <2>5, <2>6, KeptFile
    <2> QED
      BY <1>5, <2>1, <2>7
  <1>8. FilesFor'
    <2>1. FileFor(setup', obj'[h], NameOf(h)', disk')
      BY <1>4, <1>5, <1>6
    <2> QED
      BY <1>7, <2>1, FilesForNext
  <1>9. SameFile'
    <2>1. \A k, l \in Handles :
             Live(k)' /\ Live(l)' /\ obj'[k].fh.ino = obj'[l].fh.ino => obj'[k].po = obj'[l].po
      BY <1>1, <1>4, <1>7 DEF DiskInv, SameFile
    <2> QED
      BY <2>1, SameFileNext
  <1> QED
    BY <1>2, <1>8, <1>9, DiskNext

LEMMA DiskWrite ==
    ASSUME ReeFsInv, ReeFsInv', UseInv, TreeOK, DiskInv, Careful(setup), NEW t \in Threads,
           ree_fs_write(t)
    PROVE  DiskInv'
  <1>0. StorageOK
    BY DEF ReeFsInv
  <1>1. PICK h \in Handles, fh \in FileType :
           /\ Uses(t, h) /\ "write" \in obj[h].flags /\ fh = obj[h].fh /\ fh.ht
           /\ tx \in Nat /\ tx < MaxTx /\ tx' = tx + 1
           /\ \E d0 \in BeforeWrite(fh) :
                 \/ \E c \in CommitOutcomes : \E o : WriteDone(t, h, fh, d0, c, o)
                 \/ \E o : WriteFails(t, h, fh, d0, o)
                 \/ \E o : WriteShut(t, h, fh, d0, o)
                 \/ WriteCut(fh, d0)
    BY WriteCases
  <1>2. /\ Live(h) /\ PobjOf(h) = obj[h].po /\ fh \in FileType
        /\ fh.idx \in Used(disk.dirf) /\ disk.dirf[fh.idx].name = NameOf(h)
        /\ Linked(disk, fh) /\ disk.data[fh.ino][fh.slot] = fh.hash
        /\ disk.dirf[fh.idx].hash = fh.hash /\ HashAssertion(fh)
    BY <1>1, WritingFacts
  <1>3. PICK d0 \in BeforeWrite(fh) :
                 \/ \E c \in CommitOutcomes : \E o : WriteDone(t, h, fh, d0, c, o)
                 \/ \E o : WriteFails(t, h, fh, d0, o)
                 \/ \E o : WriteShut(t, h, fh, d0, o)
                 \/ WriteCut(fh, d0)
    BY <1>1
  <1>4. PICK torn, d1, v : /\ torn = Written(d0, fh, Bad) /\ d1 = Written(d0, fh, tx + 1)
                           /\ v = WrittenSlot(fh)
    OBVIOUS
  <1>5. /\ torn.dirf = disk.dirf /\ Touched(torn, fh)
        /\ d1.dirf = disk.dirf /\ Touched(d1, fh) /\ d1.data[fh.ino][v] = tx + 1
        /\ "dirf" \in DOMAIN d1
        /\ "truncate" \notin Calls => torn.data[fh.ino][fh.slot] = fh.hash
        /\ "truncate" \notin Calls => d1.data[fh.ino][fh.slot] = fh.hash
    <2>1. Bad \in Int /\ tx + 1 \in Int
      BY <1>1 DEF Bad
    <2> QED
      BY <1>0, <1>2, <1>4, <2>1, WrittenDisk
  <1>6. /\ Touched(disk, fh) /\ OldContent(disk, fh)
        /\ "truncate" \notin Calls => OldContent(torn, fh) /\ OldContent(d1, fh)
    BY <1>2, <1>5 DEF Touched, OldContent
  <1>7. PICK d2 : d2 = [d1 EXCEPT !.dirf = update_hash(fh)]
    OBVIOUS
  <1>8. d2.dirf = update_hash(fh) /\ d2.files = d1.files /\ d2.data = d1.data
    BY <1>5, <1>7
  <1>9. Touched(d2, fh) /\ NewContent(d2, fh)
    BY <1>4, <1>5, <1>8 DEF Touched, NewContent
  <1>10. "truncate" \in Calls => /\ "crash" \notin Faults /\ "sync" \notin Faults
                                 /\ "commit" \notin Faults /\ "fetch" \notin Faults
    BY DEF Careful, Calls, Faults
  <1>a. call' = call => Quiet(t, call[t]) \/ ~UNCHANGED <<setup, pobj>>
    BY DEF Quiet, ReeFsInv, CoreType
  <1>b. call[t].pc = "idle"
    BY <1>1 DEF Uses
  <1>11. ASSUME NEW c \in CommitOutcomes, NEW o, WriteDone(t, h, fh, d0, c, o) PROVE DiskInv'
    <2>1. panicked' = FALSE
      <3>1. panicked' = ~HashAssertion(fh)
        BY <1>11 DEF WriteDone
      <3> QED
        BY <1>2, <3>1, Zenon
    <2>2. HandleNow(t, h, o) /\ UNCHANGED <<setup, pobj, call>> /\ o.failed = c.failed
      BY <1>11 DEF WriteDone
    <2>3. /\ o.fh.ino = fh.ino /\ o.fh.f = fh.f /\ o.fh.idx = fh.idx /\ o.fh.slot = v
          /\ o.fh.hash = tx + 1 /\ o.fh.ht = fh.ht
      BY <1>4, <1>11 DEF WriteDone, FileType
    <2>4. /\ c.failed => ~c.done /\ ("commit" \in Faults \/ "fetch" \in Faults)
          /\ ~c.failed => c.done
      BY CarefulOutcome
    <2>5. disk' = IF c.done THEN d2 ELSE d1
      BY <1>4, <1>7, <1>11 DEF WriteDone, Commit
    <2>6. CASE c.failed
      <3>1. disk' = d1 /\ ("commit" \in Faults \/ "fetch" \in Faults) /\ ~setup.retry
        BY <2>4, <2>5, <2>6 DEF Careful, Faults
      <3>2. OldContent(d1, fh)
        BY <1>6, <1>10, <3>1
      <3>3. Linked(d1, o.fh) /\ o.fh.idx \in Used(d1.dirf) /\ d1.dirf[o.fh.idx].name = NameOf(h)
        BY <1>2, <1>5, <2>3 DEF Linked, Touched
      <3>4. FileFor(setup, o, NameOf(h), d1)
        BY <1>5, <2>2, <2>3, <2>6, <3>1, <3>3 DEF FileFor
      <3> QED
        BY <1>1, <1>5, <1>a, <1>b, <2>1, <2>2, <2>3, <3>1, <3>2, <3>4, WrittenHandle
    <2>7. CASE ~c.failed
      <3>1. disk' = d2
        BY <2>4, <2>5, <2>7
      <3>2. /\ Used(d2.dirf) = Used(disk.dirf) /\ d2.dirf[fh.idx].hash = tx + 1
            /\ d2.dirf[fh.idx].name = disk.dirf[fh.idx].name
            /\ d2.dirf[fh.idx].f = disk.dirf[fh.idx].f
        BY <1>0, <1>2, <1>8, UpdatedEntries
      <3>3. Linked(d2, o.fh)
        BY <1>2, <1>9, <2>3, <3>2 DEF Linked, Touched
      <3>4. FileFor(setup, o, NameOf(h), d2)
        BY <1>2, <1>5, <1>8, <2>3, <3>2, <3>3 DEF FileFor
      <3> QED
        BY <1>1, <1>9, <1>a, <1>b, <2>1, <2>2, <2>3, <3>1, <3>4, WrittenHandle
    <2> QED
      BY <2>6, <2>7
  <1>12. ASSUME NEW o, WriteFails(t, h, fh, d0, o) PROVE DiskInv'
    <2>1. /\ HandleNow(t, h, o) /\ UNCHANGED <<setup, pobj, call, panicked>>
          /\ \/ /\ "sync" \in Faults /\ o.fh = [fh EXCEPT !.ht = FALSE]
                /\ disk' \in {disk, torn, d1}
             \/ o.fh = fh /\ disk' = disk
      BY <1>4, <1>12 DEF WriteFails
    <2>2. panicked' = FALSE
      BY <2>1 DEF DiskInv
    <2>3. PICK e : e = disk'
      OBVIOUS
    <2>4. Touched(e, fh) /\ OldContent(e, fh)
      BY <1>5, <1>6, <1>10, <2>1, <2>3
    <2>5. /\ o.fh.ino = fh.ino /\ o.fh.f = fh.f /\ o.fh.idx = fh.idx
          /\ o.fh.slot = fh.slot /\ o.fh.hash = fh.hash
      BY <2>1 DEF FileType
    <2>6. Linked(e, o.fh) /\ o.fh.idx \in Used(e.dirf) /\ e.dirf[o.fh.idx].name = NameOf(h)
      BY <1>2, <2>4, <2>5 DEF Linked, Touched, OldContent
    <2>7. FileFor(setup, o, NameOf(h), e)
      BY <1>2, <2>4, <2>5, <2>6 DEF FileFor, OldContent
    <2> QED
      BY <1>1, <1>a, <1>b, <2>1, <2>2, <2>3, <2>4, <2>5, <2>7, WrittenHandle
  <1>13. CASE WriteCut(fh, d0)
    <2>1. PICK d : d \in {d0, torn, d1, d2} /\ LosePower(d)
      BY <1>4, <1>7, <1>13 DEF WriteCut
    <2>2. panicked' = FALSE
      BY <1>13 DEF WriteCut, DiskInv
    <2>3. "truncate" \notin Calls
      BY <1>10, <2>1 DEF LosePower
    <2>4. d0 = disk
      BY <2>3 DEF BeforeWrite
    <2>5. Touched(d, fh) /\ (OldContent(d, fh) \/ NewContent(d, fh))
      BY <1>5, <1>6, <1>9, <2>1, <2>3, <2>4
    <2>6. FilesApart(d) /\ EntriesRead(d)
      BY <1>2, <2>5, TouchedReads
    <2> QED
      BY <2>1, <2>2, <2>6, DiskLost
  <1>14. ASSUME NEW o, WriteShut(t, h, fh, d0, o) PROVE DiskInv'
    <2>1. /\ HandleNow(t, h, o) /\ UNCHANGED <<setup, pobj, panicked>> /\ Corrupted(t, h)
          /\ disk' = d1 /\ o.failed = TRUE
      BY <1>4, <1>14 DEF WriteShut
    <2>2. panicked' = FALSE
      BY <2>1 DEF DiskInv
    <2>3. "fetch" \in Faults /\ ~setup.retry
      BY <1>14 DEF WriteShut, TreeOK, Careful, Faults
    <2>4. OldContent(d1, fh)
      BY <1>6, <1>10, <2>3
    <2>5. /\ o.fh.ino = fh.ino /\ o.fh.f = fh.f /\ o.fh.idx = fh.idx /\ o.fh.slot = v
          /\ o.fh.hash = tx + 1
      BY <1>4, <1>14 DEF WriteShut, FileType
    <2>6. Linked(d1, o.fh) /\ o.fh.idx \in Used(d1.dirf) /\ d1.dirf[o.fh.idx].name = NameOf(h)
      BY <1>2, <1>5, <2>5 DEF Linked, Touched
    <2>7. FileFor(setup, o, NameOf(h), d1)
      BY <1>5, <2>1, <2>3, <2>5, <2>6 DEF FileFor
    <2>8. PICK c : Quiet(t, c) /\ c.pc \in {"idle", "remove_corrupt"}
      <3>1. PICK c : c = [Idle EXCEPT !.pc = "remove_corrupt", !.po = obj[h].po, !.h = h]
        OBVIOUS
      <3>2. Quiet(t, c) /\ c.pc = "remove_corrupt"
        BY <2>1, <3>1 DEF Quiet, Corrupted, Idle
      <3> QED
        BY <3>2
    <2>9. Touched(d1, fh)
      BY <1>5
    <2>10. PICK e : e = d1 /\ e = disk'
      BY <2>1
    <2> QED
      BY <1>1, <2>1, <2>2, <2>4, <2>5, <2>7, <2>8, <2>9, <2>10, WrittenHandle
  <1> QED
    BY <1>3, <1>11, <1>12, <1>13, <1>14

-----------------------------------------------------------------------------
(* Removing a file *)

\* Disk e without entry i and perhaps without its file
Freed(e, i) ==
    /\ e.dirf = [disk.dirf EXCEPT ![i] = FreeDent] /\ e.data = disk.data
    /\ \A g \in Numbers : \/ e.files[g] = disk.files[g]
                          \/ g = disk.dirf[i].f /\ e.files[g] = NULL

LEMMA FreedEntries ==
    ASSUME StorageOK, NEW i \in Used(disk.dirf), NEW g, g = [disk.dirf EXCEPT ![i] = FreeDent]
    PROVE  /\ Used(g) = Used(disk.dirf) \ {i}
           /\ \A j \in Used(g) : g[j] = disk.dirf[j]
  <1>1. disk.dirf \in Seq(DentType) /\ i \in DOMAIN disk.dirf
    BY StorageFacts DEF Used
  <1>2. FreeDent.name = NULL
    BY DEF FreeDent
  <1> QED
    BY <1>1, <1>2 DEF Used

LEMMA FreedReads ==
    ASSUME ReeFsInv, DiskInv, NEW i \in Used(disk.dirf), NEW e, Freed(e, i)
    PROVE  FilesApart(e) /\ EntriesRead(e)
  <1>0. StorageOK /\ EntriesRead(disk) /\ FilesApart(disk)
    BY DEF ReeFsInv, DiskInv
  <1>1. PICK d, g : d = disk.dirf /\ g = e.dirf
    OBVIOUS
  <1>2. Used(g) = Used(d) \ {i} /\ \A j \in Used(g) : g[j] = d[j]
    BY <1>0, <1>1, FreedEntries DEF Freed
  <1>3. FilesApart(e)
    BY <1>0 DEF Freed, FilesApart
  <1>4. ASSUME NEW j \in Used(g) PROVE Versions(e, g[j].f, g[j].hash) # {}
    <2>1. j \in Used(d) /\ j # i /\ g[j] = d[j]
      BY <1>2, <1>4
    <2>2. d[j].f # d[i].f /\ d[j].f \in Numbers
      BY <1>0, <1>1, <2>1, StorageFacts, DentFacts DEF DirfOK
    <2>3. e.files[d[j].f] = disk.files[d[j].f] /\ e.data = disk.data
      BY <1>1, <2>2 DEF Freed
    <2>4. Versions(e, d[j].f, d[j].hash) = Versions(disk, d[j].f, d[j].hash)
      BY <2>3 DEF Versions
    <2> QED
      BY <1>0, <1>1, <2>1, <2>4 DEF EntriesRead
  <1> QED
    BY <1>1, <1>3, <1>4 DEF EntriesRead

\* ree_fs_remove of the object of a call, at index i of the dirfile
RemoveDone(t, e) == /\ disk' = e /\ UNCHANGED <<pobj, obj>>
                    /\ Go(t, IF call[t].h = NULL THEN "release" ELSE "close")

LEMMA RemoveCases ==
    ASSUME ReeFsInv, UseInv, Careful(setup), NEW t \in Threads, ree_fs_remove(t)
    PROVE  /\ UNCHANGED <<setup, tx, panicked>> /\ call[t].pc \in {"remove", "remove_corrupt"}
           /\ \E i : /\ i = Find(disk.dirf, pobj[call[t].po].name)
                     /\ \/ RemoveDone(t, disk)
                        \/ \E e : i # 0 /\ Freed(e, i) /\ (RemoveDone(t, e) \/ LosePower(e))
  <1>0. StorageOK /\ UNCHANGED <<setup, tx, panicked>> /\ call[t].pc \in {"remove", "remove_corrupt"}
    BY DEF ReeFsInv, ree_fs_remove
  <1>1. PICK next : next = IF call[t].h = NULL THEN "release" ELSE "close"
    OBVIOUS
  <1>2. PICK i, f, dirf, d2 :
           /\ i = Find(disk.dirf, pobj[call[t].po].name)
           /\ f = disk.dirf[i].f
           /\ dirf = [disk.dirf EXCEPT ![i] = FreeDent]
           /\ d2 = [disk EXCEPT !.dirf = dirf]
    OBVIOUS
  <1>3. \/ Go(t, next) /\ UNCHANGED <<disk, pobj, obj>>
        \/ /\ i # 0 /\ Go(t, next) /\ UNCHANGED <<pobj, obj>>
           /\ \E c \in CommitOutcomes :
                 disk' \in IF c.failed THEN {Commit(disk, c, dirf)} ELSE Removed(d2, f)
        \/ i # 0 /\ LosePower(d2)
    BY <1>1, <1>2 DEF ree_fs_remove
  <1>4. disk \in DiskType
    BY <1>0, StorageFacts
  <1>5. /\ d2.dirf = dirf /\ d2.files = disk.files /\ d2.data = disk.data
        /\ "files" \in DOMAIN d2 /\ d2.files \in [Numbers -> Inodes \cup {NULL}]
    BY <1>2, <1>4 DEF DiskType
  <1>6. Freed(d2, i)
    BY <1>2, <1>5 DEF Freed
  <1>7. ASSUME NEW e, i # 0, e \in Removed(d2, f) PROVE Freed(e, i)
    <2>1. f \in Numbers
      BY <1>0, <1>2, <1>7, StorageFacts, FindFacts, DentFacts
    <2>2. /\ e.dirf = d2.dirf /\ e.data = d2.data
          /\ \A h \in Numbers \ {f} : e.files[h] = d2.files[h]
          /\ e.files[f] \in {d2.files[f], NULL}
      BY <1>5, <1>7, <2>1, RemovedDisk
    <2> QED
      BY <1>2, <1>5, <2>2 DEF Freed
  <1>8. CASE /\ i # 0 /\ Go(t, next) /\ UNCHANGED <<pobj, obj>>
             /\ \E c \in CommitOutcomes :
                   disk' \in IF c.failed THEN {Commit(disk, c, dirf)} ELSE Removed(d2, f)
    <2>1. PICK c \in CommitOutcomes :
             disk' \in IF c.failed THEN {Commit(disk, c, dirf)} ELSE Removed(d2, f)
      BY <1>8
    <2>2. c.failed => Commit(disk, c, dirf) = disk
      BY CarefulOutcome DEF Commit
    <2>3. disk' = disk \/ disk' \in Removed(d2, f)
      BY <2>1, <2>2
    <2>4. \A e : disk' = e => RemoveDone(t, e)
      BY <1>1, <1>8 DEF RemoveDone
    <2>5. PICK e : e = disk'
      OBVIOUS
    <2>6. CASE e = disk
      BY <1>0, <1>2, <2>4, <2>5, <2>6
    <2>7. CASE e \in Removed(d2, f)
      BY <1>0, <1>2, <1>7, <1>8, <2>4, <2>5, <2>7
    <2> QED
      BY <2>3, <2>5, <2>6, <2>7
  <1>9. CASE i # 0 /\ LosePower(d2)
    BY <1>0, <1>2, <1>6, <1>9
  <1>10. CASE Go(t, next) /\ UNCHANGED <<disk, pobj, obj>>
    <2>1. RemoveDone(t, disk)
      BY <1>1, <1>10 DEF RemoveDone
    <2> QED
      BY <1>0, <1>2, <2>1
  <1> QED
    BY <1>3, <1>8, <1>9, <1>10

\* The handle of the call is the only one that has the entry it removes.
LEMMA RemovedAlone ==
    ASSUME ReeFsInv, UseInv, DiskInv, Careful(setup), NEW t \in Threads,
           call[t].pc \in {"remove", "remove_corrupt"},
           NEW i, i = Find(disk.dirf, pobj[call[t].po].name), i # 0,
           NEW k \in Handles, Live(k), obj[k].fh.idx = i
    PROVE  call[t].h = k /\ ~GaveUp(call[t])
  <1>0. StorageOK
    BY DEF ReeFsInv
  <1>1. i \in Used(disk.dirf) /\ disk.dirf[i].name = pobj[call[t].po].name
    BY <1>0, StorageFacts, FindFacts
  <1>2. CASE GaveUp(call[t])
    <2>1. /\ call[t].po \in Pobjs /\ UserOf(call[t], call[t].po)
          /\ call[t].flags \in setup.flags /\ Fits(pobj[call[t].po].flags, call[t].flags)
      BY <1>2, OpeningFacts
    <2>2. PICK p : p = call[t].po
      OBVIOUS
    <2>3. pobj[p] # NULL
      BY <2>1, <2>2, AllThere DEF PobjsThere, UserOf
    <2>4. "fetch" \in setup.faults
      BY <1>2, OwnCall DEF CallFor, GaveUp
    <2>5. ~Sharable(call[t].flags)
      BY <2>1, <2>4 DEF Careful
    <2>6. ~Sharable(pobj[p].flags)
      BY <2>1, <2>2, <2>5, FitsSharable
    <2>7. AloneAt(p)
      BY <2>1, <2>2, <2>3, <2>6 DEF UseInv, Alone
    <2>8. NameOf(k) = pobj[p].name /\ obj[k] # NULL
      BY <1>1, <2>2 DEF DiskInv, FilesFor, FileFor, Live
    <2>9. obj[k].po = p
      BY <1>2, <2>2, <2>8, NameOpening
    <2> QED
      BY <2>1, <2>2, <2>7, <2>8, <2>9 DEF AloneAt, HasPobj
  <1>3. CASE ~GaveUp(call[t])
    <2>1. PICK h \in Handles : /\ h = call[t].h /\ h # NULL /\ obj[h] # NULL
                               /\ obj[h].own = t /\ obj[h].po = call[t].po
      BY <1>3, RemovingFacts
    <2>2. "write" \in obj[h].flags \/ "meta" \in obj[h].flags
      BY <2>1, OwnCall DEF CallFor
    <2>3. Live(h)
      <3>1. ASSUME NEW u \in Threads, call[u].pc = "close", call[u].h = h PROVE FALSE
        <4>1. obj[h].own = u
          BY <3>1, RemovingFacts DEF GaveUp
        <4> QED
          BY <2>1, <3>1, <4>1
      <3> QED
        BY <2>1, <3>1 DEF Live, Closing
    <2>4. PobjOf(h) = obj[h].po /\ NameOf(h) = pobj[call[t].po].name
      BY <2>1 DEF PobjOf, NameOf, NameIn
    <2>5. obj[h].fh.idx \in Used(disk.dirf) /\ disk.dirf[obj[h].fh.idx].name = NameOf(h)
      BY <2>3 DEF DiskInv, FilesFor, FileFor
    <2>6. i = obj[h].fh.idx
      BY <1>0, <1>1, <2>4, <2>5, StorageFacts DEF DirfOK
    <2> QED
      BY <1>3, <2>1, <2>2, <2>3, <2>4, <2>6, Exclusive
  <1> QED
    BY <1>2, <1>3

LEMMA DiskRemove ==
    ASSUME ReeFsInv, ReeFsInv', UseInv, DiskInv, Careful(setup), NEW t \in Threads,
           ree_fs_remove(t)
    PROVE  DiskInv'
  <1>0. CoreType /\ StorageOK /\ EntriesRead(disk) /\ FilesApart(disk)
    BY DEF ReeFsInv, DiskInv
  <1>1. UNCHANGED <<setup, tx, panicked>> /\ call[t].pc \in {"remove", "remove_corrupt"}
    BY RemoveCases
  <1>2. PICK i : /\ i = Find(disk.dirf, pobj[call[t].po].name)
                 /\ \/ RemoveDone(t, disk)
                    \/ \E e : i # 0 /\ Freed(e, i) /\ (RemoveDone(t, e) \/ LosePower(e))
    BY RemoveCases
  <1>8. i # 0 => i \in Used(disk.dirf)
    BY <1>0, <1>2, StorageFacts, FindFacts
  <1>9. panicked' = FALSE
    BY <1>1 DEF DiskInv
  <1>10. ASSUME NEW e, e = disk \/ (i # 0 /\ Freed(e, i)), RemoveDone(t, e) PROVE DiskInv'
    <2>1. FilesApart(e) /\ EntriesRead(e)
      BY <1>0, <1>8, <1>10, FreedReads
    <2>2. PICK c : /\ call' = [call EXCEPT ![t] = c]
                   /\ c.pc = IF call[t].h = NULL THEN "release" ELSE "close"
                   /\ c.h = call[t].h
      BY <1>0, <1>10, GoAll DEF RemoveDone
    <2>3. Quiet(t, c) /\ disk' = e /\ obj' = obj
      BY <1>1, <1>10, <2>2 DEF Quiet, RemoveDone
    <2>4. ASSUME NEW k \in Handles, k = call[t].h PROVE ~Live(k)'
      <3>1. k # NULL
        BY ReeFsAssumption DEF Handles
      <3>2. call'[t].pc = "close" /\ call'[t].h = k
        BY <1>0, <2>2, <2>4, <3>1, CallStepFacts
      <3> QED
        BY <3>2 DEF Live, Closing
    <2>5. ASSUME NEW k \in Handles, Live(k)'
          PROVE  Live(k) /\ FileFor(setup', obj'[k], NameOf(k)', disk')
      <3>1. Live(k) /\ NameOf(k)' = NameOf(k) /\ obj'[k] = obj[k] /\ k # call[t].h
        BY <1>1, <2>2, <2>3, <2>4, <2>5, QuietKept
      <3>2. i # 0 => obj[k].fh.idx # i
        BY <1>1, <1>2, <3>1, RemovedAlone
      <3>3. FileFor(setup, obj[k], NameOf(k), disk)
        BY <3>1 DEF DiskInv, FilesFor
      <3>4. FileFor(setup, obj[k], NameOf(k), e)
        <4>1. CASE e = disk
          BY <3>3, <4>1
        <4>2. CASE i # 0 /\ Freed(e, i)
          <5>1. obj[k].fh.ino # NULL /\ obj[k].fh.f \in Numbers
            <6>1. obj[k].fh \in FileType
              BY <3>1, HandleThere DEF Live
            <6> QED
              BY <6>1, ReeFsAssumption DEF FileType, Inodes
          <5>2. obj[k].fh.idx \in Used(disk.dirf)
            BY <3>3 DEF FileFor
          <5>3. /\ obj[k].fh.idx \in Used(e.dirf)
                /\ e.dirf[obj[k].fh.idx] = disk.dirf[obj[k].fh.idx]
            <6>1. PICK g, j : g = e.dirf /\ j = obj[k].fh.idx
              OBVIOUS
            <6>2. g = [disk.dirf EXCEPT ![i] = FreeDent] /\ i \in Used(disk.dirf)
              BY <1>8, <4>2, <6>1 DEF Freed
            <6>3. Used(g) = Used(disk.dirf) \ {i} /\ \A l \in Used(g) : g[l] = disk.dirf[l]
              BY <1>0, <6>2, FreedEntries
            <6>4. j \in Used(disk.dirf) /\ j # i
              BY <3>2, <4>2, <5>2, <6>1
            <6> QED
              BY <6>1, <6>3, <6>4
          <5>4. disk.dirf[obj[k].fh.idx].f # disk.dirf[i].f
            BY <1>0, <1>8, <3>2, <4>2, <5>2, StorageFacts DEF DirfOK
          <5>5. Linked(disk, obj[k].fh) => e.files[obj[k].fh.f] = disk.files[obj[k].fh.f]
            BY <4>2, <5>1, <5>4 DEF Linked, Freed
          <5>6. /\ e.data = disk.data
                /\ \A g \in Numbers : e.files[g] = disk.files[g] \/ e.files[g] = NULL
            BY <4>2 DEF Freed
          <5> QED
            BY <3>3, <5>1, <5>3, <5>5, <5>6, KeptFile
        <4> QED
          BY <1>10, <4>1, <4>2
      <3> QED
        BY <1>1, <2>3, <3>1, <3>4
    <2>6. FilesFor'
      BY <2>5, FilesForNext
    <2>7. SameFile'
      <3>1. \A k, l \in Handles :
               Live(k)' /\ Live(l)' /\ obj'[k].fh.ino = obj'[l].fh.ino => obj'[k].po = obj'[l].po
        BY <2>3, <2>5 DEF DiskInv, SameFile
      <3> QED
        BY <3>1, SameFileNext
    <2> QED
      BY <1>9, <2>1, <2>3, <2>6, <2>7, DiskNext
  <1>11. ASSUME NEW e, i # 0, Freed(e, i), LosePower(e) PROVE DiskInv'
    <2>1. FilesApart(e) /\ EntriesRead(e)
      BY <1>8, <1>11, FreedReads
    <2> QED
      BY <1>9, <1>11, <2>1, DiskLost
  <1> QED
    BY <1>2, <1>10, <1>11

-----------------------------------------------------------------------------
(* Renaming a file *)

LEMMA RenamedEntries ==
    ASSUME StorageOK, NEW i \in Used(disk.dirf), NEW m \in Names, NEW g, g = RenamedDirf(i, m)
    PROVE  /\ Used(g) = Used(disk.dirf)
           /\ \A j \in Used(g) \ {i} : g[j] = disk.dirf[j]
           /\ g[i].name = m /\ g[i].f = disk.dirf[i].f /\ g[i].hash = disk.dirf[i].hash
  <1>1. PICK d : d = disk.dirf
    OBVIOUS
  <1>2. d \in Seq(DentType) /\ i \in DOMAIN d /\ d[i].name # NULL
    BY <1>1, StorageFacts DEF Used
  <1>3. PICK x : x = [d[i] EXCEPT !.name = m]
    OBVIOUS
  <1>4. d[i] \in DentType
    BY <1>2, DentFacts
  <1>5. x.name = m /\ x.f = d[i].f /\ x.hash = d[i].hash /\ m # NULL
    BY <1>3, <1>4, ReeFsAssumption DEF DentType
  <1>6. g = [d EXCEPT ![i] = x]
    BY <1>1, <1>3 DEF RenamedDirf
  <1>7. DOMAIN g = DOMAIN d /\ g[i] = x /\ \A j \in DOMAIN d \ {i} : g[j] = d[j]
    BY <1>2, <1>6
  <1>8. Used(g) = Used(d)
    BY <1>2, <1>5, <1>7 DEF Used
  <1>9. \A j \in Used(g) \ {i} : g[j] = d[j]
    BY <1>7 DEF Used
  <1> QED
    BY <1>1, <1>5, <1>7, <1>8, <1>9

\* The disk on which entry i has the name m
LEMMA RenamedReads ==
    ASSUME ReeFsInv, DiskInv, NEW i \in Used(disk.dirf), NEW m \in Names,
           NEW e, e = [disk EXCEPT !.dirf = RenamedDirf(i, m)]
    PROVE  /\ e.dirf = RenamedDirf(i, m) /\ e.files = disk.files /\ e.data = disk.data
           /\ FilesApart(e) /\ EntriesRead(e)
  <1>0. StorageOK /\ EntriesRead(disk) /\ FilesApart(disk)
    BY DEF ReeFsInv, DiskInv
  <1>1. disk \in DiskType
    BY <1>0, StorageFacts
  <1>2. PICK g : g = RenamedDirf(i, m)
    OBVIOUS
  <1>3. e.dirf = g /\ e.files = disk.files /\ e.data = disk.data
    BY <1>1, <1>2 DEF DiskType
  <1>4. \A j \in Used(g) : /\ j \in Used(disk.dirf) /\ g[j].f = disk.dirf[j].f
                           /\ g[j].hash = disk.dirf[j].hash
    BY <1>0, <1>2, RenamedEntries
  <1>5. ASSUME NEW j \in Used(g) PROVE Versions(e, g[j].f, g[j].hash) # {}
    <2>1. Versions(disk, g[j].f, g[j].hash) # {}
      BY <1>0, <1>4 DEF EntriesRead
    <2> QED
      BY <1>3, <2>1 DEF Versions
  <1>6. EntriesRead(e) /\ FilesApart(e)
    BY <1>0, <1>3, <1>5 DEF EntriesRead, FilesApart
  <1> QED
    BY <1>2, <1>3, <1>6

LEMMA DiskRename ==
    ASSUME ReeFsInv, ReeFsInv', UseInv, DiskInv, Careful(setup), NEW t \in Threads,
           ree_fs_rename(t)
    PROVE  DiskInv'
  <1>0. CoreType /\ StorageOK /\ EntriesRead(disk) /\ FilesApart(disk)
    BY DEF ReeFsInv, DiskInv
  <1>1. PICK h, i, m :
           /\ h \in Handles
           /\ call[t].pc = "rename" /\ h = call[t].h
           /\ i = Find(disk.dirf, pobj[obj[h].po].name) /\ m = pobj[call[t].po].name
           /\ \/ RenameRefused(t)
              \/ \E c \in CommitOutcomes : \E o : RenameDone(t, h, i, m, c, o)
              \/ RenameCut(i, m)
    BY RenameCases
  <1>2. /\ Renaming(call[t]) /\ obj[h] # NULL /\ obj[h].own = t /\ "meta" \in obj[h].flags
        /\ obj[h].failed => setup.retry
    BY <1>1, RenameFacts
  <1>3. m \in Names
    BY <1>1, <1>2, AloneRename DEF PobjType
  <1>4. Live(h)
    <2>1. ASSUME NEW u \in Threads, call[u].pc = "close", call[u].h = h PROVE FALSE
      <3>1. obj[h].own = u
        BY <2>1, RemovingFacts DEF GaveUp
      <3> QED
        BY <1>1, <1>2, <2>1, <3>1
    <2> QED
      BY <1>2, <2>1 DEF Live, Closing
  <1>5. PobjOf(h) = obj[h].po /\ NameOf(h) = pobj[obj[h].po].name
    BY <1>1, <1>2 DEF PobjOf, NameOf, NameIn
  <1>6. FileFor(setup, obj[h], NameOf(h), disk)
    BY <1>1, <1>4 DEF DiskInv, FilesFor
  <1>7. i \in Used(disk.dirf) /\ i = obj[h].fh.idx
    <2>1. obj[h].fh.idx \in Used(disk.dirf) /\ disk.dirf[obj[h].fh.idx].name = NameOf(h)
      BY <1>6 DEF FileFor
    <2>2. PICK n, j : n = NameOf(h) /\ j = obj[h].fh.idx
      OBVIOUS
    <2>3. j \in Used(disk.dirf) /\ disk.dirf[j].name = n /\ i = Find(disk.dirf, n)
      BY <1>1, <1>5, <2>1, <2>2
    <2>4. i \in Used(disk.dirf) /\ disk.dirf[i].name = n
      BY <1>0, <2>3, StorageFacts, FindFacts
    <2>5. i = j
      BY <1>0, <2>3, <2>4, StorageFacts DEF DirfOK
    <2> QED
      BY <2>2, <2>4, <2>5
  <1>8. CASE RenameRefused(t)
    <2>1. PICK c : call' = [call EXCEPT ![t] = c] /\ c.pc = "release"
      BY <1>0, <1>8, GoAll DEF RenameRefused
    <2>2. UNCHANGED <<setup, disk, pobj, panicked>> /\ obj' = obj
      BY <1>8 DEF RenameRefused
    <2> QED
      BY <1>1, <2>1, <2>2, DiskQuiet
  <1>9. ASSUME NEW c \in CommitOutcomes, NEW o, RenameDone(t, h, i, m, c, o) PROVE DiskInv'
    <2>0. /\ HandleNow(t, h, o) /\ o.fh = obj[h].fh /\ o.failed = c.failed
          /\ UNCHANGED <<setup, pobj, tx, panicked>>
          /\ Go(t, IF c.failed THEN "release" ELSE "pobj_rename")
          /\ disk' = Commit(disk, c, RenamedDirf(i, m))
      BY <1>9 DEF RenameDone
    <2>1. panicked' = FALSE
      BY <2>0 DEF DiskInv
    <2>2. PICK e, pc, n : /\ e = disk' /\ pc = (IF c.failed THEN "release" ELSE "pobj_rename")
                          /\ n = (IF c.failed THEN NameOf(h) ELSE m)
      OBVIOUS
    <2>3. PICK cl : /\ call' = [call EXCEPT ![t] = cl]
                    /\ cl.pc = pc /\ cl.po = call[t].po /\ cl.h = h
      <3>1. Go(t, pc)
        BY <2>0, <2>2
      <3> QED
        BY <1>0, <1>1, <3>1, GoAll
    <2>4. call'[t] = cl /\ Quiet(t, cl)
      BY <1>0, <2>0, <2>3, CallStepFacts DEF Quiet
    <2>5. /\ obj'[h] = o /\ o.own = t /\ o.po = obj[h].po /\ o.flags = obj[h].flags
          /\ \A k \in Handles \ {h} : obj'[k] = obj[k]
      BY <1>0, <1>1, <2>0 DEF HandleNow, CoreType
    <2>6. NameOf(h)' = n
      <3>1. NameOf(h)' = IF pc = "pobj_rename" THEN pobj[call[t].po].name ELSE pobj[obj[h].po].name
        BY <2>0, <2>3, <2>4, <2>5 DEF NameOf, NameIn
      <3> QED
        BY <1>1, <1>5, <2>2, <3>1
    <2>7. /\ e.files = disk.files /\ e.data = disk.data /\ FilesApart(e) /\ EntriesRead(e)
          /\ \/ e = disk /\ c.failed /\ ~setup.retry
             \/ e.dirf = RenamedDirf(i, m) /\ ~c.failed
      <3>1. CASE c.failed
        <4>1. ~c.done /\ ("commit" \in Faults \/ "fetch" \in Faults)
          BY <3>1, CarefulOutcome
        <4>2. e = disk
          BY <2>0, <2>2, <4>1 DEF Commit
        <4>3. ~setup.retry
          BY <4>1 DEF Careful, Faults
        <4> QED
          BY <1>0, <3>1, <4>2, <4>3
      <3>2. CASE ~c.failed
        <4>1. c.done
          BY <3>2, CarefulOutcome
        <4>2. e = [disk EXCEPT !.dirf = RenamedDirf(i, m)]
          BY <2>0, <2>2, <4>1 DEF Commit
        <4>3. /\ e.files = disk.files /\ e.data = disk.data /\ FilesApart(e) /\ EntriesRead(e)
              /\ e.dirf = RenamedDirf(i, m)
          BY <1>3, <1>7, <4>2, RenamedReads
        <4> QED
          BY <3>2, <4>3
      <3> QED
        BY <3>1, <3>2
    <2>8. /\ Used(e.dirf) = Used(disk.dirf)
          /\ \A j \in Used(e.dirf) \ {i} : e.dirf[j] = disk.dirf[j]
          /\ e.dirf[i].name = n /\ e.dirf[i].f = disk.dirf[i].f
          /\ e.dirf[i].hash = disk.dirf[i].hash
      <3>1. CASE e = disk /\ c.failed
        BY <1>6, <1>7, <2>2, <3>1 DEF FileFor
      <3>2. CASE e.dirf = RenamedDirf(i, m) /\ ~c.failed
        BY <1>0, <1>3, <1>7, <2>2, <3>2, RenamedEntries
      <3> QED
        BY <2>7, <3>1, <3>2
    <2>9. FileFor(setup, o, n, e)
      <3>1. Linked(disk, obj[h].fh)
        BY <1>2, <1>6 DEF FileFor, Orphan
      <3>2. Linked(e, o.fh)
        BY <1>7, <2>0, <2>7, <2>8, <3>1 DEF Linked
      <3>3. o.fh.ht => e.data[o.fh.ino][o.fh.slot] = o.fh.hash
        BY <1>6, <2>0, <2>7 DEF FileFor
      <3>4. "write" \in o.flags /\ o.fh.ht => disk.dirf[i].hash = o.fh.hash
        BY <1>2, <1>6, <1>7, <2>0, <2>5 DEF FileFor
      <3> QED
        BY <1>7, <2>0, <2>8, <3>2, <3>3, <3>4 DEF FileFor
    <2>10. ASSUME NEW k \in Handles, k # h, Live(k)'
           PROVE  /\ Live(k) /\ obj'[k] = obj[k]
                  /\ FileFor(setup', obj'[k], NameOf(k)', disk')
      <3>1. Live(k) /\ NameOf(k)' = NameOf(k) /\ obj'[k] = obj[k]
        BY <1>1, <2>3, <2>4, <2>5, <2>10, QuietKept
      <3>2. obj[k].fh.idx # i
        BY <1>1, <1>2, <1>4, <1>5, <1>7, <2>10, <3>1, Exclusive
      <3>3. FileFor(setup, obj[k], NameOf(k), disk)
        BY <3>1 DEF DiskInv, FilesFor
      <3>4. obj[k].fh.ino # NULL
        <4>1. obj[k].fh \in FileType
          BY <3>1, HandleThere DEF Live
        <4> QED
          BY <4>1, ReeFsAssumption DEF FileType, Inodes
      <3>5. obj[k].fh.idx \in Used(e.dirf) /\ e.dirf[obj[k].fh.idx] = disk.dirf[obj[k].fh.idx]
        BY <2>8, <3>2, <3>3 DEF FileFor
      <3>6. FileFor(setup, obj[k], NameOf(k), e)
        BY <2>7, <3>3, <3>4, <3>5, KeptFile
      <3> QED
        BY <2>0, <2>2, <3>1, <3>6
    <2>11. FilesFor'
      <3>1. FileFor(setup', obj'[h], NameOf(h)', disk')
        BY <2>0, <2>2, <2>5, <2>6, <2>9
      <3> QED
        BY <2>10, <3>1, FilesForNext
    <2>12. SameFile'
      <3>1. \A k, l \in Handles :
               Live(k)' /\ Live(l)' /\ obj'[k].fh.ino = obj'[l].fh.ino => obj'[k].po = obj'[l].po
        BY <1>4, <2>0, <2>5, <2>10 DEF DiskInv, SameFile
      <3> QED
        BY <3>1, SameFileNext
    <2> QED
      BY <2>1, <2>2, <2>7, <2>11, <2>12, DiskNext
  <1>10. CASE RenameCut(i, m)
    <2>1. PICK d : d = [disk EXCEPT !.dirf = RenamedDirf(i, m)] /\ LosePower(d)
      BY <1>10 DEF RenameCut
    <2>2. panicked' = FALSE
      BY <1>10 DEF RenameCut, DiskInv
    <2>3. FilesApart(d) /\ EntriesRead(d)
      BY <1>3, <1>7, <2>1, RenamedReads
    <2> QED
      BY <2>1, <2>2, <2>3, DiskLost
  <1> QED
    BY <1>1, <1>8, <1>9, <1>10

-----------------------------------------------------------------------------
(* The invariant *)

LEMMA SetupStays == [ReeFsNext]_ReeFsVars => setup' = setup
  <1> SUFFICES ASSUME [ReeFsNext]_ReeFsVars PROVE setup' = setup
    OBVIOUS
  <1>1. CASE UNCHANGED ReeFsVars
    BY <1>1 DEF ReeFsVars
  <1>2. CASE Crash
    BY <1>2 DEF Crash
  <1>3. ASSUME NEW t \in Threads,
               \/ storage_obj_open(t) \/ ree_fs_open(t) \/ storage_obj_create(t)
               \/ ree_fs_create(t) \/ tee_pobj_create_final(t) \/ storage_obj_read(t)
               \/ ree_fs_write_closed(t)
        PROVE  setup' = setup
    BY <1>3 DEF storage_obj_open, ree_fs_open, storage_obj_create, ree_fs_create,
                tee_pobj_create_final, storage_obj_read, ree_fs_write_closed
  <1>4. ASSUME NEW t \in Threads, ree_fs_write(t) PROVE setup' = setup
    BY <1>4 DEF ree_fs_write
  <1>5. ASSUME NEW t \in Threads,
               \/ storage_obj_del(t) \/ ree_fs_remove(t) \/ tee_obj_close(t)
               \/ tee_pobj_release(t) \/ storage_obj_rename(t) \/ ree_fs_rename(t)
               \/ tee_pobj_rename(t)
        PROVE  setup' = setup
    BY <1>5 DEF storage_obj_del, ree_fs_remove, tee_obj_close, tee_pobj_release,
                storage_obj_rename, ree_fs_rename, tee_pobj_rename
  <1>6. ASSUME NEW t \in Threads,
               \/ ree_fs_opendir(t) \/ ree_fs_readdir(t) \/ enum_get(t)
               \/ enum_open(t) \/ enum_close(t) \/ ree_fs_closedir(t)
        PROVE  setup' = setup
    BY <1>6 DEF ree_fs_opendir, ree_fs_readdir, enum_get, enum_open, enum_close,
                ree_fs_closedir
  <1>7. CASE ReeFsNext
    BY <1>2, <1>3, <1>4, <1>5, <1>6, <1>7 DEF ReeFsNext
  <1> QED
    BY <1>1, <1>7

LEMMA StoreStart == ReeFsInit => UseInv /\ DiskInv
  <1> SUFFICES ASSUME ReeFsInit PROVE UseInv /\ DiskInv
    OBVIOUS
  <1>1. /\ \A p \in Pobjs : pobj[p] = NULL
        /\ \A h \in Handles : obj[h] = NULL
        /\ \A t \in Threads : call[t] = Idle /\ dir[t].idx = -1
        /\ disk = EmptyDisk /\ panicked = FALSE
    BY DEF ReeFsInit, Volatile, NoDir
  <1>2. CallsFor
    BY <1>1, IdleFor DEF CallsFor
  <1>3. OneAtATime
    BY <1>1 DEF OneAtATime, Idle
  <1>4. HandlesFor /\ FlagsFor /\ DirsFor /\ Alone /\ NamesApart
    BY <1>1 DEF HandlesFor, FlagsFor, DirsFor, Alone, NamesApart
  <1>5. disk.dirf = <<>> /\ \A f \in Numbers : disk.files[f] = NULL
    BY <1>1 DEF EmptyDisk
  <1>6. Used(disk.dirf) = {}
    BY <1>5 DEF Used
  <1>7. FilesFor /\ SameFile /\ FilesApart(disk) /\ EntriesRead(disk)
    BY <1>1, <1>5, <1>6 DEF FilesFor, SameFile, FilesApart, EntriesRead, Live
  <1> QED
    BY <1>1, <1>2, <1>3, <1>4, <1>7 DEF UseInv, DiskInv

LEMMA StoreStutter ==
    ASSUME UseInv, DiskInv, UNCHANGED ReeFsVars
    PROVE  UseInv' /\ DiskInv'
  <1>1. UNCHANGED <<setup, disk, pobj, obj, dir, call, tx, panicked>>
    BY DEF ReeFsVars
  <1>2. CallsFor' /\ HandlesFor' /\ FlagsFor' /\ DirsFor'
    BY <1>1 DEF UseInv, CallsFor, HandlesFor, FlagsFor, DirsFor
  <1>3. OneAtATime' /\ Alone' /\ NamesApart'
    BY <1>1 DEF UseInv, OneAtATime, Alone, AloneAt, NamesApart
  <1>4. \A k \in Handles : Live(k)' = Live(k) /\ NameOf(k)' = NameOf(k)
    BY <1>1 DEF Live, Closing, NameOf
  <1>5. FilesFor' /\ SameFile'
    BY <1>1, <1>4, FilesForNext, SameFileNext DEF DiskInv, FilesFor, SameFile
  <1>6. DiskInv'
    BY <1>1, <1>5, DiskSame, DiskNext
  <1> QED
    BY <1>2, <1>3, <1>6 DEF UseInv

LEMMA StoreStep ==
    ReeFsInv /\ UseInv /\ DiskInv /\ TreeOK /\ Careful(setup) /\ [ReeFsNext]_ReeFsVars =>
        UseInv' /\ DiskInv'
  <1> SUFFICES ASSUME ReeFsInv, UseInv, DiskInv, TreeOK, Careful(setup), [ReeFsNext]_ReeFsVars
               PROVE  UseInv' /\ DiskInv'
    OBVIOUS
  <1>0. ReeFsInv' /\ EntriesRead(disk) /\ FilesFor /\ FilesApart(disk) /\ panicked = FALSE
    BY ReeFsStep DEF DiskInv
  <1>1. CASE UNCHANGED ReeFsVars
    BY <1>1, StoreStutter
  <1>2. CASE Crash
    <2>1. LosePower(disk) /\ panicked' = FALSE
      BY <1>0, <1>2 DEF Crash
    <2> QED
      BY <1>0, <2>1, UseLost, DiskLost
  <1>3. ASSUME NEW t \in Threads, Others(t),
               \/ storage_obj_open(t) \/ ree_fs_open(t) \/ storage_obj_create(t)
               \/ ree_fs_create(t) \/ tee_pobj_create_final(t)
        PROVE  UseInv' /\ DiskInv'
    BY <1>0, <1>3, UseOpenStart, UseOpen, UseCreateStart, UseCreate, UseCreateFinal,
       DiskOpenStart, DiskOpen, DiskCreate, DiskCreateFinal
  <1>4. ASSUME NEW t \in Threads, Others(t),
               \/ storage_obj_read(t) \/ ree_fs_write(t) \/ ree_fs_write_closed(t)
        PROVE  UseInv' /\ DiskInv'
    BY <1>0, <1>4, UseRead, UseWrite, UseWriteClosed, DiskCorrupted, DiskWrite
  <1>5. ASSUME NEW t \in Threads, Others(t),
               \/ storage_obj_del(t) \/ ree_fs_remove(t) \/ tee_obj_close(t)
               \/ tee_pobj_release(t)
        PROVE  UseInv' /\ DiskInv'
    BY <1>0, <1>5, UseDel, UseRemove, UseClose, UseRelease, DiskDel, DiskRemove, DiskClose,
       DiskRelease
  <1>6. ASSUME NEW t \in Threads, Others(t),
               \/ storage_obj_rename(t) \/ ree_fs_rename(t) \/ tee_pobj_rename(t)
        PROVE  UseInv' /\ DiskInv'
    BY <1>0, <1>6, UseRenameStart, UseRename, UsePobjRename, DiskRenameStart, DiskRename,
       DiskPobjRename
  <1>7. ASSUME NEW t \in Threads, Others(t),
               \/ ree_fs_opendir(t) \/ ree_fs_readdir(t) \/ enum_get(t)
               \/ enum_open(t) \/ enum_close(t) \/ ree_fs_closedir(t)
        PROVE  UseInv' /\ DiskInv'
    BY <1>0, <1>7, UseOpendir, UseReaddir, UseEnumGet, UseEnumOpen, UseEnumClose, UseClosedir,
       DiskEnumSteps, DiskEnumGet
  <1>8. CASE ReeFsNext
    <2>1. CASE ~Crash
      <3>1. PICK t \in Threads :
               /\ Others(t)
               /\ \/ storage_obj_open(t) \/ ree_fs_open(t) \/ storage_obj_create(t)
                  \/ ree_fs_create(t) \/ tee_pobj_create_final(t) \/ storage_obj_read(t)
                  \/ ree_fs_write(t) \/ ree_fs_write_closed(t) \/ storage_obj_del(t)
                  \/ ree_fs_remove(t) \/ tee_obj_close(t) \/ tee_pobj_release(t)
                  \/ storage_obj_rename(t) \/ ree_fs_rename(t) \/ tee_pobj_rename(t)
                  \/ ree_fs_opendir(t) \/ ree_fs_readdir(t) \/ enum_get(t)
                  \/ enum_open(t) \/ enum_close(t) \/ ree_fs_closedir(t)
        BY <1>8, <2>1 DEF ReeFsNext, Others
      <3> QED
        BY <1>3, <1>4, <1>5, <1>6, <1>7, <3>1
    <2> QED
      BY <1>2, <2>1
  <1> QED
    BY <1>1, <1>8

\* The inductive invariant, in a careful setup
StoreInv == ReeFsInv /\ UseInv /\ DiskInv /\ TreeOK /\ Careful(setup)

LEMMA StoreInductive == ReeFsSpec /\ Careful(setup) => []StoreInv
  <1>1. ReeFsInit /\ Careful(setup) => StoreInv
    BY ReeFsStart, StoreStart DEF StoreInv, ReeFsInit, TreeOK
  <1>2. StoreInv /\ [ReeFsNext]_ReeFsVars => StoreInv'
    <2> SUFFICES ASSUME StoreInv, [ReeFsNext]_ReeFsVars PROVE StoreInv'
      OBVIOUS
    <2>1. ReeFsInv' /\ UseInv' /\ DiskInv' /\ TreeOK' /\ setup' = setup
      BY ReeFsStep, StoreStep, TreeNext, SetupStays DEF StoreInv
    <2>2. Careful(setup')
      BY <2>1 DEF StoreInv
    <2> QED
      BY <2>1, <2>2 DEF StoreInv
  <1> QED
    BY <1>1, <1>2, PTL DEF ReeFsSpec

LEMMA InvReads == StoreInv => StoredObjectsRead
  <1> SUFFICES ASSUME StoreInv PROVE StoredObjectsRead
    OBVIOUS
  <1>1. StorageOK /\ EntriesRead(disk)
    BY DEF StoreInv, ReeFsInv, DiskInv
  <1>2. DirfOK(disk.dirf, tx)
    BY <1>1, StorageFacts
  <1> QED
    BY <1>1, <1>2 DEF StoredObjectsRead, EntriesRead, DirfOK

LEMMA InvExclusive == StoreInv => ExclusiveAccess
  <1> SUFFICES ASSUME StoreInv PROVE ExclusiveAccess
    OBVIOUS
  <1>0. ReeFsInv /\ UseInv /\ DiskInv
    BY DEF StoreInv
  <1>1. ASSUME NEW h \in Handles, NEW k \in Handles, Live(h), Live(k), h # k,
               obj[h].fh.ino = obj[k].fh.ino
        PROVE  obj[h].po = obj[k].po /\ check_access(obj[h].flags, obj[k].flags)
    <2>1. PICK p : p = obj[h].po
      OBVIOUS
    <2>2. obj[k].po = p
      BY <1>0, <1>1, <2>1 DEF DiskInv, SameFile
    <2>3. p \in Pobjs /\ pobj[p] # NULL /\ HasPobj(obj[h], p) /\ HasPobj(obj[k], p)
      BY <1>0, <1>1, <2>1, <2>2, HandleThere DEF Live
    <2>4. Sharable(pobj[p].flags)
      BY <1>0, <1>1, <2>3 DEF UseInv, Alone, AloneAt
    <2>5. Fits(pobj[p].flags, obj[h].flags) /\ Fits(pobj[p].flags, obj[k].flags)
      BY <1>0, <1>1, <2>1, <2>2 DEF Live, UseInv, HandlesFor, HandleFor
    <2> QED
      BY <2>1, <2>2, <2>4, <2>5, FitsShare
  <1>2. ASSUME NEW h \in Handles, Live(h), call[obj[h].own].pc = "idle"
        PROVE  disk.dirf[obj[h].fh.idx].name = pobj[obj[h].po].name
    <2>1. disk.dirf[obj[h].fh.idx].name = NameOf(h)
      BY <1>0, <1>2 DEF DiskInv, FilesFor, FileFor
    <2>2. NameOf(h) = pobj[obj[h].po].name
      BY <1>2 DEF NameOf, NameIn
    <2> QED
      BY <2>1, <2>2
  <1>3. panicked = FALSE
    BY <1>0 DEF DiskInv
  <1> QED
    BY <1>1, <1>2, <1>3 DEF ExclusiveAccess, Live

\* In a careful setup every object of the dirfile has its file with the content
\* of its entry, between any two steps of any number of applications, after
\* failed requests and after a loss of power (ree_fs_create, ree_fs_write,
\* ree_fs_remove, ree_fs_rename).
THEOREM StoredObjectsStayReadable == ReeFsSpec /\ Careful(setup) => []StoredObjectsRead
  BY InvReads, StoreInductive, PTL

\* In a careful setup two handles share a file only when their flags allow it,
\* a handle is stored under the name of its open object, and the assertions of
\* the dirfile hold (tee_pobj_check_access, tee_pobj_rename,
\* tee_fs_dirfile_update_hash).
THEOREM AccessStaysExclusive == ReeFsSpec /\ Careful(setup) => []ExclusiveAccess
  BY InvExclusive, StoreInductive, PTL

-----------------------------------------------------------------------------
(* The file system implements ObjectStore. *)

\* The content of an object is the hash of its entry.
HeldByEntries ==
    /\ \A n : \A i \in Used(disk.dirf) :
          disk.dirf[i].name = n => StoredContent(n) = disk.dirf[i].hash
    /\ \A n : (\A i \in Used(disk.dirf) : disk.dirf[i].name # n) => StoredContent(n) = NULL

LEMMA InvHeld == StoreInv => HeldByEntries
  <1> SUFFICES ASSUME StoreInv PROVE HeldByEntries
    OBVIOUS
  <1>1. StorageOK /\ EntriesRead(disk)
    BY DEF StoreInv, ReeFsInv, DiskInv
  <1>2. disk.dirf \in Seq(DentType) /\ DirfOK(disk.dirf, tx)
    BY <1>1, StorageFacts
  <1>3. ASSUME NEW i \in Used(disk.dirf)
        PROVE  StoredContent(disk.dirf[i].name) = disk.dirf[i].hash
    <2>1. PICK n, j : n = disk.dirf[i].name /\ j = Find(disk.dirf, n)
      OBVIOUS
    <2>2. j \in Used(disk.dirf) /\ disk.dirf[j].name = n /\ j # 0
      <3>1. j \in Used(disk.dirf) /\ disk.dirf[j].name = n
        BY <1>2, <1>3, <2>1, FindFacts
      <3>2. j \in 1 .. Len(disk.dirf)
        BY <1>2, <3>1, DentFacts
      <3> QED
        BY <1>2, <3>1, <3>2
    <2>3. j = i
      BY <1>2, <2>1, <2>2 DEF DirfOK
    <2>4. Versions(disk, disk.dirf[j].f, disk.dirf[j].hash) # {}
      BY <1>1, <2>2 DEF EntriesRead
    <2> QED
      BY <2>1, <2>2, <2>3, <2>4 DEF StoredContent
  <1>4. ASSUME NEW n, \A i \in Used(disk.dirf) : disk.dirf[i].name # n
        PROVE  StoredContent(n) = NULL
    <2>1. Find(disk.dirf, n) = 0
      BY <1>4 DEF Find
    <2> QED
      BY <2>1 DEF StoredContent
  <1> QED
    BY <1>3, <1>4 DEF HeldByEntries

LEMMA InvHeldNext == StoreInv' => HeldByEntries'
  BY InvHeld, PTL

\* Entries that a step leaves alone: dirfiles d and g agree on all but name n.
SameBut(d, g, S) ==
    /\ \A i \in Used(d) : d[i].name \notin S => i \in Used(g) /\ g[i].name = d[i].name
                                                /\ g[i].hash = d[i].hash
    /\ \A i \in Used(g) : g[i].name \notin S => \E j \in Used(d) : d[j].name = g[i].name

LEMMA SameContents ==
    ASSUME HeldByEntries, HeldByEntries', NEW S, SameBut(disk.dirf, disk'.dirf, S),
           NEW n \in Names, n \notin S
    PROVE  StoredContent(n)' = StoredContent(n)
  <1>1. CASE \E i \in Used(disk.dirf) : disk.dirf[i].name = n
    <2>1. PICK i \in Used(disk.dirf) : disk.dirf[i].name = n
      BY <1>1
    <2>2. /\ i \in Used(disk'.dirf) /\ disk'.dirf[i].name = n
          /\ disk'.dirf[i].hash = disk.dirf[i].hash
      BY <2>1 DEF SameBut
    <2>3. StoredContent(n) = disk.dirf[i].hash
      BY <2>1 DEF HeldByEntries
    <2>4. StoredContent(n)' = disk'.dirf[i].hash
      BY <2>2 DEF HeldByEntries
    <2> QED
      BY <2>2, <2>3, <2>4
  <1>2. CASE \A i \in Used(disk.dirf) : disk.dirf[i].name # n
    <2>1. \A i \in Used(disk'.dirf) : disk'.dirf[i].name # n
      BY <1>2 DEF SameBut
    <2>2. StoredContent(n)' = NULL
      BY <2>1 DEF HeldByEntries
    <2>3. StoredContent(n) = NULL
      BY <1>2 DEF HeldByEntries
    <2> QED
      BY <2>2, <2>3
  <1> QED
    BY <1>1, <1>2

\* How a step changes the dirfile: not at all, an object is created or
\* replaced, written, removed, or renamed
DirfStep ==
    /\ tx' = tx \/ (tx < MaxTx /\ tx' = tx + 1)
    /\ \/ disk'.dirf = disk.dirf
       \/ \E n \in Names : disk'.dirf = NewDirf(n) /\ tx < MaxTx /\ tx' = tx + 1
       \/ \E fh \in FileType : /\ fh.idx \in Used(disk.dirf) /\ disk'.dirf = update_hash(fh)
                               /\ tx < MaxTx /\ tx' = tx + 1
       \/ \E i \in Used(disk.dirf) : disk'.dirf = [disk.dirf EXCEPT ![i] = FreeDent] /\ tx' = tx
       \/ \E i \in Used(disk.dirf), m \in Names :
             Find(disk.dirf, m) = 0 /\ disk'.dirf = RenamedDirf(i, m) /\ tx' = tx

LEMMA CreateDirf ==
    ASSUME StoreInv, NEW t \in Threads, ree_fs_create(t)
    PROVE  DirfStep
  <1>0. ReeFsInv /\ Careful(setup) /\ StorageOK
    BY DEF StoreInv, ReeFsInv
  <1>1. tx < MaxTx /\ tx' = tx + 1
    BY <1>0, CreateCases
  <1>2. PICK n \in Names : \/ \E h \in Handles : CreateDone(t, n, h)
                           \/ CreateFails(t)
                           \/ CreateCut(n)
    BY <1>0, CreateCases
  <1>3. PICK f, i : f = TmpNumber /\ i = NewInode(f)
    OBVIOUS
  <1>4. CASE \E h \in Handles : CreateDone(t, n, h)
    <2>1. PICK e : e = disk'
      OBVIOUS
    <2>2. e \in IF Find(disk.dirf, n) = 0 THEN {CreatedWith(n)}
                ELSE Removed(CreatedWith(n), disk.dirf[Find(disk.dirf, n)].f)
      BY <1>4, <2>1 DEF CreateDone
    <2>3. e.dirf = NewDirf(n)
      BY <1>0, <1>1, <1>3, <2>2, CreatedRemoved
    <2> QED
      BY <1>1, <2>1, <2>3 DEF DirfStep
  <1>5. CASE CreateFails(t)
    <2>1. PICK e, d : e = disk' /\ d = Created
      OBVIOUS
    <2>2. e = disk \/ e \in Removed(d, f)
      BY <1>3, <1>5, <2>1 DEF CreateFails
    <2>3. /\ "files" \in DOMAIN d /\ d.files \in [Numbers -> Inodes \cup {NULL}]
          /\ d.dirf = disk.dirf
      BY <1>0, <1>3, <2>1, CreatedDisk
    <2>4. f \in Numbers
      BY <1>0, <1>3, TmpFacts
    <2>5. e.dirf = disk.dirf
      BY <2>2, <2>3, <2>4, RemovedDisk
    <2> QED
      BY <1>1, <2>1, <2>5 DEF DirfStep
  <1>6. CASE CreateCut(n)
    <2>1. PICK d : d \in {Created, CreatedWith(n)} /\ disk' = d
      BY <1>6 DEF CreateCut, LosePower
    <2>2. Created.dirf = disk.dirf
      BY <1>0, <1>3, CreatedDisk
    <2>3. \A e : e = CreatedWith(n) => e.dirf = NewDirf(n)
      BY <1>0, <1>3, CreatedWithDisk
    <2>4. d.dirf = disk.dirf \/ d.dirf = NewDirf(n)
      BY <2>1, <2>2, <2>3
    <2> QED
      BY <1>1, <2>1, <2>4 DEF DirfStep
  <1> QED
    BY <1>2, <1>4, <1>5, <1>6

LEMMA WriteDirf ==
    ASSUME StoreInv, NEW t \in Threads, ree_fs_write(t)
    PROVE  DirfStep
  <1>0. ReeFsInv /\ UseInv /\ DiskInv /\ StorageOK
    BY DEF StoreInv, ReeFsInv
  <1>1. PICK h \in Handles, fh \in FileType :
           /\ Uses(t, h) /\ "write" \in obj[h].flags /\ fh = obj[h].fh /\ fh.ht
           /\ tx \in Nat /\ tx < MaxTx /\ tx' = tx + 1
           /\ \E d0 \in BeforeWrite(fh) :
                 \/ \E c \in CommitOutcomes : \E o : WriteDone(t, h, fh, d0, c, o)
                 \/ \E o : WriteFails(t, h, fh, d0, o)
                 \/ \E o : WriteShut(t, h, fh, d0, o)
                 \/ WriteCut(fh, d0)
    BY <1>0, WriteCases
  <1>2. fh.idx \in Used(disk.dirf)
    BY <1>0, <1>1, WritingFacts
  <1>3. PICK d0 \in BeforeWrite(fh) :
                 \/ \E c \in CommitOutcomes : \E o : WriteDone(t, h, fh, d0, c, o)
                 \/ \E o : WriteFails(t, h, fh, d0, o)
                 \/ \E o : WriteShut(t, h, fh, d0, o)
                 \/ WriteCut(fh, d0)
    BY <1>1
  <1>4. PICK torn, d1, d2 : /\ torn = Written(d0, fh, Bad) /\ d1 = Written(d0, fh, tx + 1)
                            /\ d2 = [d1 EXCEPT !.dirf = update_hash(fh)]
    OBVIOUS
  <1>5. torn.dirf = disk.dirf /\ d1.dirf = disk.dirf /\ "dirf" \in DOMAIN d1
    <2>1. Bad \in Int /\ tx + 1 \in Int
      BY <1>1 DEF Bad
    <2> QED
      BY <1>0, <1>4, <2>1, WrittenDisk
  <1>6. d0.dirf = disk.dirf /\ d2.dirf = update_hash(fh)
    BY <1>0, <1>4, <1>5, BeforeDisk
  <1>7. disk' \in {disk, d0, torn, d1, d2}
    <2>1. ASSUME NEW c \in CommitOutcomes, NEW o, WriteDone(t, h, fh, d0, c, o)
          PROVE  disk' \in {d1, d2}
      BY <1>4, <2>1 DEF WriteDone, Commit
    <2>2. ASSUME NEW o, WriteFails(t, h, fh, d0, o) PROVE disk' \in {disk, torn, d1}
      BY <1>4, <2>2 DEF WriteFails
    <2>3. ASSUME WriteCut(fh, d0) PROVE disk' \in {d0, torn, d1, d2}
      BY <1>4, <2>3 DEF WriteCut, LosePower
    <2>4. ASSUME NEW o, WriteShut(t, h, fh, d0, o) PROVE disk' = d1
      BY <1>4, <2>4 DEF WriteShut
    <2> QED
      BY <1>3, <2>1, <2>2, <2>3, <2>4
  <1>8. disk'.dirf = disk.dirf \/ disk'.dirf = update_hash(fh)
    BY <1>5, <1>6, <1>7
  <1> QED
    BY <1>1, <1>2, <1>8 DEF DirfStep

LEMMA RemoveDirf ==
    ASSUME StoreInv, NEW t \in Threads, ree_fs_remove(t)
    PROVE  DirfStep
  <1>0. ReeFsInv /\ UseInv /\ Careful(setup) /\ StorageOK
    BY DEF StoreInv, ReeFsInv
  <1>1. tx' = tx
    BY <1>0, RemoveCases
  <1>2. PICK i : /\ i = Find(disk.dirf, pobj[call[t].po].name)
                 /\ \/ RemoveDone(t, disk)
                    \/ \E e : i # 0 /\ Freed(e, i) /\ (RemoveDone(t, e) \/ LosePower(e))
    BY <1>0, RemoveCases
  <1>3. CASE RemoveDone(t, disk)
    BY <1>1, <1>3 DEF RemoveDone, DirfStep
  <1>4. ASSUME NEW e, i # 0, Freed(e, i), RemoveDone(t, e) \/ LosePower(e) PROVE DirfStep
    <2>1. i \in Used(disk.dirf)
      BY <1>0, <1>2, <1>4, StorageFacts, FindFacts
    <2>2. disk'.dirf = [disk.dirf EXCEPT ![i] = FreeDent]
      BY <1>4 DEF RemoveDone, LosePower, Freed
    <2> QED
      BY <1>1, <2>1, <2>2 DEF DirfStep
  <1> QED
    BY <1>2, <1>3, <1>4

LEMMA RenameDirf ==
    ASSUME StoreInv, NEW t \in Threads, ree_fs_rename(t)
    PROVE  DirfStep
  <1>0. ReeFsInv /\ UseInv /\ StorageOK
    BY DEF StoreInv, ReeFsInv
  <1>1. PICK h, i, m :
           /\ h \in Handles
           /\ call[t].pc = "rename" /\ h = call[t].h
           /\ i = Find(disk.dirf, pobj[obj[h].po].name) /\ m = pobj[call[t].po].name
           /\ \/ RenameRefused(t)
              \/ \E c \in CommitOutcomes : \E o : RenameDone(t, h, i, m, c, o)
              \/ RenameCut(i, m)
    BY <1>0, RenameCases
  <1>2. m \in Names
    BY <1>0, <1>1, RenameFacts, AloneRename DEF PobjType
  <1>3. PICK e : e = [disk EXCEPT !.dirf = RenamedDirf(i, m)]
    OBVIOUS
  <1>4. e.dirf = RenamedDirf(i, m)
    BY <1>0, <1>3, StorageFacts DEF DiskType
  <1>5. CASE RenameRefused(t)
    BY <1>5 DEF RenameRefused, DirfStep
  <1>6. ASSUME NEW c \in CommitOutcomes, NEW o, RenameDone(t, h, i, m, c, o)
        PROVE  tx' = tx /\ i # 0 /\ Find(disk.dirf, m) = 0 /\ disk' \in {disk, e}
    BY <1>3, <1>6 DEF RenameDone, Commit
  <1>7. ASSUME RenameCut(i, m)
        PROVE  tx' = tx /\ i # 0 /\ Find(disk.dirf, m) = 0 /\ disk' \in {disk, e}
    BY <1>3, <1>7 DEF RenameCut, LosePower
  <1>8. CASE tx' = tx /\ i # 0 /\ Find(disk.dirf, m) = 0 /\ disk' \in {disk, e}
    <2>1. i \in Used(disk.dirf)
      BY <1>0, <1>1, <1>8, StorageFacts, FindFacts
    <2> QED
      BY <1>2, <1>4, <1>8, <2>1 DEF DirfStep
  <1> QED
    BY <1>1, <1>5, <1>6, <1>7, <1>8

LEMMA DirfSame == ASSUME UNCHANGED <<disk, tx>> PROVE DirfStep
  BY DEF DirfStep

LEMMA DirfSteps == StoreInv /\ [ReeFsNext]_ReeFsVars => DirfStep
  <1> SUFFICES ASSUME StoreInv, [ReeFsNext]_ReeFsVars PROVE DirfStep
    OBVIOUS
  <1>1. CASE UNCHANGED ReeFsVars
    BY <1>1, DirfSame DEF ReeFsVars
  <1>2. CASE Crash
    BY <1>2, DirfSame DEF Crash, LosePower
  <1>3. ASSUME NEW t \in Threads,
               \/ storage_obj_open(t) \/ ree_fs_open(t) \/ storage_obj_create(t)
               \/ tee_pobj_create_final(t) \/ storage_obj_read(t)
        PROVE  UNCHANGED <<disk, tx>>
    BY <1>3 DEF storage_obj_open, ree_fs_open, storage_obj_create, tee_pobj_create_final,
                storage_obj_read
  <1>4. ASSUME NEW t \in Threads,
               \/ ree_fs_write_closed(t) \/ storage_obj_del(t) \/ tee_obj_close(t)
               \/ tee_pobj_release(t) \/ storage_obj_rename(t) \/ tee_pobj_rename(t)
        PROVE  UNCHANGED <<disk, tx>>
    BY <1>4 DEF ree_fs_write_closed, storage_obj_del, tee_obj_close, tee_pobj_release,
                storage_obj_rename, tee_pobj_rename
  <1>5. ASSUME NEW t \in Threads,
               \/ ree_fs_opendir(t) \/ ree_fs_readdir(t) \/ enum_get(t)
               \/ enum_open(t) \/ enum_close(t) \/ ree_fs_closedir(t)
        PROVE  UNCHANGED <<disk, tx>>
    BY <1>5 DEF ree_fs_opendir, ree_fs_readdir, enum_get, enum_open, enum_close,
                ree_fs_closedir
  <1>6. CASE ReeFsNext
    <2>1. CASE ~Crash
      <3>1. PICK t \in Threads :
                  \/ storage_obj_open(t) \/ ree_fs_open(t) \/ storage_obj_create(t)
                  \/ ree_fs_create(t) \/ tee_pobj_create_final(t) \/ storage_obj_read(t)
                  \/ ree_fs_write(t) \/ ree_fs_write_closed(t) \/ storage_obj_del(t)
                  \/ ree_fs_remove(t) \/ tee_obj_close(t) \/ tee_pobj_release(t)
                  \/ storage_obj_rename(t) \/ ree_fs_rename(t) \/ tee_pobj_rename(t)
                  \/ ree_fs_opendir(t) \/ ree_fs_readdir(t) \/ enum_get(t)
                  \/ enum_open(t) \/ enum_close(t) \/ ree_fs_closedir(t)
        BY <1>6, <2>1 DEF ReeFsNext
      <3> QED
        BY <1>3, <1>4, <1>5, <3>1, DirfSame, CreateDirf, WriteDirf, RemoveDirf, RenameDirf
    <2> QED
      BY <1>2, <2>1
  <1> QED
    BY <1>1, <1>6

\* The abstract step, from what the names hold before and after it
LEMMA StorePut ==
    ASSUME tx \in Nat, MaxTx \in Nat, tx < MaxTx, tx' = tx + 1, NEW n \in Names,
           StoredContent(n)' = tx + 1,
           \A k \in Names \ {n} : StoredContent(k)' = StoredContent(k)
    PROVE  Store!Put(n)
  <1>1. PICK v : v = tx + 1 /\ v \in (tx + 1) .. MaxTx
    OBVIOUS
  <1>2. [k \in Names |-> StoredContent(k)]'
          = [[k \in Names |-> StoredContent(k)] EXCEPT ![n] = v]
    BY <1>1
  <1> QED
    BY <1>1, <1>2 DEF Store!Put

LEMMA StoreFail ==
    ASSUME tx \in Nat, MaxTx \in Nat, tx < MaxTx, tx' = tx + 1,
           \A k \in Names : StoredContent(k)' = StoredContent(k)
    PROVE  Store!Fail
  <1>1. PICK v : v = tx + 1 /\ v \in (tx + 1) .. MaxTx
    OBVIOUS
  <1> QED
    BY <1>1 DEF Store!Fail

LEMMA StoreDelete ==
    ASSUME tx' = tx, NEW n \in Names, StoredContent(n) # NULL, StoredContent(n)' = NULL,
           \A k \in Names \ {n} : StoredContent(k)' = StoredContent(k)
    PROVE  Store!Delete(n)
  <1>1. PICK s : s = [k \in Names |-> StoredContent(k)]
    OBVIOUS
  <1>2. s[n] # NULL
    BY <1>1
  <1>3. [k \in Names |-> StoredContent(k)]' = [s EXCEPT ![n] = NULL]
    BY <1>1
  <1> QED
    BY <1>1, <1>2, <1>3 DEF Store!Delete

LEMMA StoreRename ==
    ASSUME tx' = tx, NEW n \in Names, NEW m \in Names, n # m,
           StoredContent(n) # NULL, StoredContent(m) = NULL,
           StoredContent(n)' = NULL, StoredContent(m)' = StoredContent(n),
           \A k \in Names \ {n, m} : StoredContent(k)' = StoredContent(k)
    PROVE  Store!Rename(n, m)
  <1>1. PICK s : s = [k \in Names |-> StoredContent(k)]
    OBVIOUS
  <1>2. s[n] # NULL /\ s[m] = NULL /\ s[n] = StoredContent(n)
    BY <1>1
  <1>3. [k \in Names |-> StoredContent(k)]' = [s EXCEPT ![n] = NULL, ![m] = s[n]]
    BY <1>1
  <1> QED
    BY <1>1, <1>2, <1>3 DEF Store!Rename

\* What each change of the dirfile does to the contents
LEMMA ContentsKept ==
    ASSUME HeldByEntries, HeldByEntries', disk'.dirf = disk.dirf, NEW k \in Names
    PROVE  StoredContent(k)' = StoredContent(k)
  <1>1. PICK S : S = {}
    OBVIOUS
  <1>2. SameBut(disk.dirf, disk'.dirf, S)
    BY DEF SameBut
  <1> QED
    BY <1>1, <1>2, SameContents

LEMMA ContentsPut ==
    ASSUME ReeFsInv, HeldByEntries, HeldByEntries', tx < MaxTx, NEW n \in Names,
           disk'.dirf = NewDirf(n)
    PROVE  /\ StoredContent(n)' = tx + 1
           /\ \A k \in Names \ {n} : StoredContent(k)' = StoredContent(k)
  <1>0. StorageOK
    BY DEF ReeFsInv
  <1>1. PICK d, g, i : d = disk.dirf /\ g = disk'.dirf /\ i = NewIdx(n)
    OBVIOUS
  <1>2. /\ i \in Used(g) /\ g[i] = NewDent(n)
        /\ \A j \in Used(d) \ {i} : j \in Used(g) /\ g[j] = d[j]
        /\ \A j \in Used(g) \ {i} : j \in Used(d) /\ g[j] = d[j]
        /\ i \in Used(d) <=> Find(d, n) # 0
        /\ Find(d, n) # 0 => i = Find(d, n)
    BY <1>1, NewDirfFacts
  <1>3. g[i].name = n /\ g[i].hash = tx + 1
    BY <1>2 DEF NewDent
  <1>4. i \in Used(d) => d[i].name = n
    <2>1. d \in Seq(DentType)
      BY <1>0, <1>1, StorageFacts
    <2> QED
      BY <1>2, <2>1, FindFacts
  <1>5. StoredContent(n)' = tx + 1
    BY <1>1, <1>2, <1>3 DEF HeldByEntries
  <1>6. ASSUME NEW k \in Names \ {n} PROVE StoredContent(k)' = StoredContent(k)
    <2>1. PICK S : S = {n}
      OBVIOUS
    <2>2. SameBut(d, g, S)
      BY <1>2, <1>3, <1>4, <2>1 DEF SameBut
    <2>3. k \in Names /\ k \notin S
      BY <1>6, <2>1
    <2> QED
      BY <1>1, <2>2, <2>3, SameContents
  <1> QED
    BY <1>5, <1>6

LEMMA ContentsWritten ==
    ASSUME ReeFsInv, HeldByEntries, HeldByEntries', NEW fh \in FileType,
           fh.idx \in Used(disk.dirf), disk'.dirf = update_hash(fh)
    PROVE  \E n \in Names : /\ StoredContent(n)' = tx + 1
                            /\ \A k \in Names \ {n} : StoredContent(k)' = StoredContent(k)
  <1>0. StorageOK
    BY DEF ReeFsInv
  <1>1. PICK d, g, i, n : d = disk.dirf /\ g = disk'.dirf /\ i = fh.idx /\ n = d[i].name
    OBVIOUS
  <1>2. /\ Used(g) = Used(d) /\ i \in Used(d)
        /\ \A j \in Used(g) \ {i} : g[j] = d[j]
        /\ g[i].name = n /\ g[i].hash = tx + 1
    BY <1>0, <1>1, UpdatedEntries
  <1>3. n \in Names
    BY <1>0, <1>1, <1>2, StorageFacts, DentFacts
  <1>4. StoredContent(n)' = tx + 1
    BY <1>1, <1>2 DEF HeldByEntries
  <1>5. ASSUME NEW k \in Names \ {n} PROVE StoredContent(k)' = StoredContent(k)
    <2>1. PICK S : S = {n}
      OBVIOUS
    <2>2. SameBut(d, g, S)
      BY <1>1, <1>2, <2>1 DEF SameBut
    <2>3. k \in Names /\ k \notin S
      BY <1>5, <2>1
    <2> QED
      BY <1>1, <2>2, <2>3, SameContents
  <1> QED
    BY <1>3, <1>4, <1>5

LEMMA ContentThere ==
    ASSUME StorageOK, HeldByEntries, NEW i \in Used(disk.dirf), NEW n, n = disk.dirf[i].name
    PROVE  n \in Names /\ StoredContent(n) = disk.dirf[i].hash /\ StoredContent(n) # NULL
  <1>1. /\ disk.dirf[i].name \in Names /\ disk.dirf[i] \in DentType
    BY StorageFacts, DentFacts
  <1>2. disk.dirf[i].hash \in Nat
    BY <1>1, ReeFsAssumption DEF DentType
  <1>3. StoredContent(n) = disk.dirf[i].hash
    BY DEF HeldByEntries
  <1> QED
    BY <1>1, <1>2, <1>3, ReeFsAssumption

LEMMA ContentsFreed ==
    ASSUME ReeFsInv, HeldByEntries, HeldByEntries', NEW i \in Used(disk.dirf),
           disk'.dirf = [disk.dirf EXCEPT ![i] = FreeDent]
    PROVE  \E n \in Names : /\ StoredContent(n) # NULL /\ StoredContent(n)' = NULL
                            /\ \A k \in Names \ {n} : StoredContent(k)' = StoredContent(k)
  <1>0. StorageOK
    BY DEF ReeFsInv
  <1>1. PICK d, g, n : d = disk.dirf /\ g = disk'.dirf /\ n = d[i].name
    OBVIOUS
  <1>2. Used(g) = Used(d) \ {i} /\ \A j \in Used(g) : g[j] = d[j]
    BY <1>0, <1>1, FreedEntries
  <1>3. n \in Names /\ StoredContent(n) # NULL
    BY <1>0, <1>1, ContentThere
  <1>4. \A j \in Used(d) : d[j].name = n => j = i
    BY <1>0, <1>1, StorageFacts DEF DirfOK
  <1>5. StoredContent(n)' = NULL
    <2>1. \A j \in Used(g) : g[j].name # n
      BY <1>2, <1>4
    <2> QED
      BY <1>1, <2>1 DEF HeldByEntries
  <1>6. ASSUME NEW k \in Names \ {n} PROVE StoredContent(k)' = StoredContent(k)
    <2>1. PICK S : S = {n}
      OBVIOUS
    <2>2. SameBut(d, g, S)
      BY <1>1, <1>2, <2>1 DEF SameBut
    <2>3. k \in Names /\ k \notin S
      BY <1>6, <2>1
    <2> QED
      BY <1>1, <2>2, <2>3, SameContents
  <1> QED
    BY <1>3, <1>5, <1>6

LEMMA ContentsRenamed ==
    ASSUME ReeFsInv, HeldByEntries, HeldByEntries', NEW i \in Used(disk.dirf), NEW m \in Names,
           Find(disk.dirf, m) = 0, disk'.dirf = RenamedDirf(i, m)
    PROVE  \E n \in Names : /\ n # m /\ StoredContent(n) # NULL /\ StoredContent(m) = NULL
                            /\ StoredContent(n)' = NULL /\ StoredContent(m)' = StoredContent(n)
                            /\ \A k \in Names \ {n, m} : StoredContent(k)' = StoredContent(k)
  <1>0. StorageOK
    BY DEF ReeFsInv
  <1>1. PICK d, g, n : d = disk.dirf /\ g = disk'.dirf /\ n = d[i].name
    OBVIOUS
  <1>2. /\ Used(g) = Used(d) /\ \A j \in Used(g) \ {i} : g[j] = d[j]
        /\ g[i].name = m /\ g[i].hash = d[i].hash
    BY <1>0, <1>1, RenamedEntries
  <1>3. n \in Names /\ StoredContent(n) # NULL /\ StoredContent(n) = d[i].hash
    BY <1>0, <1>1, ContentThere
  <1>4. d \in Seq(DentType) /\ \A j \in Used(d) : d[j].name = n => j = i
    BY <1>0, <1>1, StorageFacts DEF DirfOK
  <1>5. \A j \in Used(d) : d[j].name # m
    <2>1. 0 \notin Used(d)
      BY <1>4, DentFacts
    <2> QED
      BY <1>1, <1>4, <2>1, FindFacts
  <1>6. n # m /\ StoredContent(m) = NULL
    BY <1>1, <1>5 DEF HeldByEntries
  <1>7. StoredContent(m)' = StoredContent(n)
    BY <1>1, <1>2, <1>3 DEF HeldByEntries
  <1>8. StoredContent(n)' = NULL
    <2>1. \A j \in Used(g) : g[j].name # n
      BY <1>2, <1>4, <1>6
    <2> QED
      BY <1>1, <2>1 DEF HeldByEntries
  <1>9. ASSUME NEW k \in Names \ {n, m} PROVE StoredContent(k)' = StoredContent(k)
    <2>1. PICK S : S = {n, m}
      OBVIOUS
    <2>2. SameBut(d, g, S)
      BY <1>1, <1>2, <2>1 DEF SameBut
    <2>3. k \in Names /\ k \notin S
      BY <1>9, <2>1
    <2> QED
      BY <1>1, <2>2, <2>3, SameContents
  <1> QED
    BY <1>3, <1>6, <1>7, <1>8, <1>9

LEMMA ObjectStoreStep ==
    StoreInv /\ StoreInv' /\ [ReeFsNext]_ReeFsVars => [Store!StoreNext]_(Store!StoreVars)
  <1> SUFFICES ASSUME StoreInv, StoreInv', [ReeFsNext]_ReeFsVars
               PROVE  Store!StoreNext \/ UNCHANGED Store!StoreVars
    OBVIOUS
  <1>1. ReeFsInv /\ HeldByEntries /\ HeldByEntries' /\ DirfStep
    BY InvHeld, InvHeldNext, DirfSteps DEF StoreInv
  <1>2. tx \in Nat /\ MaxTx \in Nat
    BY <1>1, StorageFacts, ReeFsAssumption DEF ReeFsInv
  <1>3. CASE disk'.dirf = disk.dirf
    <2>1. \A k \in Names : StoredContent(k)' = StoredContent(k)
      BY <1>1, <1>3, ContentsKept
    <2>2. CASE tx' = tx
      BY <2>1, <2>2 DEF Store!StoreVars
    <2>3. CASE tx < MaxTx /\ tx' = tx + 1
      BY <1>2, <2>1, <2>3, StoreFail DEF Store!StoreNext
    <2> QED
      BY <1>1, <2>2, <2>3 DEF DirfStep
  <1>4. ASSUME NEW n \in Names, disk'.dirf = NewDirf(n), tx < MaxTx, tx' = tx + 1
        PROVE  Store!StoreNext
    BY <1>1, <1>2, <1>4, ContentsPut, StorePut DEF Store!StoreNext
  <1>5. ASSUME NEW fh \in FileType, fh.idx \in Used(disk.dirf), disk'.dirf = update_hash(fh),
               tx < MaxTx, tx' = tx + 1
        PROVE  Store!StoreNext
    BY <1>1, <1>2, <1>5, ContentsWritten, StorePut DEF Store!StoreNext
  <1>6. ASSUME NEW i \in Used(disk.dirf), disk'.dirf = [disk.dirf EXCEPT ![i] = FreeDent],
               tx' = tx
        PROVE  Store!StoreNext
    BY <1>1, <1>6, ContentsFreed, StoreDelete DEF Store!StoreNext
  <1>7. ASSUME NEW i \in Used(disk.dirf), NEW m \in Names, Find(disk.dirf, m) = 0,
               disk'.dirf = RenamedDirf(i, m), tx' = tx
        PROVE  Store!StoreNext
    BY <1>1, <1>7, ContentsRenamed, StoreRename DEF Store!StoreNext
  <1> QED
    BY <1>1, <1>3, <1>4, <1>5, <1>6, <1>7 DEF DirfStep

LEMMA ObjectStoreStart == ReeFsInit => Store!StoreInit
  <1> SUFFICES ASSUME ReeFsInit PROVE Store!StoreInit
    OBVIOUS
  <1>1. disk.dirf = <<>> /\ tx = 0
    BY DEF ReeFsInit, EmptyDisk
  <1>2. Used(disk.dirf) = {}
    BY <1>1 DEF Used
  <1>3. \A n \in Names : StoredContent(n) = NULL
    BY <1>2 DEF StoredContent, Find
  <1> QED
    BY <1>1, <1>3 DEF Store!StoreInit

\* In a careful setup the file system implements ObjectStore: every step of an
\* application, of a failing request and of a loss of power creates, replaces,
\* writes, deletes or renames one object as a whole, or changes none
\* (ree_fs_create, ree_fs_write, ree_fs_remove, ree_fs_rename).
THEOREM ReeFsImplementsObjectStore == ReeFsSpec /\ Careful(setup) => ImplementsObjectStore
  BY ObjectStoreStart, ObjectStoreStep, StoreInductive, PTL
     DEF ReeFsSpec, ImplementsObjectStore, Store!StoreSpec

\* No handle is used again after an error, and no read of an open dirfile fails.
Steady == ~setup.retry /\ "fetch" \notin Faults

\* In a careful setup in which no handle is used again after an error and no read
\* of a dirfile that is open already fails, no object is ever found corrupt and
\* deleted for it (remove_corrupt_obj): opening finds a version with the hash of
\* the entry, and a handle finds the version it has in memory, through losses of
\* power and failing writes, commits and removals.  Where such a read may fail the
\* code does delete intact objects (ree_fs_create, ree_fs_open).
THEOREM CarefulObjectsSurvive ==
    ReeFsSpec /\ Careful(setup) /\ Steady => ObjectsSurvive
  <1>1. ASSUME StoreInv, Steady, NEW t \in Threads
        PROVE  call[t].pc # "remove_corrupt"
    BY <1>1 DEF StoreInv, UseInv, CallsFor, CallFor, Steady, Faults
  <1>2. StoreInv /\ Steady /\ [ReeFsNext]_ReeFsVars =>
           [\A t \in Threads : call[t].pc = "remove_corrupt" =>
               \A n \in Names : StoredContent(n) # NULL => StoredContent(n)' # NULL]_ReeFsVars
    BY <1>1
  <1>3. Steady /\ [ReeFsNext]_ReeFsVars => Steady'
    BY SetupStays DEF Steady, Faults
  <1> QED
    BY <1>2, <1>3, StoreInductive, PTL DEF ReeFsSpec, ObjectsSurvive
=============================================================================
