------------------------------- MODULE ReeFs -------------------------------
(***************************************************************************)
(* Persistent objects of trusted applications in the REE file system: the  *)
(* system calls of core/tee/tee_svc_storage.c and tee_obj.c, the table of  *)
(* open objects of core/tee/tee_pobj.c, the file operations of             *)
(* core/tee/tee_ree_fs.c and the dirfile of core/tee/fs_dirfile.c.         *)
(*                                                                         *)
(* A step is what a thread does under pobjs_mutex or under ree_fs_mutex;   *)
(* the loss of power may cut an operation of the file system between two   *)
(* of the writes it makes to normal world.  The dirfile is an atomic file  *)
(* (the module HTree shows it).  An object file has two versions of its    *)
(* content, which is exact for files of one block; a write replaces the    *)
(* version its handle does not use.  Every content written is new, and its *)
(* number stands for the root hash too.                                    *)
(***************************************************************************)
EXTENDS Integers, Sequences, FiniteSets, FiniteSetsExt

CONSTANTS
    Threads,    \* Instances of one trusted application, each with a thread
    Names,      \* Object identifiers
    MaxHandles, \* Bound: object handles (struct tee_obj)
    MaxPobjs,   \* Bound: open objects (struct tee_pobj)
    MaxTx,      \* Bound: contents written
    Setups,     \* What the applications do and what may go wrong
    NULL

Handles == 1 .. MaxHandles
Pobjs == 1 .. MaxPobjs
Numbers == 0 .. MaxTx
Inodes == 1 .. (MaxTx + 1)
Vers == {0, 1}
Bad == 0                \* A version that does not authenticate
Modes == {"read", "write", "meta", "share_read", "share_write"}

\* struct tee_fs_fd, struct tee_pobj and struct tee_obj
FileType == [ino : Inodes, f : Numbers, idx : Nat \ {0}, slot : Vers,
             hash : 1 .. MaxTx, ht : BOOLEAN]
PobjType == [name : Names, flags : SUBSET Modes, refcnt : Nat \ {0}, creating : BOOLEAN]
ObjType == [own : Threads, po : Pobjs, fh : FileType, flags : SUBSET Modes,
            failed : BOOLEAN]

\* There are CFG_NUM_THREADS threads, and NULL is none of what may be there.
ASSUME ReeFsAssumption ==
    /\ MaxHandles \in Nat /\ MaxPobjs \in Nat /\ MaxTx \in Nat
    /\ IsFiniteSet(Threads)
    /\ NULL \notin Names /\ NULL \notin Nat /\ \A s \in SUBSET Numbers : s # NULL
    /\ NULL \notin FileType /\ NULL \notin PobjType /\ NULL \notin ObjType
    /\ Setups \subseteq
          [concurrent : BOOLEAN, updates : 0 .. MaxTx, flags : SUBSET SUBSET Modes,
           calls : SUBSET {"overwrite", "write", "truncate", "del", "rename", "enum"},
           retry : BOOLEAN,
           faults : SUBSET {"crash", "read", "fetch", "sync", "commit", "late", "remove"}]

VARIABLES
    setup,      \* The one of the Setups this is about
    disk,       \* The dirfile, the object files and their two versions
    dirh,       \* ree_fs_dirh: the numbers in use, NULL when closed
    dirht,      \* The tree of ree_fs_dirh was not closed by a failed read
    refcount,   \* ree_fs_dirh_refcount
    pobj,       \* tee_pobjs
    obj,        \* Object handles of the applications
    dir,        \* The enumeration of each application
    call,       \* The system call each thread is in
    tx,         \* Number of contents written
    panicked    \* An assertion failed

mem == <<dirh, dirht, refcount>>
ReeFsVars == <<setup, disk, mem, pobj, obj, dir, call, tx, panicked>>

Calls == setup.calls
Faults == setup.faults

-----------------------------------------------------------------------------
(* The dirfile *)

\* Entries: a free one is zeroed.
FreeDent == [name |-> NULL, f |-> 0, hash |-> Bad]
Used(d) == {i \in DOMAIN d : d[i].name # NULL}
Numbered(d) == {d[i].f : i \in Used(d)}

\* tee_fs_dirfile_find: the index of a name, 0 when there is none
Find(d, n) == LET s == {i \in Used(d) : d[i].name = n}
              IN  IF s = {} THEN 0 ELSE Min(s)

\* find_empty_idx
EmptyIdx(d) == Min((1 .. Len(d) + 1) \ Used(d))

\* write_dent
WriteDent(d, i, e) == IF i > Len(d) THEN Append(d, e) ELSE [d EXCEPT ![i] = e]

-----------------------------------------------------------------------------
(* The files of normal world *)

NoFile == [v \in Vers |-> Bad]
EmptyDisk == [dirf |-> <<>>, files |-> [f \in Numbers |-> NULL],
              data |-> [i \in Inodes |-> NoFile]]

\* Inodes in use: by a name, or by an open file only
OpenFiles == {obj[h].fh : h \in {k \in Handles : obj[k] # NULL}}
             \cup {call[t].fh : t \in Threads}
InUse == {disk.files[f] : f \in Numbers} \cup {fh.ino : fh \in OpenFiles \ {NULL}}

\* tee_fs_rpc_remove_dfh, which may fail: its result is not looked at.
Removed(d, f) == {[d EXCEPT !.files[f] = NULL]}
                 \cup (IF "remove" \in Faults THEN {d} ELSE {})

\* Open by hash: some version authenticates.
Versions(d, f, hash) == IF d.files[f] = NULL THEN {}
                        ELSE {v \in Vers : d.data[d.files[f]][v] = hash}

-----------------------------------------------------------------------------
(* The state of applications and of the core *)

Idle == [pc |-> "idle", po |-> NULL, h |-> NULL, fh |-> NULL, name |-> NULL,
         flags |-> {}, over |-> FALSE]
NewPobj(n, fl, c) == [name |-> n, flags |-> fl, refcnt |-> 1, creating |-> c]
NoDir == [idx |-> -1, due |-> {}, seen |-> {}]

Volatile ==
    [dirh |-> NULL, refcount |-> 0, pobj |-> [p \in Pobjs |-> NULL],
     obj |-> [h \in Handles |-> NULL], dir |-> [t \in Threads |-> NoDir],
     call |-> [t \in Threads |-> Idle]]

ReeFsInit ==
    /\ setup \in Setups
    /\ disk = EmptyDisk
    /\ dirh = NULL /\ dirht = TRUE /\ refcount = 0
    /\ pobj = Volatile.pobj /\ obj = Volatile.obj
    /\ dir = Volatile.dir /\ call = Volatile.call
    /\ tx = 0
    /\ panicked = FALSE

\* Power is lost when the storage is d.
LosePower(d) ==
    /\ "crash" \in Faults
    /\ disk' = d
    /\ dirh' = NULL /\ dirht' = TRUE /\ refcount' = 0
    /\ pobj' = Volatile.pobj /\ obj' = Volatile.obj
    /\ dir' = Volatile.dir /\ call' = Volatile.call

\* The dirfile of d becomes the one of the core: entries that are gone are no
\* longer due to enumerations and may be seen again (history).
Note(d) == [t \in Threads |-> [dir[t] EXCEPT !.due = @ \cap Numbered(d.dirf),
                                             !.seen = @ \cap Numbered(d.dirf)]]

-----------------------------------------------------------------------------
(* get_dirh and put_dirh *)

\* open_dirh marks the numbers of all entries.
Bits == IF dirh = NULL THEN Numbered(disk.dirf) ELSE dirh
get_dirh_fails == dirh = NULL /\ "read" \in Faults

\* A read of an entry, or of the file an entry leads to, fails and closes the
\* tree it reads; there is nothing to read in an empty dirfile.  With the tree
\* of dirh closed the entries cannot be read: TEE_ERROR_CORRUPT_OBJECT.
fetch_fails == "fetch" \in Faults /\ disk.dirf # <<>>

\* An operation gets dirh and puts it: closed on error or for the last one.
put_dirh(bits, close) ==
    /\ dirh' = IF close \/ refcount = 0 THEN NULL ELSE bits
    /\ dirht' = (close \/ refcount = 0 \/ dirht)
    /\ UNCHANGED refcount
close_dirh == put_dirh(NULL, TRUE)

\* It puts dirh without closing it although a read has closed the tree.
put_failed_dirh(bits) ==
    /\ dirh' = IF refcount = 0 THEN NULL ELSE bits
    /\ dirht' = (refcount = 0)
    /\ UNCHANGED refcount

\* A file or an enumeration keeps it.
keep_dirh(bits) == dirh' = bits /\ refcount' = refcount + 1 /\ UNCHANGED dirht

\* MUTANT of put_dirh_primitive: nothing to put when dirh was closed.
put_dirh_if_open ==
    /\ refcount' = IF dirh = NULL THEN refcount ELSE refcount - 1
    /\ dirh' = IF refcount = 1 THEN NULL ELSE dirh
    /\ dirht' = (refcount = 1 \/ dirht)

\* put_dirh_primitive(false)
put_dirh_primitive ==
    /\ refcount' = refcount - 1
    /\ dirh' = IF refcount = 1 THEN NULL ELSE dirh
    /\ dirht' = (refcount = 1 \/ dirht)

\* An entry is written and commit_dirh_writes: the outcomes, whether they report
\* an error and whether the dirfile is replaced
CommitOutcomes == {[failed |-> FALSE, done |-> TRUE]}
    \cup (IF "commit" \in Faults \/ fetch_fails THEN {[failed |-> TRUE, done |-> FALSE]} ELSE {})
    \cup (IF "late" \in Faults THEN {[failed |-> TRUE, done |-> TRUE]} ELSE {})
Commit(d, c, dirf) == IF c.done THEN [d EXCEPT !.dirf = dirf] ELSE d

Go(t, pc) == call' = [call EXCEPT ![t].pc = pc]
Return(t) == call' = [call EXCEPT ![t] = Idle]

-----------------------------------------------------------------------------
(* tee_pobj.c *)

\* tee_pobj_check_access
check_access(o, n) ==
    /\ "meta" \notin o \cup n
    /\ "read" \in o \cup n => "share_read" \in o \cap n
    /\ "share_read" \in o <=> "share_read" \in n
    /\ "write" \in o \cup n => "share_write" \in o \cap n
    /\ "share_write" \in o <=> "share_write" \in n

\* MUTANT of tee_pobj_get: a second user is not counted.
pobj_get_uncounted(p, n, fl, usage, over) ==
    LET same == {q \in Pobjs : pobj[q] # NULL /\ pobj[q].name = n}
    IN  IF same # {}
        THEN /\ p \in same /\ ~pobj[p].creating /\ check_access(pobj[p].flags, fl)
             /\ UNCHANGED pobj
        ELSE /\ pobj[p] = NULL
             /\ \A q \in Pobjs : pobj[q] = NULL => p <= q
             /\ pobj' = [pobj EXCEPT ![p] = NewPobj(n, fl, usage = "create")]

\* tee_pobj_get: p is the object it returns; the one of that name, if any.
tee_pobj_get(p, n, fl, usage, over) ==
    LET same == {q \in Pobjs : pobj[q] # NULL /\ pobj[q].name = n}
    IN  IF same # {}
        THEN /\ p \in same
             /\ usage = "enum" \/ /\ ~pobj[p].creating
                                  /\ usage = "create" => over
                                  /\ check_access(pobj[p].flags, fl)
             /\ pobj' = [pobj EXCEPT ![p].refcnt = @ + 1]
        ELSE /\ pobj[p] = NULL
             /\ \A q \in Pobjs : pobj[q] = NULL => p <= q
             /\ pobj' = [pobj EXCEPT ![p] = NewPobj(n, fl, usage = "create")]

tee_pobj_release(t) ==
    LET p == call[t].po
    IN  /\ call[t].pc = "release"
        /\ pobj' = [pobj EXCEPT ![p] = IF pobj[p].refcnt = 1 THEN NULL
                                       ELSE [pobj[p] EXCEPT !.refcnt = @ - 1]]
        /\ Return(t)
        /\ UNCHANGED <<setup, disk, mem, obj, dir, tx, panicked>>

-----------------------------------------------------------------------------
(* Opening: syscall_storage_obj_open *)

FreeHandle(h) == obj[h] = NULL /\ \A k \in Handles : obj[k] = NULL => h <= k

storage_obj_open(t) ==
    /\ call[t].pc = "idle"
    /\ \E h \in Handles, n \in Names, fl \in setup.flags, p \in Pobjs :
          /\ FreeHandle(h)
          /\ tee_pobj_get(p, n, fl, "open", FALSE)
          /\ call' = [call EXCEPT ![t] =
                [Idle EXCEPT !.pc = "open", !.po = p, !.flags = fl]]
    /\ UNCHANGED <<setup, disk, mem, obj, dir, tx, panicked>>

\* ree_fs_open for the object of a thread: the index found and the version
\* that authenticates; 0 when the name is not found or a request fails.
FoundAt(t) == Find(disk.dirf, pobj[call[t].po].name)
FileAt(i, v) == [ino |-> disk.files[disk.dirf[i].f], f |-> disk.dirf[i].f, idx |-> i,
                 slot |-> v, hash |-> disk.dirf[i].hash, ht |-> TRUE]
Opened(t) == {FileAt(i, v) : i \in {FoundAt(t)} \ {0},
                             v \in IF FoundAt(t) = 0 THEN {} ELSE
                                Versions(disk, disk.dirf[FoundAt(t)].f,
                                         disk.dirf[FoundAt(t)].hash)}
IsCorrupt(t) == FoundAt(t) # 0 /\ Opened(t) = {}

ree_fs_open(t) ==
    /\ call[t].pc = "open"
    /\ \/ /\ dirht
          /\ \E fh \in Opened(t), h \in Handles :
                /\ FreeHandle(h)
                /\ obj' = [obj EXCEPT ![h] =
                      [own |-> t, po |-> call[t].po, fh |-> fh,
                       flags |-> call[t].flags, failed |-> FALSE]]
          /\ keep_dirh(Bits)
          /\ Return(t)
       \/ /\ dirht
          /\ FoundAt(t) = 0 \/ fetch_fails \/ get_dirh_fails
          /\ close_dirh /\ Go(t, "release")
          /\ UNCHANGED obj
       \/ /\ ~dirht \/ IsCorrupt(t)
          /\ close_dirh /\ Go(t, "remove_corrupt")
          /\ UNCHANGED obj
    /\ UNCHANGED <<setup, disk, pobj, dir, tx, panicked>>

-----------------------------------------------------------------------------
(* Creating: syscall_storage_obj_create *)

storage_obj_create(t) ==
    /\ call[t].pc = "idle"
    /\ \E h \in Handles, n \in Names, fl \in setup.flags, p \in Pobjs, over \in BOOLEAN :
          /\ FreeHandle(h)
          /\ over => "overwrite" \in Calls
          /\ tee_pobj_get(p, n, fl, "create", over)
          /\ call' = [call EXCEPT ![t] =
                [Idle EXCEPT !.pc = "create", !.po = p, !.flags = fl, !.over = over]]
    /\ UNCHANGED <<setup, disk, mem, obj, dir, tx, panicked>>

\* MUTANT of TmpNumber: the number of the newest entry may be used again.
TmpNumberUsed == IF Bits = {} THEN 0 ELSE Max(Bits)

\* tee_fs_dirfile_get_tmp
TmpNumber == Min(Numbers \ Bits)

\* The file is created, written and synced; an old file of that number is cut.
CreatedFile(f, i) == [disk EXCEPT !.files[f] = i,
                                  !.data[i] = [NoFile EXCEPT ![0] = tx + 1]]
NewInode(f) == IF disk.files[f] # NULL THEN disk.files[f]
               ELSE Min(Inodes \ (InUse \cup {NULL}))

\* set_name takes a failed read for a name that is not there, and with the tree
\* closed by it tee_fs_dirfile_rename finds the dirfile corrupt: the object of
\* that name is removed next.
ree_fs_create(t) ==
    LET f == TmpNumber
        i == NewInode(f)
        d1 == CreatedFile(f, i)
        n == pobj[call[t].po].name
        old == Find(disk.dirf, n)
        idx == IF old # 0 THEN old ELSE EmptyIdx(disk.dirf)
        dirf == WriteDent(disk.dirf, idx, [name |-> n, f |-> f, hash |-> tx + 1])
        d2 == [d1 EXCEPT !.dirf = dirf]
        conflict == old # 0 /\ ~call[t].over
        Failed(d, next) == /\ disk' \in Removed(d, f)
                           /\ close_dirh /\ Go(t, next)
                           /\ UNCHANGED <<obj, pobj>>
    IN  /\ call[t].pc = "create"
        /\ tx < setup.updates
        /\ tx' = tx + 1
        /\ \/ /\ dirht /\ ~conflict
              /\ \E c \in CommitOutcomes :
                    IF ~c.failed
                    THEN /\ disk' \in IF old = 0 THEN {d2}
                                      ELSE Removed(d2, disk.dirf[old].f)
                         /\ keep_dirh(Bits \cup {f})
                         /\ \E h \in Handles :
                              /\ FreeHandle(h)
                              /\ obj' = [obj EXCEPT ![h] =
                                   [own |-> t, po |-> call[t].po, flags |-> call[t].flags,
                                    failed |-> FALSE,
                                    fh |-> [ino |-> i, f |-> f, idx |-> idx, slot |-> 0,
                                            hash |-> tx + 1, ht |-> TRUE]]]
                         /\ Go(t, "create_final") /\ UNCHANGED pobj
                    ELSE Failed(Commit(d1, c, dirf), "release")
              /\ dir' = Note(disk')
           \/ /\ (dirht /\ conflict) \/ "sync" \in Faults
              /\ Failed(d1, "release")
              /\ UNCHANGED dir
           \/ /\ ~dirht \/ fetch_fails
              /\ Failed(d1, "remove_corrupt")
              /\ UNCHANGED dir
           \/ /\ get_dirh_fails
              /\ Go(t, "release")
              /\ UNCHANGED <<disk, mem, pobj, obj, dir>>
           \/ \E d \in {d1} \cup (IF dirht /\ ~conflict THEN {d2} ELSE {}) : LosePower(d)
        /\ UNCHANGED <<setup, panicked>>

\* The caller of tee_pobj_create_final; it is not called when an object of the
\* application is made persistent in place.
tee_pobj_create_final(t) ==
    /\ call[t].pc = "create_final"
    /\ \E final \in BOOLEAN :
          pobj' = IF final THEN [pobj EXCEPT ![call[t].po].creating = FALSE] ELSE pobj
    /\ Return(t)
    /\ UNCHANGED <<setup, disk, mem, obj, dir, tx, panicked>>

-----------------------------------------------------------------------------
(* Reading, writing and truncating with a handle *)

\* Thread t uses handle h; after an error it does so only in a setup that says so.
Uses(t, h) == /\ call[t].pc = "idle" /\ obj[h] # NULL /\ obj[h].own = t
              /\ obj[h].failed => setup.retry

\* remove_corrupt_obj is next.
Corrupted(t, h) == call' = [call EXCEPT ![t] =
    [Idle EXCEPT !.pc = "remove_corrupt", !.po = obj[h].po, !.h = h]]

\* syscall_storage_obj_read when the tree of the handle was closed, when the
\* version of the handle is no longer in the file and when the request fails
storage_obj_read(t) == \E h \in Handles :
    /\ Uses(t, h) /\ "read" \in obj[h].flags
    /\ \/ /\ ~obj[h].fh.ht \/ disk.data[obj[h].fh.ino][obj[h].fh.slot] # obj[h].fh.hash
          /\ obj' = [obj EXCEPT ![h].fh.ht = FALSE]
          /\ Corrupted(t, h)
       \/ /\ obj[h].fh.ht /\ "fetch" \in Faults
          /\ obj' = [obj EXCEPT ![h].failed = TRUE, ![h].fh.ht = FALSE]
          /\ UNCHANGED call
    /\ UNCHANGED <<setup, disk, mem, pobj, dir, tx, panicked>>

\* MUTANT of WrittenSlot: the version in use is overwritten.
WrittenInPlace(fh) == fh.slot

\* MUTANT of WrittenSlot: a third version.
WrittenNext(fh) == fh.slot + 1

\* out_of_place_write: the version that the handle does not use
WrittenSlot(fh) == 1 - fh.slot

\* tee_fs_dirfile_update_hash
update_hash(fh) == [disk.dirf EXCEPT ![fh.idx].hash = tx + 1]
HashAssertion(fh) == disk.dirf[fh.idx].f = fh.f /\ fh.f \in Bits

\* Storage when a file is about to be written: ree_fs_truncate has cut it.
CutFile(fh) == [disk EXCEPT !.data[fh.ino][fh.slot] = Bad]
BeforeWrite(fh) == (IF "write" \in Calls THEN {disk} ELSE {})
                   \cup (IF "truncate" \in Calls THEN {CutFile(fh)} ELSE {})

\* Version x of the file is written.
Written(d, fh, x) == [d EXCEPT !.data[fh.ino][WrittenSlot(fh)] = x]

\* ree_fs_write and ree_fs_truncate.  A request that fails closes the tree; a
\* commit that fails does not.  With the tree of the dirfile closed the file is
\* written and then taken for corrupt.
ree_fs_write(t) == \E h \in Handles :
  /\ Uses(t, h) /\ "write" \in obj[h].flags /\ obj[h].fh.ht
  /\ tx < setup.updates
  /\ tx' = tx + 1
  /\ \E d0 \in BeforeWrite(obj[h].fh) :
    LET fh == obj[h].fh
        torn == Written(d0, fh, Bad)
        d1 == Written(d0, fh, tx + 1)
        d2 == [d1 EXCEPT !.dirf = update_hash(fh)]
        written == [fh EXCEPT !.slot = WrittenSlot(fh), !.hash = tx + 1]
    IN  /\ \/ /\ dirht /\ fh.idx \in DOMAIN disk.dirf
              /\ \E c \in CommitOutcomes :
                    /\ disk' = Commit(d1, c, update_hash(fh))
                    /\ obj' = [obj EXCEPT ![h].failed = c.failed, ![h].fh = written]
                    /\ put_dirh(Bits, c.failed)
              /\ panicked' = ~HashAssertion(fh)
              /\ UNCHANGED <<pobj, call>>
              /\ dir' = Note(disk')
           \/ /\ ~dirht
              /\ disk' = d1
              /\ obj' = [obj EXCEPT ![h].failed = TRUE, ![h].fh = written]
              /\ close_dirh /\ Corrupted(t, h)
              /\ UNCHANGED <<pobj, dir, panicked>>
           \/ /\ "sync" \in Faults
              /\ disk' \in {disk, torn, d1}
              /\ obj' = [obj EXCEPT ![h].failed = TRUE, ![h].fh.ht = FALSE]
              /\ close_dirh
              /\ UNCHANGED <<pobj, dir, call, panicked>>
           \/ /\ get_dirh_fails
              /\ obj' = [obj EXCEPT ![h].failed = TRUE]
              /\ UNCHANGED <<disk, mem, pobj, dir, call, panicked>>
           \/ /\ \E d \in {d0, torn, d1} \cup (IF dirht THEN {d2} ELSE {}) : LosePower(d)
              /\ UNCHANGED panicked
        /\ UNCHANGED setup

\* The same with a handle whose tree was closed by an earlier error
ree_fs_write_closed(t) == \E h \in Handles :
    /\ Uses(t, h) /\ "write" \in obj[h].flags /\ ~obj[h].fh.ht
    /\ close_dirh
    /\ Corrupted(t, h)
    /\ UNCHANGED <<setup, disk, pobj, obj, dir, tx, panicked>>

-----------------------------------------------------------------------------
(* Removing and closing *)

\* ree_fs_remove in syscall_storage_obj_del and remove_corrupt_obj: the object
\* of the name in the pobj.  The handle, if there is one, is closed next.  The
\* search that the last assert makes may fail too, which goes unnoticed.
ree_fs_remove(t) ==
    LET n == pobj[call[t].po].name
        i == Find(disk.dirf, n)
        f == disk.dirf[i].f
        dirf == [disk.dirf EXCEPT ![i] = FreeDent]
        next == IF call[t].h = NULL THEN "release" ELSE "close"
    IN  /\ call[t].pc \in {"remove", "remove_corrupt"}
        /\ \/ /\ i = 0 \/ ~dirht \/ fetch_fails \/ get_dirh_fails
              /\ close_dirh
              /\ Go(t, next)
              /\ UNCHANGED <<disk, pobj, obj, dir>>
           \/ /\ i # 0 /\ dirht
              /\ \E c \in CommitOutcomes :
                    /\ disk' \in IF c.failed THEN {Commit(disk, c, dirf)}
                                 ELSE Removed([disk EXCEPT !.dirf = dirf], f)
                    /\ \/ put_dirh(Bits \ {f}, c.failed)
                       \/ ~c.failed /\ fetch_fails /\ put_failed_dirh(Bits \ {f})
              /\ dir' = Note(disk')
              /\ Go(t, next)
              /\ UNCHANGED <<pobj, obj>>
           \/ i # 0 /\ dirht /\ LosePower([disk EXCEPT !.dirf = dirf])
        /\ UNCHANGED <<setup, tx, panicked>>

storage_obj_del(t) == \E h \in Handles :
    /\ Uses(t, h) /\ "meta" \in obj[h].flags /\ "del" \in Calls
    /\ call' = [call EXCEPT ![t] =
          [Idle EXCEPT !.pc = "remove", !.po = obj[h].po, !.h = h]]
    /\ UNCHANGED <<setup, disk, mem, pobj, obj, dir, tx, panicked>>

\* tee_obj_close: ree_fs_close, then tee_pobj_release
tee_obj_close(t) ==
    /\ \E h \in Handles :
          /\ obj[h] # NULL /\ obj[h].own = t
          /\ \/ call[t].pc = "idle"
             \/ call[t].pc = "close" /\ call[t].h = h
          /\ obj' = [obj EXCEPT ![h] = NULL]
          /\ call' = [call EXCEPT ![t] = [Idle EXCEPT !.pc = "release", !.po = obj[h].po]]
    /\ put_dirh_primitive
    /\ UNCHANGED <<setup, disk, pobj, dir, tx, panicked>>

-----------------------------------------------------------------------------
(* Renaming: syscall_storage_obj_rename *)

storage_obj_rename(t) ==
    /\ "rename" \in Calls
    /\ \E h \in Handles, m \in Names, p \in Pobjs :
          /\ Uses(t, h) /\ "meta" \in obj[h].flags
          /\ tee_pobj_get(p, m, {"meta"}, "rename", FALSE)
          /\ call' = [call EXCEPT ![t] =
                [Idle EXCEPT !.pc = "rename", !.po = p, !.h = h]]
    /\ UNCHANGED <<setup, disk, mem, obj, dir, tx, panicked>>

\* MUTANT of RenamedDirf: the new name gets an entry of its own.
RenamedElsewhere(i, m) ==
    LET d == WriteDent(disk.dirf, EmptyIdx(disk.dirf), [disk.dirf[i] EXCEPT !.name = m])
    IN  [d EXCEPT ![i] = FreeDent]

\* tee_fs_dirfile_rename: in place
RenamedDirf(i, m) == [disk.dirf EXCEPT ![i].name = m]

\* ree_fs_rename without overwrite
ree_fs_rename(t) ==
    LET i == Find(disk.dirf, pobj[obj[call[t].h].po].name)
        m == pobj[call[t].po].name
        dirf == RenamedDirf(i, m)
    IN  /\ call[t].pc = "rename"
        /\ \/ /\ i = 0 \/ Find(disk.dirf, m) # 0 \/ ~dirht \/ fetch_fails \/ get_dirh_fails
              /\ close_dirh
              /\ Go(t, "release")
              /\ UNCHANGED <<disk, pobj, obj, dir>>
           \/ /\ i # 0 /\ Find(disk.dirf, m) = 0 /\ dirht
              /\ \E c \in CommitOutcomes :
                    /\ disk' = Commit(disk, c, dirf)
                    /\ put_dirh(Bits, c.failed)
                    /\ Go(t, IF c.failed THEN "release" ELSE "pobj_rename")
                    /\ obj' = [obj EXCEPT ![call[t].h].failed = c.failed]
              /\ dir' = Note(disk')
              /\ UNCHANGED pobj
           \/ /\ i # 0 /\ Find(disk.dirf, m) = 0 /\ dirht
              /\ LosePower([disk EXCEPT !.dirf = dirf])
        /\ UNCHANGED <<setup, tx, panicked>>

\* MUTANT of tee_pobj_rename: the open object keeps its old name.
pobj_not_renamed(t) ==
    /\ call[t].pc = "pobj_rename"
    /\ Go(t, "release")
    /\ UNCHANGED <<setup, disk, mem, pobj, obj, dir, tx, panicked>>

\* tee_pobj_rename: refused when the object has other users
tee_pobj_rename(t) ==
    LET p == obj[call[t].h].po
    IN  /\ call[t].pc = "pobj_rename"
        /\ pobj' = IF pobj[p].refcnt # 1 THEN pobj
                   ELSE [pobj EXCEPT ![p].name = pobj[call[t].po].name]
        /\ Go(t, "release")
        /\ UNCHANGED <<setup, disk, mem, obj, dir, tx, panicked>>

-----------------------------------------------------------------------------
(* Enumerating: start_enum, next_enum, free_enum *)

ree_fs_opendir(t) ==
    /\ "enum" \in Calls /\ call[t].pc = "idle" /\ dir[t].idx = -1
    /\ \/ /\ Used(disk.dirf) # {} /\ dirht
          /\ keep_dirh(Bits)
          /\ dir' = [dir EXCEPT ![t] =
                [idx |-> 0, due |-> Numbered(disk.dirf), seen |-> {}]]
       \/ /\ Used(disk.dirf) = {} /\ dirht
          /\ put_dirh(Bits, FALSE)
          /\ UNCHANGED dir
       \/ /\ ~dirht \/ fetch_fails
          /\ put_failed_dirh(Bits)
          /\ UNCHANGED dir
    /\ UNCHANGED <<setup, disk, pobj, obj, call, tx, panicked>>

\* tee_fs_dirfile_get_next
Ahead(t) == {i \in Used(disk.dirf) : i > dir[t].idx}

\* An enumeration is over when it finds no more entry: index -2.
ree_fs_readdir(t) ==
    /\ call[t].pc = "idle" /\ dir[t].idx >= 0
    /\ \/ /\ Ahead(t) # {} /\ dirht
          /\ LET i == Min(Ahead(t))
                 f == disk.dirf[i].f
             IN  /\ dir' = [dir EXCEPT ![t] =
                       [idx |-> i, due |-> @.due \ {f}, seen |-> @.seen \cup {f}]]
                 /\ call' = [call EXCEPT ![t] =
                       [Idle EXCEPT !.pc = "enum_get", !.name = disk.dirf[i].name]]
          /\ put_dirh(Bits, FALSE)
       \/ /\ Ahead(t) = {} /\ dirht
          /\ dir' = [dir EXCEPT ![t].idx = -2]
          /\ UNCHANGED call
          /\ put_dirh(Bits, FALSE)
       \/ /\ ~dirht \/ fetch_fails
          /\ close_dirh
          /\ UNCHANGED <<dir, call>>
    /\ UNCHANGED <<setup, disk, pobj, obj, tx, panicked>>

\* The head of the object is read, whoever has the object open.
enum_get(t) ==
    /\ call[t].pc = "enum_get"
    /\ \E p \in Pobjs :
          /\ tee_pobj_get(p, call[t].name, {}, "enum", FALSE)
          /\ call' = [call EXCEPT ![t].pc = "enum_open", ![t].po = p]
    /\ UNCHANGED <<setup, disk, mem, obj, dir, tx, panicked>>

enum_open(t) ==
    /\ call[t].pc = "enum_open"
    /\ \/ /\ dirht
          /\ \E fh \in Opened(t) :
                call' = [call EXCEPT ![t].pc = "enum_close", ![t].fh = fh]
          /\ keep_dirh(Bits)
       \/ /\ Opened(t) = {} \/ ~dirht \/ fetch_fails \/ get_dirh_fails
          /\ close_dirh /\ Go(t, "release")
    /\ UNCHANGED <<setup, disk, pobj, obj, dir, tx, panicked>>

enum_close(t) ==
    /\ call[t].pc = "enum_close"
    /\ put_dirh_primitive
    /\ call' = [call EXCEPT ![t].pc = "release", ![t].fh = NULL]
    /\ UNCHANGED <<setup, disk, pobj, obj, dir, tx, panicked>>

ree_fs_closedir(t) ==
    /\ call[t].pc = "idle" /\ dir[t].idx # -1
    /\ put_dirh_primitive
    /\ dir' = [dir EXCEPT ![t] = NoDir]
    /\ UNCHANGED <<setup, disk, pobj, obj, call, tx, panicked>>

-----------------------------------------------------------------------------

Crash == LosePower(disk) /\ UNCHANGED <<setup, tx, panicked>>

\* An instance that has nothing open
Passive(t) == /\ call[t].pc = "idle" /\ dir[t].idx = -1
              /\ \A h \in Handles : obj[h] # NULL => obj[h].own # t

ReeFsNext ==
    /\ ~panicked
    /\ \/ \E t \in Threads :
          /\ setup.concurrent \/ \A u \in Threads \ {t} : Passive(u)
          /\ \/ storage_obj_open(t) \/ ree_fs_open(t) \/ storage_obj_create(t)
             \/ ree_fs_create(t) \/ tee_pobj_create_final(t) \/ storage_obj_read(t)
             \/ ree_fs_write(t) \/ ree_fs_write_closed(t) \/ storage_obj_del(t)
             \/ ree_fs_remove(t) \/ tee_obj_close(t) \/ tee_pobj_release(t)
             \/ storage_obj_rename(t) \/ ree_fs_rename(t) \/ tee_pobj_rename(t)
             \/ ree_fs_opendir(t) \/ ree_fs_readdir(t) \/ enum_get(t)
             \/ enum_open(t) \/ enum_close(t) \/ ree_fs_closedir(t)
       \/ Crash

ReeFsSpec == ReeFsInit /\ [][ReeFsNext]_ReeFsVars

-----------------------------------------------------------------------------
(* Correctness *)

\* Flags of handles that may share an object
Sharable(fl) == check_access(fl, fl)

\* Setups in which no object is lost: nobody shares an object for writing, no
\* commit fails after it took effect, files are not truncated where the update
\* may be cut off, a handle is not used again after a failed update of its
\* entry, files that readers may have open are not overwritten where their
\* removal may fail, readers do not share where a failed read of the dirfile may
\* have one of them take the object for corrupt, and nobody renames while
\* another instance enumerates.
Careful(s) ==
    /\ \A fl \in s.flags : ~({"write", "share_write"} \subseteq fl)
    /\ "late" \notin s.faults
    /\ "truncate" \in s.calls => s.faults \cap {"crash", "fetch", "sync", "commit"} = {}
    /\ s.retry => s.faults \cap {"fetch", "commit"} = {}
    /\ "fetch" \in s.faults => \A fl \in s.flags : ~Sharable(fl)
    /\ "overwrite" \in s.calls /\ "remove" \in s.faults =>
          \A fl \in s.flags : ~Sharable(fl)
    /\ s.concurrent => ~({"rename", "enum"} \subseteq s.calls)

\* Type invariant.
ReeFsTypeOK ==
    /\ setup \in Setups
    /\ disk.dirf \in Seq([name : Names \cup {NULL}, f : Numbers, hash : 0 .. MaxTx])
    /\ disk.files \in [Numbers -> Inodes \cup {NULL}]
    /\ disk.data \in [Inodes -> [Vers -> 0 .. MaxTx]]
    /\ dirh = NULL \/ dirh \subseteq Numbers
    /\ dirht \in BOOLEAN
    /\ refcount \in Nat
    /\ pobj \in [Pobjs -> PobjType \cup {NULL}]
    /\ obj \in [Handles -> ObjType \cup {NULL}]
    /\ \A t \in Threads : call[t].fh \in FileType \cup {NULL}
    /\ tx \in 0 .. MaxTx
    /\ panicked \in BOOLEAN

\* Whatever the dirfile refers to can be read: through failing requests and
\* loss of power each object has its file, with the content of the entry, and
\* no two objects have the same name or the same file (ree_fs_create,
\* ree_fs_write, ree_fs_remove and their order of writes).
StoredObjectsRead ==
    /\ \A i \in Used(disk.dirf) :
          Versions(disk, disk.dirf[i].f, disk.dirf[i].hash) # {}
    /\ \A i, j \in Used(disk.dirf) : i # j =>
          disk.dirf[i].name # disk.dirf[j].name /\ disk.dirf[i].f # disk.dirf[j].f

\* The shared dirfile handle counts the open files and enumerations, also
\* after another thread has closed it on an error, and knows the number of
\* every object, so that no number is given twice (put_dirh_primitive,
\* open_dirh, tee_fs_dirfile_get_tmp).
DirhRefs ==
    /\ refcount = Cardinality({h \in Handles : obj[h] # NULL})
                  + Cardinality({t \in Threads : dir[t].idx # -1})
                  + Cardinality({t \in Threads : call[t].fh # NULL})
    /\ dirh # NULL => refcount > 0 /\ Numbered(disk.dirf) \subseteq dirh
    /\ ~dirht => dirh # NULL

\* A handle that is only closed still
Closing(h) == \E t \in Threads : call[t].pc = "close" /\ call[t].h = h

\* Two handles refer to one file only when both were opened for sharing, and
\* the file of a handle is stored under the name in its pobj: neither renaming
\* nor enumerating gets around the exclusion of tee_pobj_check_access, and a
\* handle never writes its hash into the entry of another file (the asserts of
\* tee_fs_dirfile_update_hash and of test_file in fs_dirfile.c).
ExclusiveAccess ==
    LET live == {h \in Handles : obj[h] # NULL /\ ~Closing(h)}
    IN  /\ \A h, k \in live : h # k /\ obj[h].fh.ino = obj[k].fh.ino =>
              obj[h].po = obj[k].po /\ check_access(obj[h].flags, obj[k].flags)
        /\ \A h \in live : call[obj[h].own].pc = "idle" /\ ~obj[h].failed =>
              disk.dirf[obj[h].fh.idx].name = pobj[obj[h].po].name
        /\ ~panicked

\* Each reference to an open object is of a handle or of a call in progress
\* (tee_pobj_get, tee_pobj_release on every path of the system calls).
PobjRefs ==
    \A p \in Pobjs : pobj[p] # NULL =>
        pobj[p].refcnt = Cardinality({h \in Handles : obj[h] # NULL /\ obj[h].po = p})
                       + Cardinality({t \in Threads :
                            /\ call[t].po = p
                            /\ \/ call[t].pc \in {"open", "create", "rename", "pobj_rename",
                                                  "enum_open", "enum_close", "release"}
                               \/ call[t].pc = "remove_corrupt" /\ call[t].h = NULL})

\* An enumeration returns every object that is there all the time, and none
\* twice, while others create, overwrite, rename and delete objects and while
\* the dirfile handle is closed and opened again (tee_fs_dirfile_get_next).
EnumerationComplete ==
    /\ \A t \in Threads : dir[t].idx = -2 => dir[t].due = {}
    /\ \A t \in Threads : dir[t].idx >= 0 =>
          \A i \in Ahead(t) : disk.dirf[i].f \notin dir[t].seen

\* The objects, as the dirfile and the files give them
StoredContent(n) ==
    LET i == Find(disk.dirf, n)
    IN  IF i = 0 THEN NULL
        ELSE IF Versions(disk, disk.dirf[i].f, disk.dirf[i].hash) = {} THEN Bad
        ELSE disk.dirf[i].hash

Store == INSTANCE ObjectStore WITH
            store <- [n \in Names |-> StoredContent(n)], last <- tx

\* Each step of the file system, of a failing request or of a loss of power is
\* an atomic change of one object or no change (ObjectStore).
ImplementsObjectStore == Store!StoreSpec

\* An object goes away only because an application deletes or renames it, not
\* because an operation on it failed earlier (remove_corrupt_obj).
ObjectsSurvive ==
    [][\A t \in Threads : call[t].pc = "remove_corrupt" =>
          \A n \in Names : StoredContent(n) # NULL => StoredContent(n)' # NULL]_ReeFsVars

=============================================================================
