# A formal model of the OP-TEE core

OP-TEE OS is a trusted execution environment. Its core runs in the secure
world, on threads that normal world schedules, and runs trusted applications
(TAs) on behalf of clients in normal world. This directory has TLA+ models of
the parts of the core whose correctness depends on interleaving, failure and
order, the TLC configurations that check them, and proofs that TLAPS checks.
Paths below are relative to the root of the repository.

    tlc -workers 2 -config MCMutex.cfg MCMutex     checks one run
    tlapm MutexProofs.tla                          checks the proofs of a module

PROJECT.json lists the components, the runs, the properties of each, the
mutants that show that a property can fail, the source lines of every
definition, the findings, the hazards and the theorems.

## 1. Inventory

### Synchronisation: core/kernel/mutex.c, wait_queue.c, notif.c

State: `struct mutex` (a spinlock, a word `state` that is -1, 0 or the number
of readers, a wait queue), `struct condvar` (the mutex it is used with), wait
queue elements on the stacks of the waiting threads, and notifications kept by
normal world. Operations: lock, unlock, try, for reading and writing; wait,
with or without timeout, signal and broadcast; destroy. A thread sleeps in
normal world, by an RPC. Recursive mutexes are a wrapper with an owner and a
count; lockdep.c records the order of locks in a debug build.

Hard: every wait is in three sections (queue, sleep, unqueue) with different
locks, and a notification is sent after the lock that decided on it was
released. Correct means: mutual exclusion, no lost wakeup, no element left on
the queue when its stack frame is gone.

### TA manager: core/kernel/tee_ta_manager.c, user_ta.c, pseudo_ta.c

State: the list of contexts `tee_ctxes` (one per loaded instance of a TA, with
flags, reference count, busy flag, initializing, panicked, releasing); a list
of sessions for normal world and one for each user TA that is itself a client,
with reference count, owner of the session lock, unlink and cancel flags; the
single-instance lock, a thread and a count. All of it is under `tee_ta_mutex`,
with five kinds of condition variables. Operations: open, invoke, close,
cancel (core/tee/entry_std.c for normal world, core/tee/tee_svc.c for TAs),
statistics (core/pta/stats.c), loading and releasing a user TA.

Hard: a TA calls another one on the same thread, so locks nest; a TA may panic
while others wait for it or have sessions to it; it may be loading while others
want it; sessions are closed while others refer to them. Correct means: no use
after free and no leak (reference counts are exact), one thread in a TA at a
time, one instance of a single-instance TA, no deadlock, cancellation meant for
one operation does not hit another.

### Secure storage: core/tee/tee_svc_storage.c, tee_pobj.c, tee_ree_fs.c, fs_dirfile.c, fs_htree.c

A persistent object is a file in normal world: two copies of a head, of each
node of a hash tree, and of each data block, of which one is committed. The
root hash of an object is kept in the dirfile, itself such a file; the dirfile
is protected from rollback by a monotonic counter when there is one. State in
memory: the tree of each handle with dirty flags, the shared handle of the
dirfile with a count, the table of open objects (`tee_pobjs`, under
`pobjs_mutex`), the handles and enumerations of each TA. Operations: create,
open, read, write, truncate, rename, remove, enumerate, close; each is a
sequence of sections under `pobjs_mutex` and `ree_fs_mutex`, and the latter a
sequence of requests to normal world.

Hard: power may be lost between two requests, and each may fail, with or
without effect; two instances of a TA share objects and the dirfile handle,
which one of them may close on an error; a system call is several sections, and
names change between them. Correct means: the stored file is always a complete
version; what was reported as stored is stored; each object changes by itself
and as a whole; sharing rules hold; an enumeration misses nothing.

### Threads and RPC: core/arch/arm/kernel/thread.c, thread_optee_smc.c, core/kernel/thread.c

State: `threads[]` (free, active, suspended; flags; the RPC argument and its
memory object; the cache of payload buffers), the current thread of each core,
the flag of the cache of RPC arguments. Operations: start a thread for a call,
suspend it for a request or a foreign interrupt, resume, free; switch the cache.

Hard: normal world resumes with any id on any core, and calls alternate between
cached and supplied arguments. Correct means: a thread runs on one core, gets
registers from normal world only after a request, and every buffer that normal
world has allocated is given back once.

### Asynchronous notifications: core/kernel/notif.c, notif_default.c

State: the drivers, `notif_started`, bit maps of allocated and pending values.
Operations: start (atomic), stop and bottom half (yielding, driver by driver),
send a value with an interrupt, take values one by one.

Hard: a start comes in the middle of a stop; a value is sent while normal world
takes the last one. Correct means: drivers agree with the state, and no value
stays behind without an interrupt.

### Shared memory: core/mm/mobj_dyn_shm.c

State: lists of registered and of lent memory objects, each with a reference
counter, a mapping counter and the flags guarded, releasing, release_frees; a
mutex and a condition variable for those who wait to release. Operations:
register, find by cookie or address, map, unmap, give back, release, lend,
reclaim.

Hard: counters change outside the locks; a release waits for users, and either
may be the one to free. Correct means: no use after free and no leak, a release
returns, and memory that is shared is never protected.

### The rest

| Component | State and operations | Why it is not here |
|---|---|---|
| Memory pools, page tables (tee_mm.c, pgt_cache.c) | lists of ranges; tables per context | sequential, or address arithmetic |
| RPMB file system (tee_rpmb_fs.c) | write counter, FAT entries | a second backend, as large as the first |
| Handles, lockdep (handle.c, lockdep.c) | small tables and graphs | sequential; lockdep in debug builds only |
| Pager, MMU, interrupts, virtualization, FF-A partitions, crypto, drivers, platforms, ldelf, user-space libraries | | hardware, or another address space |

Components interact by calls: entry_std.c and tee_svc.c call the TA manager,
this uses mutexes and condition variables, which use notifications, which are
RPCs; TAs call the storage system calls, these the file system, this the hash
tree, and this again makes RPCs. The shared state between threads is that of
the TA manager, the file system, the table of open objects and the memory
objects, each under locks of its own. Calls between components go downwards,
from the system calls to the file system, to RPCs, to memory objects, and no
component reads the state of another. This is why the modules are separate:
what one needs of another is an atomic step, justified by the other's run.

## 2. Modules

| Module | Models | Uses |
|---|---|---|
| RWLock | what a mutex promises | |
| Mutex | mutex.c, wait_queue.c | RWLock as its abstract specification |
| MutexProofs | theorems about Mutex | Mutex |
| TaManager | tee_ta_manager.c, loading and release from user_ta.c | |
| TaManagerProofs | theorems about TaManager | TaManager |
| CancelTime | set_invoke_timeout(), tee_ta_session_is_cancelled() | |
| AtomicFile | what a stored file promises | |
| HTree | fs_htree.c and the operations of tee_ree_fs.c on one file | AtomicFile as its abstract specification |
| HTreeProofs | theorems about HTree and FileLayout | HTree, FileLayout |
| ObjectStore | what the objects of a TA promise | |
| ReeFs | tee_svc_storage.c, tee_pobj.c, tee_ree_fs.c, fs_dirfile.c | ObjectStore as its abstract specification |
| ReeFsProofs | theorems about ReeFs | ReeFs |
| ReeFsStoreProofs | theorems about what ReeFs stores, and the refinement | ReeFsProofs |
| FileLayout | get_offs_size() | |
| Shm | mobj_dyn_shm.c and the requests that use it | |
| ShmProofs | theorems about Shm | Shm |
| StdCall | thread.c, thread_optee_smc.c, the cache of core/kernel/thread.c | |
| StdCallProofs | theorems about StdCall | StdCall |
| Notif | notif.c, notif_default.c | |
| NotifProofs | theorems about Notif | Notif |
| MCKernel | composition of Shm, StdCall, Notif and FileLayout | these |
| other MC* | instances for TLC | |

Definitions have the names of the functions they model. Operators whose comment
begins with MUTANT are variants with a plausible bug, used to show that a
property would notice it; they are no part of any specification.

### Mutex

One mutex, any number of threads and condition variables. A step is a section
under a spinlock or a call into normal world. `pc` tells where a thread is:
`lock` is the head of the loop of mutex_lock(), `wake` and `send` are in
wq_wake_next(), `sleep` and `remove` in wq_wait_final_helper(). The fields of a
thread's queue element are functions of the thread because a thread waits in
one place at a time. `notified` belongs to normal world: it keeps a
notification until the thread waits for it, and may end a wait without one
(timeout, or an RPC that fails, whose result the code ignores). Panics are
steps to `panicked`. Recursive mutexes and the debug hooks are left out.

### TaManager

Each thread has a stack of calls, because TAs call TAs; a call has the session,
the context, the place it has reached and whether it has the context busy. A
step is one section under `tee_ta_mutex`, together with what the thread does by
itself around it, or a stay in a TA. A condition variable is the queue of the
threads that wait for it; Mutex.tla is about how that works. A wait is split:
the thread queues, and goes round its loop when it has been signalled, which is
where the state may have changed. The TAs and their flags are part of `setup`,
which is chosen initially, so that one run has several mixtures:
single-instance (SI), multi-session (MS), keep-alive (KA), keep-crashed (KC),
concurrent (CC), pseudo TA (PTA) and the statistics TA (STATS). `clients` says
which TA opens sessions to which. Session ids are 1..MaxId for the 32-bit ids.
CFG_CONCURRENT_SINGLE_INSTANCE_TA is off, as is the default.

A session is on the list of its client, with its id, while its TA is still being
loaded or entered for the first time. Normal world is told the id when it is
open (`given`), but entry_std.c takes any id, so another thread of normal world
may name it before (`early`, a choice of the setup; a TA cannot, as its list is
its own and it has one thread). Such a call waits for the lock of the session,
or cancels without it. When the TA then fails to load, or turns out to have its
one session already, tee_ta_init_session() frees the session whoever has a
reference (tee_ta_manager.c:679). From there on the code reads memory that was
freed: the model stops (`Dangling`, `Running`), and SessionRefs says who may be
hit. Parameters are copied before tee_ta_set_busy() waits, so that bad ones are
reported before the first wait only.

Left out: identities of clients, tracing and profiling, StMM contexts, the
mapping of parameters (its failure is a choice, `params`).

### CancelTime

One session and a clock. `due` is a history variable: the moment the client
asked for. A second has K = 5 milliseconds and there are 8 seconds before the
counter overflows, so that carries and overflows are all reached. The clock
stops before the seconds overflow.

### HTree

One file: an object anchored by its hash (`anchor = "hash"`), or the dirfile
anchored by the counter. On disk: heads, nodes and blocks in two versions; a
place of a node or block is a set of at most one element, empty when nothing
there authenticates. In memory: `ht`, with the sets of dirty and
updated nodes. Each request that writes is a step. When one fails, the old
data, the new data or torn data may be on the disk. Cryptography is ideal: a
hash is the structure it covers, a tag is unique. A block has UPB = 2 units,
enough for partial and full writes, unaligned starts and gaps. `setup` fixes
the anchor, the size, the number of updates and what may go wrong.

The heads are an exception: both are in the first 136 bytes of the file, and a
head of 68 bytes is taken to be written as a whole or not at all. After the
head of an object is torn, its other copy, and the hash in the dirfile, still
decide; for the dirfile the tag of the chosen head could fail, and this
assumption about normal world's storage is what excludes it.

The dirfile's commit of an object's hash is one step here, justified by the run
about the dirfile: its content changes as a whole. It may fail without effect
(`commit`) or after it took effect (`late`). After a failed operation a handle is
used again only where `reuse` says so. With at most four blocks no node group is
cut from a truncated file; FileLayout covers that.

### ReeFs

Two instances of one TA, each with a thread (`call` tells which section of which
system call is next), their handles (`obj`) and enumerations (`dir`), the table
of open objects (`pobj`), the shared dirfile handle (`dirh`, the numbers marked
in use, `refcount`, and `dirht`, whether its tree is still there) and the
storage (`disk`: the entries of the dirfile, the files by number, two versions
of the content of each). A step is a section under `pobjs_mutex` or
`ree_fs_mutex`. The dirfile changes atomically, which is what HTree shows of it;
a file has one block, so that its two versions are exact; a number, new with
each write, is the content and its hash. A loss of power inside an operation
leaves what the requests made so far have written. A file that is removed while
it is open stays readable to its handle, as with tee-supplicant on Linux.
`dir.due` and `dir.seen` are history: what an enumeration has to return still
and what it has returned.

`setup` says what the TAs do and which faults there are: requests that fail in
opening the dirfile (`read`), in reading an entry of it, or a file, that is open
already (`fetch`), in writing a file (`sync`), in committing the dirfile without
effect (`commit`) or after it (`late`), in removing a file (`remove`), and loss
of power (`crash`).

A read that fails closes the tree it reads (fs_htree.c:964), and with the tree
closed everything is TEE_ERROR_CORRUPT_OBJECT. For the tree of a handle that
means that the next use deletes the object. The tree of the dirfile is closed
with its handle by most operations, and `dirht` is true again; three do
otherwise. set_name() takes the error for a free name and goes on
(tee_ree_fs.c:808), fails in tee_fs_dirfile_rename(), and the system call
deletes the object of that name. ree_fs_opendir_rpc() puts the handle without
closing it (tee_ree_fs.c:1105), and so does ree_fs_remove() after the search in
its last assertion (tee_ree_fs.c:1036, in a build with assertions): if others
use the handle the next operation finds the tree closed, and when that one opens
or creates an object it deletes it.

Left out: seeking, the usage flags, attributes and transient objects, running
out of memory, TA_FLAG_DONT_CLOSE_HANDLE_ON_CORRUPT_OBJECT, the hash of the
dirfile in RPMB, and the reset of a dirfile with a counter that is not zero
(CFG_REE_FS_ALLOW_RESET).

### Shm

Memory objects in cells of a heap: a cell that is freed may be used again, so
that a stale pointer is seen as such. A step is one atomic operation on a
counter or one section under a lock; `pc` of a thread names the function or the
section that comes next. Requests of normal world, limited by MaxCalls, are
registering, lending, calls with an object found by cookie or address, calls
with a temporary object, and releases. shm_mu and shm_cv are modelled as a mutex
with a set of sleepers; Mutex.tla is about how they work. An object is one page.
Making a page of protected memory ordinary again always succeeds:
protmem_free_helper() ignores the result of restore_mem() (mobj_dyn_shm.c:636),
and the implementation in the tree does not fail.

### StdCall

Threads, and cores that run them or are in normal world. Normal world starts
calls (MaxStdCalls), resumes any thread that is suspended, and serves a request
in the step that resumes: it allocates a buffer or fails to, and takes back the
one it is told. `regs` is a history variable that tells whose values the
registers have. `cont` is where a thread goes on after a request. A foreign
interrupt may suspend a thread wherever they are enabled. A supplied RPC
argument is the value "supplied". Normal world is taken to allocate buffers as
large as it was asked for: get_rpc_alloc_res() keeps no reference to one that is
too small and does not give it back. It is also taken to allocate memory that
can be shared: when no memory object can be made of a buffer it is given back at
once (thread_rpc_alloc_arg(), get_rpc_alloc_res() and get_rpc_arg()), by a
request like those that are modelled. thread_rpc() and the foreign interrupt are
modelled from the assembly for AArch64. The number of threads is CFG_NUM_THREADS,
in alloc_thread() as in the allocation of the table: with CFG_DYN_CONFIG the two
may differ.

### Notif

The list of drivers, the delivery of an event by each of the yielding threads,
what each driver was told last (`told`), and the values. Normal world
(`TakeInterrupt`, `handling`) asks for values from an interrupt until it is told
that there are no more. notif_unregister_driver() is left out: nothing calls it.

### FileLayout

The offsets of the parts of a file and the length a truncated file is cut to,
as arithmetic.

### MCKernel

The composition of four modules that share no variable. `part` is chosen
initially and tells which one the behaviour is about; the state of the others
stays at its start, so the state space is the sum and not the product.

## 3. Runs

The runs that pass:

| Run | Shows | Bounds |
|---|---|---|
| mutex_safety | lock word, queue and wakeups exact; Mutex implements RWLock | 3 threads, 1 condvar: a holder, a waiter and a third that comes between |
| mutex_liveness | a free mutex that is waited for is taken | 2 threads, 1 condvar |
| ta_sessions | references, busy flag, one instance, no deadlock; with failures to load, panics, TAs kept alive or kept when crashed, sessions named early | 3 threads, 2 contexts, 2 ids |
| ta_calls | nested locks, cycles of calls, panic only on re-entry, release of a client that panics, recursion limit; statistics and cancellations, pseudo and concurrent TAs, spurious wakeups, no memory, bad parameters; sessions named early whose TA fails to load | 2 threads, 2 contexts; X and Y call each other, M calls A, statistics look at A, or normal world names sessions of A or K early |
| ta_liveness | the single-instance lock is passed on, closed sessions are freed | 3 threads, 1 TA, 2 ids |
| htree | the stored file always opens and reads and changes as a whole; for objects and the dirfile; truncation is stored | 2 blocks with 3 updates, 3 blocks with 2; truncation with 3 blocks and 3 updates |
| ree_fs | what the dirfile refers to can be read; handle counts, table of open objects and sharing exact; enumeration complete; ReeFs implements ObjectStore; also when failed reads close the tree of the dirfile | 2 instances, 2 names, 2 handles, 3 open objects, 3 contents |
| kernel, memory objects | references exact, no use after free, no conflict of shared and protected, releases return | 3 threads, 2 objects, 1 cookie, 1 page, 4 requests |
| kernel, threads | a thread runs on one core with its own registers; buffers given back once | 2 cores, 2 threads, 2 buffers, 3 calls |
| kernel, notifications | drivers agree, no value lost | 3 drivers, 2 threads, values 0 to 2, 4 events |
| kernel, layout | no overlap, truncation keeps what it should | 131 blocks, four node groups |

Three threads are one more than any pair-wise race needs; two contexts let a
panicked instance and its successor exist together; two ids let an id be used
again. Three blocks make a tree whose root has both children, so that the sync
writes inner and leaf nodes; three updates let both versions be used and the
first be overwritten. Three contents let an object be created, written and
written again or overwritten, with a second object beside it; three open
objects are two that are open and the new name of a rename. One cookie and one
page make every request of normal world a collision; a user, a release and one
that comes between are three threads and four requests with the registration.
Three drivers let a start come before, between and after the callbacks of a stop.

Symmetry: threads and contexts are interchangeable in ta_sessions and ta_calls,
and in ta_calls also the TAs X and Y, as the one setup that has them stays the
same when they are exchanged.

A run covers several setups, chosen initially: which TAs there are, or what
kind of file it is, and what may go wrong. Everything together is out of reach.
`CHECK_DEADLOCK FALSE` is given where the model really stops: in HTree, ReeFs
and MCKernel when updates, requests and events are used up, and in ta_calls
after the panic, after a session was freed under those who name it, and because
of the deadlock below, to which OnlyStatisticsDeadlock confines it.

Truncation is not part of the refinement of AtomicFile: a file that was
truncated may become unreadable, as told below.

The runs that fail compare the code with a comment or a statement of the
repository:

| Run | What happens |
|---|---|
| ta_statistics_deadlock | dump_ta_stats() waits for a session lock with the single-instance lock held; the owner of the session lock waits for the single-instance lock |
| cancel_time | a carry from milliseconds drops the seconds of the timeout and adds one twice |
| htree_truncate_hash | truncation drops a node two levels down without marking its parent dirty; the stored file no longer opens |
| ree_fs_retry | after a request failed, the handle has no tree; the next write with it takes the object for corrupt and deletes it |

Because of these, and of the following, the passing runs leave something out.
Each of the following is seen by changing a setup in an MC module.

- MCHTree, `Truncation` with the fault `crash`: StoredFileReads fails. The file
  is cut (tee_ree_fs.c:305) before the shorter version is committed.
- MCHTree, `Truncation` with `reuse |-> TRUE`: UpdatesAreStored fails. After a
  failed cut (tee_ree_fs.c:307) the nodes are gone, the length is the old one,
  and the handle stays usable.
- MCHTree, `Object` with `reuse |-> TRUE`: StoredFileReads fails. After a failed
  commit (tee_ree_fs.c:948) the next write goes to the committed version.
- MCHTree, `Object` with the fault `late`: StoredFileReads fails. When the
  commit of a creation took effect but reported failure, ree_fs_create() removes
  the file the dirfile refers to (tee_ree_fs.c:912).
- MCReeFs, Setups <- EnumerateRename: ExclusiveAccess fails. The reference that
  an enumeration takes makes tee_pobj_rename() fail after the dirfile was
  renamed (tee_svc_storage.c:552).
- MCReeFs, Setups <- SharedWrites: ExclusiveAccess fails, by the assertion in
  fs_dirfile.c:358, when an object that is open for shared writing is created
  again with overwrite; and ObjectsSurvive fails, as two handles that write one
  object have different trees in memory.
- MCReeFs, a setup whose only call is `overwrite`, with the flags {Exclusive,
  Readers}, the fault `remove` and three handles: ExclusiveAccess fails. When an
  object that readers have open is created again with overwrite and the removal
  of the old object fails, the handle that was to create it is not the only one
  that uses it.
- MCReeFs, `Update` with the one fault `fetch` and without `overwrite`:
  ObjectsSurvive fails. An instance creates an object, closes it and creates one
  of the same name; a read in set_name() fails, and the first object is deleted
  though nothing is wrong with it (tee_ree_fs.c:808 and tee_svc_storage.c:443).
- MCReeFs, a setup with the call `overwrite`, the flags {Exclusive, Readers} and
  the fault `fetch`: ExclusiveAccess fails. In the same way the object is deleted
  under a reader that has it open.
- MCReeFs, `Truncate` or `FailedTree` with the fault `fetch`: StoredObjectsRead
  fails, as with any other fault that ends an update of the dirfile early.

One case is in the passing runs, and SessionRefs and CountsExact are stated
around it: a session that fails to open is freed although others refer to it
(tee_ta_manager.c:679). Both setups of `Naming` and, with the fault `load`,
`StatisticsOnly` of MCTaManager have calls that lose their session so; that
~Dangling is no invariant shows them. SessionRefs says that it takes a client
that names the session before it was told its id, or the statistics, and that
who loses a session waits for its lock or cancels: nobody is inside a TA by a
session that was freed.

More follow from the source alone. A cancellation that comes after its
operation has ended stays pending for the next one (tee_ta_manager.c:1040),
although user_ta.c:228 resets the flag at the end of an operation so that there
is no "old cancellation pending". The drawing in get_offs_size() has data block
30 version 1 and node 31 in each other's physical block (63 and 64).
notif_free_async_value() does not accept the last value that
notif_alloc_async_value() returns (notif_default.c:92). A driver whose callback
for a stop is running when notifications start again is told of the stop last,
as the comment in notif.h warns; DriversAgree says that it is at most one.

## 4. Fairness

Mutex: weak fairness of each thread's steps inside mutex.c and wait_queue.c, as
normal world schedules every thread it has an RPC of, and of the unlock, as a
thread that never unlocks makes everything else moot. No fairness of timeouts,
signals or new calls. TaManager: weak fairness of each thread's steps in the
core as long as it is `Running`, none of a stay in a TA or of a client's request;
so liveness is stated
about what does not depend on a TA returning: a free lock being taken, and a
session being unlinked, where all references are held by threads that do not
sleep in a TA. A notification that is sent arrives: the core has no means
against a normal world that drops it.

Shm: weak fairness of each thread's steps inside the functions of memory
objects, for the same reason; none of the end of a call that uses an object, so
that ReleaseReturns starts when the last reference has been given back. Weak
fairness is enough for taking shm_mu, since the number of requests is bounded
and the mutex is not taken for ever.

## 5. Proofs

MutexProofs proves, for any finite set of threads and any set of condition
variables, the invariants of mutex_safety and that Mutex implements RWLock. The
inductive invariant is built in layers, each cited by the next:

- `Typing`: TypeOK, with the relation of `pc` to the other fields of a thread;
- `QueueExact`, which needs that a thread enters the queue only when it is not
  in it: lemmas QueueEnter and QueueLeave on sequences;
- `LockWord`, by the cardinality of the set of readers: lemmas LockRead and
  LockFreeRead use FiniteSetTheorems; it also gives the absence of panics;
- the wakeup properties, for which the inductive fact is that a free mutex with
  a sleeper has a guardian: a thread about to take the lock or to wake somebody;
- the refinement: each action is an abstract step or a stutter, from LockWord.

The assumption is MutexAssumption: NULL is neither a thread nor a condvar, and
Threads is finite, as CFG_NUM_THREADS is.

HTreeProofs proves StoredFileReads, HandleReads, UpdatesAreStored and the
refinement ImplementsAtomicFile for any number of blocks, units in a block and
updates, and for every setup with AtomicUpdates. That predicate has three
clauses, and without any one of them a property is false, as section 3 shows:
the file is not truncated (the cut comes before the commit); the commit of an
object's hash does not fail after it took effect (the created file would be
removed); a handle is not used again after a failed commit of its hash (the next
write would go to the committed version). MCHTree evaluates WritesAreAtomic, so
that all the written files of the run are among those of the theorems.

The inductive invariant IInv says that at every step the disk has one whole
version of the file that nothing being written touches. It is Ground (types of
what is on the disk) and Phase, one case for each state of the code: Closed,
Fresh (a tree being created), Dummy (its second head), Idle, Working (blocks or
nodes being written), Committing, Failed. In them

- `Base(B)`: all of tree B is on the disk where its flags say, with a head;
  `Chosen(B)`: it is B that the next open finds, not the other version of the
  root, by the hash in the dirfile or by the counter of the heads;
- `Grown(B, Y, h)` and `Written(B, Y, h)`: the tree in memory is B with changes,
  the nodes Y written in this sync are at versions that B does not use, and no
  dirty node is below one that was written, which is the post-order of
  traverse_post_order() (lemmas on Precedes and Ancestors). Every update has a
  tag of its own (`TagsBefore`), so the root's hash differs from that of B, and
  a disk with both roots is never ambiguous;
- `Filling(h, r, s)`: the ranges that are left to write, a gap to be filled with
  zeros first, turn the content of the tree into the pending content.

Each action is a step of AtomicFile or a stutter (`Simulates`); only the head,
for the counter, and the dirfile's commit, for the hash, change the stored
content. Places and Ancestors are recursive functions over node numbers. That
they satisfy their equations is proved once (TreeRecursion), and what holds of
every node by the least node for which it does not: every nonempty set of
numbers has a least one (LeastNumber), from the well-foundedness of < cited for
one fixed relation. Assumptions: HTreeAssumption (bounds are naturals, setups
have their type) and NullAssumption (NULL is neither a tag nor a content).

HTreeProofs also proves NoOverlap and TruncateKeeps of FileLayout, together
LayoutSound, for files of any size, by division with remainder: every part lies
in a physical block 62 k + 1 (nodes) or 62 k + 2 .. 62 k + 62 (data).

NotifProofs proves the three invariants of Notif for any drivers, threads and
number of values. NoValueLost is inductive with the types. DriversAgree is not:
it speaks of the moment when nobody delivers an event. DeliveryInv adds the
order of the list (each driver once), that the holder of notif_mutex is at a
place of it, and the two facts that pass through a delivery: while
notifications are off, a driver that believes they are on lies behind that
place (StopReachesAll), and while they are on at most one driver has been told
that they are off, none when a stop is about to be told (OneLateStop). Drivers
that register meanwhile go to the head, so that places shift and the thread's
remembered driver does not. NotifAssumption: NoDriver is neither a driver nor a
thread.

StdCallProofs proves ResumedAsSuspended and BuffersExact for any cores, threads
and buffers. CallInv has three layers: CallOK relates the fields of one thread
at each point of its call (what is asked, what is cached, where it goes on);
CoresExact says that a thread is on at most one core, on one exactly while
active; LentExact says that the sets of buffers that threads keep are disjoint
and are together what normal world has lent. What a step does to the thread it
changes is proved about records: it keeps the same buffers, gets one or gives
one back, and each kind of step preserves LentExact once and for all.
StdCallAssumption: NoBuf and "supplied" are not buffers.

ShmProofs proves RefsExact, NoUseAfterFree, SharedIsNotProtected and the action
property PanicOnlyOnTemporary for any set of objects and pages and finitely
many threads. The invariant is stated cell by cell: the two counters against
the sets of threads that hold or map the object, the flags against each other,
what a thread at each point relies on, and what two threads that name one
object never both do. Of the mapping counter the proof
needs only that it is at least the number of threads that have the object
mapped. ShmAssumption: NULL is no
thread, cell or object; threads are finite.

ReeFsProofs proves ReeFsTypeOK, PobjRefs, DirhRefs and that entries of the
dirfile never share a name or a file number, for any threads, names, handles
and contents and for every setup, the ones with shared writers, retries and all
faults included. The facts need each other: the number of a new file is free
because the open dirfile handle knows all numbers; it does because entries have
different numbers, so that freeing one frees no other; a name found in an open
object is one because a call or handle that refers to an object keeps it
(PobjCounts); and the handle is put as often as it was got because a call knows
whether it has a file open (CallsOK). The proof of a step has two halves: what
it does to storage and to the handle (the Storage lemmas, one per operation),
and what it does to the counts. For the second, ThreadStep says what every step
of a thread has in common: its call, at most one of its handles, one enumeration
and the counts change together; lemma ThreadStepKeeps draws the conclusion
once, and each action is shown to be such a step or a loss of power.
ReeFsAssumption: threads are finite, and NULL is no name, number, set of
numbers, file, object or handle.

ReeFsStoreProofs goes on from there to what is stored. EnumerationComplete holds
for every setup. StoredObjectsRead, ExclusiveAccess and ImplementsObjectStore
are proved for the setups that are `Careful`, for any number of threads,
handles, names and updates. Careful has seven clauses; without any one of them
one of the properties is false, and section 3 or a finding has the setup that
shows it: nobody shares an object for writing, no commit fails after it took
effect, nothing is truncated where the update may be cut off, a handle is not
used again where the update of its entry may fail, readers do not share objects
where a read of the dirfile may fail half way (`fetch`: one of them, or a new
creator, would delete the object under the others), nothing that readers may
have open is overwritten where a removal may fail, and nobody renames while
another instance enumerates. TLC evaluates in MCReeFs (NormalIsCareful) that the
setups of the run ree_fs are careful, so that the theorems are about what the
run explores and more. ObjectsSurvive is proved for careful setups that are
`Steady` (CarefulObjectsSurvive): no handle is used again after an error, and no
read fails half way. The run ree_fs_retry shows what happens without the first,
the fault `fetch` in section 3 what happens without the second. For the
deletions themselves nothing is assumed: the other theorems hold of setups with
`fetch`, in which intact objects are deleted whole and alone.

The inductive invariant StoreInv adds two parts to ReeFsInv. UseInv says who
uses an open object: which objects a call holds busy or creating at each of its
places, that a handle with a file that is not sharable is alone with it, and
that two open objects have one name only while one of them is temporary.
DiskInv says what is stored: every entry of the dirfile has a file, no two
numbers have one file, the file has a version with the hash of the entry, and a
handle or call in the middle of an update has the other version. Each needs the
other: an update overwrites the version the dirfile does not name, which only
the holder of the object may know. For the refinement every step is shown to
change the dirfile in one of five ways (not at all, a new entry, an entry less,
a hash, a name; DirfStep), each of which is a step of ObjectStore.

TaManagerProofs proves TypeOK, SessionRefs, ContextRefs, BusyExact, CountsExact,
OneInstance, PanicOnlyOnReentry and NoDeadlock of TaManager for any number of
threads, contexts and session ids, any depth of calls between TAs and every
setup of flags, clients and faults, with sessions named early or not, on one
condition: no TA calls tee_ta_instance_stats() (`NoStatistics`). The core has no
such TA unless CFG_WITH_STATS and CFG_TA_STATS are set, which are off by default
(mk/config.mk:637 and 1279). With it NoDeadlock is false, as the run
ta_statistics_deadlock shows; CountsExact and PanicOnlyOnReentry are then
checked by ta_calls.

What is proved by induction is `TaInv \/ Lost` (TaInvAlways). TaInv holds until
a session that fails to open is freed under those who name it early; `Lost` is
the state after that, in which the model has stopped. The one step that leads
there is InitFail (InitFailLoses). That it hits nobody inside a TA follows from
a part of FramesOK: who else refers to a session that is being opened has named
it early, and waits for its lock or cancels, as the opener has the lock
(OpenerIsAlone).

The invariant `TaInv` has these parts, none of which is preserved
without the others:

- `CoreType`, the types; `FramesOK`, what one call relies on at each place (its
  session exists, is locked by its thread and has its context; the context it
  frees has no references), what a call from a TA relies on in the one that is
  its client, and what two calls never both do;
- `CountsOK`, the two reference counts against the sets they count; a closing
  call has let go of the session and not yet of the context, and both counts
  have to agree on when;
- `SessionsOK`, a session is on its client's list, and has no context only while
  somebody opens it; `ContextsOK`, when a context is on the list, who may have
  it busy, and who frees it when nobody refers to it;
- `ListsOK`, no list has an element twice and a single-instance TA is on the
  list once; the step that needs it is the one that loads a TA after a search
  without result, in the same section;
- `LockOK`, the single-instance lock counts the calls that are in
  single-instance TAs, all of one thread;
- `WaitsOK`, a thread that waits for a context is at the entry of it, so that it
  has a session there and the context is not freed.

A step changes one call, at most one session and at most one context. Step,
FramesStep, CountsStep, ContextsStep, LockStep and WaitsStep say what follows
from that for each part; GeneralStep puts them together, and QuietStep,
TouchStep and GetKeeps do so for the kinds of steps that occur often. The proof
of an action shows what it does to its call, its session and its context.
TaManagerAssumption: threads and contexts are finite, the setups are well formed
(a pseudo TA is single-instance, multi-session and kept alive, as pseudo_ta.h
requires; only pseudo TAs are concurrent, as ldelf_loader.c:169 checks), and
NULL and NW are apart from what they stand beside.

NoDeadlock says that no set of threads waits only for each other, as long as
nobody has lost a session. It follows from
TaInv and a second invariant, `Ordered`: a waiting thread is at the place where
the code waits for this condition, a call that waits for the lock of a session
comes from normal world, one that waits for the references of a session has
marked it for unlinking, and a locked session has the call that locked it. From
these, in every such set a thread is found that does not wait for another one of
it. Nobody waits for a busy context: one that is not single-instance has one
session, whose lock the caller has, and the others are entered under the
single-instance lock. Who waits for the loading of a TA waits
for the thread that loads it, which does not wait. Who waits for the references
of a session waits for calls that hold them, and these do not wait either, as
the mark has woken those who wait for its lock. Who waits for the
single-instance lock waits for a thread that is inside a TA, and that one waits
for none of the locks: it is in a call, so it does not wait for a session lock.
Who waits for a session lock is in no other call, so nobody waits for it, and
only such threads are left.

All counting goes through one fact, OneOff: sets that differ in one element
differ by one in size. Minima of sets of naturals (the bit searches of
notif_default.c, the free entries and numbers of fs_dirfile.c) exist by the
well-foundedness of <, cited from WellFoundedInduction for one fixed relation.

Model-checked only:

- liveness (the runs mutex_liveness and ta_liveness, and ReleaseReturns), which
  is out of the prover's reach;
- OnlyStatisticsDeadlock of TaManager: it is about setups with statistics, where
  NoDeadlock is false;
- CancelTime;
- HTree for files that are truncated. They are no atomic files, as the cut comes
  before the commit; the run checks those whose cut fails without a loss of
  power, and FileLayout which parts of the file a cut keeps.

## 6. Plan

1. CancelTime: that a deadline in the same second is exact, for any clock.
2. Recursive mutexes over Mutex; lockdep, handle and tee_mm as algorithms
   against reference definitions.
3. The RPMB write counter protocol.

## 7. Not modelled

The RPMB file system, the TA database, memory pools and handles are listed in
PROJECT.json with the reason. Memory mapping, the pager, exceptions and
interrupts, virtualization, FF-A and StMM, cryptography, drivers and platforms
depend on hardware or are arithmetic that tests reach. User-space code is seen
as TAs that load or do not, return, fail or panic. Most of the lines of the
repository are of these kinds, or vendored.
