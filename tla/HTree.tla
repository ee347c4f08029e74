------------------------------- MODULE HTree --------------------------------
(***************************************************************************)
(* One file of the REE file system: the hash tree of core/tee/fs_htree.c   *)
(* and the operations of core/tee/tee_ree_fs.c that drive it.  The file    *)
(* is either an object, whose root hash the dirfile keeps (Anchor =        *)
(* "hash"), or the dirfile itself, protected from rollback by a monotonic  *)
(* counter (Anchor = "counter").  ree_fs_mutex serialises the operations;  *)
(* what interleaves with them is the loss of power and the failure of      *)
(* requests to normal world.  A step is one such request that writes.      *)
(*                                                                         *)
(* Cryptography is ideal.  A data block is known by its tag, which is new  *)
(* with each encryption: [tx, data].  A hash is the structure it covers.   *)
(* A place on disk is a set: it has the one thing that is stored there, or *)
(* nothing that authenticates, when it was never written or a failed write *)
(* has torn it.                                                            *)
(***************************************************************************)
EXTENDS Integers, Sequences, FiniteSets, FiniteSetsExt

CONSTANTS
    MaxBlocks,  \* bound: the data blocks of a file
    UPB,        \* units in a block: stands for BLOCK_SIZE
    MaxTx,      \* bound: the writes and truncations
    Setups,     \* the files, with what is done to them and what may go wrong
    Corrupt,    \* the content of a file that cannot be read
    NULL

ASSUME HTreeAssumption ==
    /\ MaxBlocks \in Nat \ {0} /\ UPB \in Nat \ {0} /\ MaxTx \in Nat
    /\ Setups \subseteq
          [anchor : {"hash", "counter"}, blocks : 1..MaxBlocks,
           updates : 0..MaxTx, truncates : BOOLEAN, reuse : BOOLEAN,
           faults : SUBSET {"crash", "read", "write", "truncate", "commit", "late"}]

VARIABLES
    setup,      \* the one of the Setups this is about
    head,       \* disk: the two struct tee_fs_htree_image, if they are there
    node,       \* disk: two struct tee_fs_htree_node_image for each node
    block,      \* disk: two versions of each data block
    anchor,     \* the set of the root hash in the dirfile, or the counter
    ht,         \* memory: struct tee_fs_htree, NULL when closed
    pc,         \* where the operation is
    todo,       \* what is left of the ranges to write: [pos, end, val]
    tx,         \* number of updates so far; makes what they write unique
    pending     \* history: the content the updates in memory should give

disk == <<head, node, block>>
vars == <<setup, disk, anchor, ht, pc, todo, tx, pending>>

Anchor == setup.anchor          \* "hash" or "counter"
Truncates == setup.truncates    \* TRUE when ree_fs_truncate() is called
Reuse == setup.reuse    \* TRUE when a handle is used after a failed operation
Faults == setup.faults

Vers == {0, 1}
Nodes == 1..MaxBlocks
Blocks == 0..(MaxBlocks - 1)
MaxLen == MaxBlocks * UPB

\* The data of an encrypted block, known by its tag, and the contents of files
Tags == [tx : 1..MaxTx, data : [0..(UPB - 1) -> 0..MaxTx]]
Contents == UNION {[1..n -> 0..MaxTx] : n \in 0..MaxLen}

ASSUME NullAssumption ==
    NULL \notin Tags /\ NULL # Corrupt /\ {NULL, Corrupt} \cap Contents = {}

CeilBlocks(n) == (n + UPB - 1) \div UPB
BLOCK_NUM_TO_NODE_ID(b) == b + 1

BlankNode == [blk |-> 0, child |-> [c \in Vers |-> 0], tag |-> NULL,
              hash |-> NULL]
ZeroHead == [counter |-> 0, max |-> 0, len |-> 0, root |-> NULL]
NoHeads == [v \in {} |-> ZeroHead]
NoNodes == [i \in Nodes |-> [v \in Vers |-> {}]]
NoBlocks == [b \in Blocks |-> [v \in Vers |-> {}]]
BlankTree == [counter |-> 0, max |-> 0, len |-> 0,
              node |-> [i \in Nodes |-> BlankNode], dirty |-> {1},
              updated |-> {}]

\* The nodes linked into tree h.  The root is there even when max_node_id,
\* which get_node() does not raise for it, is 0.
Present(h) == 1..Max({1, h.max})

-----------------------------------------------------------------------------
(* Reading *)

\* MUTANT of calc_node_hash: the meta data is not part of the root hash.
calc_node_hash_NoMeta(h, i) ==
    [blk |-> h.node[i].blk, child |-> h.node[i].child, tag |-> h.node[i].tag,
     len |-> 0,
     kids |-> [c \in Vers |->
                 {h.node[j].hash : j \in {2 * i + c} \cap Present(h)}]]

\* calc_node_hash()
calc_node_hash(h, i) ==
    [blk |-> h.node[i].blk, child |-> h.node[i].child, tag |-> h.node[i].tag,
     len |-> IF i = 1 THEN h.len ELSE 0,
     kids |-> [c \in Vers |->
                 {h.node[j].hash : j \in {2 * i + c} \cap Present(h)}]]

\* get_idx_from_counter(): the head slot to use, -1 when there is none.
get_idx_from_counter(c0, c1) ==
    CASE c0 % 2 = 0 /\ c1 % 2 = 0 -> 0
      [] c0 % 2 = 0 /\ c1 % 2 = 1 -> IF c0 > c1 THEN 0 ELSE 1
      [] c0 % 2 = 1 /\ c1 % 2 = 1 -> 1
      [] OTHER                    -> -1

RootHash(v) == {n.hash : n \in node[1][v]}

\* init_head_from_data(): the version of head and root to open, as a set that
\* is empty when there is none.
init_head_from_data ==
    IF Anchor = "hash"
    THEN {v \in Vers : /\ anchor # {} /\ RootHash(v) = anchor
                       /\ v = 1 => RootHash(0) # anchor}
    ELSE IF head = NoHeads THEN {}
         ELSE {v \in {get_idx_from_counter(head[0].counter, head[1].counter)} :
                 v >= 0 /\ head[v].counter >= anchor}

\* ht_head_is_partially_done()
ht_head_is_partially_done(v) == head[v] = ZeroHead

\* verify_root(): the tag of the head covers the root hash.
verify_root(v) ==
    /\ head # NoHeads
    /\ RootHash(v) = {head[v].root}

\* init_tree_from_data(), where the nodes are: the flags of a node select the
\* versions of its children.
Places(v) ==
    LET at[i \in Nodes] ==
            IF i = 1 THEN node[1][v]
            ELSE UNION {node[i][p.child[i % 2]] : p \in at[i \div 2]}
    IN  at

\* init_tree_from_data(): the set of the one tree, empty when a node of it
\* cannot be read.
init_tree_from_data(v) ==
    LET present == Present(head[v])
    IN  {[counter |-> head[v].counter, max |-> head[v].max, len |-> head[v].len,
          node |-> [i \in Nodes |-> IF i \in present
                                    THEN CHOOSE n \in at[i] : TRUE ELSE BlankNode],
          dirty |-> {}, updated |-> {}] :
            at \in {p \in {Places(v)} : \A i \in present : p[i] # {}}}

verify_tree(h) == \A i \in Present(h) : h.node[i].hash = calc_node_hash(h, i)

\* What tee_fs_htree_open(false) finds on the disk as it is: the set of the
\* one tree that verifies, or empty.
OpenTree ==
    {h \in UNION {init_tree_from_data(v) :
                    v \in {w \in init_head_from_data : verify_root(w)}} :
       verify_tree(h)}

\* tee_fs_htree_read_block() succeeds.
BlockReads(h, b) ==
    /\ BLOCK_NUM_TO_NODE_ID(b) \in Present(h)
    /\ LET n == h.node[BLOCK_NUM_TO_NODE_ID(b)]
       IN  block[b][n.blk] = {n.tag}

\* What ree_fs_read_primitive() returns for the whole file.
AllReads(h) == \A b \in 0..(CeilBlocks(h.len) - 1) : BlockReads(h, b)
Content(h) ==
    [i \in 1..h.len |->
        h.node[BLOCK_NUM_TO_NODE_ID((i - 1) \div UPB)].tag.data[(i - 1) % UPB]]

\* The dirfile does not exist yet, or its creation was interrupted; the next
\* open_dirh() creates it.
Uncreated ==
    /\ Anchor = "counter" /\ anchor = 0
    /\ \/ head = NoHeads
       \/ \E v \in init_head_from_data : ht_head_is_partially_done(v)

\* The file that is found after a restart.
Committed ==
    LET good == {Content(h) : h \in {t \in OpenTree : AllReads(t)}}
    IN  CASE Uncreated                       -> <<>>
          [] Anchor = "hash" /\ anchor = {} -> NULL
          [] OTHER -> CHOOSE f \in good \cup {Corrupt} :
                         f = Corrupt => good = {}

F == INSTANCE AtomicFile WITH Data <- 1..MaxTx, file <- Committed

-----------------------------------------------------------------------------
(* Writing *)

Init ==
    /\ setup \in Setups
    /\ head = NoHeads
    /\ node = NoNodes
    /\ block = NoBlocks
    /\ anchor = IF Anchor = "hash" THEN {} ELSE 0
    /\ ht = NULL
    /\ pc = "idle"
    /\ todo = <<>>
    /\ tx = 0
    /\ pending = NULL

\* The file is being created: by ree_fs_create(), or by open_dirh().
Creating ==
    IF Anchor = "hash" THEN anchor = {}
    ELSE ht.counter = 0 \/ pc = "dummy"

Forget ==
    /\ ht' = NULL
    /\ todo' = <<>>
    /\ pending' = NULL

\* tee_fs_htree_close() on an error.  What is in memory is gone, and a file
\* whose creation has failed is to be removed.
tee_fs_htree_close ==
    /\ Forget
    /\ pc' = IF Creating THEN "remove" ELSE "idle"

\* The outcome of a request that writes new and leaves d behind: it succeeds
\* and Then, or it fails, d being old, new or torn, and the tree is closed.
Request(d, new, Then) ==
    \/ d = new /\ Then
    \/ "write" \in Faults /\ tee_fs_htree_close

\* An operation may start: the file is open, and either the previous
\* operation is complete or its handle is used although it has failed.
Ready ==
    /\ ht # NULL
    /\ pc \in (IF Reuse THEN {"idle", "failed"} ELSE {"idle"})

\* Several writes may precede a sync: in ree_fs_create(), and in the updates
\* of the dirfile.
ReadyToWrite ==
    \/ Ready
    \/ pc = "wrote" /\ (Anchor = "hash" => anchor = {})

\* MUTANT of ree_fs_write_primitive: the gap is not filled.
ree_fs_write_primitive_NoFill(pos, n) ==
    /\ ReadyToWrite
    /\ tx < setup.updates
    /\ pos + n <= setup.blocks * UPB
    /\ tx' = tx + 1
    /\ todo' = <<[pos |-> pos, end |-> pos + n, val |-> tx']>>
    /\ pending' = F!Overlay(pending, pos, n, tx')
    /\ pc' = "block"
    /\ UNCHANGED <<disk, anchor, ht>>

\* ree_fs_write_primitive(): a gap between the end of the file and pos is
\* filled first, by ree_fs_ftruncate_internal().
ree_fs_write_primitive(pos, n) ==
    /\ ReadyToWrite
    /\ tx < setup.updates
    /\ pos + n <= setup.blocks * UPB
    /\ tx' = tx + 1
    /\ todo' = (IF ht.len < pos THEN <<[pos |-> ht.len, end |-> pos, val |-> 0]>>
               ELSE <<>>) \o <<[pos |-> pos, end |-> pos + n, val |-> tx']>>
    /\ pending' = F!Overlay(pending, pos, n, tx')
    /\ pc' = "block"
    /\ UNCHANGED <<disk, anchor, ht>>

\* get_node(create): the nodes up to i are linked into h.
get_node(h, i) == [h EXCEPT !.max = IF i \in Present(h) THEN h.max ELSE i]

\* MUTANT of tee_fs_htree_write_block: the committed version is overwritten.
tee_fs_htree_write_block_InPlace(h, b, tag) ==
    LET i == BLOCK_NUM_TO_NODE_ID(b)
        g == get_node(h, i)
    IN  [g EXCEPT !.node[i].tag = tag,
                  !.dirty = @ \cup {i}, !.updated = @ \cup {i}]

\* tee_fs_htree_write_block(): tree h with block b encrypted to tag.  The
\* first write since the last sync goes to the version not committed.
tee_fs_htree_write_block(h, b, tag) ==
    LET i == BLOCK_NUM_TO_NODE_ID(b)
        g == get_node(h, i)
    IN  [g EXCEPT !.node[i].blk = IF i \in g.updated THEN @ ELSE 1 - @,
                  !.node[i].tag = tag,
                  !.dirty = @ \cup {i}, !.updated = @ \cup {i}]

\* What a partial write of block b starts from: the block as it is, or zeros
\* when it is beyond the end of the file.
OldBlock(h, b) ==
    IF b < CeilBlocks(h.len) THEN h.node[BLOCK_NUM_TO_NODE_ID(b)].tag.data
    ELSE [u \in 0..(UPB - 1) |-> 0]

\* out_of_place_write(), the block at the front of the range: it is read,
\* unless it is beyond the end of the file, changed and written.  The length
\* is updated after the last block of the range.
out_of_place_write ==
    /\ pc = "block"
    /\ LET r == Head(todo)
           b == r.pos \div UPB
           end == Min({r.end, (b + 1) * UPB})
           exists == b < CeilBlocks(ht.len)
           tag == [tx |-> tx,
                   data |-> [u \in 0..(UPB - 1) |->
                               IF b * UPB + u >= r.pos /\ b * UPB + u < end
                               THEN r.val ELSE OldBlock(ht, b)[u]]]
           h == tee_fs_htree_write_block(ht, b, tag)
           v == h.node[BLOCK_NUM_TO_NODE_ID(b)].blk
           last == end = r.end
       IN  \/ /\ exists => BlockReads(ht, b)
              /\ \E d \in {block[b][v], {tag}, {}} :
                    /\ block' = [block EXCEPT ![b][v] = d]
                    /\ Request(d, {tag},
                         /\ ht' = IF last /\ end > h.len
                                  THEN [h EXCEPT !.len = end,
                                                 !.dirty = @ \cup {1}]
                                  ELSE h
                         /\ todo' = IF last THEN Tail(todo)
                                    ELSE [todo EXCEPT ![1].pos = end]
                         /\ pc' = IF todo' = <<>> THEN "wrote" ELSE "block"
                         /\ UNCHANGED pending)
           \/ /\ exists
              /\ "read" \in Faults \/ ~BlockReads(ht, b)
              /\ tee_fs_htree_close
              /\ UNCHANGED block
    /\ UNCHANGED <<head, node, anchor, tx>>

\* tee_fs_htree_truncate(): the nodes after the one of block b are removed.
tee_fs_htree_truncate(h, b) ==
    LET g == [h EXCEPT !.max = Min({@, BLOCK_NUM_TO_NODE_ID(b)})]
    IN  [g EXCEPT !.node = [i \in Nodes |-> IF i \in Present(g) THEN @[i]
                                            ELSE BlankNode],
                  !.dirty = @ \cap Present(g), !.updated = @ \cap Present(g)]

\* ree_fs_truncate() and ree_fs_ftruncate_internal() to n units.  When the
\* file gets shorter its nodes are dropped from the tree, then the blocks
\* behind them from the disk, and then the length is set.
ree_fs_truncate(n) ==
    /\ Truncates
    /\ n <= setup.blocks * UPB
    /\ Ready
    /\ tx < setup.updates
    /\ tx' = tx + 1
    /\ \/ /\ n > ht.len
          /\ todo' = <<[pos |-> ht.len, end |-> n, val |-> 0]>>
          /\ pending' = F!Resize(pending, n)
          /\ pc' = "block"
          /\ UNCHANGED <<block, ht>>
       \/ LET h == tee_fs_htree_truncate(ht, n \div UPB)
              cut == [b \in Blocks |-> IF b <= CeilBlocks(n) THEN block[b]
                                       ELSE [v \in Vers |-> {}]]
          IN  /\ n <= ht.len
              /\ \/ /\ block' = cut
                    /\ ht' = [h EXCEPT !.len = n, !.dirty = @ \cup {1}]
                    /\ pending' = F!Resize(pending, n)
                    /\ pc' = "wrote"
                 \/ /\ "truncate" \in Faults
                    /\ ht' = h
                    /\ pc' = "failed"
                    /\ UNCHANGED <<block, pending>>
              /\ UNCHANGED todo
    /\ UNCHANGED <<head, node, anchor>>

-----------------------------------------------------------------------------
(* Synchronising, opening and closing *)

\* traverse_post_order() visits i before j.
Ancestors[i \in Nodes] ==
    IF i = 1 THEN {1} ELSE {i} \cup Ancestors[i \div 2]
Precedes(i, j) ==
    /\ i # j
    /\ \/ j \in Ancestors[i]
       \/ \E a \in Ancestors[i] : a % 2 = 0 /\ a + 1 \in Ancestors[j]

\* htree_sync_node_to_storage() of the first dirty node: it goes to the
\* version that is not committed, and its parent becomes dirty.
htree_sync_node_to_storage ==
    /\ pc \in {"wrote", "sync"}
    /\ \E i \in ht.dirty :
          /\ \A j \in ht.dirty \ {i} : Precedes(i, j)
          /\ LET c == i % 2
                 g == IF i = 1 THEN ht
                      ELSE [ht EXCEPT !.node[i \div 2].child[c] = 1 - @,
                                      !.dirty = @ \cup {i \div 2}]
                 v == IF i = 1 THEN 1 - (ht.counter % 2)
                      ELSE g.node[i \div 2].child[c]
                 h == [g EXCEPT !.node[i].hash = calc_node_hash(g, i),
                                !.dirty = @ \ {i}, !.updated = @ \ {i}]
             IN  \E d \in {node[i][v], {h.node[i]}, {}} :
                    /\ node' = [node EXCEPT ![i][v] = d]
                    /\ Request(d, {h.node[i]},
                         ht' = h /\ pc' = "sync" /\ UNCHANGED <<todo, pending>>)
    \* The heads, in front of the nodes, read as zeros once a node is there.
    /\ head' = IF head = NoHeads THEN [v \in Vers |-> ZeroHead] ELSE head
    /\ UNCHANGED <<block, anchor, tx>>

\* update_root() and rpc_write_head().  A head is written as a whole or not
\* at all.
update_root ==
    LET c == ht.counter + 1
        new == [counter |-> c, max |-> ht.max, len |-> ht.len,
                root |-> ht.node[1].hash]
    IN  \/ /\ head' = [head EXCEPT ![c % 2] = new]
           /\ ht' = [ht EXCEPT !.counter = c]
           /\ pc' = IF c = 1 THEN "dummy" ELSE "commit"
           /\ UNCHANGED <<todo, pending>>
        \/ /\ "write" \in Faults
           /\ \E d \in {head[c % 2], new} : head' = [head EXCEPT ![c % 2] = d]
           /\ tee_fs_htree_close

\* MUTANT of tee_fs_htree_sync_to_storage: the head goes before the nodes.
tee_fs_htree_sync_to_storage_Early ==
    /\ pc = "sync" /\ head # NoHeads
    /\ update_root
    /\ UNCHANGED <<node, block, anchor, tx>>

\* tee_fs_htree_sync_to_storage(), after all the nodes are written.
tee_fs_htree_sync_to_storage ==
    /\ pc = "sync"
    /\ ht.dirty = {}
    /\ update_root
    /\ UNCHANGED <<node, block, anchor, tx>>

\* create_and_sync(): the file starts with an empty tree.  The first sync of
\* it is followed by a dummy head in slot 0.
create_and_sync ==
    /\ ht = NULL /\ pc = "idle"
    /\ \/ Anchor = "counter" /\ Uncreated /\ UNCHANGED disk
       \/ /\ Anchor = "hash" /\ anchor = {}
          /\ head' = NoHeads /\ node' = NoNodes /\ block' = NoBlocks
    /\ ht' = [BlankTree EXCEPT !.node[1].hash = calc_node_hash(BlankTree, 1)]
    /\ pending' = <<>>
    /\ pc' = "sync"
    /\ UNCHANGED <<anchor, todo, tx>>

WriteDummyHead ==
    /\ pc = "dummy"
    /\ \E d \in {head[0], ZeroHead} :
          /\ head' = [head EXCEPT ![0] = d]
          /\ Request(d, ZeroHead,
                     /\ pc' = IF Anchor = "hash" THEN "wrote" ELSE "idle"
                     /\ UNCHANGED <<ht, todo, pending>>)
    /\ UNCHANGED <<node, block, anchor, tx>>

\* What follows the sync.  An object: its hash is stored in the dirfile,
\* whose own commit is one step here; when it fails, the handle stays open
\* unless the object is being created.  The dirfile: commit_dirh_writes()
\* raises the counter to the one of the head; the dirfile is closed when that
\* fails.  A commit may fail although it was carried out ("late").
Commit ==
    /\ pc = "commit"
    /\ LET new == IF Anchor = "hash" THEN {ht.node[1].hash} ELSE ht.counter
           fails == \/ "commit" \in Faults /\ UNCHANGED anchor
                    \/ "late" \in Faults /\ anchor' = new
       IN  \/ /\ anchor' = new
              /\ pc' = "idle"
              /\ UNCHANGED <<ht, todo, pending>>
           \/ /\ fails
              /\ Anchor = "hash" /\ ~Creating
              /\ pc' = "failed"
              /\ UNCHANGED <<ht, todo, pending>>
           \/ /\ fails
              /\ Anchor = "counter" \/ Creating
              /\ tee_fs_htree_close
    /\ UNCHANGED <<disk, tx>>

\* tee_fs_rpc_remove_dfh() of the file that could not be created; its result
\* is ignored.
tee_fs_rpc_remove_dfh ==
    /\ pc = "remove"
    /\ pc' = "idle"
    /\ \/ head' = NoHeads /\ node' = NoNodes /\ block' = NoBlocks
       \/ "write" \in Faults /\ UNCHANGED disk
    /\ UNCHANGED <<anchor, ht, todo, tx, pending>>

\* tee_fs_htree_open(false)
tee_fs_htree_open ==
    /\ ht = NULL /\ pc = "idle"
    /\ ~Uncreated
    /\ \E h \in OpenTree : ht' = h
    /\ pending' = Committed
    /\ UNCHANGED <<disk, anchor, pc, todo, tx>>

ree_fs_close ==
    /\ ht # NULL
    /\ pc \in {"idle", "failed"}
    /\ Forget
    /\ pc' = "idle"
    /\ UNCHANGED <<disk, anchor, tx>>

\* The power is lost, or the core panics.
Crash ==
    /\ "crash" \in Faults
    /\ ht # NULL \/ pc = "remove"
    /\ Forget
    /\ pc' = "idle"
    /\ UNCHANGED <<disk, anchor, tx>>

Next ==
    /\ UNCHANGED setup
    /\ \/ create_and_sync
       \/ tee_fs_htree_open
       \/ \E pos \in 0..MaxLen, n \in 1..MaxLen : ree_fs_write_primitive(pos, n)
       \/ \E n \in 0..MaxLen : ree_fs_truncate(n)
       \/ out_of_place_write
       \/ htree_sync_node_to_storage
       \/ tee_fs_htree_sync_to_storage
       \/ WriteDummyHead
       \/ Commit
       \/ tee_fs_rpc_remove_dfh
       \/ ree_fs_close
       \/ Crash

Spec == Init /\ [][Next]_vars

-----------------------------------------------------------------------------
(* Properties *)

\* The fields have the types of the structures they stand for; in memory, only
\* nodes that are linked into the tree are dirty, and only dirty nodes have a
\* block that was updated since the last sync.
TypeOK ==
    LET NodeOK(n) == /\ n.blk \in Vers /\ n.child \in [Vers -> Vers]
                     /\ n.tag \in Tags \cup {NULL}
    IN  /\ DOMAIN head \in {{}, Vers}
        /\ \A v \in DOMAIN head :
              /\ head[v].counter \in Nat
              /\ head[v].max \in 0..MaxBlocks /\ head[v].len \in 0..MaxLen
        /\ \A i \in Nodes, v \in Vers :
              Cardinality(node[i][v]) <= 1 /\ \A n \in node[i][v] : NodeOK(n)
        /\ \A b \in Blocks, v \in Vers :
              Cardinality(block[b][v]) <= 1 /\ block[b][v] \subseteq Tags
        /\ ht # NULL =>
              /\ ht.counter \in Nat
              /\ ht.max \in 0..MaxBlocks /\ ht.len \in 0..MaxLen
              /\ \A i \in Nodes : NodeOK(ht.node[i])
              /\ ht.dirty \subseteq Present(ht)
              /\ ht.updated \subseteq ht.dirty
        /\ pc \in {"idle", "failed", "block", "wrote", "sync", "dummy",
                   "commit", "remove"}
        /\ pending = NULL <=> ht = NULL
        /\ ht = NULL => pc \in {"idle", "remove"}
        /\ tx \in 0..MaxTx

\* The files whose updates are atomic: they are not truncated and, when their
\* hash is in the dirfile, no commit fails after it took effect and no handle is
\* used again after a commit has failed.
AtomicUpdates(s) ==
    /\ ~s.truncates
    /\ s.anchor = "hash" => /\ "late" \notin s.faults
                            /\ s.reuse => "commit" \notin s.faults

\* Whatever has failed, and whenever power was lost, the file opens again and
\* all of it can be read: tee_fs_htree_write_block() and the sync never touch
\* what the stored version consists of.
StoredFileReads == ht = NULL => Committed # Corrupt

\* A write or truncation that has succeeded is stored: a restart, or another
\* handle, finds the file as this handle has left it.
UpdatesAreStored == pc = "idle" /\ ht # NULL => Committed = pending

\* Between operations the open handle reads what the operations before have
\* made of the file.
HandleReads ==
    pc = "idle" /\ ht # NULL => AllReads(ht) /\ Content(ht) = pending

\* Truncation cuts the file before its shorter version is committed
\* (ree_fs_ftruncate_internal), which no atomic update does: the files that
\* are truncated are left out of the refinement.
Mapped(f) == IF setup.truncates THEN NULL ELSE f

A == INSTANCE AtomicFile WITH
        Data <- 1..MaxTx, file <- Mapped(Committed), pending <- Mapped(pending)

\* The stored file changes as a whole: it is always the result of a prefix of
\* the updates, never a mixture of two versions, for files that are created
\* and written (tee_fs_htree_write_block, tee_fs_htree_sync_to_storage).
ImplementsAtomicFile == A!Spec
=============================================================================
