----------------------------- MODULE FileLayout -----------------------------
(***************************************************************************)
(* Where the parts of a hash tree are in the file: get_offs_size() of      *)
(* core/tee/tee_ree_fs.c.  Everything HTree.tla says rests on the parts    *)
(* being apart.                                                            *)
(***************************************************************************)
EXTENDS Integers

CONSTANT MaxIdx     \* bound: node and block numbers TLC looks at

ASSUME LayoutAssumption == MaxIdx \in Nat

VARIABLE elem       \* the part that is accessed

BLOCK_SIZE == 4096
head_size == 68     \* sizeof(struct tee_fs_htree_image)
node_size == 66     \* sizeof(struct tee_fs_htree_node_image)
block_nodes == BLOCK_SIZE \div (node_size * 2)

Types == {"HEAD", "NODE", "BLOCK"}
Elements(Idx) ==
    {e \in [type : Types, idx : Idx, vers : {0, 1}] : e.type = "HEAD" => e.idx = 0}

\* get_offs_size(): case TEE_FS_HTREE_TYPE_NODE.
NodeOffs(idx, vers) ==
    (1 + (idx \div block_nodes) * block_nodes * 2) * BLOCK_SIZE
      + 2 * node_size * (idx % block_nodes) + node_size * vers

\* MUTANT of BlockOffs: the blocks used for nodes are counted one too late.
BlockOffs_Late(idx, vers) ==
    LET bidx == 2 * idx + vers
    IN  (2 + bidx + bidx \div (block_nodes * 2)) * BLOCK_SIZE

\* get_offs_size(): case TEE_FS_HTREE_TYPE_BLOCK.
BlockOffs(idx, vers) ==
    LET bidx == 2 * idx + vers
    IN  (2 + bidx + bidx \div (block_nodes * 2 - 1)) * BLOCK_SIZE

\* get_offs_size(): *offs and *size.
Offs(e) ==
    IF e.type = "HEAD" THEN head_size * e.vers
    ELSE IF e.type = "NODE" THEN NodeOffs(e.idx, e.vers)
    ELSE BlockOffs(e.idx, e.vers)

Size(e) ==
    IF e.type = "HEAD" THEN head_size
    ELSE IF e.type = "NODE" THEN node_size
    ELSE BLOCK_SIZE

\* ree_fs_ftruncate_internal(): the length of the file after it was truncated
\* to n full or started blocks.
TruncatedSize(n) == BlockOffs(n, 1) + BLOCK_SIZE

LayoutInit == elem = [type |-> "HEAD", idx |-> 0, vers |-> 0]
LayoutNext == elem' \in Elements(0..MaxIdx)
LayoutSpec == LayoutInit /\ [][LayoutNext]_elem

-----------------------------------------------------------------------------
Apart(e, f) == Offs(e) + Size(e) <= Offs(f) \/ Offs(f) + Size(f) <= Offs(e)

\* No two parts of a file overlap: writing one version of a node or block
\* leaves the other version, and everything else, as it was.  The part is
\* compared with all up to its own number.
NoOverlap == \A f \in Elements(0..elem.idx) : f = elem \/ Apart(elem, f)

\* Truncating to n blocks keeps every block and node that
\* tee_fs_htree_truncate() keeps, which is one more than n when the last
\* block is full.
TruncateKeeps ==
    elem.type \in {"NODE", "BLOCK"} =>
        \A n \in elem.idx..MaxIdx : Offs(elem) + Size(elem) <= TruncatedSize(n)

\* Every write and every cut of a file (get_offs_size,
\* ree_fs_ftruncate_internal) leaves the other parts alone.
LayoutSound == NoOverlap /\ TruncateKeeps
=============================================================================
