------------------------------ MODULE MCHTree -------------------------------
(***************************************************************************)
(* Instances of HTree for TLC: files of two blocks with three updates, and *)
(* of three blocks with two, so that the root has both children.           *)
(***************************************************************************)
EXTENDS HTree

File(a, faults, size) ==
    [anchor |-> a, blocks |-> size[1], updates |-> size[2],
     truncates |-> FALSE, reuse |-> FALSE, faults |-> faults]

Object(size) == File("hash", {"crash", "read", "write", "commit"}, size)
Dirfile(size) ==
    File("counter", {"crash", "read", "write", "commit", "late"}, size)
Truncation(blocks, faults) ==
    [File("hash", faults, <<blocks, 3>>) EXCEPT !.truncates = TRUE]

Writes == UNION {{Object(size), Dirfile(size)} : size \in {<<2, 3>>, <<3, 2>>}}
ShallowTruncation == {Truncation(3, {"truncate"})}
WritesAndTruncation == Writes \cup ShallowTruncation

\* The files that are only written are those the theorems are about.
ASSUME WritesAreAtomic == \A s \in Writes : AtomicUpdates(s)

DeepTruncation == {Truncation(4, {})}
=============================================================================
