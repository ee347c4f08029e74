------------------------------ MODULE MCReeFs ------------------------------
(* Model checking of ReeFs: what the applications do and what goes wrong.   *)
EXTENDS ReeFs, TLC

ReeFsSymmetry == Permutations(Threads) \cup Permutations(Names)

Exclusive == {"read", "write", "meta"}
Readers == {"read", "share_read"}
Shared == {"read", "write", "share_read", "share_write"}

\* Two instances that use objects exclusively
Update == [concurrent |-> TRUE, updates |-> 3, flags |-> {Exclusive}, retry |-> FALSE,
           calls |-> {"overwrite", "write", "del", "rename"},
           faults |-> {"crash", "commit"}]

\* One instance, all faults
Faulty == [Update EXCEPT !.concurrent = FALSE,
                         !.faults = {"crash", "read", "fetch", "sync", "commit", "remove"}]

\* Two instances, one may enumerate while the other updates
Enumerate == [Update EXCEPT !.calls = {"del", "enum"},
                            !.updates = 2, !.faults = {}]

\* The same with one object; a failed read of one instance closes the tree of
\* the dirfile under the other, which then takes its object for corrupt.
ClosedTree == [Enumerate EXCEPT !.updates = 1, !.faults = {"fetch"}]

\* One instance that renames and overwrites while it enumerates
RenameEnumerate == [Update EXCEPT !.concurrent = FALSE, !.calls = @ \cup {"enum"},
                                  !.faults = {"read", "fetch"}]

\* Readers that share an object, and exclusive use
Sharing == [Update EXCEPT !.flags = {Exclusive, Readers}, !.calls = {"del"},
                          !.updates = 2, !.faults = {"read", "commit"}]

\* Objects are truncated; nothing goes wrong.
Truncate == [Update EXCEPT !.concurrent = FALSE, !.calls = {"write", "truncate"},
                           !.faults = {}]

\* A handle is used again after a request of its tree failed: the object is
\* deleted as corrupt (see ObjectsSurvive), the others stay as they are.
FailedTree == [Update EXCEPT !.concurrent = FALSE, !.calls = {"overwrite", "write"},
                             !.retry = TRUE, !.faults = {"sync", "remove"}]

Normal == {Update, Faulty, Enumerate, ClosedTree, RenameEnumerate, Sharing, Truncate,
           FailedTree}

\* These are the setups the theorems of ReeFsStoreProofs are about.
ASSUME NormalIsCareful == \A s \in Normal : Careful(s)

\* A handle is used again after an error.
Retry == {[Update EXCEPT !.concurrent = FALSE, !.calls = {"write"},
                         !.retry = TRUE, !.faults = {"sync", "commit"}]}

\* Handles that share an object for writing
SharedWrites == {[Update EXCEPT !.flags = {Shared}, !.calls = {"overwrite", "write"}, !.faults = {}]}

\* An instance renames while another one enumerates.
EnumerateRename == {[Update EXCEPT !.calls = @ \cup {"enum"}, !.faults = {}]}
=============================================================================
