----------------------------- MODULE AtomicFile -----------------------------
(***************************************************************************)
(* What the secure storage promises for one file: core/include/tee/        *)
(* fs_htree.h says that the on-disk data is "duplicated to make updates    *)
(* atomic".  A file is a sequence of units.  Updates change the pending    *)
(* content only, and the stored file takes it over as a whole or not at    *)
(* all.  HTree.tla implements this module.                                 *)
(***************************************************************************)
EXTENDS Integers, Sequences

CONSTANTS
    Data,       \* what a unit may hold; 0 fills the gaps
    MaxLen,     \* bound: the length of the file
    NULL

VARIABLES
    file,       \* the stored content, NULL when there is no file
    pending     \* the content being worked on, NULL when the file is closed

fileVars == <<file, pending>>

\* The content f with n units of d written at position pos.
Overlay(f, pos, n, d) ==
    [i \in 1..(IF pos + n > Len(f) THEN pos + n ELSE Len(f)) |->
        CASE i > pos /\ i <= pos + n -> d
          [] i <= pos /\ i > Len(f)  -> 0
          [] OTHER                   -> f[i]]

\* The content f cut, or filled with zeros, to n units.
Resize(f, n) == [i \in 1..n |-> IF i <= Len(f) THEN f[i] ELSE 0]

Init ==
    /\ file \in {NULL, <<>>}
    /\ pending = NULL

\* Opens the file, and creates it when there is none.
Open ==
    /\ pending = NULL
    /\ pending' = IF file = NULL THEN <<>> ELSE file
    /\ UNCHANGED file

\* An update; one that leaves the content as it was is a stuttering step.
Write ==
    /\ pending # NULL
    /\ UNCHANGED file
    /\ pending' \notin {pending, NULL}
    /\ \E pos \in 0..MaxLen, n \in 1..MaxLen, d \in Data :
          /\ pos + n <= MaxLen
          /\ pending' = Overlay(pending, pos, n, d)

Truncate ==
    /\ pending # NULL
    /\ UNCHANGED file
    /\ pending' \notin {pending, NULL}
    /\ \E n \in 0..MaxLen : pending' = Resize(pending, n)

Commit ==
    /\ pending # NULL
    /\ file' = pending
    /\ pending' \in {pending, NULL}

Close ==
    /\ pending' = NULL
    /\ UNCHANGED file

Next ==
    \/ Open
    \/ Write
    \/ Truncate
    \/ Commit
    \/ Close

Spec == Init /\ [][Next]_fileVars
=============================================================================
