------------------------------ MODULE MCKernel ------------------------------
(***************************************************************************)
(* Model checking of the parts of the core that work on their own: memory  *)
(* objects, yielding calls, notifications and the layout of files.  They   *)
(* share no state, so that a behaviour is about one of them: "part".       *)
(***************************************************************************)
EXTENDS Shm, StdCall, Notif, FileLayout

VARIABLE part

vars == <<part, ShmVars, StdVars, NotifVars, elem>>

Init ==
    /\ part \in {"shm", "stdcall", "notif", "layout"}
    /\ ShmInit /\ StdInit /\ NotifInit /\ LayoutInit

Next ==
    \/ part = "shm" /\ ShmNext /\ UNCHANGED <<part, StdVars, NotifVars, elem>>
    \/ part = "stdcall" /\ StdNext /\ UNCHANGED <<part, ShmVars, NotifVars, elem>>
    \/ part = "notif" /\ NotifNext /\ UNCHANGED <<part, ShmVars, StdVars, elem>>
    \/ part = "layout" /\ LayoutNext /\ UNCHANGED <<part, ShmVars, StdVars, NotifVars>>

\* The fairness of Shm; nothing else is said about progress.
Spec == Init /\ [][Next]_vars /\ ShmFairness

\* Type invariant.
KernelTypeOK == ShmTypeOK /\ StdTypeOK /\ NotifTypeOK
=============================================================================
