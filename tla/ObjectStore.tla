---------------------------- MODULE ObjectStore ----------------------------
(***************************************************************************)
(* What secure storage promises to trusted applications: a set of named    *)
(* objects.  An operation changes one object, all of it or nothing of it;  *)
(* an object never goes back to an earlier content and never becomes       *)
(* unreadable.                                                             *)
(***************************************************************************)
EXTENDS Naturals

CONSTANTS Names, MaxTx, NULL

VARIABLES
    store,      \* The content of each object, a number; NULL when there is none
    last        \* The newest content that was ever written

StoreVars == <<store, last>>

StoreInit == store = [n \in Names |-> NULL] /\ last = 0

\* An object is created, replaced or written.
Put(n) == \E v \in (last + 1) .. MaxTx :
    store' = [store EXCEPT ![n] = v] /\ last' = v

\* Content was written that no object has got: the operation failed.
Fail == \E v \in (last + 1) .. MaxTx : last' = v /\ UNCHANGED store

Delete(n) ==
    /\ store[n] # NULL
    /\ store' = [store EXCEPT ![n] = NULL]
    /\ UNCHANGED last

Rename(n, m) ==
    /\ store[n] # NULL /\ store[m] = NULL
    /\ store' = [store EXCEPT ![n] = NULL, ![m] = store[n]]
    /\ UNCHANGED last

StoreNext ==
    \/ Fail
    \/ \E n \in Names : Put(n) \/ Delete(n)
    \/ \E n, m \in Names : Rename(n, m)

StoreSpec == StoreInit /\ [][StoreNext]_StoreVars
=============================================================================
