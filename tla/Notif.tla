------------------------------- MODULE Notif -------------------------------
(***************************************************************************)
(* Asynchronous notifications: events for the drivers                      *)
(* (core/kernel/notif.c) and values for normal world                       *)
(* (core/kernel/notif_default.c, core/arch/arm/tee/entry_fast.c).          *)
(*                                                                         *)
(* A step is one section under notif_lock or notif_default_lock, or the    *)
(* callback of one driver.  Bottom halves and stopping are yielding calls, *)
(* serialized by notif_mutex; starting is a fast call that may come at any *)
(* moment.  Drivers stay registered: nothing in the tree unregisters one.  *)
(***************************************************************************)
EXTENDS Naturals, Sequences, FiniteSets, FiniteSetsExt

CONSTANTS
    Drivers,
    NotifThreads,       \* Threads of the yielding calls
    NOTIF_ASYNC_VALUE_MAX,
    MaxEvents,          \* Bound: events, values sent and allocated
    NoDriver

ASSUME NotifAssumption ==
    /\ NOTIF_ASYNC_VALUE_MAX \in Nat /\ MaxEvents \in Nat
    /\ NoDriver \notin Drivers \cup NotifThreads

VARIABLES
    notif_driver_head,  \* The list of drivers, newest first
    notif_started,
    notif_mutex,        \* Who holds it
    deliver,            \* notif_deliver_event of each thread
    told,               \* The last of started and stopped each driver was told
    values, alloc_values,
    interrupt,          \* The interrupt for normal world is raised
    handling,           \* Normal world is asking for values
    budget              \* Events so far

NotifVars == <<notif_driver_head, notif_started, notif_mutex, deliver, told,
               values, alloc_values, interrupt, handling, budget>>
EventVars == <<notif_driver_head, notif_started, notif_mutex, deliver, told>>
ValueVars == <<values, alloc_values, interrupt, handling>>

Values == 0 .. NOTIF_ASYNC_VALUE_MAX
NOTIF_VALUE_DO_BOTTOM_HALF == 0
Away == [at |-> "away", ev |-> "none", nd |-> NoDriver, nd_tmp |-> NoDriver]
Registered == {notif_driver_head[i] : i \in DOMAIN notif_driver_head}

NotifInit ==
    /\ notif_driver_head = <<>>
    /\ notif_started = FALSE
    /\ notif_mutex = NoDriver
    /\ deliver = [t \in NotifThreads |-> Away]
    /\ told = [d \in Drivers |-> "nothing"]
    /\ values = {}
    /\ alloc_values = {NOTIF_VALUE_DO_BOTTOM_HALF}
    /\ interrupt = FALSE
    /\ handling = FALSE
    /\ budget = 0

Spend == budget < MaxEvents /\ budget' = budget + 1

----------------------------------------------------------------------------
(* Events                                                                  *)

notif_register_driver(d) ==
    /\ d \notin Registered
    /\ notif_driver_head' = <<d>> \o notif_driver_head
    /\ UNCHANGED <<notif_started, notif_mutex, deliver, told, ValueVars, budget>>

\* NOTIF_EVENT_STARTED: all drivers are told under notif_lock.
notif_deliver_atomic_event ==
    /\ Spend
    /\ ~notif_started
    /\ notif_started' = TRUE
    /\ told' = [d \in Drivers |-> IF d \in Registered THEN "started" ELSE told[d]]
    /\ UNCHANGED <<notif_driver_head, notif_mutex, deliver, ValueVars>>

\* The driver behind d in the list, d and what comes next in the loop
Behind(d) ==
    LET i == CHOOSE k \in DOMAIN notif_driver_head : notif_driver_head[k] = d
    IN  IF i = Len(notif_driver_head) THEN NoDriver ELSE notif_driver_head[i + 1]
Visit(ev, d) == IF d = NoDriver THEN [Away EXCEPT !.at = "out"]
                ELSE [at |-> "cb", ev |-> ev, nd |-> d, nd_tmp |-> Behind(d)]
First == IF notif_driver_head = <<>> THEN NoDriver ELSE Head(notif_driver_head)

\* notif_deliver_event up to the first callback
notif_deliver_event(t) ==
    /\ deliver[t] = Away
    /\ notif_mutex = NoDriver
    /\ Spend
    /\ \E ev \in {"bottom_half", "stopped"} :
          /\ notif_started
          /\ notif_mutex' = t
          /\ notif_started' = (ev # "stopped")
          /\ deliver' = [deliver EXCEPT ![t] = Visit(ev, First)]
    /\ UNCHANGED <<notif_driver_head, told, ValueVars>>

\* nd->yielding_cb, without notif_lock
yielding_cb(t) ==
    LET v == deliver[t]
    IN  /\ v.at = "cb"
        /\ told' = [told EXCEPT ![v.nd] = IF v.ev = "stopped" THEN "stopped" ELSE @]
        /\ deliver' = [deliver EXCEPT ![t].at = "relock"]
        /\ UNCHANGED <<notif_driver_head, notif_started, notif_mutex, ValueVars, budget>>

\* MUTANT of Restarted: stopping goes on.
Restarted_Ignored(v) == FALSE

\* Started again while stopping
Restarted(v) == v.ev = "stopped" /\ notif_started

\* SLIST_FOREACH_SAFE goes on with the one it remembers.
NextDriver(v) == v.nd_tmp

\* The loop after a callback
NextInList(t) ==
    LET v == deliver[t]
    IN  /\ v.at = "relock"
        /\ deliver' = [deliver EXCEPT ![t] =
              Visit(v.ev, IF Restarted(v) THEN NoDriver ELSE NextDriver(v))]
        /\ UNCHANGED <<notif_driver_head, notif_started, notif_mutex, told, ValueVars, budget>>

\* mutex_unlock
DeliverDone(t) ==
    /\ deliver[t].at = "out"
    /\ notif_mutex' = NoDriver
    /\ deliver' = [deliver EXCEPT ![t] = Away]
    /\ UNCHANGED <<notif_driver_head, notif_started, told, ValueVars, budget>>

----------------------------------------------------------------------------
(* Values                                                                  *)

\* bit_ffc finds a value up to NOTIF_ASYNC_VALUE_MAX.
notif_alloc_async_value ==
    /\ Spend
    /\ Values \ alloc_values # {}
    /\ alloc_values' = alloc_values \cup {Min(Values \ alloc_values)}
    /\ UNCHANGED <<EventVars, values, interrupt, handling>>

\* The last value fails the assertion and is not given back.
notif_free_async_value ==
    /\ \E v \in alloc_values \ {NOTIF_VALUE_DO_BOTTOM_HALF} :
          v < NOTIF_ASYNC_VALUE_MAX /\ alloc_values' = alloc_values \ {v}
    /\ UNCHANGED <<EventVars, values, interrupt, handling, budget>>

\* Sent by the owner of the value
notif_send_async ==
    /\ Spend
    /\ \E v \in alloc_values : values' = values \cup {v}
    /\ interrupt' = TRUE
    /\ UNCHANGED <<EventVars, alloc_values, handling>>

\* Normal world takes the interrupt and asks until nothing is pending.
TakeInterrupt ==
    /\ interrupt /\ ~handling
    /\ interrupt' = FALSE
    /\ handling' = TRUE
    /\ UNCHANGED <<EventVars, values, alloc_values, budget>>

\* MUTANT of Pending: the last bit is not looked at.
Pending_Short(vs) == vs \ {NOTIF_ASYNC_VALUE_MAX} # {}

\* The second bit_ffs
Pending(vs) == vs # {}

\* notif_get_value: the lowest value, and whether there are more
notif_get_value ==
    /\ handling
    /\ values' = IF values = {} THEN {} ELSE values \ {Min(values)}
    /\ handling' = Pending(values')
    /\ UNCHANGED <<EventVars, alloc_values, interrupt, budget>>

----------------------------------------------------------------------------

NotifNext ==
    \/ \E d \in Drivers : notif_register_driver(d)
    \/ notif_deliver_atomic_event
    \/ \E t \in NotifThreads :
          \/ notif_deliver_event(t) \/ yielding_cb(t) \/ NextInList(t) \/ DeliverDone(t)
    \/ notif_alloc_async_value \/ notif_free_async_value \/ notif_send_async
    \/ TakeInterrupt \/ notif_get_value

NotifSpec == NotifInit /\ [][NotifNext]_NotifVars

----------------------------------------------------------------------------
(* Correctness.                                                            *)

\* Type invariant.
NotifTypeOK ==
    /\ notif_driver_head \in Seq(Drivers)
    /\ notif_started \in BOOLEAN
    /\ notif_mutex \in NotifThreads \cup {NoDriver}
    /\ deliver \in [NotifThreads -> [at : {"away", "cb", "relock", "out"},
          ev : {"none", "bottom_half", "stopped"},
          nd : Drivers \cup {NoDriver}, nd_tmp : Drivers \cup {NoDriver}]]
    /\ told \in [Drivers -> {"nothing", "started", "stopped"}]
    /\ values \subseteq Values /\ alloc_values \subseteq Values
    /\ interrupt \in BOOLEAN /\ handling \in BOOLEAN
    /\ budget \in 0 .. MaxEvents

\* When no call is delivering events, the drivers agree with notif_started:
\* none believes that notifications are on when they are off, and when they are
\* on at most one believes that they are off, the one whose stop callback the
\* start came in between (notif_deliver_event, notif_deliver_atomic_event).
DriversAgree ==
    notif_mutex = NoDriver =>
        IF notif_started
        THEN Cardinality({d \in Registered : told[d] = "stopped"}) <= 1
        ELSE \A d \in Registered : told[d] # "started"

\* A value that was sent reaches normal world: while one is left, the interrupt
\* is raised or normal world was told to ask again (notif_send_async,
\* notif_get_value).
NoValueLost == values # {} => interrupt \/ handling
============================================================================
