---------------------------- MODULE NotifProofs -----------------------------
(***************************************************************************)
(* Proofs about Notif for any drivers, threads and values.  A value is not *)
(* lost by a short induction.  That the drivers agree with notif_started   *)
(* needs to know where in the list the thread that delivers an event is,   *)
(* although drivers are registered in the meantime.                        *)
(***************************************************************************)
EXTENDS Notif, FiniteSetTheorems, WellFoundedInduction, TLAPS

\* Type invariant of the values
ValuesTypeOK ==
    /\ values \subseteq Values /\ alloc_values \subseteq Values
    /\ interrupt \in BOOLEAN /\ handling \in BOOLEAN

\* A driver is in the list once, and was told nothing before it is.
ListExact ==
    /\ \A i, j \in 1 .. Len(notif_driver_head) :
          notif_driver_head[i] = notif_driver_head[j] => i = j
    /\ \A d \in Drivers : told[d] # "nothing" =>
          \E i \in 1 .. Len(notif_driver_head) : notif_driver_head[i] = d

\* The driver at place i of the list and the one remembered for after it
AtPlace(v, i) ==
    /\ v.nd = notif_driver_head[i]
    /\ v.nd_tmp = IF i = Len(notif_driver_head) THEN NoDriver
                  ELSE notif_driver_head[i + 1]

\* Who holds notif_mutex is the one that delivers an event, and it is at a
\* place of the list.
Delivering ==
    \A t \in NotifThreads :
        /\ deliver[t].at = "away" => deliver[t] = Away
        /\ deliver[t].at # "away" <=> notif_mutex = t
        /\ deliver[t].at \in {"cb", "relock"} =>
              /\ deliver[t].ev \in {"bottom_half", "stopped"}
              /\ ~notif_started => deliver[t].ev = "stopped"
              /\ \E i \in 1 .. Len(notif_driver_head) : AtPlace(deliver[t], i)

\* Thread t has not told the driver at place i of the event yet.
ToTell(t, i) ==
    \E k \in 1 .. i :
        /\ notif_driver_head[k] = deliver[t].nd
        /\ \/ deliver[t].at = "cb"
           \/ deliver[t].at = "relock" /\ k < i

\* When notifications are off, a driver that believes they are on is told.
StopReachesAll ==
    ~notif_started => \A i \in 1 .. Len(notif_driver_head) :
        told[notif_driver_head[i]] = "started" => \E t \in NotifThreads : ToTell(t, i)

\* When notifications are on, one driver may believe that they are off, and
\* none while a thread is about to tell one so.
OneLateStop ==
    notif_started =>
        /\ \A i, j \in 1 .. Len(notif_driver_head) :
              /\ told[notif_driver_head[i]] = "stopped"
              /\ told[notif_driver_head[j]] = "stopped"
              => i = j
        /\ \A t \in NotifThreads : deliver[t].at = "cb" /\ deliver[t].ev = "stopped" =>
              \A i \in 1 .. Len(notif_driver_head) :
                 told[notif_driver_head[i]] # "stopped"

DeliveryInv ==
    NotifTypeOK /\ ListExact /\ Delivering /\ StopReachesAll /\ OneLateStop

-----------------------------------------------------------------------------
(* Facts about the operators *)

\* Every set of naturals that is not empty has a least element: bit_ffs and
\* bit_ffc find a bit when there is one.
LEMMA MinIsLeast ==
    ASSUME NEW S \in SUBSET Nat, S # {}
    PROVE  Min(S) \in S
  <1> DEFINE R == OpToRel(<, Nat)
  <1>1. IsWellFoundedOn(R, Nat)
    BY NatLessThanWellFounded
  <1> HIDE DEF R
  <1>2. PICK x \in S : \A y \in S : <<y, x>> \notin R
    BY <1>1, WFMin
  <1>3. ASSUME NEW y \in S
        PROVE  x <= y
    <2>1. y < x => <<y, x>> \in R
      BY DEF R, OpToRel
    <2> QED
      BY <1>2, <2>1
  <1> QED
    BY <1>3 DEF Min

\* Inserting at the head moves every driver one place.
LEMMA InsertFacts ==
    ASSUME NEW q \in Seq(Drivers), NEW d \in Drivers
    PROVE  /\ <<d>> \o q \in Seq(Drivers)
           /\ Len(<<d>> \o q) = Len(q) + 1
           /\ (<<d>> \o q)[1] = d
           /\ \A i \in 1 .. Len(q) : (<<d>> \o q)[i + 1] = q[i]
           /\ \A i \in 2 .. Len(q) + 1 : (<<d>> \o q)[i] = q[i - 1]
  OBVIOUS

\* Registered is the set of drivers at some place of the list.
LEMMA RegisteredFacts ==
    ASSUME notif_driver_head \in Seq(Drivers)
    PROVE  Registered = {notif_driver_head[i] : i \in 1 .. Len(notif_driver_head)}
  BY DEF Registered

\* What notif_deliver_event() of a thread can be
Delivery == [at : {"away", "cb", "relock", "out"}, ev : {"none", "bottom_half", "stopped"},
             nd : Drivers \cup {NoDriver}, nd_tmp : Drivers \cup {NoDriver}]

\* What the loop does next with the driver at place i of the list
LEMMA VisitFacts ==
    ASSUME NotifTypeOK, ListExact, NEW ev \in {"none", "bottom_half", "stopped"},
           NEW i \in 1 .. Len(notif_driver_head)
    PROVE  LET v == Visit(ev, notif_driver_head[i])
           IN  /\ v \in Delivery
               /\ v.at = "cb"
               /\ v.ev = ev
               /\ AtPlace(v, i)
  <1>0. notif_driver_head[i] \in Drivers
    BY DEF NotifTypeOK
  <1>1. notif_driver_head[i] # NoDriver
    BY <1>0, NotifAssumption
  <1> DEFINE p == CHOOSE k \in DOMAIN notif_driver_head :
                     notif_driver_head[k] = notif_driver_head[i]
             b == IF i = Len(notif_driver_head) THEN NoDriver
                  ELSE notif_driver_head[i + 1]
  <1>2. p = i
    BY DEF NotifTypeOK, ListExact
  <1>3. Behind(notif_driver_head[i]) = IF p = Len(notif_driver_head) THEN NoDriver
                                       ELSE notif_driver_head[p + 1]
    BY Zenon DEF Behind
  <1>4. b \in Drivers \cup {NoDriver}
    BY DEF NotifTypeOK
  <1> HIDE DEF p
  <1>5. Behind(notif_driver_head[i]) = b
    BY <1>2, <1>3
  <1>6. Visit(ev, notif_driver_head[i]) =
           [at |-> "cb", ev |-> ev, nd |-> notif_driver_head[i], nd_tmp |-> b]
    BY <1>1, <1>5, Zenon DEF Visit
  <1>7. Visit(ev, notif_driver_head[i]) \in Delivery
    <2> HIDE DEF b
    <2> QED
      BY <1>0, <1>4, <1>6 DEF Delivery
  <1> QED
    BY <1>6, <1>7 DEF AtPlace

\* The loop ends behind the last driver.
LEMMA VisitNobody ==
    ASSUME NEW ev
    PROVE  /\ Visit(ev, NoDriver) \in Delivery
           /\ Visit(ev, NoDriver).at = "out"
  BY DEF Visit, Away, Delivery

\* The loop starts at the first driver.
LEMMA FirstFacts ==
    ASSUME NotifTypeOK
    PROVE  \/ First = NoDriver /\ Len(notif_driver_head) = 0
           \/ 1 \in 1 .. Len(notif_driver_head) /\ First = notif_driver_head[1]
  BY DEF NotifTypeOK, First

\* It goes on with the driver behind, or ends: behind the last one, and when
\* notifications were started again.
LEMMA NextFacts ==
    ASSUME NotifTypeOK, ListExact, Delivering, NEW t \in NotifThreads, NextInList(t)
    PROVE  \E w \in Delivery :
              /\ deliver' = [deliver EXCEPT ![t] = w]
              /\ \/ w.at = "out" /\ deliver[t].nd_tmp = NoDriver
                 \/ w.at = "out" /\ notif_started
                 \/ /\ w.at = "cb"
                    /\ w.ev = deliver[t].ev
                    /\ ~Restarted(deliver[t])
                    /\ \E i \in 1 .. Len(notif_driver_head) - 1 :
                          AtPlace(deliver[t], i) /\ AtPlace(w, i + 1)
  <1>1. /\ deliver[t].at = "relock"
        /\ deliver' = [deliver EXCEPT ![t] = Visit(deliver[t].ev,
              IF Restarted(deliver[t]) THEN NoDriver ELSE deliver[t].nd_tmp)]
    BY DEF NextInList, NextDriver
  <1>2. CASE Restarted(deliver[t]) \/ deliver[t].nd_tmp = NoDriver
    BY <1>1, <1>2, VisitNobody DEF Restarted
  <1>3. CASE ~Restarted(deliver[t]) /\ deliver[t].nd_tmp # NoDriver
    <2>1. PICK i \in 1 .. Len(notif_driver_head) : AtPlace(deliver[t], i)
      BY <1>1 DEF Delivering
    <2>2. /\ i \in 1 .. Len(notif_driver_head) - 1
          /\ i + 1 \in 1 .. Len(notif_driver_head)
          /\ deliver[t].nd_tmp = notif_driver_head[i + 1]
      BY <1>3, <2>1 DEF AtPlace, NotifTypeOK
    <2>3. deliver[t].ev \in {"none", "bottom_half", "stopped"}
      BY DEF NotifTypeOK
    <2> DEFINE w == Visit(deliver[t].ev, notif_driver_head[i + 1])
    <2>4. w \in Delivery /\ w.at = "cb" /\ w.ev = deliver[t].ev /\ AtPlace(w, i + 1)
      BY <2>2, <2>3, VisitFacts
    <2>5. deliver' = [deliver EXCEPT ![t] = w]
      BY <1>1, <1>3, <2>2
    <2> HIDE DEF w
    <2> QED
      BY <1>3, <2>1, <2>2, <2>4, <2>5
  <1> QED
    BY <1>2, <1>3

-----------------------------------------------------------------------------
(* Values *)

LEMMA ValuesInit ==
    ASSUME NotifInit
    PROVE  ValuesTypeOK /\ NoValueLost
  <1>1. alloc_values \subseteq Values
    BY NotifAssumption DEF NotifInit, Values, NOTIF_VALUE_DO_BOTTOM_HALF
  <1> QED
    BY <1>1 DEF NotifInit, ValuesTypeOK, NoValueLost

LEMMA ValuesTypes ==
    ASSUME ValuesTypeOK, [NotifNext]_NotifVars
    PROVE  ValuesTypeOK'
  <1> USE DEF ValuesTypeOK
  <1>1. CASE UNCHANGED ValueVars
    BY <1>1 DEF ValueVars
  <1>2. CASE notif_alloc_async_value
    <2>1. Min(Values \ alloc_values) \in Values
      BY <1>2, NotifAssumption, MinIsLeast DEF notif_alloc_async_value, Values
    <2> QED
      BY <1>2, <2>1 DEF notif_alloc_async_value
  <1>3. CASE notif_free_async_value \/ notif_send_async
    BY <1>3 DEF notif_free_async_value, notif_send_async
  <1>4. CASE TakeInterrupt \/ notif_get_value
    BY <1>4 DEF TakeInterrupt, notif_get_value, Pending
  <1> QED
    BY <1>1, <1>2, <1>3, <1>4
       DEF NotifNext, NotifVars, ValueVars, notif_register_driver,
           notif_deliver_atomic_event, notif_deliver_event, yielding_cb,
           NextInList, DeliverDone

LEMMA ValuesStep ==
    ASSUME ValuesTypeOK, NoValueLost, [NotifNext]_NotifVars
    PROVE  NoValueLost'
  <1> USE DEF ValuesTypeOK, NoValueLost
  <1>1. CASE UNCHANGED <<values, interrupt, handling>>
    BY <1>1
  <1>2. CASE notif_send_async
    BY <1>2 DEF notif_send_async
  <1>3. CASE TakeInterrupt
    BY <1>3 DEF TakeInterrupt
  <1>4. CASE notif_get_value
    BY <1>4 DEF notif_get_value, Pending
  <1> QED
    BY <1>1, <1>2, <1>3, <1>4
       DEF NotifNext, NotifVars, ValueVars, notif_register_driver,
           notif_deliver_atomic_event, notif_deliver_event, yielding_cb,
           NextInList, DeliverDone, notif_alloc_async_value, notif_free_async_value

\* A value that was sent reaches normal world, for any number of values and
\* whatever is sent while normal world asks (notif_send_async,
\* notif_get_value).
THEOREM ValuesReachNormalWorld == NotifSpec => []NoValueLost
  <1>1. NotifSpec => [](ValuesTypeOK /\ NoValueLost)
    BY ValuesInit, ValuesTypes, ValuesStep, PTL DEF NotifSpec
  <1> QED
    BY <1>1, PTL

-----------------------------------------------------------------------------
(* Events *)

\* Type invariant of the drivers and of the threads that deliver events
EventsOK ==
    /\ notif_driver_head \in Seq(Drivers)
    /\ notif_started \in BOOLEAN
    /\ notif_mutex \in NotifThreads \cup {NoDriver}
    /\ deliver \in [NotifThreads -> Delivery]
    /\ told \in [Drivers -> {"nothing", "started", "stopped"}]

LEMMA BudgetStep ==
    ASSUME budget \in 0 .. MaxEvents, [NotifNext]_NotifVars
    PROVE  budget' \in 0 .. MaxEvents
  <1>1. budget' = budget \/ Spend
    BY DEF NotifNext, NotifVars, notif_register_driver,
           notif_deliver_atomic_event, notif_deliver_event, yielding_cb,
           NextInList, DeliverDone, notif_alloc_async_value,
           notif_free_async_value, notif_send_async, TakeInterrupt, notif_get_value
  <1> QED
    BY <1>1, NotifAssumption DEF Spend

LEMMA TypesStep ==
    ASSUME NotifTypeOK, ListExact, Delivering, [NotifNext]_NotifVars
    PROVE  NotifTypeOK'
  <1>1. ValuesTypeOK'
    BY ValuesTypes DEF NotifTypeOK, ValuesTypeOK
  <1>2. budget' \in 0 .. MaxEvents
    BY BudgetStep DEF NotifTypeOK
  <1>3. EventsOK
    BY DEF NotifTypeOK, EventsOK, Delivery
  <1>4. EventsOK'
    <2> USE <1>3 DEF EventsOK
    <2>1. CASE UNCHANGED EventVars
      BY <2>1 DEF EventVars
    <2>2. ASSUME NEW d \in Drivers, notif_register_driver(d)
          PROVE  EventsOK'
      BY <2>2, InsertFacts DEF notif_register_driver
    <2>3. CASE notif_deliver_atomic_event
      BY <2>3 DEF notif_deliver_atomic_event
    <2>4. ASSUME NEW t \in NotifThreads, notif_deliver_event(t)
          PROVE  EventsOK'
      <3>1. PICK ev \in {"bottom_half", "stopped"} :
               /\ notif_mutex' = t
               /\ notif_started' = (ev # "stopped")
               /\ deliver' = [deliver EXCEPT ![t] = Visit(ev, First)]
               /\ UNCHANGED <<notif_driver_head, told>>
        BY <2>4 DEF notif_deliver_event
      <3>2. Visit(ev, First) \in Delivery
        BY FirstFacts, VisitFacts, VisitNobody
      <3> QED
        BY <3>1, <3>2
    <2>5. ASSUME NEW t \in NotifThreads, yielding_cb(t)
          PROVE  EventsOK'
      BY <2>5 DEF yielding_cb, Delivery
    <2>6. ASSUME NEW t \in NotifThreads, NextInList(t)
          PROVE  EventsOK'
      <3>1. PICK w : /\ deliver' = [deliver EXCEPT ![t] = w]
                     /\ w \in Delivery
        BY <2>6, NextFacts
      <3> QED
        BY <2>6, <3>1 DEF NextInList
    <2>7. ASSUME NEW t \in NotifThreads, DeliverDone(t)
          PROVE  EventsOK'
      BY <2>7 DEF DeliverDone, Away, Delivery
    <2> QED
      BY <2>1, <2>2, <2>3, <2>4, <2>5, <2>6, <2>7
         DEF NotifNext, NotifVars, EventVars, notif_alloc_async_value,
             notif_free_async_value, notif_send_async, TakeInterrupt, notif_get_value
  <1> QED
    BY <1>1, <1>2, <1>4 DEF NotifTypeOK, ValuesTypeOK, EventsOK, Delivery

\* A driver is registered while events are delivered.
LEMMA RegisterKeeps ==
    ASSUME DeliveryInv, NEW d \in Drivers, notif_register_driver(d)
    PROVE  ListExact' /\ Delivering' /\ StopReachesAll' /\ OneLateStop'
  <1> DEFINE q == notif_driver_head
             n == Len(notif_driver_head)
  <1>1. /\ q' = <<d>> \o q
        /\ UNCHANGED <<notif_started, notif_mutex, deliver, told>>
    BY DEF notif_register_driver
  <1>2. /\ q \in Seq(Drivers)
        /\ n \in Nat
        /\ Len(q') = n + 1
        /\ q'[1] = d
        /\ \A i \in 1 .. n : q'[i + 1] = q[i]
        /\ \A i \in 2 .. n + 1 : q'[i] = q[i - 1]
    BY <1>1, InsertFacts DEF DeliveryInv, NotifTypeOK
  <1>3. \A i \in 1 .. n : q[i] # d
    BY <1>2, RegisteredFacts DEF notif_register_driver
  <1>4. told[d] = "nothing"
    BY <1>3 DEF DeliveryInv, NotifTypeOK, ListExact
  <1> HIDE DEF q, n
  <1>5. ListExact'
    <2>1. \A i, j \in 1 .. n : q[i] = q[j] => i = j
      BY DEF DeliveryInv, ListExact, q, n
    <2>2. \A i, j \in 1 .. n + 1 : q'[i] = q'[j] => i = j
      BY <1>2, <1>3, <2>1
    <2>3. \A e \in Drivers : told[e] # "nothing" => \E i \in 1 .. n : q[i] = e
      BY DEF DeliveryInv, ListExact, q, n
    <2>4. \A e \in Drivers : told[e] # "nothing" => \E i \in 1 .. n + 1 : q'[i] = e
      BY <1>2, <2>3
    <2> QED
      BY <1>1, <1>2, <2>2, <2>4 DEF ListExact, q
  <1>6. Delivering'
    <2>1. ASSUME NEW t \in NotifThreads, NEW i \in 1 .. n, AtPlace(deliver[t], i)
          PROVE  i + 1 \in 1 .. n + 1 /\ AtPlace(deliver[t], i + 1)'
      BY <1>1, <1>2, <2>1 DEF AtPlace, q, n
    <2> QED
      BY <1>1, <1>2, <2>1 DEF DeliveryInv, Delivering, q, n
  <1>7. StopReachesAll'
    <2>1. ASSUME ~notif_started, NEW i \in 1 .. n + 1, told[q'[i]] = "started"
          PROVE  \E t \in NotifThreads : ToTell(t, i)'
      <3>1. i \in 2 .. n + 1 /\ i - 1 \in 1 .. n /\ told[q[i - 1]] = "started"
        BY <1>2, <1>4, <2>1
      <3>2. PICK t \in NotifThreads : ToTell(t, i - 1)
        BY <2>1, <3>1 DEF DeliveryInv, StopReachesAll, q, n
      <3>3. PICK k \in 1 .. i - 1 : /\ q[k] = deliver[t].nd
                                    /\ \/ deliver[t].at = "cb"
                                       \/ deliver[t].at = "relock" /\ k < i - 1
        BY <3>2 DEF ToTell, q
      <3>4. k + 1 \in 1 .. i /\ q'[k + 1] = deliver[t].nd
        BY <1>2, <3>1, <3>3
      <3>5. deliver[t].at = "cb" \/ (deliver[t].at = "relock" /\ k + 1 < i)
        BY <1>2, <3>1, <3>3
      <3> QED
        BY <1>1, <3>4, <3>5 DEF ToTell, q
    <2> QED
      BY <1>1, <1>2, <2>1 DEF StopReachesAll, q
  <1>8. OneLateStop'
    <2>1. \A i \in 1 .. n + 1 : told[q'[i]] = "stopped" =>
             i - 1 \in 1 .. n /\ told[q[i - 1]] = "stopped"
      BY <1>2, <1>4
    <2>2. ASSUME notif_started, NEW i \in 1 .. n + 1, NEW j \in 1 .. n + 1,
                 told[q'[i]] = "stopped", told[q'[j]] = "stopped"
          PROVE  i = j
      <3>1. i - 1 = j - 1
        BY <2>1, <2>2 DEF DeliveryInv, OneLateStop, q, n
      <3> QED
        BY <1>2, <3>1
    <2>3. ASSUME notif_started, NEW t \in NotifThreads, NEW i \in 1 .. n + 1,
                 deliver[t].at = "cb", deliver[t].ev = "stopped"
          PROVE  told[q'[i]] # "stopped"
      BY <2>1, <2>3 DEF DeliveryInv, OneLateStop, q, n
    <2> QED
      BY <1>1, <1>2, <2>2, <2>3 DEF OneLateStop, q
  <1> QED
    BY <1>5, <1>6, <1>7, <1>8

\* Notifications are started, perhaps while they are being stopped.
LEMMA StartKeeps ==
    ASSUME DeliveryInv, notif_deliver_atomic_event
    PROVE  ListExact' /\ Delivering' /\ StopReachesAll' /\ OneLateStop'
  <1>1. /\ notif_started' = TRUE
        /\ told' = [d \in Drivers |-> IF d \in Registered THEN "started" ELSE told[d]]
        /\ UNCHANGED <<notif_driver_head, notif_mutex, deliver>>
    BY DEF notif_deliver_atomic_event
  <1>2. \A i \in 1 .. Len(notif_driver_head) : told'[notif_driver_head[i]] = "started"
    BY <1>1, RegisteredFacts DEF DeliveryInv, NotifTypeOK
  <1>3. ListExact'
    BY <1>1, RegisteredFacts DEF DeliveryInv, NotifTypeOK, ListExact
  <1>4. Delivering'
    BY <1>1 DEF DeliveryInv, Delivering, AtPlace
  <1>5. StopReachesAll' /\ OneLateStop'
    BY <1>1, <1>2 DEF StopReachesAll, OneLateStop
  <1> QED
    BY <1>3, <1>4, <1>5

\* A bottom half or a stop begins.
LEMMA DeliverKeeps ==
    ASSUME DeliveryInv, NEW t \in NotifThreads, notif_deliver_event(t)
    PROVE  ListExact' /\ Delivering' /\ StopReachesAll' /\ OneLateStop'
  <1>1. PICK ev \in {"bottom_half", "stopped"} :
           /\ notif_mutex = NoDriver
           /\ notif_started
           /\ notif_mutex' = t
           /\ notif_started' = (ev # "stopped")
           /\ deliver' = [deliver EXCEPT ![t] = Visit(ev, First)]
           /\ UNCHANGED <<notif_driver_head, told>>
    BY DEF notif_deliver_event
  <1>2. ListExact'
    BY <1>1 DEF DeliveryInv, ListExact
  <1> DEFINE w == Visit(ev, First)
  <1>3. \/ w.at = "out" /\ Len(notif_driver_head) = 0
        \/ /\ w.at = "cb" /\ w.ev = ev /\ AtPlace(w, 1)
           /\ 1 \in 1 .. Len(notif_driver_head)
    BY FirstFacts, VisitFacts, VisitNobody DEF DeliveryInv
  <1> HIDE DEF w
  <1>4. /\ deliver'[t] = w
        /\ \A u \in NotifThreads \ {t} : deliver'[u] = deliver[u]
    BY <1>1 DEF DeliveryInv, NotifTypeOK, w
  <1>5. \A u \in NotifThreads : deliver[u].at = "away"
    BY <1>1, NotifAssumption DEF DeliveryInv, Delivering
  <1>6. Delivering'
    <2> SUFFICES ASSUME NEW u \in NotifThreads
                 PROVE  /\ deliver'[u].at = "away" => deliver'[u] = Away
                        /\ deliver'[u].at # "away" <=> notif_mutex' = u
                        /\ deliver'[u].at \in {"cb", "relock"} =>
                              /\ deliver'[u].ev \in {"bottom_half", "stopped"}
                              /\ ~notif_started' => deliver'[u].ev = "stopped"
                              /\ \E i \in 1 .. Len(notif_driver_head) :
                                    AtPlace(deliver[u], i)'
      BY <1>1 DEF Delivering
    <2>1. CASE u = t
      BY <1>1, <1>3, <1>4, <2>1 DEF AtPlace
    <2>2. CASE u # t
      BY <1>1, <1>4, <1>5, <2>2 DEF DeliveryInv, Delivering
    <2> QED
      BY <2>1, <2>2
  <1>7. StopReachesAll'
    <2>1. ASSUME NEW i \in 1 .. Len(notif_driver_head)
          PROVE  ToTell(t, i)'
      BY <1>1, <1>3, <1>4 DEF ToTell, AtPlace, DeliveryInv, NotifTypeOK
    <2> QED
      BY <1>1, <2>1 DEF StopReachesAll
  <1>8. OneLateStop'
    <2>1. ASSUME notif_started', NEW u \in NotifThreads, deliver'[u].at = "cb"
          PROVE  deliver'[u].ev # "stopped"
      BY <1>1, <1>3, <1>4, <1>5, <2>1
    <2> QED
      BY <1>1, <2>1 DEF DeliveryInv, OneLateStop
  <1> QED
    BY <1>2, <1>6, <1>7, <1>8

\* The driver at the place of the thread is told.
LEMMA CallbackKeeps ==
    ASSUME DeliveryInv, NEW t \in NotifThreads, yielding_cb(t)
    PROVE  ListExact' /\ Delivering' /\ StopReachesAll' /\ OneLateStop'
  <1> DEFINE q == notif_driver_head
             n == Len(notif_driver_head)
             v == deliver[t]
  <1>1. /\ v.at = "cb"
        /\ told' = [told EXCEPT ![v.nd] = IF v.ev = "stopped" THEN "stopped" ELSE @]
        /\ deliver' = [deliver EXCEPT ![t].at = "relock"]
        /\ UNCHANGED <<notif_driver_head, notif_started, notif_mutex>>
    BY DEF yielding_cb
  <1>2. /\ q \in Seq(Drivers)
        /\ n \in Nat
        /\ \A i \in 1 .. n : q[i] \in Drivers
        /\ told \in [Drivers -> {"nothing", "started", "stopped"}]
    BY DEF DeliveryInv, NotifTypeOK
  <1>3. /\ v.ev \in {"bottom_half", "stopped"}
        /\ ~notif_started => v.ev = "stopped"
        /\ notif_mutex = t
    BY <1>1 DEF DeliveryInv, Delivering
  <1>4. PICK p \in 1 .. n : AtPlace(v, p)
    BY <1>1 DEF DeliveryInv, Delivering
  <1>5. v.nd = q[p]
    BY <1>4 DEF AtPlace
  <1>6. \A i, j \in 1 .. n : q[i] = q[j] => i = j
    BY DEF DeliveryInv, ListExact
  <1>7. /\ \A u \in NotifThreads : /\ deliver'[u].nd = deliver[u].nd
                                   /\ deliver'[u].nd_tmp = deliver[u].nd_tmp
                                   /\ deliver'[u].ev = deliver[u].ev
        /\ deliver'[t].at = "relock"
        /\ \A u \in NotifThreads \ {t} : deliver'[u] = deliver[u]
    BY <1>1 DEF DeliveryInv, NotifTypeOK
  <1>8. \A u \in NotifThreads \ {t} : deliver[u].at = "away"
    BY <1>3 DEF DeliveryInv, Delivering
  <1>9. \A d \in Drivers : told'[d] = IF d = q[p] /\ v.ev = "stopped" THEN "stopped"
                                      ELSE told[d]
    BY <1>1, <1>2, <1>5
  <1> HIDE DEF q, n, v
  <1>10. ListExact'
    <2>1. \A d \in Drivers : told[d] # "nothing" => \E i \in 1 .. n : q[i] = d
      BY DEF DeliveryInv, ListExact, q, n
    <2>2. \A d \in Drivers : told'[d] # "nothing" => \E i \in 1 .. n : q[i] = d
      BY <1>9, <2>1
    <2> QED
      BY <1>1, <1>6, <2>2 DEF ListExact, q, n
  <1>11. Delivering'
    <2> SUFFICES ASSUME NEW u \in NotifThreads
                 PROVE  /\ deliver'[u].at = "away" => deliver'[u] = Away
                        /\ deliver'[u].at # "away" <=> notif_mutex = u
                        /\ deliver'[u].at \in {"cb", "relock"} =>
                              /\ deliver'[u].ev \in {"bottom_half", "stopped"}
                              /\ ~notif_started => deliver'[u].ev = "stopped"
                              /\ \E i \in 1 .. n : AtPlace(deliver[u], i)'
      BY <1>1 DEF Delivering, n
    <2>1. CASE u = t
      <3>1. AtPlace(deliver[t], p)'
        BY <1>1, <1>4, <1>7 DEF AtPlace, v
      <3> QED
        BY <1>3, <1>7, <2>1, <3>1 DEF v
    <2>2. CASE u # t
      BY <1>3, <1>7, <1>8, <2>2 DEF DeliveryInv, Delivering
    <2> QED
      BY <2>1, <2>2
  <1>12. StopReachesAll'
    <2> SUFFICES ASSUME ~notif_started, NEW i \in 1 .. n, told'[q[i]] = "started"
                 PROVE  ToTell(t, i)'
      BY <1>1 DEF StopReachesAll, q, n
    <2>1. i # p /\ told[q[i]] = "started"
      BY <1>2, <1>3, <1>9
    <2>2. PICK u \in NotifThreads : ToTell(u, i)
      BY <2>1 DEF DeliveryInv, StopReachesAll, q, n
    <2>3. u = t
      BY <1>8, <2>2 DEF ToTell
    <2>4. PICK k \in 1 .. i : q[k] = v.nd
      BY <2>2, <2>3 DEF ToTell, q, v
    <2>5. k = p /\ k < i
      BY <1>2, <1>5, <1>6, <2>1, <2>4
    <2> QED
      BY <1>1, <1>7, <2>4, <2>5 DEF ToTell, q, v
  <1>13. OneLateStop'
    <2>1. ASSUME notif_started, NEW i \in 1 .. n, NEW j \in 1 .. n,
                 told'[q[i]] = "stopped", told'[q[j]] = "stopped"
          PROVE  i = j
      <3>1. CASE v.ev = "stopped"
        <4>1. \A k \in 1 .. n : told[q[k]] # "stopped"
          BY <1>1, <2>1, <3>1 DEF DeliveryInv, OneLateStop, q, n, v
        <4>2. q[i] = q[p] /\ q[j] = q[p]
          BY <1>2, <1>9, <2>1, <4>1
        <4> QED
          BY <1>6, <4>2
      <3>2. CASE v.ev # "stopped"
        <4>1. told[q[i]] = "stopped" /\ told[q[j]] = "stopped"
          BY <1>2, <1>9, <2>1, <3>2
        <4> QED
          BY <2>1, <4>1 DEF DeliveryInv, OneLateStop, q, n
      <3> QED
        BY <3>1, <3>2
    <2>2. \A u \in NotifThreads : deliver'[u].at # "cb"
      BY <1>7, <1>8
    <2> QED
      BY <1>1, <2>1, <2>2 DEF OneLateStop, q, n
  <1> QED
    BY <1>10, <1>11, <1>12, <1>13

\* The loop goes on.
LEMMA NextKeeps ==
    ASSUME DeliveryInv, NEW t \in NotifThreads, NextInList(t)
    PROVE  ListExact' /\ Delivering' /\ StopReachesAll' /\ OneLateStop'
  <1> DEFINE q == notif_driver_head
             n == Len(notif_driver_head)
             v == deliver[t]
  <1>1. /\ v.at = "relock"
        /\ UNCHANGED <<notif_driver_head, notif_started, notif_mutex, told>>
    BY DEF NextInList
  <1>2. PICK w \in Delivery :
           /\ deliver' = [deliver EXCEPT ![t] = w]
           /\ \/ w.at = "out" /\ v.nd_tmp = NoDriver
              \/ w.at = "out" /\ notif_started
              \/ /\ w.at = "cb"
                 /\ w.ev = v.ev
                 /\ ~Restarted(v)
                 /\ \E i \in 1 .. n - 1 : AtPlace(v, i) /\ AtPlace(w, i + 1)
    BY NextFacts DEF DeliveryInv
  <1>3. /\ deliver'[t] = w
        /\ \A u \in NotifThreads \ {t} : deliver'[u] = deliver[u]
    BY <1>2 DEF DeliveryInv, NotifTypeOK
  <1>4. /\ v.ev \in {"bottom_half", "stopped"}
        /\ ~notif_started => v.ev = "stopped"
        /\ notif_mutex = t
    BY <1>1 DEF DeliveryInv, Delivering
  <1>5. \A u \in NotifThreads \ {t} : deliver[u].at = "away"
    BY <1>4 DEF DeliveryInv, Delivering
  <1>6. PICK p \in 1 .. n : AtPlace(v, p)
    BY <1>1 DEF DeliveryInv, Delivering
  <1>7. /\ n \in Nat
        /\ \A i \in 1 .. n : q[i] \in Drivers /\ q[i] # NoDriver
        /\ \A i, j \in 1 .. n : q[i] = q[j] => i = j
        /\ v.nd = q[p]
    BY <1>6, NotifAssumption DEF DeliveryInv, NotifTypeOK, ListExact, AtPlace
  <1>8. ListExact'
    BY <1>1 DEF DeliveryInv, ListExact
  <1> HIDE DEF q, n, v
  <1>9. w.at = "cb" => p + 1 \in 1 .. n /\ AtPlace(w, p + 1)
    <2> SUFFICES ASSUME w.at = "cb"
                 PROVE  p + 1 \in 1 .. n /\ AtPlace(w, p + 1)
      OBVIOUS
    <2>1. PICK i \in 1 .. n - 1 : AtPlace(v, i) /\ AtPlace(w, i + 1)
      BY <1>2
    <2>3. i \in 1 .. n /\ v.nd = q[i]
      BY <1>7, <2>1 DEF AtPlace, q
    <2>2. i = p
      BY <1>7, <2>3
    <2> QED
      BY <1>7, <2>1, <2>2
  <1>10. Delivering'
    <2> SUFFICES ASSUME NEW u \in NotifThreads
                 PROVE  /\ deliver'[u].at = "away" => deliver'[u] = Away
                        /\ deliver'[u].at # "away" <=> notif_mutex = u
                        /\ deliver'[u].at \in {"cb", "relock"} =>
                              /\ deliver'[u].ev \in {"bottom_half", "stopped"}
                              /\ ~notif_started => deliver'[u].ev = "stopped"
                              /\ \E i \in 1 .. n : AtPlace(deliver[u], i)'
      BY <1>1 DEF Delivering, n
    <2>1. CASE u = t
      <3>1. w.at = "cb" => AtPlace(deliver[t], p + 1)'
        BY <1>1, <1>3, <1>9 DEF AtPlace
      <3> QED
        BY <1>2, <1>3, <1>4, <1>9, <2>1, <3>1
    <2>2. CASE u # t
      BY <1>3, <1>4, <1>5, <2>2 DEF DeliveryInv, Delivering
    <2> QED
      BY <2>1, <2>2
  <1>11. StopReachesAll'
    <2> SUFFICES ASSUME ~notif_started, NEW i \in 1 .. n, told[q[i]] = "started"
                 PROVE  ToTell(t, i)'
      BY <1>1 DEF StopReachesAll, q, n
    <2>1. PICK u \in NotifThreads : ToTell(u, i)
      BY DEF DeliveryInv, StopReachesAll, q, n
    <2>2. u = t
      BY <1>5, <2>1 DEF ToTell
    <2>3. PICK k \in 1 .. i : q[k] = v.nd /\ k < i
      BY <1>1, <2>1, <2>2 DEF ToTell, q, v
    <2>4. k = p /\ p + 1 \in 1 .. i /\ p # n
      BY <1>7, <2>3
    <2>5. v.nd_tmp = q[p + 1]
      BY <1>6, <2>4 DEF AtPlace, q, n
    <2>6. w.at = "cb"
      BY <1>2, <1>7, <2>4, <2>5
    <2>7. w.nd = q[p + 1]
      BY <1>9, <2>6 DEF AtPlace, q
    <2> QED
      BY <1>1, <1>3, <2>4, <2>6, <2>7 DEF ToTell, q
  <1>12. OneLateStop'
    <2>1. ASSUME notif_started, NEW u \in NotifThreads, deliver'[u].at = "cb"
          PROVE  deliver'[u].ev # "stopped"
      BY <1>2, <1>3, <1>5, <2>1 DEF Restarted
    <2> QED
      BY <1>1, <2>1 DEF DeliveryInv, OneLateStop
  <1> QED
    BY <1>8, <1>10, <1>11, <1>12

\* The mutex is unlocked.
LEMMA DoneKeeps ==
    ASSUME DeliveryInv, NEW t \in NotifThreads, DeliverDone(t)
    PROVE  ListExact' /\ Delivering' /\ StopReachesAll' /\ OneLateStop'
  <1>1. /\ deliver[t].at = "out"
        /\ notif_mutex' = NoDriver
        /\ deliver' = [deliver EXCEPT ![t] = Away]
        /\ UNCHANGED <<notif_driver_head, notif_started, told>>
    BY DEF DeliverDone
  <1>2. /\ deliver'[t] = Away
        /\ \A u \in NotifThreads \ {t} : deliver'[u] = deliver[u]
    BY <1>1 DEF DeliveryInv, NotifTypeOK
  <1>3. \A u \in NotifThreads \ {t} : deliver[u].at = "away"
    BY <1>1 DEF DeliveryInv, Delivering
  <1>4. ListExact'
    BY <1>1 DEF DeliveryInv, ListExact
  <1>5. Away.at = "away"
    BY DEF Away
  <1>6. Delivering'
    BY <1>1, <1>2, <1>3, <1>5, NotifAssumption DEF DeliveryInv, Delivering
  <1>7. \A u \in NotifThreads : deliver[u].at \notin {"cb", "relock"}
    BY <1>1, <1>3
  <1>8. StopReachesAll'
    BY <1>1, <1>7 DEF DeliveryInv, StopReachesAll, ToTell
  <1>9. OneLateStop'
    BY <1>1, <1>2, <1>3, <1>5 DEF DeliveryInv, OneLateStop
  <1> QED
    BY <1>4, <1>6, <1>8, <1>9

LEMMA DeliveryInit ==
    ASSUME NotifInit
    PROVE  DeliveryInv
  <1>1. ValuesTypeOK
    BY ValuesInit
  <1>2. /\ notif_driver_head = <<>> /\ Len(notif_driver_head) = 0
        /\ notif_started \in BOOLEAN
        /\ notif_mutex = NoDriver
        /\ deliver = [t \in NotifThreads |-> Away]
        /\ told = [d \in Drivers |-> "nothing"]
        /\ budget = 0
    BY DEF NotifInit
  <1>3. NotifTypeOK
    BY <1>1, <1>2, NotifAssumption DEF NotifTypeOK, ValuesTypeOK, Away
  <1>4. ListExact /\ StopReachesAll
    BY <1>2 DEF ListExact, StopReachesAll
  <1>5. Delivering /\ OneLateStop
    BY <1>2, NotifAssumption DEF Delivering, OneLateStop, Away
  <1> QED
    BY <1>3, <1>4, <1>5 DEF DeliveryInv

LEMMA DeliveryStep ==
    ASSUME DeliveryInv, [NotifNext]_NotifVars
    PROVE  DeliveryInv'
  <1>1. NotifTypeOK'
    BY TypesStep DEF DeliveryInv
  <1>2. ListExact' /\ Delivering' /\ StopReachesAll' /\ OneLateStop'
    <2>1. CASE UNCHANGED EventVars
      BY <2>1 DEF EventVars, DeliveryInv, ListExact, Delivering, AtPlace,
                  StopReachesAll, ToTell, OneLateStop
    <2> QED
      BY <2>1, RegisterKeeps, StartKeeps, DeliverKeeps, CallbackKeeps, NextKeeps,
         DoneKeeps
         DEF NotifNext, NotifVars, EventVars, notif_alloc_async_value,
             notif_free_async_value, notif_send_async, TakeInterrupt, notif_get_value
  <1> QED
    BY <1>1, <1>2 DEF DeliveryInv

LEMMA DeliveryImpliesAgreement ==
    ASSUME DeliveryInv
    PROVE  DriversAgree
  <1> SUFFICES ASSUME notif_mutex = NoDriver
               PROVE  IF notif_started
                      THEN Cardinality({d \in Registered : told[d] = "stopped"}) <= 1
                      ELSE \A d \in Registered : told[d] # "started"
    BY DEF DriversAgree
  <1>1. Registered = {notif_driver_head[i] : i \in 1 .. Len(notif_driver_head)}
    BY RegisteredFacts DEF DeliveryInv, NotifTypeOK
  <1>2. CASE ~notif_started
    <2>1. \A t \in NotifThreads : deliver[t].at = "away"
      BY NotifAssumption DEF DeliveryInv, Delivering
    <2> QED
      BY <1>1, <1>2, <2>1 DEF DeliveryInv, StopReachesAll, ToTell
  <1>3. CASE notif_started
    <2> DEFINE S == {d \in Registered : told[d] = "stopped"}
    <2>1. \A d, e \in S : d = e
      BY <1>1, <1>3 DEF DeliveryInv, OneLateStop
    <2>2. S = {} \/ \E d : S = {d}
      BY <2>1
    <2>3. Cardinality(S) \in {0, 1}
      BY <2>2, FS_EmptySet, FS_Singleton
    <2> QED
      BY <1>3, <2>3
  <1> QED
    BY <1>2, <1>3

\* Every variable keeps its type; the thread that delivers an event is always
\* at a driver of the list.
THEOREM NotifTypeCorrect == NotifSpec => []NotifTypeOK
  <1>1. NotifSpec => []DeliveryInv
    BY DeliveryInit, DeliveryStep, PTL DEF NotifSpec
  <1>2. DeliveryInv => NotifTypeOK
    BY DEF DeliveryInv
  <1> QED
    BY <1>1, <1>2, PTL

\* However starts, stops, bottom halves and registrations interleave, once no
\* event is being delivered the drivers agree with notif_started up to one late
\* stop (notif_deliver_event, notif_deliver_atomic_event), for any number of
\* drivers and threads.
THEOREM DriversStayInAgreement == NotifSpec => []DriversAgree
  <1>1. NotifSpec => []DeliveryInv
    BY DeliveryInit, DeliveryStep, PTL DEF NotifSpec
  <1> QED
    BY <1>1, DeliveryImpliesAgreement, PTL
=============================================================================
