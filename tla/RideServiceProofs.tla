------------------------- MODULE RideServiceProofs -------------------------
(***************************************************************************)
(* Proofs about the atomic lifecycle, that the status of drivers follows   *)
(* the rides they serve, and about the concurrent service: its types, the  *)
(* driver of every active ride, events of persisted rides only, and that   *)
(* nothing but stale commits departs from the atomic lifecycle.  They hold *)
(* for any number of concurrent requests, users, drivers, rides and zones, *)
(* for every set of calls, with and without faults.                        *)
(***************************************************************************)
EXTENDS RideService, TLAPS

-----------------------------------------------------------------------------
(* The atomic lifecycle. *)

\* Every reachable row has the types of models/ride.py and models/driver.py.
THEOREM LifecycleTypes == LifecycleSpec => []LifecycleTypeOK
<1>1. LifecycleInit => LifecycleTypeOK
  BY DEF LifecycleInit, LifecycleTypeOK, RideStatus, DriverStatus
<1>2. LifecycleTypeOK /\ [LifecycleNext]_lifecycleVars => LifecycleTypeOK'
  <2> SUFFICES ASSUME LifecycleTypeOK, [LifecycleNext]_lifecycleVars
               PROVE  LifecycleTypeOK'
    OBVIOUS
  <2> USE DEF LifecycleTypeOK, RideStatus, DriverStatus
  <2>1. ASSUME NEW r \in RideIds, NEW u \in Users, Create(r, u) PROVE LifecycleTypeOK'
    BY <2>1 DEF Create
  <2>2. ASSUME NEW r \in RideIds, NEW d \in Drivers, Match(r, d) PROVE LifecycleTypeOK'
    BY <2>2 DEF Match
  <2>3. ASSUME NEW r \in RideIds, Start(r) PROVE LifecycleTypeOK'
    BY <2>3 DEF Start
  <2>4. ASSUME NEW r \in RideIds, Complete(r) PROVE LifecycleTypeOK'
    BY <2>4 DEF Complete
  <2>5. ASSUME NEW r \in RideIds, Cancel(r) PROVE LifecycleTypeOK'
    BY <2>5 DEF Cancel
  <2>6. ASSUME NEW d \in Drivers, NEW status \in {"online", "offline"}, SetAvailability(d, status)
        PROVE  LifecycleTypeOK'
    BY <2>6 DEF SetAvailability
  <2>7. CASE UNCHANGED lifecycleVars
    BY <2>7 DEF lifecycleVars
  <2> QED
    BY <2>1, <2>2, <2>3, <2>4, <2>5, <2>6, <2>7 DEF LifecycleNext
<1> QED
  BY <1>1, <1>2, PTL DEF LifecycleSpec

\* The inductive invariant.
LifecycleInv == DriverRideSync /\ UnmatchedHasNoDriver

\* Executed one at a time, the lifecycle calls of ride_service.py and
\* driver_service.py keep drivers and rides in step: an active ride has a
\* driver of its own, and a driver is on_trip exactly while serving one.
\* The parts are inductive only together: that Complete frees a driver who
\* serves nobody else is DriverServesOneRide, that Match takes a driver who
\* serves nobody is DriverStatusFollowsRides, and that cancelling a ride which
\* was never matched frees nobody is UnmatchedHasNoDriver.
THEOREM LifecycleSync == LifecycleSpec => []DriverRideSync
<1>1. LifecycleInit => LifecycleInv
  BY DEF LifecycleInit, LifecycleInv, UnmatchedHasNoDriver, DriverRideSync, RideHasDriver, DriverServesOneRide,
         DriverStatusFollowsRides, Active
<1>2. /\ LifecycleTypeOK /\ LifecycleTypeOK' /\ LifecycleInv
      /\ [LifecycleNext]_lifecycleVars
      => LifecycleInv'
  <2> SUFFICES ASSUME LifecycleTypeOK, LifecycleTypeOK', LifecycleInv,
                      [LifecycleNext]_lifecycleVars
               PROVE  LifecycleInv'
    OBVIOUS
  <2> USE LifecycleAssumption
      DEF LifecycleTypeOK, RideStatus, DriverStatus, Active, LifecycleInv, UnmatchedHasNoDriver, DriverRideSync,
          RideHasDriver, DriverServesOneRide, DriverStatusFollowsRides
  <2>1. ASSUME NEW r \in RideIds, NEW u \in Users, Create(r, u) PROVE LifecycleInv'
    BY <2>1 DEF Create
  <2>2. ASSUME NEW r \in RideIds, NEW d \in Drivers, Match(r, d) PROVE LifecycleInv'
    <3>1. rideStatus[r] = "requested"
      BY <2>2 DEF Match, MayMove, AllowedTransitions
    <3>2. \A q \in RideIds : rideStatus[q] \in Active => rideDriver[q] # d
      BY <2>2 DEF Match
    <3> QED
      BY <2>2, <3>1, <3>2 DEF Match
  <2>3. ASSUME NEW r \in RideIds, Start(r) PROVE LifecycleInv'
    <3>1. rideStatus[r] = "matched"
      BY <2>3 DEF Start, MayMove, AllowedTransitions
    <3> QED
      BY <2>3, <3>1 DEF Start
  <2>4. ASSUME NEW r \in RideIds, Complete(r) PROVE LifecycleInv'
    <3>1. rideStatus[r] = "on_trip"
      BY <2>4 DEF Complete, MayMove, AllowedTransitions
    <3>2. \A q \in RideIds : rideStatus'[q] \in Active => rideDriver[q] # rideDriver[r]
      BY <2>4, <3>1 DEF Complete
    <3> QED
      BY <2>4, <3>1, <3>2 DEF Complete
  <2>5. ASSUME NEW r \in RideIds, Cancel(r) PROVE LifecycleInv'
    <3>1. rideStatus[r] \in {"requested", "matched"}
      BY <2>5 DEF Cancel, MayMove, AllowedTransitions
    <3>2. CASE rideStatus[r] = "matched"
      <4>1. \A q \in RideIds : rideStatus'[q] \in Active => rideDriver[q] # rideDriver[r]
        BY <2>5, <3>2 DEF Cancel
      <4> QED
        BY <2>5, <3>2, <4>1 DEF Cancel
    <3>3. CASE rideStatus[r] = "requested"
      BY <2>5, <3>3 DEF Cancel
    <3> QED
      BY <3>1, <3>2, <3>3
  <2>6. ASSUME NEW d \in Drivers, NEW status \in {"online", "offline"}, SetAvailability(d, status)
        PROVE  LifecycleInv'
    BY <2>6 DEF SetAvailability
  <2>7. CASE UNCHANGED lifecycleVars
    BY <2>7 DEF lifecycleVars
  <2> QED
    BY <2>1, <2>2, <2>3, <2>4, <2>5, <2>6, <2>7 DEF LifecycleNext
<1>3. LifecycleInv => DriverRideSync
  BY DEF LifecycleInv
<1> QED
  BY <1>1, <1>2, <1>3, LifecycleTypes, PTL DEF LifecycleSpec

-----------------------------------------------------------------------------
(* The concurrent service. *)

\* A ride about to be inserted.
Inserting(q) == q.call = "request" /\ "commit" \in q.todo

\* What the local state of a request says by itself: what its guards checked,
\* and which rows it has read at which step.
LocalOK(q) ==
    /\ q.call = "none" => q = Idle
    /\ q.ride \in RideIds <=> q.call \in RideCalls \cup {"request"}
    /\ q.rideDriver \in Drivers => q.call \in RideCalls
    /\ q.call = "request" => q.user \in Users /\ q.driver = None
    /\ q.call = "match" => q.rideStatus = "requested"
    /\ q.call = "start" => /\ q.rideStatus = "matched"
                           /\ q.rideDriver \in Drivers
                           /\ q.driver = None
    /\ q.call = "complete" => q.rideStatus = "on_trip" /\ q.rideDriver \in Drivers
    /\ q.call = "cancel" => q.rideStatus \in {"requested", "matched"}
    /\ q.call \in {"online", "offline"} => q.driver \in Drivers /\ q.driverStatus # "on_trip"
    /\ q.call = "locate" => q.driver \in Drivers
    /\ "search" \in q.todo => q.call = "match"
    /\ "load" \in q.todo => q.call \in {"complete", "cancel"} /\ q.rideDriver \in Drivers
    /\ "broadcast" \in q.todo => q.call \in RideCalls
    /\ "enter" \in q.todo => q.driver \in Drivers
    /\ "publish" \in q.todo => q.call = "request"
    /\ "commit" \in q.todo =>
          /\ q.call = "match" => q.driver \in Drivers /\ q.driverStatus = "online"
          /\ q.call \in {"complete", "cancel"} => q.driver = q.rideDriver

\* How it relates to the committed rows.
LinkOK(q) ==
    /\ q.rideDriver \in Drivers => rideDriver[q.ride] \in Drivers
    /\ q.call \in RideCalls => rideStatus[q.ride] # "absent"
    /\ q.call = "request" => (rideStatus[q.ride] = "absent" <=> "commit" \in q.todo)

\* Two requests never insert the same key, nor is it in use before.
KeysDistinct ==
    \A s, t \in Slots : Inserting(req[s]) /\ req[s].ride = req[t].ride => s = t

Inv ==
    /\ TypeOK
    /\ \A s \in Slots : LocalOK(req[s]) /\ LinkOK(req[s])
    /\ KeysDistinct
    /\ RideHasDriver
    /\ PublishedRidesPersist

-----------------------------------------------------------------------------
\* The fields of a request.
LEMMA IdleOK == Idle \in Request /\ LocalOK(Idle) /\ LinkOK(Idle)
  BY LifecycleAssumption, ServiceAssumption
     DEF Idle, Request, LocalOK, LinkOK, RideStatus, DriverStatus, AllCalls, RideCalls

\* A step that leaves the rows alone and puts a well-formed request q in slot s.
LEMMA SlotStep ==
  ASSUME Inv, NEW s \in Slots, NEW q \in Request, LocalOK(q), LinkOK(q),
         req' = [req EXCEPT ![s] = q], UNCHANGED rowVars,
         zoneIndex' \in [Zones -> SUBSET Drivers],
         announced' \in [RideIds -> Snapshot],
         published' \subseteq {r \in RideIds : rideStatus[r] # "absent"},
         Inserting(q) => \A t \in Slots \ {s} : req[t].ride # q.ride
  PROVE  Inv'
<1> USE DEF Inv, rowVars
<1>1. TypeOK'
  BY DEF TypeOK, LifecycleTypeOK
<1>2. req \in [Slots -> Request]
  BY DEF TypeOK
<1>3. \A t \in Slots : LocalOK(req'[t])
  BY <1>2 DEF LocalOK
<1>4. \A t \in Slots : LinkOK(req[t])' 
  BY <1>2 DEF LinkOK
<1>5. KeysDistinct'
  <2>1. \A t \in Slots : Inserting(req[t]) => rideStatus[req[t].ride] = "absent"
    BY DEF Inserting, LinkOK
  <2>2. \A t \in Slots \ {s} : Inserting(req[t]) => req[t].ride # q.ride
    <3> SUFFICES ASSUME NEW t \in Slots \ {s}, Inserting(req[t]), req[t].ride = q.ride
                 PROVE  FALSE
      OBVIOUS
    <3>1. q.ride \in RideIds
      BY DEF Inserting, LocalOK
    <3>2. q.call \in RideCalls \cup {"request"}
      BY <3>1 DEF LocalOK
    <3>3. CASE q.call = "request"
      BY <2>1, <3>3 DEF LinkOK, Inserting
    <3> QED
      BY <2>1, <3>2, <3>3 DEF LinkOK
  <2> QED
    BY <1>2, <2>2 DEF KeysDistinct
<1> QED
  BY <1>1, <1>3, <1>4, <1>5 DEF LocalOK, RideHasDriver, PublishedRidesPersist

-----------------------------------------------------------------------------
(* A call that is taken up. *)

\* Planning a request that has read all it needs.
LEMMA PlannedOK ==
  ASSUME NEW q \in Request, q.call # "none",
         LocalOK([q EXCEPT !.todo = {}]),
         q.call = "match" => q.driver \in Drivers /\ q.driverStatus = "online",
         q.call \in {"complete", "cancel"} => q.driver = q.rideDriver,
         Enters(q) # None => q.driver \in Drivers
  PROVE  /\ Planned(q) \in Request
         /\ LocalOK(Planned(q))
         /\ "commit" \in Planned(q).todo
  BY DEF Planned, Plan, Request, Steps, LocalOK, UpdatesRide, Idle

LEMMA ArriveInv ==
  ASSUME Inv, NEW s \in Slots, Arrive(s)
  PROVE  Inv'
<1> USE LifecycleAssumption, ServiceAssumption
<1>1. /\ rider \in [RideIds -> Users \cup {None}]
      /\ rideDriver \in [RideIds -> Drivers \cup {None}]
      /\ rideStatus \in [RideIds -> RideStatus \cup {"absent"}]
      /\ driverStatus \in [Drivers -> DriverStatus]
      /\ driverZone \in [Drivers -> Zones \cup {None}]
      /\ req \in [Slots -> Request]
  BY DEF Inv, TypeOK, LifecycleTypeOK
<1>2. ASSUME NEW q \in Request, LocalOK(q), LinkOK(q), Accept(s, q),
             Inserting(q) => \A t \in Slots \ {s} : req[t].ride # q.ride
      PROVE  Inv'
  BY <1>2, SlotStep DEF Accept, Inv, TypeOK, PublishedRidesPersist
<1>3. ASSUME NEW u \in Users, NEW r \in RideIds, RequestRide(s, u, r) PROVE Inv'
  <2> DEFINE q == [Idle EXCEPT !.call = "request", !.user = u, !.ride = r]
  <2>1. q \in Request /\ LocalOK([q EXCEPT !.todo = {}])
    BY DEF Idle, Request, LocalOK, RideStatus, DriverStatus, AllCalls, RideCalls
  <2>2. Enters(q) = None
    BY DEF Idle, Enters, Releases
  <2>3. Planned(q) \in Request /\ LocalOK(Planned(q)) /\ "commit" \in Planned(q).todo
    BY <2>1, <2>2, PlannedOK DEF Idle
  <2>4. LinkOK(Planned(q))
    BY <2>3, <1>3 DEF LinkOK, Planned, Idle, RequestRide, RideCalls
  <2> QED
    BY <1>2, <1>3, <2>3, <2>4 DEF RequestRide, Planned, Idle
<1>4. ASSUME NEW r \in RideIds, MatchRide(s, r) PROVE Inv'
  <2> DEFINE q == [Reading("match", r) EXCEPT !.todo = {"search"}]
  <2>1. q \in Request
    BY <1>1 DEF Reading, Idle, Request, RideStatus, DriverStatus, AllCalls, RideCalls, Steps
  <2>2. LocalOK(q)
    BY <1>1, <1>4 DEF Reading, Idle, LocalOK, RideCalls, MatchRide
  <2>3. LinkOK(q) /\ ~Inserting(q)
    BY <1>1, <1>4 DEF Reading, Idle, LinkOK, RideCalls, MatchRide, Inserting
  <2> QED
    BY <1>2, <1>4, <2>1, <2>2, <2>3 DEF MatchRide
<1>5. ASSUME NEW r \in RideIds, StartTrip(s, r) PROVE Inv'
  <2> DEFINE q == Reading("start", r)
  <2>1. q \in Request
    BY <1>1 DEF Reading, Idle, Request, RideStatus, DriverStatus, AllCalls, RideCalls, Steps
  <2>2. rideStatus[r] = "matched" /\ rideDriver[r] \in Drivers
    BY <1>1, <1>5 DEF StartTrip, MayMove, AllowedTransitions, RideStatus
  <2>3. LocalOK([q EXCEPT !.todo = {}])
    BY <1>1, <2>2 DEF Reading, Idle, LocalOK, RideCalls
  <2>4. Enters(q) = None /\ q.call = "start"
    BY DEF Reading, Idle, Enters, Releases
  <2>5. Planned(q) \in Request /\ LocalOK(Planned(q))
    BY <2>1, <2>3, <2>4, PlannedOK
  <2>6. LinkOK(Planned(q)) /\ ~Inserting(Planned(q))
    BY <1>1, <2>2 DEF Reading, Idle, LinkOK, Planned, RideCalls, Inserting
  <2> QED
    BY <1>2, <1>5, <2>5, <2>6 DEF StartTrip
<1>6. ASSUME NEW r \in RideIds, CompleteTrip(s, r) PROVE Inv'
  <2> DEFINE q == [Reading("complete", r) EXCEPT !.todo = {"load"}]
  <2>1. q \in Request
    BY <1>1 DEF Reading, Idle, Request, RideStatus, DriverStatus, AllCalls, RideCalls, Steps
  <2>2. rideStatus[r] = "on_trip" /\ rideDriver[r] \in Drivers
    BY <1>1, <1>6 DEF CompleteTrip, MayMove, AllowedTransitions, RideStatus
  <2>3. LocalOK(q)
    BY <1>1, <2>2 DEF Reading, Idle, LocalOK, RideCalls
  <2>4. LinkOK(q) /\ ~Inserting(q)
    BY <1>1, <2>2 DEF Reading, Idle, LinkOK, RideCalls, Inserting
  <2> QED
    BY <1>2, <1>6, <2>1, <2>3, <2>4 DEF CompleteTrip
<1>7. ASSUME NEW r \in RideIds, CancelRide(s, r) PROVE Inv'
  <2> DEFINE q == Reading("cancel", r)
             w == [q EXCEPT !.todo = {"load"}]
  <2>1. q \in Request /\ w \in Request
    BY <1>1 DEF Reading, Idle, Request, RideStatus, DriverStatus, AllCalls, RideCalls, Steps
  <2>2. rideStatus[r] \in {"requested", "matched"}
    BY <1>1, <1>7 DEF CancelRide, MayMove, AllowedTransitions, RideStatus
  <2>3. CASE rideDriver[r] = None
    <3>1. LocalOK([q EXCEPT !.todo = {}])
      BY <1>1, <2>2, <2>3 DEF Reading, Idle, LocalOK, RideCalls
    <3>2. Enters(q) = None /\ q.call = "cancel" /\ q.driver = q.rideDriver
      BY <2>3 DEF Reading, Idle, Enters
    <3>3. Planned(q) \in Request /\ LocalOK(Planned(q))
      BY <2>1, <3>1, <3>2, PlannedOK
    <3>4. LinkOK(Planned(q)) /\ ~Inserting(Planned(q))
      BY <1>1, <2>2 DEF Reading, Idle, LinkOK, Planned, RideCalls, Inserting
    <3> QED
      BY <1>2, <1>7, <2>3, <3>3, <3>4 DEF CancelRide
  <2>4. CASE rideDriver[r] # None
    <3>1. LocalOK(w)
      BY <1>1, <2>2, <2>4 DEF Reading, Idle, LocalOK, RideCalls
    <3>2. LinkOK(w) /\ ~Inserting(w)
      BY <1>1, <2>2 DEF Reading, Idle, LinkOK, RideCalls, Inserting
    <3> QED
      BY <1>2, <1>7, <2>1, <2>4, <3>1, <3>2 DEF CancelRide
  <2> QED
    BY <2>3, <2>4
<1>8. ASSUME NEW d \in Drivers, NEW call \in {"online", "offline"},
             driverStatus[d] # "on_trip", Accept(s, Planned(Profile(call, d)))
      PROVE  Inv'
  <2> DEFINE q == Profile(call, d)
  <2>1. q \in Request /\ LocalOK([q EXCEPT !.todo = {}])
    BY <1>1, <1>8 DEF Profile, Idle, Request, LocalOK, RideStatus, DriverStatus, AllCalls, RideCalls
  <2>2. q.call \in {"online", "offline"} /\ q.driver \in Drivers
    BY DEF Profile, Idle
  <2>3. Planned(q) \in Request /\ LocalOK(Planned(q))
    BY <2>1, <2>2, PlannedOK
  <2>4. LinkOK(Planned(q)) /\ ~Inserting(Planned(q))
    BY DEF Profile, Idle, LinkOK, Planned, RideCalls, Inserting
  <2> QED
    BY <1>2, <1>8, <2>3, <2>4
<1>9. ASSUME NEW d \in Drivers, NEW z \in Zones, UpdateLocation(s, d, z) PROVE Inv'
  <2> DEFINE q == [Profile("locate", d) EXCEPT !.zone = z]
  <2>1. q \in Request /\ LocalOK([q EXCEPT !.todo = {}])
    BY <1>1, <1>8 DEF Profile, Idle, Request, LocalOK, RideStatus, DriverStatus, AllCalls, RideCalls
  <2>2. q.call = "locate" /\ q.driver \in Drivers
    BY DEF Profile, Idle
  <2>3. Planned(q) \in Request /\ LocalOK(Planned(q))
    BY <2>1, <2>2, PlannedOK
  <2>4. LinkOK(Planned(q)) /\ ~Inserting(Planned(q))
    BY DEF Profile, Idle, LinkOK, Planned, RideCalls, Inserting
  <2> QED
    BY <1>2, <1>9, <2>3, <2>4 DEF UpdateLocation
<1> QED
  BY <1>3, <1>4, <1>5, <1>6, <1>7, <1>8, <1>9 DEF Arrive, GoOnline, GoOffline

-----------------------------------------------------------------------------
(* A request under way. *)

\* Taking any step but the commit.
LEMMA DoneOK ==
  ASSUME Inv, NEW s \in Slots, NEW step \in Steps \ {"commit"}
  PROVE  /\ Done(s, step) \in Request
         /\ LocalOK(Done(s, step))
         /\ LinkOK(Done(s, step))
         /\ Inserting(Done(s, step)) => Inserting(req[s]) /\ Done(s, step).ride = req[s].ride
<1>1. req[s] \in Request /\ LocalOK(req[s]) /\ LinkOK(req[s])
  BY DEF Inv, TypeOK
<1>2. CASE req[s].todo = {step}
  BY <1>2, IdleOK DEF Done, Idle, Inserting
<1>3. CASE req[s].todo # {step}
  <2> DEFINE q == [req[s] EXCEPT !.todo = @ \ {step}]
  <2>1. Done(s, step) = q
    BY <1>3 DEF Done
  <2>2. q \in Request
    BY <1>1 DEF Request
  <2>3. LocalOK(q)
    BY <1>1 DEF LocalOK, Request, Idle
  <2>4. LinkOK(q) /\ (Inserting(q) => Inserting(req[s]) /\ q.ride = req[s].ride)
    BY <1>1 DEF LinkOK, Request, Inserting
  <2> QED
    BY <2>1, <2>2, <2>3, <2>4
<1> QED
  BY <1>2, <1>3

\* Reading the driver of the request.
LEMMA LoadedOK ==
  ASSUME Inv, NEW s \in Slots, NEW d \in Drivers,
         \/ req[s].call = "match" /\ driverStatus[d] = "online"
         \/ req[s].call \in {"complete", "cancel"} /\ req[s].rideDriver = d
  PROVE  /\ Loaded(s, d) \in Request
         /\ LocalOK(Loaded(s, d))
         /\ LinkOK(Loaded(s, d))
         /\ ~Inserting(Loaded(s, d))
<1> DEFINE q == [req[s] EXCEPT !.driver = d, !.driverStatus = driverStatus[d],
                               !.driverZone = driverZone[d]]
<1>1. /\ req[s] \in Request /\ LocalOK(req[s]) /\ LinkOK(req[s])
      /\ driverStatus[d] \in DriverStatus /\ driverZone[d] \in Zones \cup {None}
  BY DEF Inv, TypeOK, LifecycleTypeOK
<1>2. q \in Request
  BY <1>1 DEF Request
<1>3. /\ q.call = req[s].call /\ q.ride = req[s].ride /\ q.rideDriver = req[s].rideDriver
      /\ q.driver = d /\ q.driverStatus = driverStatus[d]
  BY <1>1 DEF Request
<1>4. LocalOK([q EXCEPT !.todo = {}])
  BY <1>1 DEF LocalOK, Request, Idle
<1>5. Planned(q) \in Request /\ LocalOK(Planned(q))
  BY <1>2, <1>3, <1>4, PlannedOK
<1>6. LinkOK(Planned(q)) /\ ~Inserting(Planned(q))
  BY <1>1 DEF LinkOK, Planned, Inserting, Request
<1> QED
  BY <1>5, <1>6 DEF Loaded

\* Every step that leaves the rows alone.
LEMMA StepInv ==
  ASSUME Inv, NEW s \in Slots, (Step(s) /\ ~Commit(s)) \/ Abort(s)
  PROVE  Inv'
<1> USE LifecycleAssumption, ServiceAssumption
<1>1. /\ zoneIndex \in [Zones -> SUBSET Drivers]
      /\ announced \in [RideIds -> Snapshot]
      /\ published \subseteq {r \in RideIds : rideStatus[r] # "absent"}
      /\ rideDriver \in [RideIds -> Drivers \cup {None}]
      /\ req[s] \in Request /\ LocalOK(req[s]) /\ LinkOK(req[s])
  BY DEF Inv, TypeOK, LifecycleTypeOK, PublishedRidesPersist
<1>2. ~Inserting(Idle)
  BY DEF Inserting, Idle
<1>3. \A t \in Slots \ {s} : Inserting(req[s]) => req[t].ride # req[s].ride
  BY DEF Inv, KeysDistinct
<1>4. ASSUME NEW step \in Steps \ {"commit"}, Proceed(s, Done(s, step)),
             zoneIndex' \in [Zones -> SUBSET Drivers],
             announced' \in [RideIds -> Snapshot],
             published' \subseteq {r \in RideIds : rideStatus[r] # "absent"}
      PROVE  Inv'
  BY <1>3, <1>4, DoneOK, SlotStep DEF Proceed
<1>5. CASE FindDriver(s)
  <2>1. PICK d \in Drivers : driverStatus[d] = "online" /\ Proceed(s, Loaded(s, d))
    BY <1>5 DEF FindDriver
  <2>2. req[s].call = "match"
    BY <1>1, <1>5 DEF FindDriver, Due, LocalOK
  <2>3. /\ Loaded(s, d) \in Request
        /\ LocalOK(Loaded(s, d))
        /\ LinkOK(Loaded(s, d))
        /\ ~Inserting(Loaded(s, d))
    BY <2>1, <2>2, LoadedOK
  <2> QED
    BY <1>1, <1>5, <2>1, <2>3, SlotStep DEF FindDriver, Proceed
<1>6. CASE FindNobody(s)
  BY <1>1, <1>2, <1>6, IdleOK, SlotStep DEF FindNobody, Proceed
<1>7. CASE LoadDriver(s)
  <2> DEFINE d == req[s].rideDriver
  <2>1. req[s].call \in {"complete", "cancel"} /\ d \in Drivers
    BY <1>1, <1>7 DEF LoadDriver, Due, LocalOK
  <2>2. /\ Loaded(s, d) \in Request
        /\ LocalOK(Loaded(s, d))
        /\ LinkOK(Loaded(s, d))
        /\ ~Inserting(Loaded(s, d))
    BY <2>1, LoadedOK
  <2> QED
    BY <1>1, <1>7, <2>2, SlotStep DEF LoadDriver, Proceed
<1>8. CASE LockDriver(s)
  BY <1>1, <1>4, <1>8 DEF LockDriver, Steps
<1>9. CASE LockRide(s)
  BY <1>1, <1>4, <1>9 DEF LockRide, Steps
<1>10. CASE LeaveZone(s)
  <2>1. zoneIndex' \in [Zones -> SUBSET Drivers]
    BY <1>1, <1>10 DEF LeaveZone
  <2> QED
    BY <1>1, <1>4, <1>10, <2>1 DEF LeaveZone, Steps
<1>11. CASE EnterZone(s)
  <2>1. req[s].driver \in Drivers
    BY <1>1, <1>11 DEF EnterZone, Due, LocalOK
  <2>2. zoneIndex' \in [Zones -> SUBSET Drivers]
    BY <1>1, <1>11, <2>1 DEF EnterZone
  <2> QED
    BY <1>1, <1>4, <1>11, <2>2 DEF EnterZone, Steps
<1>12. CASE Broadcast(s)
  <2>1. req[s].call \in RideCalls
    BY <1>1, <1>12 DEF Broadcast, Due, LocalOK
  <2>2. Assigned(req[s]) \in Snapshot
    BY <1>1, <2>1 DEF Assigned, Snapshot, RideTarget, RideStatus, RideCalls, Request
  <2>3. announced' \in [RideIds -> Snapshot]
    BY <1>1, <1>12, <2>2 DEF Broadcast
  <2> QED
    BY <1>1, <1>4, <1>12, <2>3 DEF Broadcast, Steps
<1>13. CASE Publish(s)
  <2>1. "publish" \in req[s].todo /\ "commit" \notin req[s].todo
    BY <1>1, <1>13 DEF Publish, Due, Rank
  <2>2. req[s].call = "request"
    BY <1>1, <2>1 DEF LocalOK
  <2>3. req[s].ride \in RideIds /\ rideStatus[req[s].ride] # "absent"
    BY <1>1, <2>1, <2>2 DEF LocalOK, LinkOK
  <2>4. published' \subseteq {r \in RideIds : rideStatus[r] # "absent"}
    BY <1>1, <1>13, <2>3 DEF Publish
  <2> QED
    BY <1>1, <1>4, <1>13, <2>4 DEF Publish, Steps
<1>14. CASE Abort(s)
  BY <1>1, <1>2, <1>14, IdleOK, SlotStep DEF Abort, Proceed
<1> QED
  BY <1>5, <1>6, <1>7, <1>8, <1>9, <1>10, <1>11, <1>12, <1>13, <1>14 DEF Step

-----------------------------------------------------------------------------
(* The commit. *)

\* The request that is left once a request has committed.
LEMMA AfterCommit ==
  ASSUME Inv, NEW s \in Slots, Commit(s)
  PROVE  /\ "commit" \in req[s].todo
         /\ Done(s, "commit") \in Request
         /\ LocalOK(Done(s, "commit"))
         /\ ~Inserting(Done(s, "commit"))
         /\ \/ Done(s, "commit") = Idle
            \/ /\ req[s].call = "request"
               /\ Done(s, "commit") = [req[s] EXCEPT !.todo = @ \ {"commit"}]
<1>1. req[s] \in Request /\ LocalOK(req[s])
  BY DEF Inv, TypeOK
<1>2. "commit" \in req[s].todo
  BY DEF Commit, Due
<1>3. CASE req[s].todo = {"commit"}
  BY <1>2, <1>3, IdleOK DEF Done, Idle, Inserting
<1>4. CASE req[s].todo # {"commit"}
  <2> DEFINE q == [req[s] EXCEPT !.todo = @ \ {"commit"}]
  <2>1. Done(s, "commit") = q
    BY <1>4 DEF Done
  <2>2. PICK t \in Steps : t \in req[s].todo /\ t # "commit"
    BY <1>1, <1>2, <1>4 DEF Request
  <2>3. t = "publish"
    BY <2>2 DEF Commit, Due, Rank, Steps
  <2>4. req[s].call = "request"
    BY <1>1, <2>2, <2>3 DEF LocalOK
  <2>5. q \in Request
    BY <1>1 DEF Request
  <2>6. LocalOK(q) /\ ~Inserting(q)
    BY <1>1, <2>4 DEF LocalOK, Request, Inserting
  <2> QED
    BY <1>2, <2>1, <2>4, <2>5, <2>6
<1> QED
  BY <1>3, <1>4

\* What the commit does to one ride and to the rows' types.
LEMMA CommittedRows ==
  ASSUME Inv, NEW s \in Slots, Commit(s)
  PROVE  /\ LifecycleTypeOK'
         /\ driverZone' \in [Drivers -> Zones \cup {None}]
         /\ \A r \in RideIds :
               /\ r # req[s].ride => /\ rideStatus'[r] = rideStatus[r]
                                     /\ rideDriver'[r] = rideDriver[r]
               /\ r = req[s].ride => rideStatus'[r] = RideTarget[req[s].call]
               /\ rideDriver[r] \in Drivers => rideDriver'[r] \in Drivers
<1> USE LifecycleAssumption, ServiceAssumption
<1> DEFINE q == req[s]
<1>1. q \in Request /\ LocalOK(q) /\ "commit" \in q.todo
  BY AfterCommit DEF Inv, TypeOK
<1>2. q.ride \in RideIds => q.call \in RideCalls \cup {"request"}
  BY <1>1 DEF LocalOK
<1>3. q.ride \in RideIds => RideTarget[q.call] \in RideStatus
  BY <1>2 DEF RideTarget, RideCalls, RideStatus
<1>4. WritesDriverStatus(q) => DriverTarget[q.call] \in DriverStatus
  BY DEF WritesDriverStatus, SetsDriverStatus, Releases, DriverTarget, DriverStatus
<1>5. WritesRideDriver(q) => Assigned(q).driver \in Drivers
  BY <1>1 DEF WritesRideDriver, Assigned, LocalOK
<1>6. Assigned(q).status = RideTarget[q.call]
  BY DEF Assigned
<1>7. q.user \in Users \cup {None} /\ q.zone \in Zones \cup {None}
  BY <1>1 DEF Request
<1> QED
  BY <1>3, <1>4, <1>5, <1>6, <1>7 DEF Commit, Inv, TypeOK, LifecycleTypeOK

LEMMA CommitInv ==
  ASSUME Inv, NEW s \in Slots, Commit(s)
  PROVE  Inv'
<1> USE LifecycleAssumption, ServiceAssumption
<1> DEFINE q == req[s]
           p == Done(s, "commit")
<1>1. /\ q \in Request /\ LocalOK(q) /\ LinkOK(q) /\ "commit" \in q.todo
      /\ p \in Request /\ LocalOK(p) /\ ~Inserting(p)
      /\ \/ p = Idle
         \/ q.call = "request" /\ p = [q EXCEPT !.todo = @ \ {"commit"}]
  BY AfterCommit DEF Inv, TypeOK
<1>2. req \in [Slots -> Request] /\ req' = [req EXCEPT ![s] = p]
  BY DEF Inv, TypeOK, Commit
<1>3. TypeOK'
  <2>1. UNCHANGED <<zoneIndex, announced, published>>
    BY DEF Commit
  <2> QED
    BY <1>1, <1>2, <2>1, CommittedRows DEF Inv, TypeOK
<1>4. \A r \in RideIds : rideStatus[r] # "absent" => rideStatus'[r] # "absent"
  BY <1>1, CommittedRows DEF LocalOK, RideTarget, RideCalls
<1>5. \A t \in Slots : LocalOK(req'[t])
  BY <1>1, <1>2 DEF Inv
<1>6. ASSUME NEW t \in Slots PROVE LinkOK(req[t])'
  <2>1. CASE t = s /\ p = Idle
    BY <1>2, <2>1, IdleOK DEF LinkOK, Idle, RideCalls
  <2>2. CASE t = s /\ p # Idle
    <3>1. q.call = "request" /\ p.call = "request" /\ p.ride = q.ride
          /\ p.rideDriver = q.rideDriver
      BY <1>1, <2>2 DEF Request
    <3>2. q.ride \in RideIds /\ rideStatus'[q.ride] = "requested"
      BY <1>1, <3>1, CommittedRows DEF LocalOK, RideTarget
    <3>3. q.rideDriver \notin Drivers
      BY <1>1, <3>1 DEF LocalOK, RideCalls
    <3> QED
      BY <1>1, <1>2, <2>2, <3>1, <3>2, <3>3 DEF LinkOK, RideCalls, Inserting
  <2>3. CASE t # s
    <3>1. req'[t] = req[t] /\ LocalOK(req[t]) /\ LinkOK(req[t])
      BY <1>2, <2>3 DEF Inv
    <3>2. req[t].call \in RideCalls \cup {"request"} => req[t].ride \in RideIds
      BY <3>1 DEF LocalOK
    <3>3. Inserting(req[t]) => req[t].ride # q.ride
      BY <2>3 DEF Inv, KeysDistinct
    <3>4. Inserting(req[t]) => rideStatus'[req[t].ride] = "absent"
      BY <3>1, <3>2, <3>3, CommittedRows DEF Inserting, LinkOK
    <3>5. req[t].rideDriver \in Drivers => rideDriver'[req[t].ride] \in Drivers
      BY <3>1, <3>2, CommittedRows DEF LinkOK, LocalOK
    <3>6. req[t].call \in RideCalls => rideStatus'[req[t].ride] # "absent"
      BY <1>4, <3>1, <3>2 DEF LinkOK
    <3>7. req[t].call = "request" =>
             (rideStatus'[req[t].ride] = "absent" <=> "commit" \in req[t].todo)
      BY <1>4, <3>1, <3>2, <3>4 DEF LinkOK, Inserting
    <3> QED
      BY <3>1, <3>5, <3>6, <3>7 DEF LinkOK
  <2> QED
    BY <2>1, <2>2, <2>3
<1>7. KeysDistinct'
  <2>1. \A t \in Slots : Inserting(req'[t]) => t # s
    BY <1>1, <1>2
  <2>2. ASSUME NEW t \in Slots \ {s}, Inserting(req[t]) PROVE req[t].ride # p.ride
    <3>1. req[t].ride \in RideIds /\ req[t].ride # q.ride
      BY <2>2 DEF Inv, KeysDistinct, Inserting, LocalOK
    <3> QED
      BY <1>1, <3>1 DEF Idle, Request
  <2> QED
    BY <1>2, <2>1, <2>2 DEF KeysDistinct, Inv
<1>8. RideHasDriver'
  <2>1. ASSUME NEW r \in RideIds, rideStatus'[r] \in Active \cup {"completed"}
        PROVE  rideDriver'[r] \in Drivers
    <3>1. CASE r # q.ride
      BY <2>1, <3>1, CommittedRows DEF Inv, RideHasDriver
    <3>2. CASE r = q.ride
      <4>1. q.call \in {"match", "start", "complete"}
        BY <1>1, <2>1, <3>2, CommittedRows
           DEF LocalOK, RideCalls, RideTarget, Active
      <4>2. CASE q.call = "match"
        BY <1>1, <3>2, <4>2
           DEF Commit, LocalOK, WritesRideDriver, UpdatesRide, RideCalls, Assigned, LinkOK
      <4>3. CASE q.call \in {"start", "complete"}
        BY <1>1, <3>2, <4>3, CommittedRows DEF LocalOK, LinkOK
      <4> QED
        BY <4>1, <4>2, <4>3
    <3> QED
      BY <3>1, <3>2
  <2> QED
    BY <2>1 DEF RideHasDriver
<1>9. PublishedRidesPersist'
  BY <1>4 DEF Inv, TypeOK, PublishedRidesPersist, Commit
<1> QED
  BY <1>3, <1>5, <1>6, <1>7, <1>8, <1>9 DEF Inv, LocalOK

\* The commit of a request whose reads are current is a lifecycle step.
LEMMA FreshCommit ==
  ASSUME Inv, NEW s \in Slots, Commit(s), ReadsAreCurrent(req[s])
  PROVE  [LifecycleNext]_lifecycleVars
<1> USE LifecycleAssumption, ServiceAssumption
<1> DEFINE q == req[s]
           r == q.ride
           d == q.driver
<1>1. q \in Request /\ LocalOK(q) /\ LinkOK(q) /\ "commit" \in q.todo
  BY AfterCommit DEF Inv, TypeOK
<1>2. /\ rider \in [RideIds -> Users \cup {None}]
      /\ rideDriver \in [RideIds -> Drivers \cup {None}]
      /\ rideStatus \in [RideIds -> RideStatus \cup {"absent"}]
      /\ driverStatus \in [Drivers -> DriverStatus]
  BY DEF Inv, TypeOK, LifecycleTypeOK
<1>3. None \notin RideIds /\ None \notin Drivers
  OBVIOUS
<1>4. CASE q.call = "request"
  <2>1. r \in RideIds /\ q.user \in Users /\ d = None /\ rideStatus[r] = "absent"
    BY <1>1, <1>4 DEF LocalOK, LinkOK
  <2>2. ~HasActiveRide(q.user)
    BY <1>4 DEF ReadsAreCurrent
  <2>3. rider' = [rider EXCEPT ![r] = q.user]
    BY <1>2, <1>4, <2>1 DEF Commit
  <2>4. rideStatus' = [rideStatus EXCEPT ![r] = "requested"]
    <3>1. Assigned(q).status = "requested"
      BY <1>4 DEF Assigned, RideTarget
    <3> QED
      BY <1>2, <2>1, <3>1 DEF Commit
  <2>5. rideDriver' = rideDriver /\ driverStatus' = driverStatus
    BY <1>2, <1>3, <1>4, <2>1
       DEF Commit, WritesRideDriver, UpdatesRide, RideCalls, WritesDriverStatus
  <2> QED
    BY <2>1, <2>2, <2>3, <2>4, <2>5 DEF LifecycleNext, Create
<1>5. CASE q.call = "match"
  <2>1. /\ r \in RideIds /\ d \in Drivers /\ q.rideStatus = "requested"
        /\ q.driverStatus = "online"
    BY <1>1, <1>5 DEF LocalOK, RideCalls
  <2>2. /\ rideStatus[r] = "requested" /\ rideDriver[r] = q.rideDriver
        /\ driverStatus[d] = "online"
    BY <1>3, <1>5, <2>1 DEF ReadsAreCurrent, UpdatesRide, RideCalls
  <2>3. rider' = rider
    BY <1>2, <1>5 DEF Commit
  <2>4. rideStatus' = [rideStatus EXCEPT ![r] = "matched"]
    <3>1. Assigned(q).status = "matched"
      BY <1>5 DEF Assigned, RideTarget
    <3> QED
      BY <1>2, <2>1, <3>1 DEF Commit
  <2>5. rideDriver' = [rideDriver EXCEPT ![r] = d]
    BY <1>2, <1>5, <2>1, <2>2
       DEF Commit, WritesRideDriver, UpdatesRide, RideCalls, Assigned
  <2>6. driverStatus' = [driverStatus EXCEPT ![d] = "on_trip"]
    <3>1. WritesDriverStatus(q) /\ DriverTarget[q.call] = "on_trip"
      BY <1>3, <1>5, <2>1 DEF WritesDriverStatus, SetsDriverStatus, DriverTarget
    <3> QED
      BY <1>2, <2>1, <3>1 DEF Commit
  <2>7. MayMove(rideStatus[r], "matched")
    BY <2>2 DEF MayMove, AllowedTransitions
  <2>8. Match(r, d)
    BY <2>2, <2>3, <2>4, <2>5, <2>6, <2>7 DEF Match
  <2> QED
    BY <2>1, <2>8 DEF LifecycleNext
<1>6. CASE q.call \in {"start", "complete", "cancel"}
  <2>1. r \in RideIds /\ rideStatus[r] = q.rideStatus /\ rideDriver[r] = q.rideDriver
    BY <1>1, <1>6 DEF LocalOK, ReadsAreCurrent, UpdatesRide, RideCalls
  <2>2. rider' = rider
    BY <1>2, <1>6 DEF Commit
  <2>3. rideStatus' = [rideStatus EXCEPT ![r] = RideTarget[q.call]]
    BY <1>2, <2>1 DEF Commit, Assigned
  <2>4. rideDriver' = rideDriver
    BY <1>2, <1>6 DEF Commit, WritesRideDriver, Assigned
  <2>5. CASE q.call = "start"
    <3>1. rideStatus[r] = "matched" /\ d = None
      BY <1>1, <2>1, <2>5 DEF LocalOK
    <3>2. driverStatus' = driverStatus
      BY <1>2, <3>1 DEF Commit, WritesDriverStatus
    <3>3. MayMove(rideStatus[r], "on_trip") /\ RideTarget[q.call] = "on_trip"
      BY <2>5, <3>1 DEF MayMove, AllowedTransitions, RideTarget
    <3>4. Start(r)
      BY <2>2, <2>3, <2>4, <3>2, <3>3 DEF Start
    <3> QED
      BY <2>1, <3>4 DEF LifecycleNext
  <2>6. CASE q.call = "complete"
    <3>1. rideStatus[r] = "on_trip" /\ d = rideDriver[r] /\ d \in Drivers
      BY <1>1, <2>1, <2>6 DEF LocalOK
    <3>2. driverStatus[d] = q.driverStatus
      BY <1>3, <3>1 DEF ReadsAreCurrent
    <3>3. driverStatus' = [driverStatus EXCEPT ![rideDriver[r]] = "online"]
      <4>1. DriverTarget[q.call] = "online"
        BY <2>6 DEF DriverTarget
      <4>2. WritesDriverStatus(q) <=> driverStatus[d] # "online"
        BY <1>3, <2>6, <3>1, <3>2, <4>1 DEF WritesDriverStatus, SetsDriverStatus, Releases
      <4> QED
        BY <1>2, <3>1, <4>1, <4>2 DEF Commit
    <3>4. MayMove(rideStatus[r], "completed") /\ RideTarget[q.call] = "completed"
      BY <2>6, <3>1 DEF MayMove, AllowedTransitions, RideTarget
    <3>5. Complete(r)
      BY <2>2, <2>3, <2>4, <3>3, <3>4 DEF Complete
    <3> QED
      BY <2>1, <3>5 DEF LifecycleNext
  <2>7. CASE q.call = "cancel"
    <3>1. rideStatus[r] \in {"requested", "matched"} /\ d = rideDriver[r]
      BY <1>1, <2>1, <2>7 DEF LocalOK
    <3>2. d \in Drivers => driverStatus[d] = q.driverStatus
      BY <1>3 DEF ReadsAreCurrent
    <3>3. driverStatus' = [e \in Drivers |-> IF e = rideDriver[r] /\ driverStatus[e] = "on_trip"
                                             THEN "online" ELSE driverStatus[e]]
      BY <1>2, <1>3, <2>7, <3>1, <3>2
         DEF Commit, WritesDriverStatus, SetsDriverStatus, Releases, DriverTarget
    <3>4. MayMove(rideStatus[r], "cancelled") /\ RideTarget[q.call] = "cancelled"
      BY <2>7, <3>1 DEF MayMove, AllowedTransitions, RideTarget
    <3>5. Cancel(r)
      BY <2>2, <2>3, <2>4, <3>3, <3>4 DEF Cancel
    <3> QED
      BY <2>1, <3>5 DEF LifecycleNext
  <2> QED
    BY <1>6, <2>5, <2>6, <2>7
<1>7. CASE q.call \in {"none", "online", "offline", "locate"}
  <2>1. r \notin RideIds
    BY <1>1, <1>7 DEF LocalOK, RideCalls
  <2>2. UNCHANGED <<rider, rideDriver, rideStatus>>
    BY <1>2, <2>1 DEF Commit
  <2>3. CASE q.call \in {"online", "offline"}
    <3>1. d \in Drivers /\ driverStatus[d] = q.driverStatus /\ q.driverStatus # "on_trip"
      BY <1>1, <1>3, <2>3 DEF LocalOK, ReadsAreCurrent
    <3>2. driverStatus' = [driverStatus EXCEPT ![d] = q.call]
      <4>1. DriverTarget[q.call] = q.call
        BY <2>3 DEF DriverTarget
      <4>2. WritesDriverStatus(q) <=> driverStatus[d] # q.call
        BY <1>3, <2>3, <3>1, <4>1 DEF WritesDriverStatus, SetsDriverStatus
      <4> QED
        BY <1>2, <3>1, <4>1, <4>2 DEF Commit
    <3> QED
      BY <2>2, <2>3, <3>1, <3>2 DEF LifecycleNext, SetAvailability
  <2>4. CASE q.call \in {"none", "locate"}
    <3>1. driverStatus' = driverStatus
      BY <1>2, <2>4 DEF Commit, WritesDriverStatus, SetsDriverStatus, Releases
    <3> QED
      BY <2>2, <3>1 DEF lifecycleVars
  <2> QED
    BY <1>7, <2>3, <2>4
<1> QED
  BY <1>1, <1>4, <1>5, <1>6, <1>7 DEF Request, AllCalls, RideCalls

-----------------------------------------------------------------------------
(* Results. *)

LEMMA InitInv == Init => Inv
<1> SUFFICES ASSUME Init PROVE Inv
  OBVIOUS
<1> USE DEF Init, LifecycleInit
<1>1. TypeOK
  BY IdleOK DEF TypeOK, LifecycleTypeOK, RideStatus, DriverStatus, Snapshot, Silence
<1>2. \A s \in Slots : LocalOK(req[s]) /\ LinkOK(req[s])
  BY IdleOK
<1>3. KeysDistinct
  BY DEF KeysDistinct, Inserting, Idle
<1> QED
  BY <1>1, <1>2, <1>3 DEF Inv, RideHasDriver, PublishedRidesPersist, Active

LEMMA NextInv == Inv /\ [Next]_vars => Inv'
<1>1. ASSUME Inv, NEW s \in Slots, Arrive(s) \/ Step(s) \/ Abort(s) PROVE Inv'
  BY <1>1, ArriveInv, StepInv, CommitInv
<1>2. ASSUME Inv, UNCHANGED vars PROVE Inv'
  <2> USE <1>2 DEF vars, rowVars
  <2>1. TypeOK' /\ RideHasDriver' /\ PublishedRidesPersist'
    BY DEF Inv, TypeOK, LifecycleTypeOK, RideHasDriver, PublishedRidesPersist
  <2>2. \A s \in Slots : LocalOK(req'[s]) /\ LinkOK(req[s])'
    BY DEF Inv, LinkOK
  <2>3. KeysDistinct'
    BY DEF Inv, KeysDistinct
  <2> QED
    BY <2>1, <2>2, <2>3 DEF Inv
<1> QED
  BY <1>1, <1>2 DEF Next

LEMMA Invariance == Spec => []Inv
  BY InitInv, NextInv, PTL DEF Spec

\* Rows, Redis sets, messages and requests keep their types, whatever the
\* interleaving and the failures.
THEOREM TypeCorrectness == Spec => []TypeOK
<1>1. Inv => TypeOK
  BY DEF Inv
<1> QED
  BY <1>1, Invariance, PTL

\* No race leaves a matched, started or completed ride without its driver:
\* start_trip and complete_trip check driver_id on a row they read earlier, but
\* no handler ever clears the column.
THEOREM ActiveRidesHaveDrivers == Spec => []RideHasDriver
<1>1. Inv => RideHasDriver
  BY DEF Inv
<1> QED
  BY <1>1, Invariance, PTL

\* Publish-after-commit (request_ride): every event sent is of a persisted
\* ride, through crashes and failed commits.
THEOREM EventsOfPersistedRides == Spec => []PublishedRidesPersist
<1>1. Inv => PublishedRidesPersist
  BY DEF Inv
<1> QED
  BY <1>1, Invariance, PTL

LEMMA DepartureStep ==
  ASSUME Inv, [Next]_vars
  PROVE  [LifecycleNext]_lifecycleVars \/ \E s \in Slots : StaleCommit(s)
<1>1. ASSUME NEW s \in Slots, Arrive(s) PROVE UNCHANGED lifecycleVars
  BY <1>1 DEF Arrive, RequestRide, MatchRide, StartTrip, CompleteTrip, CancelRide,
              GoOnline, GoOffline, UpdateLocation, Accept, rowVars, lifecycleVars
<1>2. ASSUME NEW s \in Slots, (Step(s) /\ ~Commit(s)) \/ Abort(s)
      PROVE  UNCHANGED lifecycleVars
  BY <1>2 DEF Step, FindDriver, FindNobody, LoadDriver, LockDriver, LockRide, LeaveZone,
              EnterZone, Broadcast, Publish, Abort, Proceed, rowVars, lifecycleVars
<1>3. ASSUME NEW s \in Slots, Commit(s)
      PROVE  [LifecycleNext]_lifecycleVars \/ StaleCommit(s)
  BY <1>3, FreshCommit DEF StaleCommit
<1>4. CASE UNCHANGED vars
  BY <1>4 DEF vars, rowVars, lifecycleVars
<1> QED
  BY <1>1, <1>2, <1>3, <1>4 DEF Next

\* The concurrent service departs from the atomic lifecycle only in commits of
\* handlers whose reads were overtaken.
THEOREM DeparturesAreStale == Spec => OnlyStaleCommitsDepart
<1>1. Inv /\ [Next]_vars
      => [[LifecycleNext]_lifecycleVars \/ \E s \in Slots : StaleCommit(s)]_vars
  BY DepartureStep
<1> QED
  BY <1>1, Invariance, PTL DEF Spec, OnlyStaleCommitsDepart

-----------------------------------------------------------------------------
(* One request at a time. *)

Current == \A s \in Slots : ReadsAreCurrent(req[s])

\* When no two requests overlap, no read is ever overtaken.
LEMMA SoleRequestIsCurrent ==
  ASSUME \A s, t \in Slots : s = t, Inv, Current, [Next]_vars
  PROVE  Current'
<1> USE LifecycleAssumption, ServiceAssumption
<1>0. /\ req \in [Slots -> Request]
      /\ rideStatus \in [RideIds -> RideStatus \cup {"absent"}]
      /\ rider \in [RideIds -> Users \cup {None}]
  BY DEF Inv, TypeOK, LifecycleTypeOK
<1>1. ASSUME NEW s \in Slots, NEW q, req' = [req EXCEPT ![s] = q], ReadsAreCurrent(q)'
      PROVE  Current'
  BY <1>0, <1>1 DEF Current
<1>2. ASSUME NEW q, UNCHANGED rowVars, ReadsAreCurrent(q) PROVE ReadsAreCurrent(q)'
  BY <1>2 DEF rowVars, ReadsAreCurrent, HasActiveRide
<1>3. ReadsAreCurrent(Idle)
  BY DEF ReadsAreCurrent, Idle, UpdatesRide, RideCalls
<1>4. ASSUME NEW s \in Slots, NEW step \in Steps PROVE ReadsAreCurrent(Done(s, step))
  <2>1. CASE req[s].todo = {step}
    BY <1>3, <2>1 DEF Done
  <2>2. CASE req[s].todo # {step}
    BY <1>0, <2>2 DEF Done, Current, ReadsAreCurrent, UpdatesRide, Request
  <2> QED
    BY <2>1, <2>2
<1>5. ASSUME NEW s \in Slots, Arrive(s) PROVE Current'
  <2>1. ASSUME NEW q, Accept(s, q), ReadsAreCurrent(q) PROVE Current'
    BY <1>1, <1>2, <2>1 DEF Accept
  <2>2. ASSUME NEW u \in Users, NEW r \in RideIds, RequestRide(s, u, r) PROVE Current'
    BY <2>1, <2>2 DEF RequestRide, ReadsAreCurrent, Planned, Idle, UpdatesRide, RideCalls
  <2>3. ASSUME NEW r \in RideIds, MatchRide(s, r) PROVE Current'
    BY <2>1, <2>3 DEF MatchRide, ReadsAreCurrent, Reading, Idle, UpdatesRide
  <2>4. ASSUME NEW r \in RideIds, StartTrip(s, r) PROVE Current'
    BY <2>1, <2>4 DEF StartTrip, ReadsAreCurrent, Planned, Reading, Idle, UpdatesRide
  <2>5. ASSUME NEW r \in RideIds, CompleteTrip(s, r) PROVE Current'
    BY <2>1, <2>5 DEF CompleteTrip, ReadsAreCurrent, Reading, Idle, UpdatesRide
  <2>6. ASSUME NEW r \in RideIds, CancelRide(s, r) PROVE Current'
    BY <2>1, <2>6 DEF CancelRide, ReadsAreCurrent, Planned, Reading, Idle, UpdatesRide
  <2>7. ASSUME NEW d \in Drivers, GoOnline(s, d) PROVE Current'
    BY <2>1, <2>7 DEF GoOnline, ReadsAreCurrent, Planned, Profile, Idle, UpdatesRide, RideCalls
  <2>8. ASSUME NEW d \in Drivers, GoOffline(s, d) PROVE Current'
    BY <2>1, <2>8 DEF GoOffline, ReadsAreCurrent, Planned, Profile, Idle, UpdatesRide, RideCalls
  <2>9. ASSUME NEW d \in Drivers, NEW z \in Zones, UpdateLocation(s, d, z) PROVE Current'
    BY <2>1, <2>9 DEF UpdateLocation, ReadsAreCurrent, Planned, Profile, Idle, UpdatesRide, RideCalls
  <2> QED
    BY <1>5, <2>2, <2>3, <2>4, <2>5, <2>6, <2>7, <2>8, <2>9 DEF Arrive
<1>6. ASSUME NEW s \in Slots, (Step(s) /\ ~Commit(s)) \/ Abort(s) PROVE Current'
  <2>1. ASSUME NEW q, Proceed(s, q), ReadsAreCurrent(q) PROVE Current'
    BY <1>1, <1>2, <2>1 DEF Proceed
  <2>2. ASSUME NEW d \in Drivers PROVE ReadsAreCurrent(Loaded(s, d))
    BY <1>0 DEF Loaded, Planned, ReadsAreCurrent, Current, Request, UpdatesRide
  <2>3. CASE FindDriver(s)
    BY <2>1, <2>2, <2>3 DEF FindDriver
  <2>4. CASE FindNobody(s) \/ Abort(s)
    BY <1>3, <2>1, <2>4 DEF FindNobody, Abort
  <2>5. CASE LoadDriver(s)
    <3>1. req[s].rideDriver \in Drivers
      BY <2>5 DEF LoadDriver, Due, Inv, LocalOK
    <3> QED
      BY <2>1, <2>2, <2>5, <3>1 DEF LoadDriver
  <2>6. ASSUME NEW step \in Steps, Proceed(s, Done(s, step)) PROVE Current'
    BY <1>4, <2>1, <2>6
  <2> QED
    BY <1>6, <2>3, <2>4, <2>5, <2>6
       DEF Step, LockDriver, LockRide, LeaveZone, EnterZone, Broadcast, Publish, Steps
<1>7. ASSUME NEW s \in Slots, Commit(s) PROVE Current'
  <2> DEFINE q == req[s]
  <2>0. PICK p : p = Done(s, "commit")
    OBVIOUS
  <2>1. req' = [req EXCEPT ![s] = p]
    BY <1>7, <2>0 DEF Commit
  <2>2. CASE p = Idle
    BY <1>1, <2>1, <2>2 DEF ReadsAreCurrent, Idle, UpdatesRide, RideCalls
  <2>3. CASE p # Idle
    <3>1. q.call = "request" /\ p = [q EXCEPT !.todo = @ \ {"commit"}]
      BY <1>7, <2>0, <2>3, AfterCommit
    <3>2. q \in Request /\ LocalOK(q) /\ ~HasActiveRide(q.user)
      BY <1>0, <3>1 DEF Inv, Current, ReadsAreCurrent
    <3>3. q.driver = None
      BY <3>1, <3>2 DEF LocalOK
    <3>4. ASSUME NEW r \in RideIds, rider'[r] = q.user, rideStatus'[r] \in Active PROVE FALSE
      <4>1. CASE r = q.ride
        BY <1>7, <3>1, <3>4, <4>1, CommittedRows DEF RideTarget, Active
      <4>2. CASE r # q.ride
        BY <1>0, <1>7, <3>2, <3>4, <4>2 DEF Commit, HasActiveRide
      <4> QED
        BY <4>1, <4>2
    <3>5. p.call = "request" /\ p.user = q.user /\ p.driver = None
      BY <3>1, <3>2, <3>3 DEF Request
    <3>6. ReadsAreCurrent(p)'
      BY <3>4, <3>5 DEF ReadsAreCurrent, HasActiveRide, UpdatesRide, RideCalls
    <3> QED
      BY <1>1, <2>1, <3>6
  <2> QED
    BY <2>2, <2>3
<1>8. CASE UNCHANGED vars
  BY <1>2, <1>8 DEF vars, rowVars, Current, ReadsAreCurrent, HasActiveRide
<1> QED
  BY <1>5, <1>6, <1>7, <1>8 DEF Next

\* When requests never overlap, the service implements the atomic lifecycle,
\* failures included.
THEOREM SequentialRefinement ==
  ASSUME \A s, t \in Slots : s = t
  PROVE  Spec => LifecycleSpec
<1>1. Init => LifecycleInit /\ Current
  BY LifecycleAssumption
     DEF Init, Current, ReadsAreCurrent, Idle, UpdatesRide, RideCalls
<1>2. Inv /\ Current /\ [Next]_vars => Current'
  BY SoleRequestIsCurrent
<1>3. Inv /\ Current /\ [Next]_vars => [LifecycleNext]_lifecycleVars
  BY DepartureStep DEF Current, StaleCommit
<1> QED
  BY <1>1, <1>2, <1>3, Invariance, PTL DEF Spec, LifecycleSpec

\* Hence drivers and rides stay in step as long as requests do not overlap.
THEOREM SequentialSync ==
  ASSUME \A s, t \in Slots : s = t
  PROVE  Spec => []DriverRideSync
  BY SequentialRefinement, LifecycleSync, PTL
-----------------------------------------------------------------------------
(* A check of what was read would do. *)

\* Every commit finds what its request read unchanged.  For the rows of rides and
\* drivers, SELECT FOR UPDATE or a version column would make it so; not for what
\* request_ride reads, that the rider has no active ride: no row stands for it, and
\* it takes a partial unique index or a SERIALIZABLE transaction.
CommitsAreFresh == [][\A s \in Slots : ~StaleCommit(s)]_vars

\* However many requests overlap, and whatever fails, the service implements
\* the atomic lifecycle if no commit is stale: the plain reads of ride_service.py
\* are its only defect.
THEOREM FreshnessSuffices == Spec /\ CommitsAreFresh => LifecycleSpec
<1>1. Init => LifecycleInit
  BY DEF Init
<1>2. Inv /\ [Next]_vars /\ [\A s \in Slots : ~StaleCommit(s)]_vars
        => [LifecycleNext]_lifecycleVars
  <2> SUFFICES ASSUME Inv, [Next]_vars, [\A s \in Slots : ~StaleCommit(s)]_vars
               PROVE  [LifecycleNext]_lifecycleVars
    OBVIOUS
  <2>1. CASE UNCHANGED vars
    BY <2>1 DEF vars, rowVars, lifecycleVars
  <2>2. CASE \A s \in Slots : ~StaleCommit(s)
    BY <2>2, DepartureStep
  <2> QED
    BY <2>1, <2>2
<1> QED
  BY <1>1, <1>2, Invariance, PTL DEF Spec, LifecycleSpec, CommitsAreFresh

\* A driver is then on_trip exactly while serving a ride, and serves one ride.
THEOREM FreshnessKeepsSync == Spec /\ CommitsAreFresh => []DriverRideSync
  BY FreshnessSuffices, LifecycleSync, PTL
=============================================================================
