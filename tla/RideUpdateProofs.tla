-------------------------- MODULE RideUpdateProofs -------------------------
(***************************************************************************)
(* What the service tells its neighbours is what it commits: the updates   *)
(* broadcast to the rides' rooms, for any number of concurrent requests,   *)
(* and the zone sets in Redis, for one request at a time.  Both need a     *)
(* service whose commits do not fail: a rollback takes neither back.       *)
(***************************************************************************)
EXTENDS RideServiceProofs

-----------------------------------------------------------------------------
(* The steps a request still has to take. *)

\* A plan has one commit, after all reads, after the broadcast of a flushed ride
\* and after both sides of a move between zones.
Orderly(q) ==
    /\ {"search", "load"} \cap q.todo # {} => "commit" \notin q.todo
    /\ "lockRide" \in q.todo => "broadcast" \in q.todo
    /\ "broadcast" \in q.todo => "commit" \in q.todo
    /\ "enter" \in q.todo => "commit" \in q.todo
    /\ "leave" \in q.todo => "commit" \in q.todo /\ (Enters(q) # None => "enter" \in q.todo)

AllOrderly == \A s \in Slots : Orderly(req[s])

\* Nothing has been done yet but to read.
Fresh(q) ==
    "commit" \in q.todo =>
        /\ UpdatesRide(q) => "lockRide" \in q.todo
        /\ "leave" \notin q.todo => Leaves(q) = None
        /\ "enter" \notin q.todo => Enters(q) = None

ReadZone(q) == q.driver # None => driverZone[q.driver] = q.driverZone

\* Slot s goes from reading on to q.
Begins(s, q) ==
    /\ "commit" \notin req[s].todo
    /\ q \in Request /\ Orderly(q) /\ Fresh(q) /\ ReadZone(q)
    /\ req' = [req EXCEPT ![s] = q]
    /\ UNCHANGED <<rowVars, zoneIndex, announced>>

\* Slot s takes a step of which rows, room and zone sets know nothing.
Passes(s, step) ==
    /\ Due(s, step)
    /\ req' = [req EXCEPT ![s] = Done(s, step)]
    /\ UNCHANGED <<rowVars, zoneIndex, announced>>

LEMMA PlannedFresh ==
  ASSUME NEW q \in Request
  PROVE  /\ Orderly(Planned(q)) /\ Fresh(Planned(q))
         /\ ReadZone(q) => ReadZone(Planned(q))
  BY DEF Orderly, Fresh, ReadZone, Planned, Plan, Request, Leaves, Enters, Releases, WritesZone,
         UpdatesRide

LEMMA IdleBegins == Idle \in Request /\ Orderly(Idle) /\ Fresh(Idle) /\ ReadZone(Idle)
  BY IdleOK DEF Orderly, Fresh, ReadZone, Idle

LEMMA ArriveBegins ==
  ASSUME Inv, Inv', NEW s \in Slots, Arrive(s)
  PROVE  \E q : Begins(s, q)
<1> USE LifecycleAssumption, ServiceAssumption
<1>1. /\ rideDriver \in [RideIds -> Drivers \cup {None}]
      /\ rideStatus \in [RideIds -> RideStatus \cup {"absent"}]
      /\ driverStatus \in [Drivers -> DriverStatus]
      /\ driverZone \in [Drivers -> Zones \cup {None}]
      /\ req \in [Slots -> Request] /\ req' \in [Slots -> Request]
  BY DEF Inv, TypeOK, LifecycleTypeOK
<1>2. "commit" \notin Idle.todo
  BY DEF Idle
<1>3. ASSUME NEW q, Accept(s, q), Orderly(q), Fresh(q), ReadZone(q) PROVE Begins(s, q)
  BY <1>1, <1>2, <1>3 DEF Begins, Accept
<1>4. ASSUME NEW p \in Request, Accept(s, Planned(p)), ReadZone(p) PROVE \E q : Begins(s, q)
  BY <1>3, <1>4, PlannedFresh
<1>5. ASSUME NEW r \in RideIds, NEW call \in RideCalls
      PROVE  LET q == Reading(call, r) IN q \in Request /\ ReadZone(q)
  BY <1>1 DEF Reading, Idle, Request, RideStatus, DriverStatus, AllCalls, RideCalls, ReadZone
<1>6. ASSUME NEW r \in RideIds, NEW call \in RideCalls, NEW step \in {"search", "load"},
             Accept(s, [Reading(call, r) EXCEPT !.todo = {step}])
      PROVE  \E q : Begins(s, q)
  <2> DEFINE q == [Reading(call, r) EXCEPT !.todo = {step}]
  <2>1. q.todo = {step} /\ q.driver = None
    BY DEF Reading, Idle
  <2>2. Orderly(q) /\ Fresh(q) /\ ReadZone(q)
    BY <2>1 DEF Orderly, Fresh, ReadZone
  <2> QED  BY <1>3, <1>6, <2>2
<1>7. ASSUME NEW d \in Drivers, NEW call \in {"online", "offline", "locate"}
      PROVE  LET q == Profile(call, d) IN
             /\ q \in Request /\ ReadZone(q)
             /\ \A z \in Zones : [q EXCEPT !.zone = z] \in Request /\ ReadZone([q EXCEPT !.zone = z])
  BY <1>1 DEF Profile, Idle, Request, RideStatus, DriverStatus, AllCalls, ReadZone
<1>8. ASSUME NEW u \in Users, NEW r \in RideIds, RequestRide(s, u, r) PROVE \E q : Begins(s, q)
  <2> DEFINE p == [Idle EXCEPT !.call = "request", !.user = u, !.ride = r]
  <2>1. p \in Request /\ ReadZone(p)
    BY DEF Idle, Request, RideStatus, DriverStatus, AllCalls, ReadZone
  <2> QED  BY <1>4, <1>8, <2>1 DEF RequestRide
<1>9. ASSUME NEW r \in RideIds,
             MatchRide(s, r) \/ StartTrip(s, r) \/ CompleteTrip(s, r) \/ CancelRide(s, r)
      PROVE  \E q : Begins(s, q)
  BY <1>4, <1>5, <1>6, <1>9 DEF MatchRide, StartTrip, CompleteTrip, CancelRide, RideCalls
<1>10. ASSUME NEW d \in Drivers,
              GoOnline(s, d) \/ GoOffline(s, d) \/ \E z \in Zones : UpdateLocation(s, d, z)
       PROVE  \E q : Begins(s, q)
  BY <1>4, <1>7, <1>10 DEF GoOnline, GoOffline, UpdateLocation
<1> QED  BY <1>8, <1>9, <1>10 DEF Arrive

\* The search or the second read ends with a plan, or the request with it.
LEMMA SearchBegins ==
  ASSUME Inv, AllOrderly, NEW s \in Slots, FindDriver(s) \/ FindNobody(s) \/ LoadDriver(s)
  PROVE  \E q : Begins(s, q)
<1> USE LifecycleAssumption
<1>1. /\ driverStatus \in [Drivers -> DriverStatus]
      /\ driverZone \in [Drivers -> Zones \cup {None}]
      /\ req[s] \in Request /\ LocalOK(req[s]) /\ Orderly(req[s])
  BY DEF Inv, TypeOK, LifecycleTypeOK, AllOrderly
<1>2. "commit" \notin req[s].todo
  BY <1>1 DEF FindDriver, FindNobody, LoadDriver, Due, Orderly
<1>3. ASSUME NEW d \in Drivers, Proceed(s, Loaded(s, d)), UNCHANGED <<zoneIndex, announced>>
      PROVE  \E q : Begins(s, q)
  <2> DEFINE p == [req[s] EXCEPT !.driver = d, !.driverStatus = driverStatus[d],
                                 !.driverZone = driverZone[d]]
  <2>1. p \in Request /\ ReadZone(p)
    BY <1>1 DEF Request, ReadZone
  <2>2. Planned(p) \in Request
    BY <2>1 DEF Planned, Plan, Request, Steps
  <2>3. Begins(s, Planned(p))
    BY <1>2, <1>3, <2>1, <2>2, PlannedFresh DEF Begins, Proceed, Loaded
  <2> QED  BY <2>3
<1>4. CASE FindDriver(s)
  BY <1>3, <1>4 DEF FindDriver
<1>5. CASE FindNobody(s)
  <2>1. Begins(s, Idle)
    BY <1>2, <1>5, IdleBegins DEF FindNobody, Proceed, Begins
  <2> QED  BY <2>1
<1>6. CASE LoadDriver(s)
  <2>1. req[s].rideDriver \in Drivers
    BY <1>1, <1>6 DEF LoadDriver, Due, LocalOK
  <2> QED  BY <1>3, <1>6, <2>1 DEF LoadDriver
<1> QED  BY <1>4, <1>5, <1>6

\* A request that has taken a step keeps the order of the others.
LEMMA DoneOrderly ==
  ASSUME Inv, AllOrderly, NEW s \in Slots, NEW step \in Steps, Due(s, step)
  PROVE  Orderly(Done(s, step))
<1>1. req[s] \in Request /\ Orderly(req[s])
  BY DEF Inv, TypeOK, AllOrderly
<1>2. CASE req[s].todo = {step}
  BY <1>2, IdleBegins DEF Done
<1>3. CASE req[s].todo # {step}
  <2> DEFINE q == [req[s] EXCEPT !.todo = @ \ {step}]
  <2>1. Enters(q) = Enters(req[s]) /\ q.todo = req[s].todo \ {step}
    BY <1>1 DEF Enters, Releases, Request
  <2>2. Orderly(q)
    BY <1>1, <2>1 DEF Orderly, Due, Rank, Steps
  <2> QED  BY <1>3, <2>2 DEF Done
<1> QED  BY <1>2, <1>3

\* Every step of the service is one of these.
LEMMA StepForm ==
  ASSUME Inv, Inv', AllOrderly, [Next]_vars
  PROVE  \/ UNCHANGED vars
         \/ \E s \in Slots :
               \/ \E q : Begins(s, q)
               \/ \E step \in {"lockDriver", "lockRide", "publish"} :
                     Passes(s, step) /\ (step = "lockRide" => LockRide(s))
               \/ LeaveZone(s) \/ EnterZone(s) \/ Broadcast(s) \/ Commit(s) \/ Abort(s)
<1>1. ASSUME NEW s \in Slots, Arrive(s) PROVE \E q : Begins(s, q)
  BY <1>1, ArriveBegins
<1>2. ASSUME NEW s \in Slots, FindDriver(s) \/ FindNobody(s) \/ LoadDriver(s)
      PROVE  \E q : Begins(s, q)
  BY <1>2, SearchBegins
<1>3. ASSUME NEW s \in Slots, LockDriver(s) PROVE Passes(s, "lockDriver")
  BY <1>3 DEF LockDriver, Proceed, Passes
<1>4. ASSUME NEW s \in Slots, LockRide(s) PROVE Passes(s, "lockRide")
  BY <1>4 DEF LockRide, Proceed, Passes
<1>5. ASSUME NEW s \in Slots, Publish(s) PROVE Passes(s, "publish")
  BY <1>5 DEF Publish, Proceed, Passes
<1> QED  BY <1>1, <1>2, <1>3, <1>4, <1>5 DEF Next, Step

LEMMA OrderlyStep ==
  ASSUME Inv, Inv', AllOrderly, [Next]_vars
  PROVE  AllOrderly'
<1>0. req \in [Slots -> Request]
  BY DEF Inv, TypeOK
<1>1. ASSUME NEW s \in Slots, NEW q, req' = [req EXCEPT ![s] = q], Orderly(q) PROVE AllOrderly'
  BY <1>0, <1>1 DEF AllOrderly, Orderly, Enters, Releases
<1>2. ASSUME NEW s \in Slots, NEW q, Begins(s, q) PROVE AllOrderly'
  BY <1>1, <1>2 DEF Begins
<1>3. ASSUME NEW s \in Slots, NEW step \in Steps, Due(s, step),
             req' = [req EXCEPT ![s] = Done(s, step)]
      PROVE  AllOrderly'
  BY <1>1, <1>3, DoneOrderly
<1>4. CASE UNCHANGED vars
  BY <1>4 DEF vars, AllOrderly, Orderly, Enters, Releases
<1>5. ASSUME NEW s \in Slots, Abort(s) PROVE AllOrderly'
  BY <1>1, <1>5, IdleBegins DEF Abort, Proceed
<1> QED
  BY <1>2, <1>3, <1>4, <1>5, StepForm
     DEF Passes, LeaveZone, EnterZone, Broadcast, Commit, Proceed, Steps

-----------------------------------------------------------------------------
(* The locks of rows. *)

\* One flush writes the driver before the ride: who still wants the driver's row
\* has not taken the ride's.
LockOrdered(q) ==
    UpdatesRide(q) /\ {"lockDriver", "commit"} \subseteq q.todo => "lockRide" \in q.todo

LocksOrdered == \A s \in Slots : LockOrdered(req[s])

LEMMA LockOrderStep ==
  ASSUME Inv, Inv', AllOrderly, LocksOrdered, [Next]_vars
  PROVE  LocksOrdered'
<1>0. req \in [Slots -> Request]
  BY DEF Inv, TypeOK
<1>1. ASSUME NEW s \in Slots, NEW q, req' = [req EXCEPT ![s] = q], LockOrdered(q)
      PROVE  LocksOrdered'
  BY <1>0, <1>1 DEF LocksOrdered, LockOrdered, UpdatesRide
<1>2. ASSUME NEW s \in Slots, NEW q, Begins(s, q) PROVE LocksOrdered'
  BY <1>1, <1>2 DEF Begins, Fresh, LockOrdered
<1>3. ASSUME NEW s \in Slots, NEW step \in Steps, Due(s, step),
             req' = [req EXCEPT ![s] = Done(s, step)]
      PROVE  LocksOrdered'
  <2>1. LockOrdered(Idle)
    BY DEF LockOrdered, Idle
  <2>2. ASSUME req[s].todo # {step} PROVE LockOrdered(Done(s, step))
    <3>1. /\ Done(s, step).todo = req[s].todo \ {step}
          /\ Done(s, step).call = req[s].call
      BY <1>0, <2>2 DEF Done, Request
    <3> QED  BY <1>3, <3>1 DEF LocksOrdered, LockOrdered, UpdatesRide, Due, Rank, Steps
  <2> QED  BY <1>1, <1>3, <2>1, <2>2 DEF Done
<1>4. CASE UNCHANGED vars
  BY <1>4 DEF vars, LocksOrdered, LockOrdered, UpdatesRide
<1>5. ASSUME NEW s \in Slots, Abort(s) PROVE LocksOrdered'
  BY <1>1, <1>5 DEF Abort, Proceed, LockOrdered, Idle
<1> QED
  BY <1>2, <1>3, <1>4, <1>5, StepForm
     DEF Passes, LeaveZone, EnterZone, Broadcast, Commit, Proceed, Steps

\* Who holds a ride waits for nobody, and who holds a driver at most for a ride.
LEMMA HoldersWait ==
  ASSUME LocksOrdered, NEW s \in Slots, NEW t \in Slots, Waits(s, t), NEW x
  PROVE  /\ ~HoldsRide(s, x)
         /\ HoldsDriver(s, x) => HoldsRide(t, req[s].ride)
  BY DEF LocksOrdered, LockOrdered, Waits, Due, Rank, HoldsRide, HoldsDriver

\* However many requests overlap, whatever fails: no circle of requests that
\* wait for each other's row locks, because every flush takes the driver before
\* the ride and handlers wait for no other lock (driver_repository.py,
\* ride_repository.py).
THEOREM LocksNeverCycle == Spec => []NoWaitCycle
<1>1. Init => AllOrderly /\ LocksOrdered
  BY IdleBegins DEF Init, AllOrderly, LocksOrdered, LockOrdered, Idle
<1>2. Inv /\ AllOrderly /\ LocksOrdered /\ [Next]_vars => AllOrderly' /\ LocksOrdered'
  BY NextInv, OrderlyStep, LockOrderStep
<1>3. ASSUME Inv, LocksOrdered PROVE NoWaitCycle
  <2> SUFFICES ASSUME NEW W \in SUBSET Slots, W # {},
                      \A s \in W : \E t \in W : Waits(s, t)
               PROVE  FALSE
      BY DEF NoWaitCycle
  <2>1. PICK s \in W, t \in W, u \in W, v \in W : Waits(s, t) /\ Waits(t, u) /\ Waits(u, v)
    OBVIOUS
  <2>2. HoldsDriver(t, req[s].driver)
    BY <1>3, <2>1, HoldersWait DEF Waits
  <2>3. HoldsRide(u, req[t].ride)
    BY <1>3, <2>1, <2>2, HoldersWait
  <2> QED  BY <1>3, <2>1, <2>3, HoldersWait
<1> QED  BY <1>1, <1>2, <1>3, Invariance, PTL DEF Spec

-----------------------------------------------------------------------------
(* The updates broadcast. *)

\* The request has flushed its ride and not committed it.
Holding(q) ==
    /\ UpdatesRide(q)
    /\ "commit" \in q.todo
    /\ "lockRide" \notin q.todo

\* One request at a time holds a ride; once it has broadcast, the room knows
\* what will be committed; until a ride is inserted its room is silent.
UpdateInv ==
    /\ \A s, t \in Slots :
          Holding(req[s]) /\ Holding(req[t]) /\ req[s].ride = req[t].ride => s = t
    /\ \A s \in Slots :
          Holding(req[s]) /\ "broadcast" \notin req[s].todo
             => announced[req[s].ride].status = Assigned(req[s]).status
    /\ \A r \in RideIds : rideStatus[r] = "absent" => announced[r] = Silence
    /\ AnnouncedStatusCommitted

LEMMA HoldsHolding == \A s \in Slots, r \in RideIds :
                         HoldsRide(s, r) <=> Holding(req[s]) /\ req[s].ride = r
  BY DEF HoldsRide, Holding

\* A slot whose hold, if any, is as it was.
LEMMA KeepsHold ==
  ASSUME Inv, UpdateInv, NEW s \in Slots, NEW q,
         req' = [req EXCEPT ![s] = q], UNCHANGED <<rideStatus, announced>>,
         Holding(q) <=> Holding(req[s]),
         Holding(q) => /\ q.ride = req[s].ride /\ q.call = req[s].call
                       /\ "broadcast" \in q.todo <=> "broadcast" \in req[s].todo
  PROVE  UpdateInv'
<1>1. req \in [Slots -> Request]
  BY DEF Inv, TypeOK
<1>2. \A t \in Slots :
         /\ Holding(req'[t]) <=> Holding(req[t])
         /\ Holding(req'[t]) =>
               /\ req'[t].ride = req[t].ride
               /\ Assigned(req'[t]).status = Assigned(req[t]).status
               /\ "broadcast" \in req'[t].todo <=> "broadcast" \in req[t].todo
  BY <1>1 DEF Assigned
<1>3. \A t \in Slots, r \in RideIds : HoldsRide(t, r)' <=> HoldsRide(t, r)
  BY <1>2 DEF HoldsRide, Holding
<1>4. AnnouncedStatusCommitted'
  BY <1>3 DEF UpdateInv, AnnouncedStatusCommitted
<1> QED  BY <1>2, <1>4 DEF UpdateInv, Holding, Assigned, UpdatesRide

LEMMA BeginsUpdate ==
  ASSUME Inv, UpdateInv, NEW s \in Slots, NEW q, Begins(s, q)
  PROVE  UpdateInv'
<1>1. ~Holding(q) /\ ~Holding(req[s])
  BY DEF Begins, Fresh, Holding
<1> QED  BY <1>1, KeepsHold DEF Begins, rowVars

\* A step that is none of the hold, the broadcast and the commit.
LEMMA OtherUpdate ==
  ASSUME Inv, UpdateInv, NEW s \in Slots,
         NEW step \in Steps \ {"lockRide", "broadcast", "commit"}, Due(s, step),
         req' = [req EXCEPT ![s] = Done(s, step)], UNCHANGED <<rideStatus, announced>>
  PROVE  UpdateInv'
<1>1. req[s] \in Request
  BY DEF Inv, TypeOK
<1>2. CASE req[s].todo = {step}
  <2>1. ~Holding(Done(s, step)) /\ ~Holding(req[s])
    BY <1>2 DEF Done, Holding, Idle
  <2> QED  BY <2>1, KeepsHold
<1>3. CASE req[s].todo # {step}
  <2> DEFINE q == [req[s] EXCEPT !.todo = @ \ {step}]
  <2>1. q.ride = req[s].ride /\ q.call = req[s].call /\ q.todo = req[s].todo \ {step}
    BY <1>1 DEF Request
  <2>2. Done(s, step) = q
    BY <1>3 DEF Done
  <2>3. Holding(q) <=> Holding(req[s])
    BY <2>1 DEF Holding, UpdatesRide
  <2> HIDE DEF q
  <2> QED  BY <2>1, <2>2, <2>3, KeepsHold
<1> QED  BY <1>2, <1>3

\* What is left after the flush or the broadcast: the commit is still to come.
LEMMA FlushLeft ==
  ASSUME Inv, AllOrderly, NEW s \in Slots, NEW step \in {"lockRide", "broadcast"}, Due(s, step)
  PROVE  LET q == Done(s, step) IN
         /\ q.ride = req[s].ride /\ q.call = req[s].call /\ q.todo = req[s].todo \ {step}
         /\ "commit" \in q.todo
         /\ step = "lockRide" => "broadcast" \in q.todo
         /\ step = "broadcast" => Holding(req[s])
<1>1. req[s] \in Request /\ Orderly(req[s]) /\ LocalOK(req[s])
  BY DEF Inv, TypeOK, AllOrderly
<1>2. "commit" \in req[s].todo /\ "broadcast" \in req[s].todo
  BY <1>1 DEF Orderly, Due
<1>3. Done(s, step) = [req[s] EXCEPT !.todo = @ \ {step}]
  BY <1>2 DEF Done
<1>4. step = "broadcast" => "lockRide" \notin req[s].todo /\ req[s].call \in RideCalls
  BY <1>1 DEF Due, Rank, LocalOK
<1> QED  BY <1>1, <1>2, <1>3, <1>4 DEF Request, Holding, UpdatesRide

\* The flush waits until no other request holds the ride.
LEMMA LockUpdate ==
  ASSUME Inv, AllOrderly, UpdateInv, NEW s \in Slots, LockRide(s)
  PROVE  UpdateInv'
<1> DEFINE q == Done(s, "lockRide")
<1>1. /\ q.ride = req[s].ride /\ q.call = req[s].call
      /\ "commit" \in q.todo /\ "broadcast" \in q.todo
  BY FlushLeft DEF LockRide
<1>2. /\ req' = [req EXCEPT ![s] = q] /\ UNCHANGED <<rideStatus, announced>>
      /\ \A t \in Slots : ~HoldsRide(t, req[s].ride)
  BY DEF LockRide, Proceed, rowVars
<1> HIDE DEF q
<1>3. req \in [Slots -> Request]
  BY DEF Inv, TypeOK
<1>4. /\ req'[s] = q
      /\ \A t \in Slots \ {s} : req'[t] = req[t] /\ ~HoldsRide(t, q.ride)
  BY <1>1, <1>2, <1>3
<1>5. ~Holding(req[s])
  BY <1>2 DEF HoldsRide, Holding
<1>6. \A t \in Slots, r \in RideIds : HoldsRide(t, r) => HoldsRide(t, r)'
  BY <1>4, <1>5 DEF HoldsRide, Holding
<1>7. AnnouncedStatusCommitted'
  BY <1>2, <1>6 DEF UpdateInv, AnnouncedStatusCommitted
<1>8. \A t \in Slots \ {s} : Holding(req[t]) => req[t].ride # q.ride
  BY <1>4 DEF Holding, HoldsRide
<1> QED
  BY <1>1, <1>2, <1>4, <1>7, <1>8 DEF UpdateInv, Holding, Assigned, UpdatesRide

LEMMA BroadcastUpdate ==
  ASSUME Inv, AllOrderly, UpdateInv, NEW s \in Slots, Broadcast(s)
  PROVE  UpdateInv'
<1> DEFINE q == Done(s, "broadcast")
           r == req[s].ride
<1>1. /\ q.ride = r /\ q.call = req[s].call /\ "commit" \in q.todo
      /\ q.todo = req[s].todo \ {"broadcast"} /\ Holding(req[s])
  BY FlushLeft DEF Broadcast
<1>2. /\ req' = [req EXCEPT ![s] = q] /\ rideStatus' = rideStatus
      /\ announced' = [announced EXCEPT ![r] = Assigned(req[s])]
  BY DEF Broadcast, Proceed, rowVars
<1>3. req \in [Slots -> Request] /\ announced \in [RideIds -> Snapshot]
  BY DEF Inv, TypeOK
<1>4. r \in RideIds /\ rideStatus[r] # "absent"
  BY <1>1 DEF Inv, LocalOK, LinkOK, Holding, UpdatesRide
<1> HIDE DEF q
<1>5. /\ req'[s] = q
      /\ \A t \in Slots \ {s} : req'[t] = req[t]
      /\ announced'[r] = Assigned(req[s])
      /\ \A x \in RideIds \ {r} : announced'[x] = announced[x]
  BY <1>2, <1>3, <1>4
<1>6. Holding(q)
  BY <1>1 DEF Holding, UpdatesRide
<1>7. Assigned(q).status = Assigned(req[s]).status
  BY <1>1 DEF Assigned
<1>8. \A t \in Slots \ {s} : Holding(req[t]) => req[t].ride # r /\ req[t].ride \in RideIds
  BY <1>1 DEF UpdateInv, Inv, LocalOK, Holding, UpdatesRide
<1>9. AnnouncedStatusCommitted'
  <2>1. \A x \in RideIds : x = r => HoldsRide(s, x)'
    BY <1>1, <1>5, <1>6 DEF HoldsRide, Holding
  <2>2. \A t \in Slots, x \in RideIds \ {r} : HoldsRide(t, x) => HoldsRide(t, x)'
    BY <1>1, <1>5 DEF HoldsRide
  <2>3. ASSUME NEW x \in RideIds, \A t \in Slots : ~HoldsRide(t, x)'
        PROVE  \/ announced'[x].status = rideStatus[x]
               \/ announced'[x] = Silence /\ rideStatus[x] = "requested"
    <3>1. x # r /\ \A t \in Slots : ~HoldsRide(t, x)
      BY <2>1, <2>2, <2>3 DEF HoldsRide
    <3> QED  BY <1>5, <3>1 DEF UpdateInv, AnnouncedStatusCommitted
  <2> QED  BY <1>2, <2>3 DEF AnnouncedStatusCommitted
<1>10. \A t \in Slots : Holding(req'[t]) => Holding(req[t]) /\ req'[t].ride = req[t].ride
  BY <1>1, <1>5
<1>11. \A t \in Slots : Holding(req'[t]) /\ "broadcast" \notin req'[t].todo
          => announced'[req'[t].ride].status = Assigned(req'[t]).status
  BY <1>1, <1>5, <1>7, <1>8 DEF UpdateInv
<1> QED
  BY <1>2, <1>4, <1>5, <1>9, <1>10, <1>11 DEF UpdateInv, Holding, Assigned, UpdatesRide

\* The ride gets the status its holder has broadcast, and is held no more.
LEMMA CommitUpdate ==
  ASSUME Inv, Inv', AllOrderly, UpdateInv, NEW s \in Slots, Commit(s)
  PROVE  UpdateInv'
<1> DEFINE q == Done(s, "commit")
           r == req[s].ride
<1>0. /\ req \in [Slots -> Request]
      /\ req[s] \in Request /\ LocalOK(req[s]) /\ LinkOK(req[s]) /\ Orderly(req[s])
  BY DEF Inv, TypeOK, AllOrderly
<1>1. req' = [req EXCEPT ![s] = q] /\ announced' = announced
  BY DEF Commit
<1>2. "commit" \in req[s].todo /\ "lockRide" \notin req[s].todo /\ "broadcast" \notin req[s].todo
  BY DEF Commit, Due, Rank
<1>3. ~Holding(q)
  <2>1. CASE q = Idle
    BY <2>1 DEF Holding, Idle
  <2>2. CASE q # Idle
    BY <1>0, <2>2, AfterCommit DEF Holding, UpdatesRide, RideCalls, Request
  <2> QED  BY <2>1, <2>2
<1>4. /\ req'[s] = q
      /\ \A t \in Slots \ {s} : req'[t] = req[t]
  BY <1>0, <1>1
<1>5. \A x \in RideIds : /\ x # r => rideStatus'[x] = rideStatus[x]
                         /\ x = r => rideStatus'[x] = RideTarget[req[s].call]
  BY CommittedRows
<1>6. \A t \in Slots \ {s}, x \in RideIds : HoldsRide(t, x)' <=> HoldsRide(t, x)
  BY <1>4 DEF HoldsRide
<1>7. ASSUME NEW x \in RideIds, \A t \in Slots : ~HoldsRide(t, x)'
      PROVE  \/ announced[x].status = rideStatus'[x]
             \/ announced[x] = Silence /\ rideStatus'[x] = "requested"
  <2>1. CASE x # r
    <3>1. ~HoldsRide(s, x)
      BY <2>1 DEF HoldsRide
    <3> QED  BY <1>5, <1>6, <1>7, <2>1, <3>1 DEF UpdateInv, AnnouncedStatusCommitted
  <2>2. CASE x = r /\ req[s].call = "request"
    BY <1>0, <1>2, <1>5, <2>2 DEF LinkOK, UpdateInv, RideTarget
  <2>3. CASE x = r /\ req[s].call # "request"
    <3>1. req[s].call \in RideCalls
      BY <1>0, <2>3 DEF LocalOK
    <3>2. Holding(req[s])
      BY <1>2, <3>1 DEF Holding, UpdatesRide
    <3> QED  BY <1>2, <1>5, <2>3, <3>2 DEF UpdateInv, Assigned
  <2> QED  BY <2>1, <2>2, <2>3
<1>8. AnnouncedStatusCommitted'
  BY <1>1, <1>7 DEF AnnouncedStatusCommitted
<1>9. \A x \in RideIds : rideStatus'[x] = "absent" => announced[x] = Silence
  <2>1. r \in RideIds => RideTarget[req[s].call] # "absent"
    BY <1>0 DEF LocalOK, RideTarget, RideCalls
  <2> QED  BY <1>5, <2>1 DEF UpdateInv
<1>10. \A t \in Slots : Holding(req'[t]) => t # s /\ Holding(req[t]) /\ req'[t] = req[t]
  BY <1>3, <1>4
<1> QED
  BY <1>1, <1>8, <1>9, <1>10 DEF UpdateInv, Holding, Assigned, UpdatesRide

LEMMA UpdateStep ==
  ASSUME Inv, Inv', AllOrderly, UpdateInv, Faults = FALSE, [Next]_vars
  PROVE  UpdateInv'
<1>1. CASE UNCHANGED vars
  BY <1>1 DEF vars, rowVars, UpdateInv, AnnouncedStatusCommitted, HoldsRide, Holding, Assigned,
              UpdatesRide, UpdatesDriver
<1>2. ASSUME NEW s \in Slots, NEW step \in {"lockDriver", "publish", "leave", "enter"},
             Due(s, step), req' = [req EXCEPT ![s] = Done(s, step)],
             UNCHANGED <<rowVars, announced>>
      PROVE  UpdateInv'
  BY <1>2, OtherUpdate DEF Steps, rowVars
<1> QED
  BY <1>1, <1>2, StepForm, BeginsUpdate, LockUpdate, BroadcastUpdate, CommitUpdate
     DEF Passes, LeaveZone, EnterZone, Proceed, Abort

\* As long as no commit fails, a room was last told the status its ride has,
\* whatever requests overlap: the flush takes the row lock before the broadcast
\* and the commit gives it back (_broadcast).
THEOREM BroadcastIsCommitted ==
  ASSUME Faults = FALSE
  PROVE  Spec => []AnnouncedStatusCommitted
<1>1. Init => AllOrderly /\ UpdateInv
  BY IdleBegins DEF Init, LifecycleInit, AllOrderly, UpdateInv, AnnouncedStatusCommitted, Holding,
                    Idle, UpdatesRide, RideCalls, Silence
<1>2. Inv /\ AllOrderly /\ UpdateInv /\ [Next]_vars => AllOrderly' /\ UpdateInv'
  BY NextInv, OrderlyStep, UpdateStep
<1>3. UpdateInv => AnnouncedStatusCommitted
  BY DEF UpdateInv
<1> QED  BY <1>1, <1>2, <1>3, Invariance, PTL DEF Spec

-----------------------------------------------------------------------------
(* The zone sets, one request at a time. *)

Available(d, z) == driverStatus[d] = "online" /\ driverZone[d] = z

\* Whether driver d is in the set of zone z: the request takes its own driver
\* out and puts it in before it commits the change of its row.
Member(q, d, z) ==
    IF d = q.driver /\ "commit" \in q.todo
    THEN \/ Available(d, z) /\ ("leave" \in q.todo \/ Leaves(q) # z)
         \/ "enter" \notin q.todo /\ Enters(q) = z
    ELSE Available(d, z)

IndexInv ==
    \A s \in Slots :
        /\ ReadZone(req[s])
        /\ \A d \in Drivers, z \in Zones : d \in zoneIndex[z] <=> Member(req[s], d, z)

\* A step that leaves the rows alone, after which the request is q.
LEMMA IndexSlot ==
  ASSUME NEW s, Slots = {s}, Inv, NEW q, req' = [req EXCEPT ![s] = q], UNCHANGED rowVars,
         ReadZone(q),
         \A d \in Drivers, z \in Zones : d \in zoneIndex'[z] <=> Member(q, d, z)
  PROVE  IndexInv'
<1>1. req'[s] = q
  BY DEF Inv, TypeOK
<1> QED
  BY <1>1 DEF IndexInv, ReadZone, Member, Available, Leaves, Enters, Releases, WritesZone, rowVars

LEMMA BeginsIndex ==
  ASSUME NEW s, Slots = {s}, Inv, IndexInv, NEW q, Begins(s, q)
  PROVE  IndexInv'
<1>1. "commit" \notin req[s].todo /\ Fresh(q) /\ ReadZone(q) /\ zoneIndex' = zoneIndex
  BY DEF Begins
<1>2. ASSUME NEW d \in Drivers, NEW z \in Zones PROVE Member(q, d, z) <=> Available(d, z)
  BY <1>1, ServiceAssumption DEF Member, Fresh
<1>3. \A d \in Drivers, z \in Zones : d \in zoneIndex[z] <=> Available(d, z)
  BY <1>1 DEF IndexInv, Member
<1> QED  BY <1>1, <1>2, <1>3, IndexSlot DEF Begins

\* The request without a step that is not its commit, of which there is still one.
LEMMA Shortened ==
  ASSUME Inv, NEW s \in Slots, NEW step \in Steps \ {"commit"}, "commit" \in req[s].todo
  PROVE  LET p == Done(s, step)  q == req[s] IN
         /\ p.todo = q.todo \ {step}
         /\ p.driver = q.driver /\ p.driverZone = q.driverZone
         /\ Leaves(p) = Leaves(q) /\ Enters(p) = Enters(q)
<1>1. req[s] \in Request
  BY DEF Inv, TypeOK
<1>2. Done(s, step) = [req[s] EXCEPT !.todo = @ \ {step}]
  BY DEF Done
<1> QED  BY <1>1, <1>2 DEF Request, Leaves, Enters, Releases, WritesZone

LEMMA PassesIndex ==
  ASSUME NEW s, Slots = {s}, Inv, IndexInv,
         NEW step \in {"lockDriver", "lockRide", "publish"}, Passes(s, step)
  PROVE  IndexInv'
<1> DEFINE p == Done(s, step)
<1>1. req[s] \in Request /\ ReadZone(req[s])
  BY DEF Inv, TypeOK, IndexInv
<1>2. CASE "commit" \in req[s].todo
  <2>1. /\ p.todo = req[s].todo \ {step}
        /\ p.driver = req[s].driver /\ p.driverZone = req[s].driverZone
        /\ Leaves(p) = Leaves(req[s]) /\ Enters(p) = Enters(req[s])
    BY <1>2, Shortened DEF Steps
  <2>2. \A d \in Drivers, z \in Zones : Member(p, d, z) <=> Member(req[s], d, z)
    BY <2>1 DEF Member
  <2>3. ReadZone(p)
    BY <1>1, <2>1 DEF ReadZone
  <2> HIDE DEF p
  <2> QED  BY <2>2, <2>3, IndexSlot DEF Passes, IndexInv, p
<1>3. CASE "commit" \notin req[s].todo
  <2>1. "commit" \notin p.todo
    BY <1>1, <1>3 DEF Done, Idle, Request
  <2>2. \A d \in Drivers, z \in Zones : Member(p, d, z) <=> Member(req[s], d, z)
    BY <1>3, <2>1 DEF Member
  <2>3. ReadZone(p)
    BY <1>1, IdleBegins DEF ReadZone, Done, Request
  <2> HIDE DEF p
  <2> QED  BY <2>2, <2>3, IndexSlot DEF Passes, IndexInv, p
<1> QED  BY <1>2, <1>3

\* The request takes its driver out of the set, puts it into the set.
LEMMA MoveIndex ==
  ASSUME NEW s, Slots = {s}, Faults = FALSE, Inv, AllOrderly, IndexInv,
         LeaveZone(s) \/ EnterZone(s)
  PROVE  IndexInv'
<1> DEFINE q == req[s]
<1>1. /\ zoneIndex \in [Zones -> SUBSET Drivers]
      /\ q \in Request /\ LocalOK(q) /\ Orderly(q) /\ ReadZone(q)
      /\ \A d \in Drivers, z \in Zones : d \in zoneIndex[z] <=> Member(q, d, z)
  BY DEF Inv, TypeOK, AllOrderly, IndexInv
<1>2. "commit" \in q.todo
  BY <1>1 DEF LeaveZone, EnterZone, Due, Orderly
<1>3. ASSUME NEW step \in {"leave", "enter"}, Proceed(s, Done(s, step)),
             \A d \in Drivers, z \in Zones : d \in zoneIndex'[z] <=> Member(Done(s, step), d, z)
      PROVE  IndexInv'
  <2>1. ReadZone(Done(s, step))
    BY <1>1, <1>2, Shortened DEF ReadZone, Steps
  <2> QED  BY <1>3, <2>1, IndexSlot DEF Proceed
<1>4. CASE LeaveZone(s)
  <2> DEFINE p == Done(s, "leave")
  <2>1. /\ p.todo = q.todo \ {"leave"} /\ p.driver = q.driver
        /\ Leaves(p) = Leaves(q) /\ Enters(p) = Enters(q)
    BY <1>2, Shortened DEF Steps
  <2>2. "leave" \in q.todo /\ (Enters(q) # None => "enter" \in q.todo)
    BY <1>1, <1>4 DEF LeaveZone, Due, Orderly
  <2>3. zoneIndex' = [zoneIndex EXCEPT ![Leaves(q)] = @ \ {q.driver}]
    BY <1>4 DEF LeaveZone
  <2>4. ASSUME NEW d \in Drivers, NEW z \in Zones
        PROVE  d \in zoneIndex'[z] <=> Member(p, d, z)
    <3>1. d \in zoneIndex'[z] <=> d \in zoneIndex[z] /\ ~(z = Leaves(q) /\ d = q.driver)
      BY <1>1, <2>3
    <3>2. Enters(q) = z => "enter" \in q.todo
      BY <2>2, ServiceAssumption
    <3>3. d = q.driver => (Member(q, d, z) <=> Available(d, z))
      BY <1>2, <2>2, <3>2 DEF Member
    <3>4. d = q.driver => (Member(p, d, z) <=> Available(d, z) /\ Leaves(q) # z)
      BY <1>2, <2>1, <3>2 DEF Member
    <3>5. d # q.driver => (Member(p, d, z) <=> Member(q, d, z))
      BY <2>1 DEF Member
    <3> QED  BY <1>1, <3>1, <3>3, <3>4, <3>5
  <2> HIDE DEF p
  <2> QED  BY <1>3, <1>4, <2>4 DEF LeaveZone, p
<1>5. CASE EnterZone(s)
  <2> DEFINE p == Done(s, "enter")
  <2>1. /\ p.todo = q.todo \ {"enter"} /\ p.driver = q.driver
        /\ Leaves(p) = Leaves(q) /\ Enters(p) = Enters(q)
    BY <1>2, Shortened DEF Steps
  <2>2. "enter" \in q.todo /\ "leave" \notin q.todo
    BY <1>5 DEF EnterZone, Due, Rank
  <2>3. zoneIndex' = [zoneIndex EXCEPT ![Enters(q)] = @ \cup {q.driver}]
    BY <1>5 DEF EnterZone
  <2>4. ASSUME NEW d \in Drivers, NEW z \in Zones
        PROVE  d \in zoneIndex'[z] <=> Member(p, d, z)
    <3>1. d \in zoneIndex'[z] <=> d \in zoneIndex[z] \/ (z = Enters(q) /\ d = q.driver)
      BY <1>1, <2>3
    <3>2. d = q.driver => (Member(q, d, z) <=> Available(d, z) /\ Leaves(q) # z)
      BY <1>2, <2>2 DEF Member
    <3>3. d = q.driver =>
             (Member(p, d, z) <=> (Available(d, z) /\ Leaves(q) # z) \/ Enters(q) = z)
      BY <1>2, <2>1, <2>2 DEF Member
    <3>4. d # q.driver => (Member(p, d, z) <=> Member(q, d, z))
      BY <2>1 DEF Member
    <3> QED  BY <1>1, <3>1, <3>2, <3>3, <3>4
  <2> HIDE DEF p
  <2> QED  BY <1>3, <1>5, <2>4 DEF EnterZone, p
<1> QED  BY <1>4, <1>5

\* The row of the driver follows the sets.
LEMMA CommitIndex ==
  ASSUME NEW s, Slots = {s}, Inv, Current, IndexInv, Commit(s)
  PROVE  IndexInv'
<1> USE LifecycleAssumption, ServiceAssumption
<1> DEFINE q == req[s]
           p == Done(s, "commit")
<1>1. /\ q \in Request /\ LocalOK(q) /\ ReadZone(q) /\ ReadsAreCurrent(q)
      /\ \A d \in Drivers, z \in Zones : d \in zoneIndex[z] <=> Member(q, d, z)
  BY DEF Inv, TypeOK, Current, IndexInv
<1>2. "commit" \in q.todo /\ "leave" \notin q.todo /\ "enter" \notin q.todo
  BY DEF Commit, Due, Rank
<1>3. /\ p = Idle \/ (q.call = "request" /\ p = [q EXCEPT !.todo = @ \ {"commit"}])
      /\ req'[s] = p /\ zoneIndex' = zoneIndex
  BY AfterCommit DEF Commit, Inv, TypeOK
<1>4. p.driver = None /\ "commit" \notin p.todo
  <2>1. CASE p = Idle
    BY <2>1 DEF Idle
  <2>2. CASE p # Idle
    BY <1>1, <1>3, <2>2 DEF LocalOK, Request
  <2> QED  BY <2>1, <2>2
<1>5. ASSUME NEW d \in Drivers
      PROVE  /\ driverStatus'[d] = IF d = q.driver /\ WritesDriverStatus(q)
                                   THEN DriverTarget[q.call] ELSE driverStatus[d]
             /\ driverZone'[d] = IF d = q.driver /\ WritesZone(q) THEN q.zone ELSE driverZone[d]
  BY DEF Commit
<1>6. ASSUME NEW d \in Drivers, NEW z \in Zones
      PROVE  d \in zoneIndex[z] <=> driverStatus'[d] = "online" /\ driverZone'[d] = z
  <2>1. CASE d # q.driver
    BY <1>1, <1>5, <2>1 DEF Member, Available
  <2>2. CASE d = q.driver
    <3>1. /\ driverStatus[d] = q.driverStatus /\ driverZone[d] = q.driverZone
          /\ d # None /\ z # None
      BY <1>1, <2>2 DEF ReadsAreCurrent, ReadZone
    <3>2. d \in zoneIndex[z] <=>
             (q.driverStatus = "online" /\ q.driverZone = z /\ Leaves(q) # z) \/ Enters(q) = z
      BY <1>1, <1>2, <2>2, <3>1 DEF Member, Available
    <3>3. CASE q.call \in {"match", "offline"}
      BY <1>1, <1>2, <1>5, <2>2, <3>1, <3>2, <3>3
         DEF Leaves, Enters, Releases, WritesDriverStatus, SetsDriverStatus, WritesZone,
             DriverTarget
    <3>4. CASE q.call \in {"online", "complete"}
      BY <1>1, <1>2, <1>5, <2>2, <3>1, <3>2, <3>4
         DEF Leaves, Enters, Releases, WritesDriverStatus, SetsDriverStatus, WritesZone,
             DriverTarget
    <3>5. CASE q.call = "cancel"
      BY <1>1, <1>2, <1>5, <2>2, <3>1, <3>2, <3>5
         DEF Leaves, Enters, Releases, WritesDriverStatus, SetsDriverStatus, WritesZone,
             DriverTarget
    <3>6. CASE q.call = "locate"
      BY <1>1, <1>2, <1>5, <2>2, <3>1, <3>2, <3>6
         DEF Leaves, Enters, Releases, WritesDriverStatus, SetsDriverStatus, WritesZone,
             DriverTarget
    <3>7. CASE q.call \in {"none", "request", "start"}
      BY <1>1, <2>2, <3>1, <3>7 DEF LocalOK, Idle
    <3> QED
      BY <1>1, <3>3, <3>4, <3>5, <3>6, <3>7 DEF Request, AllCalls, RideCalls
  <2> QED  BY <2>1, <2>2
<1> QED  BY <1>3, <1>4, <1>6 DEF IndexInv, ReadZone, Member, Available

LEMMA IndexStep ==
  ASSUME NEW s, Slots = {s}, Faults = FALSE, Inv, Inv', AllOrderly, Current, IndexInv,
         [Next]_vars
  PROVE  IndexInv'
<1>1. CASE UNCHANGED vars
  BY <1>1 DEF vars, rowVars, IndexInv, ReadZone, Member, Available, Leaves, Enters, Releases,
              WritesZone
<1>2. CASE Broadcast(s)
  <2>1. "commit" \in req[s].todo
    BY <1>2 DEF AllOrderly, Orderly, Broadcast, Due
  <2> DEFINE p == Done(s, "broadcast")
  <2>2. /\ p.todo = req[s].todo \ {"broadcast"}
        /\ p.driver = req[s].driver /\ p.driverZone = req[s].driverZone
        /\ Leaves(p) = Leaves(req[s]) /\ Enters(p) = Enters(req[s])
    BY <2>1, Shortened DEF Steps
  <2>3. /\ ReadZone(p)
        /\ \A d \in Drivers, z \in Zones : Member(p, d, z) <=> Member(req[s], d, z)
    BY <2>2 DEF IndexInv, ReadZone, Member
  <2> HIDE DEF p
  <2> QED  BY <1>2, <2>3, IndexSlot DEF Broadcast, Proceed, IndexInv, p
<1> QED
  BY <1>1, <1>2, StepForm, BeginsIndex, PassesIndex, MoveIndex, CommitIndex DEF Abort

\* One request at a time and without failures, the set of a zone in Redis holds
\* the drivers the rows say are online in it, whenever no request is under way,
\* through matches, trips, cancellations and moves between zones (set_status,
\* update_location, assign_driver, complete_trip, cancel_ride).
THEOREM ZoneSetsInSync ==
  ASSUME NEW s, Slots = {s}, Faults = FALSE
  PROVE  Spec => []ZoneIndexInSync
<1>1. Init => AllOrderly /\ Current /\ IndexInv
  <2> SUFFICES ASSUME Init PROVE AllOrderly /\ Current /\ IndexInv
      OBVIOUS
  <2>1. AllOrderly
    BY IdleBegins DEF Init, AllOrderly
  <2>2. Current
    BY LifecycleAssumption DEF Init, Current, ReadsAreCurrent, Idle, UpdatesRide, RideCalls
  <2>3. IndexInv
    BY IdleBegins DEF Init, LifecycleInit, IndexInv, Member, Available, Idle
  <2> QED  BY <2>1, <2>2, <2>3
<1>2. Inv /\ AllOrderly /\ Current /\ IndexInv /\ [Next]_vars
      => AllOrderly' /\ Current' /\ IndexInv'
  BY NextInv, OrderlyStep, SoleRequestIsCurrent, IndexStep
<1>3. Inv /\ IndexInv => ZoneIndexInSync
  BY DEF Inv, TypeOK, IndexInv, ZoneIndexInSync, Member, Available, Idle
<1> QED  BY <1>1, <1>2, <1>3, Invariance, PTL DEF Spec
=============================================================================
