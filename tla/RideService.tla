---------------------------- MODULE RideService ----------------------------
(***************************************************************************)
(* The ride and driver endpoints of the backend, as the concurrent request *)
(* handlers they are.                                                      *)
(*                                                                         *)
(* Every request runs in a database transaction of its own (deps.get_db),  *)
(* at PostgreSQL's READ COMMITTED level.  A handler reads the committed    *)
(* rows it needs, decides on what it read, flushes its UPDATEs (which take *)
(* the row locks), talks to Redis and to the ride's WebSocket room, and    *)
(* commits when it returns.  Every await lets another handler run, so a    *)
(* request is a sequence of steps here: it begins, it carries out the      *)
(* steps that are due, in the order of Rank, and it ends.                  *)
(*                                                                         *)
(* An UPDATE holds the columns the handler changed and no others, so a     *)
(* commit overwrites those columns, whatever has been committed to the row *)
(* since the handler read it.                                              *)
(*                                                                         *)
(* Not modelled here: coordinates (a driver's position is its geohash      *)
(* zone, and any online driver may be the nearest), fares and timestamps.  *)
(***************************************************************************)
EXTENDS RideLifecycle, Naturals

CONSTANTS
    Slots,      \* requests the process can be handling at once
    Zones,      \* geohash cells
    Calls,      \* the calls clients make
    Faults      \* may commits fail and Redis calls be lost?

\* The calls that update an existing ride, and the others.
RideCalls == {"match", "start", "complete", "cancel"}
AllCalls  == RideCalls \cup {"request", "online", "offline", "locate"}

ASSUME ServiceAssumption ==
    /\ Calls \subseteq AllCalls
    /\ Faults \in BOOLEAN
    /\ None \notin RideIds \cup Zones

VARIABLES
    driverZone,     \* drivers.geohash_zone, None while no location is known
    zoneIndex,      \* Redis: drivers:zone:{geohash}
    announced,      \* the last ride_update sent to each ride's room
    published,      \* rides whose request event reached Kafka
    req             \* the local state of the request in each slot

rowVars == <<rider, rideDriver, rideStatus, driverStatus, driverZone>>
vars == <<rowVars, zoneIndex, announced, published, req>>

\* The steps a request may still have to take.
Steps == {"search", "load", "lockDriver", "lockRide", "leave", "enter",
          "broadcast", "commit", "publish"}

\* Mutants of Rank: request_ride publishes before it commits; _broadcast runs
\* before the flush.
RankPublishFirst ==
    [search |-> 1, load |-> 1, lockDriver |-> 2, lockRide |-> 3, leave |-> 4,
     enter |-> 5, broadcast |-> 6, publish |-> 7, commit |-> 8]
RankBroadcastFirst ==
    [search |-> 1, load |-> 1, broadcast |-> 2, lockDriver |-> 3, lockRide |-> 4,
     leave |-> 5, enter |-> 6, commit |-> 7, publish |-> 8]

\* The order in which every handler takes those it takes.  One flush emits
\* the UPDATE of drivers before that of rides.
Rank == [search |-> 1, load |-> 1, lockDriver |-> 2, lockRide |-> 3, leave |-> 4,
         enter |-> 5, broadcast |-> 6, commit |-> 7, publish |-> 8]

\* Local state of a request: what it is about, the rows as it read them, and
\* the steps it has still to take.  A free slot has none.
Request ==
    [call : AllCalls \cup {"none"},
     user : Users \cup {None},              \* who opens the ride
     ride : RideIds \cup {None},            \* the ride row it works on
     rideStatus : RideStatus \cup {"absent"},
     rideDriver : Drivers \cup {None},
     driver : Drivers \cup {None},          \* the driver row it loaded
     driverStatus : DriverStatus,
     driverZone : Zones \cup {None},
     zone : Zones \cup {None},              \* the zone of the position reported
     todo : SUBSET Steps]

Idle == [call |-> "none", user |-> None, ride |-> None, rideStatus |-> "absent",
         rideDriver |-> None, driver |-> None, driverStatus |-> "offline",
         driverZone |-> None, zone |-> None, todo |-> {}]

\* A message of a ride's room: the columns of the handler's own ride object.
Snapshot == [status : RideStatus \cup {"absent"}, driver : Drivers \cup {None}]
Silence  == [status |-> "absent", driver |-> None]

-----------------------------------------------------------------------------
(* What a request writes and touches, from its local state. *)

\* Mutant of RideTarget: a status that is no member of RideStatus.
RideTargetMisspelt == [request |-> "requested", match |-> "matched", start |-> "on_trip",
                       complete |-> "completed", cancel |-> "canceled"]

RideTarget == [request |-> "requested", match |-> "matched", start |-> "on_trip",
               complete |-> "completed", cancel |-> "cancelled"]

DriverTarget == [match |-> "on_trip", complete |-> "online", cancel |-> "online",
                 online |-> "online", offline |-> "offline"]

UpdatesRide(q) == q.call \in RideCalls

\* Mutant of Releases: cancel_ride frees nobody.
ReleasesOnCompletion(q) == q.call = "complete"

\* cancel_ride leaves a driver alone who is not on_trip.
Releases(q) ==
    \/ q.call = "complete"
    \/ q.call = "cancel" /\ q.driverStatus = "on_trip"

SetsDriverStatus(q) == q.call \in {"match", "online", "offline"} \/ Releases(q)

\* Assigning the value that was read leaves the column out of the UPDATE.
WritesDriverStatus(q) ==
    /\ q.driver # None
    /\ SetsDriverStatus(q)
    /\ q.driverStatus # DriverTarget[q.call]

WritesZone(q) == q.call = "locate" /\ q.zone # q.driverZone

\* set_location always assigns a new point, so it always updates the row.
UpdatesDriver(q) == q.call = "locate" \/ WritesDriverStatus(q)

\* Mutant of Leaves: update_location forgets the set of the old zone.
LeavesUnlessMoving(q) ==
    IF q.call \in {"match", "offline"} THEN q.driverZone ELSE None

\* The available-drivers set the request removes the driver from, adds it to.
Leaves(q) ==
    CASE q.call \in {"match", "offline"} -> q.driverZone
      [] q.call = "locate" /\ q.driverStatus = "online" /\ WritesZone(q) -> q.driverZone
      [] OTHER -> None

Enters(q) ==
    CASE q.call = "online" \/ (q.driver # None /\ Releases(q)) -> q.driverZone
      [] q.call = "locate" /\ q.driverStatus = "online" -> q.zone
      [] OTHER -> None

\* The steps left once everything has been read.
Plan(q) ==
    {"commit"}
    \cup {t \in {"lockDriver"} : UpdatesDriver(q)}
    \cup {t \in {"lockRide", "broadcast"} : UpdatesRide(q)}
    \cup {t \in {"leave"} : Leaves(q) # None}
    \cup {t \in {"enter"} : Enters(q) # None}
    \cup {t \in {"publish"} : q.call = "request"}

Planned(q) == [q EXCEPT !.todo = Plan(q)]

\* The ride as the handler's session holds it once its columns are assigned.
Assigned(q) == [status |-> RideTarget[q.call],
                driver |-> IF q.call = "match" THEN q.driver ELSE q.rideDriver]

WritesRideDriver(q) == UpdatesRide(q) /\ Assigned(q).driver # q.rideDriver

\* Mutant of Due: cancel_ride flushes the ride before the driver.
DueCancelRideFirst(s, step) ==
    LET order(t) == IF req[s].call = "cancel" /\ t = "lockRide" THEN 1 ELSE Rank[t]
    IN  /\ step \in req[s].todo
        /\ \A t \in req[s].todo : order(step) <= order(t)

Due(s, step) ==
    /\ step \in req[s].todo
    /\ \A t \in req[s].todo : Rank[step] <= Rank[t]

HoldsDriver(s, d) ==
    /\ req[s].driver = d
    /\ "commit" \in req[s].todo
    /\ UpdatesDriver(req[s])
    /\ "lockDriver" \notin req[s].todo

HoldsRide(s, r) ==
    /\ req[s].ride = r
    /\ "commit" \in req[s].todo
    /\ UpdatesRide(req[s])
    /\ "lockRide" \notin req[s].todo

-----------------------------------------------------------------------------
Init ==
    /\ LifecycleInit
    /\ driverZone = [d \in Drivers |-> None]
    /\ zoneIndex = [z \in Zones |-> {}]
    /\ announced = [r \in RideIds |-> Silence]
    /\ published = {}
    /\ req = [s \in Slots |-> Idle]

\* A free slot takes up a call.
Accept(s, q) ==
    /\ req[s] = Idle
    /\ q.call \in Calls
    /\ req' = [req EXCEPT ![s] = q]
    /\ UNCHANGED <<rowVars, zoneIndex, announced, published>>

\* The ride of a call, as _get_or_404 reads it.
Reading(call, r) ==
    [Idle EXCEPT !.call = call, !.ride = r,
                 !.rideStatus = rideStatus[r], !.rideDriver = rideDriver[r]]

\* The caller's driver profile, as get_my_profile reads it.
Profile(call, d) ==
    [Idle EXCEPT !.call = call, !.driver = d,
                 !.driverStatus = driverStatus[d], !.driverZone = driverZone[d]]

\* Mutant of RequestRide: no check for an active ride.
RequestRideUnchecked(s, u, r) ==
    /\ rideStatus[r] = "absent"
    /\ \A t \in Slots : req[t].ride # r
    /\ Accept(s, Planned([Idle EXCEPT !.call = "request", !.user = u, !.ride = r]))

\* request_ride: the rider has no active ride.  The surge price is awaited
\* before the ride, under a fresh key, is inserted and committed.
RequestRide(s, u, r) ==
    /\ ~HasActiveRide(u)
    /\ rideStatus[r] = "absent"
    /\ \A t \in Slots : req[t].ride # r
    /\ Accept(s, Planned([Idle EXCEPT !.call = "request", !.user = u, !.ride = r]))

\* match_ride, by the rider of the ride (its only caller; any user is one).
MatchRide(s, r) ==
    /\ rideStatus[r] = "requested"
    /\ Accept(s, [Reading("match", r) EXCEPT !.todo = {"search"}])

\* start_trip, by the driver of the ride.
StartTrip(s, r) ==
    /\ rideDriver[r] # None
    /\ MayMove(rideStatus[r], "on_trip")
    /\ Accept(s, Planned(Reading("start", r)))

\* complete_trip, by the driver of the ride; the driver row is read next.
CompleteTrip(s, r) ==
    /\ rideDriver[r] # None
    /\ MayMove(rideStatus[r], "completed")
    /\ Accept(s, [Reading("complete", r) EXCEPT !.todo = {"load"}])

\* cancel_ride, by the rider or the driver of the ride.
CancelRide(s, r) ==
    /\ MayMove(rideStatus[r], "cancelled")
    /\ Accept(s, IF rideDriver[r] = None
                 THEN Planned(Reading("cancel", r))
                 ELSE [Reading("cancel", r) EXCEPT !.todo = {"load"}])

\* set_status(online), set_status(offline), update_location
GoOnline(s, d) ==
    /\ driverStatus[d] # "on_trip"
    /\ driverZone[d] # None
    /\ Accept(s, Planned(Profile("online", d)))

\* Mutant of GoOffline: a driver may go offline in the middle of a trip.
GoOfflineAnytime(s, d) == Accept(s, Planned(Profile("offline", d)))

GoOffline(s, d) ==
    /\ driverStatus[d] # "on_trip"
    /\ Accept(s, Planned(Profile("offline", d)))

UpdateLocation(s, d, z) == Accept(s, Planned([Profile("locate", d) EXCEPT !.zone = z]))

-----------------------------------------------------------------------------
(* The steps of a request under way. *)

\* A step that changes no committed row: the request goes on as q.
Proceed(s, q) ==
    /\ req' = [req EXCEPT ![s] = q]
    /\ UNCHANGED rowVars

\* The request without the step it took; its slot is free after the last one.
Done(s, step) ==
    IF req[s].todo = {step} THEN Idle ELSE [req[s] EXCEPT !.todo = @ \ {step}]

Loaded(s, d) ==
    Planned([req[s] EXCEPT !.driver = d, !.driverStatus = driverStatus[d],
                           !.driverZone = driverZone[d]])

\* Mutant of FindDriver: the query does not ask for online drivers.
FindAnyDriver(s) ==
    /\ Due(s, "search")
    /\ \E d \in Drivers : driverZone[d] # None /\ Proceed(s, Loaded(s, d))
    /\ UNCHANGED <<zoneIndex, announced, published>>

\* find_nearest_available_driver returns an online driver with a location.
FindDriver(s) ==
    /\ Due(s, "search")
    /\ \E d \in Drivers :
          /\ driverStatus[d] = "online"
          /\ driverZone[d] # None
          /\ Proceed(s, Loaded(s, d))
    /\ UNCHANGED <<zoneIndex, announced, published>>

\* Mutant of FindNobody: the ride is assigned although no driver was found.
AssignNobody(s) ==
    /\ Due(s, "search")
    /\ Proceed(s, Planned(req[s]))
    /\ UNCHANGED <<zoneIndex, announced, published>>

\* Nobody is in reach: NoAvailableDriverError ends the request.
FindNobody(s) ==
    /\ Due(s, "search")
    /\ Proceed(s, Idle)
    /\ UNCHANGED <<zoneIndex, announced, published>>

\* The assigned driver is read after the ride.
LoadDriver(s) ==
    /\ Due(s, "load")
    /\ Proceed(s, Loaded(s, req[s].rideDriver))
    /\ UNCHANGED <<zoneIndex, announced, published>>

\* The flush: an UPDATE waits for the transaction that holds the row.
LockDriver(s) ==
    /\ Due(s, "lockDriver")
    /\ \A t \in Slots : ~HoldsDriver(t, req[s].driver)
    /\ Proceed(s, Done(s, "lockDriver"))
    /\ UNCHANGED <<zoneIndex, announced, published>>

LockRide(s) ==
    /\ Due(s, "lockRide")
    /\ \A t \in Slots : ~HoldsRide(t, req[s].ride)
    /\ Proceed(s, Done(s, "lockRide"))
    /\ UNCHANGED <<zoneIndex, announced, published>>

\* mark_unavailable and mark_available, best effort
LeaveZone(s) ==
    /\ Due(s, "leave")
    /\ Proceed(s, Done(s, "leave"))
    /\ \/ zoneIndex' = [zoneIndex EXCEPT ![Leaves(req[s])] = @ \ {req[s].driver}]
       \/ Faults /\ UNCHANGED zoneIndex
    /\ UNCHANGED <<announced, published>>

EnterZone(s) ==
    /\ Due(s, "enter")
    /\ Proceed(s, Done(s, "enter"))
    /\ \/ zoneIndex' = [zoneIndex EXCEPT ![Enters(req[s])] = @ \cup {req[s].driver}]
       \/ Faults /\ UNCHANGED zoneIndex
    /\ UNCHANGED <<announced, published>>

\* _broadcast
Broadcast(s) ==
    /\ Due(s, "broadcast")
    /\ announced' = [announced EXCEPT ![req[s].ride] = Assigned(req[s])]
    /\ Proceed(s, Done(s, "broadcast"))
    /\ UNCHANGED <<zoneIndex, published>>

\* The row inserted, or the columns changed, become visible; the locks go.
\* request_ride commits its INSERT itself, the other calls leave it to get_db.
Commit(s) ==
    /\ Due(s, "commit")
    /\ LET q == req[s] IN
       /\ rider' = [r \in RideIds |-> IF r = q.ride /\ q.call = "request"
                                      THEN q.user ELSE rider[r]]
       /\ rideStatus' = [r \in RideIds |-> IF r = q.ride
                                           THEN Assigned(q).status ELSE rideStatus[r]]
       /\ rideDriver' = [r \in RideIds |-> IF r = q.ride /\ WritesRideDriver(q)
                                           THEN Assigned(q).driver ELSE rideDriver[r]]
       /\ driverStatus' = [d \in Drivers |-> IF d = q.driver /\ WritesDriverStatus(q)
                                             THEN DriverTarget[q.call] ELSE driverStatus[d]]
       /\ driverZone' = [d \in Drivers |-> IF d = q.driver /\ WritesZone(q)
                                           THEN q.zone ELSE driverZone[d]]
    /\ req' = [req EXCEPT ![s] = Done(s, "commit")]
    /\ UNCHANGED <<zoneIndex, announced, published>>

\* publish_ride_request sends the event or, best effort, drops it.
Publish(s) ==
    /\ Due(s, "publish")
    /\ \/ published' = published \cup {req[s].ride}
       \/ UNCHANGED published
    /\ Proceed(s, Done(s, "publish"))
    /\ UNCHANGED <<zoneIndex, announced>>

\* The connection or the process fails before the commit: the transaction is
\* rolled back, what was sent to Redis and to the room is not.
Abort(s) ==
    /\ Faults
    /\ "commit" \in req[s].todo
    /\ Proceed(s, Idle)
    /\ UNCHANGED <<zoneIndex, announced, published>>

-----------------------------------------------------------------------------
Arrive(s) ==
    \/ \E r \in RideIds : \/ \E u \in Users : RequestRide(s, u, r)
                          \/ MatchRide(s, r)
                          \/ StartTrip(s, r)
                          \/ CompleteTrip(s, r)
                          \/ CancelRide(s, r)
    \/ \E d \in Drivers : \/ GoOnline(s, d)
                          \/ GoOffline(s, d)
                          \/ \E z \in Zones : UpdateLocation(s, d, z)

Step(s) ==
    \/ FindDriver(s)
    \/ FindNobody(s)
    \/ LoadDriver(s)
    \/ LockDriver(s)
    \/ LockRide(s)
    \/ LeaveZone(s)
    \/ EnterZone(s)
    \/ Broadcast(s)
    \/ Commit(s)
    \/ Publish(s)

Next == \E s \in Slots : Arrive(s) \/ Step(s) \/ Abort(s)

Spec == Init /\ [][Next]_vars

\* The event loop resumes every coroutine that can run, and PostgreSQL hands
\* a row lock to its waiters in turn, so a request that can proceed again and
\* again does.
FairSpec == Spec /\ \A s \in Slots : SF_vars(Step(s))

-----------------------------------------------------------------------------
(* Properties. *)

\* Rows, Redis sets, room messages, events and requests have their types.
TypeOK ==
    /\ LifecycleTypeOK
    /\ driverZone \in [Drivers -> Zones \cup {None}]
    /\ zoneIndex \in [Zones -> SUBSET Drivers]
    /\ announced \in [RideIds -> Snapshot]
    /\ published \subseteq RideIds
    /\ req \in [Slots -> Request]

\* The rows a request decided on are, where they matter, as it read them.
ReadsAreCurrent(q) ==
    /\ q.call = "request" => ~HasActiveRide(q.user)
    /\ UpdatesRide(q) => /\ rideStatus[q.ride] = q.rideStatus
                        /\ rideDriver[q.ride] = q.rideDriver
    /\ q.driver # None => driverStatus[q.driver] = q.driverStatus

StaleCommit(s) == Commit(s) /\ ~ReadsAreCurrent(req[s])

\* Nothing but staleness breaks the lifecycle: whatever the interleaving, the
\* failures and the state earlier races left behind, a step that changes rides
\* or drivers is a legal lifecycle step unless it is the commit of a handler
\* one of whose reads was overtaken.  So a check at the commit that what was
\* read still holds would be enough to make the concurrent service correct.
OnlyStaleCommitsDepart ==
    [][[LifecycleNext]_lifecycleVars \/ \E s \in Slots : StaleCommit(s)]_vars

\* request_ride: "we never emit a ride-request event for a ride that didn't
\* persist", with commits failing and the process stopping at any step.
PublishedRidesPersist == \A r \in published : rideStatus[r] # "absent"

\* When no handler is between its flush and its commit on a ride, the status
\* last broadcast to the room is the committed one: the row lock taken by the
\* flush puts broadcasts and commits of a ride in the same order.
AnnouncedStatusCommitted ==
    \A r \in RideIds :
        (\A s \in Slots : ~HoldsRide(s, r)) =>
            \/ announced[r].status = rideStatus[r]
            \/ announced[r] = Silence /\ rideStatus[r] = "requested"

\* driver_service.set_status: "Keep the Redis 'available drivers per zone'
\* snapshot in sync."  Between requests, a zone's set holds the online drivers
\* of the zone, through matches, trips and moves across zones.
ZoneIndexInSync ==
    (\A s \in Slots : req[s] = Idle) =>
        \A z \in Zones :
            zoneIndex[z] = {d \in Drivers : driverStatus[d] = "online" /\ driverZone[d] = z}

\* s cannot flush before t has committed or rolled back.
Waits(s, t) ==
    \/ Due(s, "lockDriver") /\ HoldsDriver(t, req[s].driver)
    \/ Due(s, "lockRide") /\ HoldsRide(t, req[s].ride)

\* However many handlers hold and want the rows of rides and drivers, they do
\* not wait for each other in a circle, of any length: PostgreSQL never has to
\* abort one to undo a deadlock.  One flush writes drivers before rides.
NoWaitCycle ==
    \A W \in (SUBSET Slots) \ {{}} : \E s \in W : \A t \in W : ~Waits(s, t)

\* Every request that has been taken up ends.
EveryRequestEnds == \A s \in Slots : req[s] # Idle ~> req[s] = Idle
=============================================================================
