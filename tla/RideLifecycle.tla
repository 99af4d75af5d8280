--------------------------- MODULE RideLifecycle ---------------------------
(***************************************************************************)
(* What the ride backend promises about rides and drivers, with every      *)
(* lifecycle call taking effect in one step: the ride state machine of     *)
(* ride_service.py, and the driver reservation that goes with it.          *)
(*                                                                         *)
(* RideService models the same calls as they really run, as interleaved    *)
(* database transactions, and relates its commits to the steps of this     *)
(* module.                                                                 *)
(***************************************************************************)
CONSTANTS
    Users,      \* accounts
    Drivers,    \* the users that own a driver profile, named by that profile
    RideIds,    \* primary keys available to rides
    None        \* a NULL column

ASSUME LifecycleAssumption == Drivers \subseteq Users /\ None \notin Users

VARIABLES
    rider,          \* rides.rider_id
    rideDriver,     \* rides.driver_id
    rideStatus,     \* rides.status, "absent" while the row does not exist
    driverStatus    \* drivers.status

lifecycleVars == <<rider, rideDriver, rideStatus, driverStatus>>

RideStatus   == {"requested", "matched", "on_trip", "completed", "cancelled"}
DriverStatus == {"offline", "online", "on_trip"}

\* The statuses in which a ride occupies its rider and its driver.
Active == {"matched", "on_trip"}

\* _ALLOWED_TRANSITIONS
AllowedTransitions ==
    [absent    |-> {},
     requested |-> {"matched", "cancelled"},
     matched   |-> {"on_trip", "cancelled"},
     on_trip   |-> {"completed"},
     completed |-> {},
     cancelled |-> {}]

MayMove(from, to) == to \in AllowedTransitions[from]

HasActiveRide(u) == \E r \in RideIds : rider[r] = u /\ rideStatus[r] \in Active

-----------------------------------------------------------------------------
LifecycleInit ==
    /\ rider = [r \in RideIds |-> None]
    /\ rideDriver = [r \in RideIds |-> None]
    /\ rideStatus = [r \in RideIds |-> "absent"]
    /\ driverStatus = [d \in Drivers |-> "offline"]

\* A rider opens a ride while none of theirs is under way.
Create(r, u) ==
    /\ rideStatus[r] = "absent"
    /\ ~HasActiveRide(u)
    /\ rider' = [rider EXCEPT ![r] = u]
    /\ rideStatus' = [rideStatus EXCEPT ![r] = "requested"]
    /\ UNCHANGED <<rideDriver, driverStatus>>

\* The ride is given to an available driver, who is thereby reserved.
Match(r, d) ==
    /\ MayMove(rideStatus[r], "matched")
    /\ driverStatus[d] = "online"
    /\ rideStatus' = [rideStatus EXCEPT ![r] = "matched"]
    /\ rideDriver' = [rideDriver EXCEPT ![r] = d]
    /\ driverStatus' = [driverStatus EXCEPT ![d] = "on_trip"]
    /\ UNCHANGED rider

Start(r) ==
    /\ MayMove(rideStatus[r], "on_trip")
    /\ rideStatus' = [rideStatus EXCEPT ![r] = "on_trip"]
    /\ UNCHANGED <<rider, rideDriver, driverStatus>>

\* The trip ends and its driver is available again.
Complete(r) ==
    /\ MayMove(rideStatus[r], "completed")
    /\ rideStatus' = [rideStatus EXCEPT ![r] = "completed"]
    /\ driverStatus' = [driverStatus EXCEPT ![rideDriver[r]] = "online"]
    /\ UNCHANGED <<rider, rideDriver>>

\* The ride is called off; the driver it reserved, if any, is released.
Cancel(r) ==
    /\ MayMove(rideStatus[r], "cancelled")
    /\ rideStatus' = [rideStatus EXCEPT ![r] = "cancelled"]
    /\ driverStatus' = [d \in Drivers |->
                          IF d = rideDriver[r] /\ driverStatus[d] = "on_trip"
                          THEN "online" ELSE driverStatus[d]]
    /\ UNCHANGED <<rider, rideDriver>>

\* A driver who is not on a trip comes online or goes offline.
SetAvailability(d, status) ==
    /\ driverStatus[d] # "on_trip"
    /\ status \in {"online", "offline"}
    /\ driverStatus' = [driverStatus EXCEPT ![d] = status]
    /\ UNCHANGED <<rider, rideDriver, rideStatus>>

LifecycleNext ==
    \/ \E r \in RideIds, u \in Users : Create(r, u)
    \/ \E r \in RideIds, d \in Drivers : Match(r, d)
    \/ \E r \in RideIds : Start(r) \/ Complete(r) \/ Cancel(r)
    \/ \E d \in Drivers, status \in {"online", "offline"} : SetAvailability(d, status)

LifecycleSpec == LifecycleInit /\ [][LifecycleNext]_lifecycleVars

-----------------------------------------------------------------------------
\* The columns hold values of their types (models/ride.py, models/driver.py).
LifecycleTypeOK ==
    /\ rider \in [RideIds -> Users \cup {None}]
    /\ rideDriver \in [RideIds -> Drivers \cup {None}]
    /\ rideStatus \in [RideIds -> RideStatus \cup {"absent"}]
    /\ driverStatus \in [Drivers -> DriverStatus]

\* A ride that is matched, under way or completed names the driver who serves
\* or served it: start_trip and complete_trip rely on driver_id being there.
RideHasDriver ==
    \A r \in RideIds : rideStatus[r] \in Active \cup {"completed"} => rideDriver[r] \in Drivers

\* A reserved driver serves one ride: assign_driver takes only online drivers
\* and sets them on_trip, so no two active rides name the same driver.
DriverServesOneRide ==
    \A r1, r2 \in RideIds :
        /\ rideStatus[r1] \in Active
        /\ rideStatus[r2] \in Active
        /\ rideDriver[r1] = rideDriver[r2]
        => r1 = r2

\* "The driver's own status is kept in sync" (ride_service.py): a driver is
\* on_trip exactly while an active ride names them, so no driver is left
\* reserved with no ride that could ever free them, and none is available
\* for a second ride while serving a first.
DriverStatusFollowsRides ==
    \A d \in Drivers :
        driverStatus[d] = "on_trip" <=>
            \E r \in RideIds : rideStatus[r] \in Active /\ rideDriver[r] = d

DriverRideSync == RideHasDriver /\ DriverServesOneRide /\ DriverStatusFollowsRides

\* A ride names no driver before it is matched, so cancelling it then frees
\* nobody.  The strengthening that makes DriverRideSync inductive.
UnmatchedHasNoDriver ==
    \A r \in RideIds : rideStatus[r] \in {"absent", "requested"} => rideDriver[r] = None
=============================================================================
