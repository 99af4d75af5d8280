--------------------------- MODULE MCRideService ---------------------------
(***************************************************************************)
(* Instances of RideService for TLC.                                       *)
(***************************************************************************)
EXTENDS RideService, TLC

CONSTANTS u, d1, d2, r1, r2

\* Which requests run, which rides and which drivers they concern, and in
\* which zone, makes no difference to the safety properties.
Symmetry == Permutations(Slots) \cup Permutations(RideIds)

\* The state in which every driver has reported a position in one zone and
\* come online, and no ride has been requested: reached from Init by one
\* update_location and one set_status(online) per driver.
Ready(z) ==
    /\ rider = [r \in RideIds |-> None]
    /\ rideDriver = [r \in RideIds |-> None]
    /\ rideStatus = [r \in RideIds |-> "absent"]
    /\ driverStatus = [d \in Drivers |-> "online"]
    /\ driverZone = [d \in Drivers |-> z]
    /\ zoneIndex = [zz \in Zones |-> IF zz = z THEN Drivers ELSE {}]
    /\ announced = [r \in RideIds |-> Silence]
    /\ published = {}
    /\ req = [s \in Slots |-> Idle]

ReadyInit == \E z \in Zones : Ready(z)
ReadySpec == ReadyInit /\ [][Next]_vars
FairReadySpec == ReadySpec /\ \A s \in Slots : SF_vars(Step(s))
=============================================================================
