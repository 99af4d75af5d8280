CONSTANTS
    None = None
    u = u
    d1 = d1
    d2 = d2
    r1 = r1
    r2 = r2
    Users = {u, d1}
    Drivers = {d1}
    RideIds = {r1, r2}
    Slots = {s1, s2}
    Zones = {z1}
    Calls = {"request", "match", "start", "complete", "cancel"}
    Faults = FALSE
SPECIFICATION ReadySpec
SYMMETRY Symmetry
INVARIANTS
    DriverServesOneRide
CHECK_DEADLOCK FALSE
