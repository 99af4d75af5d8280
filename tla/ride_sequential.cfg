CONSTANTS
    None = None
    u = u
    d1 = d1
    d2 = d2
    r1 = r1
    r2 = r2
    Users = {u, d1, d2}
    Drivers = {d1, d2}
    RideIds = {r1, r2}
    Slots = {s1}
    Zones = {z1, z2}
    Calls = {"request", "match", "start", "complete", "cancel", "online", "offline", "locate"}
    Faults = FALSE
SPECIFICATION Spec
INVARIANTS
    DriverRideSync
    ZoneIndexInSync
PROPERTIES
    LifecycleSpec
