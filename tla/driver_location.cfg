CONSTANTS
    None = None
    Drivers = {d1, d2}
    Online = {d1, d2}
    Reporting = {d1}
    Slots = {s1, s2}
    Points <- MCPoints
    Reported <- MCReported
    Parked <- MCParked
    CellSize = 3
    Radius = 9
    Faults = TRUE
SPECIFICATION Spec
SYMMETRY Symmetry
INVARIANTS
    LocationTypeOK
    NearbyDriverFound
    RedisFollows
PROPERTIES
    OnlyOverlapsDrift
