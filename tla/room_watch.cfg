CONSTANTS
    None = None
    Pages = {rider, driver}
    Drivers = {driver}
    Sockets = {c1, c2, c3}
    Faults = TRUE
    Backlog = 0
SPECIFICATION FairMatchedSpec
INVARIANTS
    RoomTypeOK
PROPERTIES
    OnlyOvertakenSnapshotsMislead
    EveryChangeIsTold
    ReconnectHeals
CHECK_DEADLOCK FALSE
