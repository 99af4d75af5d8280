CONSTANTS
    None = None
    u = u
    t1 = t1
    Users = {u}
    Tokens = {t1, t2, t3}
    Slots = {s1, s2}
    Faults = TRUE
SPECIFICATION FairSignedInSpec
INVARIANTS
    ClientTypeOK
    PredecessorsRevoked
PROPERTIES
    OnlyOverlapsReuse
    SignedOutForCause
    EveryCallEnds
CHECK_DEADLOCK FALSE
