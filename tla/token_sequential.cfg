CONSTANTS
    None = None
    Users = {u, v}
    Tokens = {t1, t2, t3, t4}
    Slots = {s1}
    Faults = TRUE
SPECIFICATION TokenSpec
INVARIANTS
    SingleUse
PROPERTIES
    SessionSpec
CHECK_DEADLOCK FALSE
