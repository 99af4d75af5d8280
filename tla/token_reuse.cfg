CONSTANTS
    None = None
    u = u
    t1 = t1
    Users = {u}
    Tokens = {t1, t2, t3}
    Slots = {s1, s2}
    Faults = FALSE
SPECIFICATION ClientSpec
INVARIANTS
    SingleUse
CHECK_DEADLOCK FALSE
