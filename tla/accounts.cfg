CONSTANTS
    None = None
    Users = {u1, u2}
    Profiles = {p1, p2}
    e1 = e1
    e2 = e2
    x = x
    y = y
    z = z
    Emails <- MCEmails
    Names <- MCNames
    Phones <- MCPhones
    NewUsers <- MCNewUsers
    Updates <- MCUpdates
    Slots = {s1, s2}
    Faults = TRUE
SPECIFICATION Spec
INVARIANTS
    AccountsTypeOK
    AnswersAreTrue
PROPERTIES
    RegistrySpec
    PatchesMerge
    EveryRequestEnds
