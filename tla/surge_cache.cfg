CONSTANTS
    None = None
    Default = Default
    Rates = {a, b}
    Slots = {s1, s2}
    TTL = 2
    Delay = 1
SPECIFICATION FairSpec
INVARIANTS
    SurgeTypeOK
    FallbackNotCached
    ServesWithClient
PROPERTIES
    QuotesAreRecent
    StartsDespiteFailures
    EveryLookupEnds
