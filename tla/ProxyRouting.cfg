CONSTANTS
    p1 = p1
    p2 = p2
    Providers = {p1, p2}
    NoRoute = NoRoute
    Configs <- TwoReloads
    Requests = {r1}
    Faults = {"5xx", "network", "open"}
SPECIFICATION FairSpec
INVARIANTS
    TypeOK
    TablesSound
    
    MixesOnlyMidReload
PROPERTIES
    EveryRequestAnswered
    HealthConverges
