CONSTANTS
    Calls = {c1, c2}
    MaxFailures = 3
    Cooldown = 2
    MaxRetries = 2
    Retry5xx = TRUE
    NoDeadline = NoDeadline
SPECIFICATION FairSpec
INVARIANTS
    Inv
PROPERTIES
    KeepsPromise
    ReadmitsEventually
    CallsReturn
