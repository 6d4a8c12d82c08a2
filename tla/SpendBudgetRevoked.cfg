CONSTANTS
    Requests = {r1}
    NumBudgets = 1
    HardLimit <- OneLimit
    NotifyAt <- OneThreshold
    KeyScoped <- KeyScope
    CounterKey <- KeyCounter
    Instants = 1
    MaxCost = 1
    Faults = FALSE
    MaxSpent <- OnePeriod
    MaxLost = 0
SPECIFICATION Spec
CONSTRAINT Bounded
SYMMETRY Interchangeable
INVARIANT RevokedStaysRevoked
