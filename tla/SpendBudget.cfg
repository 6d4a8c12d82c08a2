CONSTANTS
    Requests = {r1, r2}
    NumBudgets = 2
    HardLimit <- Limits
    NotifyAt <- Thresholds
    KeyScoped <- Scopes
    CounterKey <- OneCounter
    Instants = 3
    MaxCost = 1
    Faults = TRUE
    MaxSpent <- FirstPeriod
    MaxLost = 1
SPECIFICATION Spec
CONSTRAINT Bounded
VIEW MoneyView
SYMMETRY Interchangeable
INVARIANTS
    OverrunBounded
    NoAlertMissed
    CounterMatchesHistory
    HistoryNeverAhead
