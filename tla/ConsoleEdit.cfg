SPECIFICATION MCSpec
CONSTANTS
    None = None
    MaxClicks = 4
    MaxFaults = 1
    KeyIds = {k1, k2}
    BudgetIds = {b1, b2}
    Tenants = {"t1", "t2"}
    Names = {n1, n2}
    MaxKeys = 2
    Slugs = {s1, s2}
    Packs = {p1, p2}
SYMMETRY Alike
INVARIANTS
    EditTypeOK ListsMatchServer  EditFlagsTrue ActsOnWhatIsSeen ShownUnderItsTitle
PROPERTIES
    OnlyTheOperatorCloses
CHECK_DEADLOCK FALSE
