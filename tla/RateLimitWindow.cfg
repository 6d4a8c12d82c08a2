CONSTANTS
    Requests = {r1, r2, r3}
    Limit = 3
    Window = 2
    MaxTime = 4
    Faults = TRUE
SPECIFICATION Spec
SYMMETRY Interchangeable
INVARIANTS TypeOK WindowBounded NothingForgottenEarly
