CONSTANTS
    Keys = {k1}
    Gateways = {g1}
    Elsewhere = Elsewhere
    Requests = {r1, r2}
    Writers = {w1}
    MaxWrites = 2
    Absent = Absent
SPECIFICATION Spec
INVARIANT RevokedStopsInProcess
