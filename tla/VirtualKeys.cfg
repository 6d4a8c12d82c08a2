CONSTANTS
    Keys = {k1}
    Gateways = {g1}
    Elsewhere = Elsewhere
    Requests = {r1}
    Writers = {w1, w2}
    MaxWrites = 3
    Absent = Absent
SPECIFICATION FairSpec
INVARIANTS
    TypeOK
    StaleOnlyByRace
PROPERTY CacheConverges
