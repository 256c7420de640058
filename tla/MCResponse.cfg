SPECIFICATION ResponseSpec
CONSTANTS
    Requests = {r1, r2}
    Events = {e1, e2}
    Points = {p1, p2}
    Nobody = Nobody
    MaxTargets = 1
    Jobs = {j1, j2}
    Rules = {1, 2}
    NoOne = NoOne
    MaxEvaluations = 2
INVARIANTS
    ResponseTypeOK
    CountedIsRecorded
    DeadlockNeedsLockdowns
    RulesInOrder
PROPERTIES
    SiteFollows
SYMMETRY ResponseSymmetry
CHECK_DEADLOCK FALSE
