SPECIFICATION FairSpec
CONSTANTS
    Requests = {r1, r2}
    Events = {e1}
    Points = {p1, p2}
    Nobody = Nobody
    MaxTargets = 1
PROPERTIES
    RequestsEnd
CHECK_DEADLOCK FALSE
