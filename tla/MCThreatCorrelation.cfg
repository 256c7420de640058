SPECIFICATION Spec
CONSTANTS
    Requests = {r1, r2}
    Threats = {t1, t2}
    Nobody = Nobody
    Scores = {70, 90}
    MaxIngests = 2
INVARIANTS
    TypeOK
    DeadlockNeedsEscalation
PROPERTIES
    ThreatsAddUp
SYMMETRY ThreatSymmetry
CHECK_DEADLOCK FALSE
