SPECIFICATION CaseworkSpec
CONSTANTS
    Requests = {r1, r2, r3}
    Nobody = Nobody
    Runs = {n1, n2, n3}
    Triages = {t1}
    Scans = {s1, s2}
    Assets = {a1}
    Cves = {"heartbleed", "other"}
    Software <- MCSoftware
    Ranges <- MCRanges
    High = {"heartbleed"}
    Visits = {r1, r2, r3}
    First = First
    Clerks = {c1, c2}
    Founded <- MCFounded
    Nil = Nil
INVARIANTS
    CaseworkTypeOK
    CaseFileTold
    OneAlertEach
    SiteInOrder
    EstateHolds
SYMMETRY CaseworkSymmetry
CHECK_DEADLOCK FALSE
