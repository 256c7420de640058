SPECIFICATION FairSpec
CONSTANTS
    Requests = {r1, r2}
    Threats = {t1}
    Nobody = Nobody
    Scores = {90}
    MaxIngests = 1
PROPERTIES
    RequestsEnd
CHECK_DEADLOCK FALSE
