SPECIFICATION FairSpec
CONSTANTS
    Requests = {r1, r2}
    Assets = {a1, a2}
    Scans = {s1}
    Ips = {i1, i2}
    None = None
INVARIANTS
    TypeOK
    DeadlockNeedsUpdate
PROPERTIES
    DiscoveryNeverDuplicates
    LinksInOrder
    RequestsEnd
CHECK_DEADLOCK FALSE
