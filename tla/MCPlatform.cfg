SPECIFICATION PlatformSpec
CONSTANTS
    Requests = {r1, r2, r3}
    None = None
    Missing = Missing
    Reports = {r1, r2, r3}
    Devices = {x1, x2}
    Places = {x1, x2}
    Countries <- MCCountries
    Unsaid = Unsaid
    Said <- MCSaid
    Threshold = 2
    FailureWindow = 1
    TravelWindow = 1
    MaxTime = 2
    Clients = {r1, r2, r3}
    super_admin = super_admin
    analyst = analyst
    Roles = {super_admin, analyst}
    Codes <- MCCodes
    Grants <- MCGrants
    AdminCode = "system:admin"
    AccessTTL = 1
    Leeway = 1
    LastTime = 2
    Streams = {s1, s2}
    DataKeys = {k1, k2}
    ChunkSizes = {1, 2}
    MaxUnits = 4
    LastCounter = 2
    Junk = Junk
INVARIANTS
    PlatformTypeOK
    RecordsInOrder
    LoginsJudged
    AccessInOrder
    StreamsSound
PROPERTIES
    UniqueKeysAreAStore
SYMMETRY PlatformSymmetry
CHECK_DEADLOCK FALSE
