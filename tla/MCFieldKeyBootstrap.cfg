SPECIFICATION BootFairSpec
CONSTANTS
    Workers = {w1, w2}
    NoWorker = NoWorker
    SeedGroups = 2
    AdminGroup = 1
    OrgGroup = 2
    MaxRestarts = 2
INVARIANTS
    BootTypeOK
    RacesAreHarmless
PROPERTIES
    EverybodyServes
CHECK_DEADLOCK FALSE
