SPECIFICATION FairSpec
CONSTANTS
    Sessions = {s1, s2, s3}
    NoSession = NoSession
    MaxRecords = 2
    MaxSeq = 4
INVARIANTS
    TypeOK
    ChainIntact
    LossDetected
PROPERTIES
    ImplementsLog
    LockGranted
