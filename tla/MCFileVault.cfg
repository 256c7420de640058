SPECIFICATION Spec
CONSTANTS
    Files = {f1}
    Requests = {r1, r2}
    NoRequest = NoRequest
INVARIANTS
    TypeOK
    BlobAndKeyAgree
    DamagedNeverServed
PROPERTIES
    KeysNeverReturn
SYMMETRY VaultSymmetry
CHECK_DEADLOCK FALSE
