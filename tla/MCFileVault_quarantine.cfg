SPECIFICATION Spec
CONSTANTS
    Files = {f1}
    Requests = {r1, r2}
    NoRequest = NoRequest
PROPERTIES
    ViolationQuarantines
CHECK_DEADLOCK FALSE
