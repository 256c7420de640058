SPECIFICATION Spec
CONSTANTS
    Requests = {r1, r2}
    Tokens = {t1, t2}
    Passwords = {p1, p2}
    NoArg = NoArg
    MaxFailed = 2
    FailCap = 3
    HistorySize = 1
    MaxChanges = 2
INVARIANTS
    TypeOK
    AccountIsSound
PROPERTIES
    SerialAccount
SYMMETRY AccountSymmetry
