CONSTANTS
    Accounts = {alice, bob, carol}
    Sessions = {s1, s2, s3}
    Staff = {}
    NoAccount = NoAccount
    NoSession = NoSession
    Limits = {1, 2}
    PlayerLimit = 1
    Tolerance = 1
    MaxTime = 0
    MaxPending = 1
    MaxRepeats = 0
    ExpireTicks = 1
SPECIFICATION Spec
SYMMETRY FullSymmetry
PROPERTIES AdmitsWithinLimit
CHECK_DEADLOCK FALSE
