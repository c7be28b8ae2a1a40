CONSTANTS
    Accounts = {alice, bob}
    Sessions = {s1, s2, s3}
    Staff = {}
    NoAccount = NoAccount
    NoSession = NoSession
    Limits = {1}
    PlayerLimit = 1
    Tolerance = 1
    MaxTime = 2
    MaxPending = 1
    MaxRepeats = 0
    ExpireTicks = 2
SPECIFICATION Spec
PROPERTIES ToleranceExpires
CHECK_DEADLOCK FALSE
