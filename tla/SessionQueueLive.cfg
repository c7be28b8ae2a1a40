CONSTANTS
    Accounts = {alice, bob}
    Sessions = {s1, s2, s3}
    Staff = {}
    NoAccount = NoAccount
    NoSession = NoSession
    Limits = {1}
    PlayerLimit = 1
    Tolerance = 0
    MaxTime = 0
    MaxPending = 1
    MaxRepeats = 1
    ExpireTicks = 2
SPECIFICATION FairSpec
PROPERTIES EventuallyInitialised EventuallyDeleted
CHECK_DEADLOCK FALSE
