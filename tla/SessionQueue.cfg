CONSTANTS
    Accounts = {alice, bob, gm}
    Sessions = {s1, s2, s3, s4}
    Staff = {gm}
    NoAccount = NoAccount
    NoSession = NoSession
    Limits = {1}
    PlayerLimit = 1
    Tolerance = 0
    MaxTime = 0
    MaxPending = 2
    MaxRepeats = 1
    ExpireTicks = 2
SPECIFICATION Spec
SYMMETRY StaffSymmetry
INVARIANTS TypeOK Ownership QueueSound NoIdlePlace WithinLimit StoppedIsEmpty
PROPERTIES ImplementsAdmission
CHECK_DEADLOCK FALSE
