CONSTANTS
    w1 = w1
    w2 = w2
    s1 = s1
    t1 = t1
    t2 = t2
    t3 = t3
    Workers = {w1}
    Synch = {s1}
    Watched = {t1}
    Fired = {}
    Direct = {t3}
    Length <- MCLength
    LoopBreaker = 1
    MaxFaults = 1
    Refusable = {}
    None = None
SPECIFICATION FairSpec
INVARIANTS RolledBack
