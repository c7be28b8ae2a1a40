CONSTANTS
    Maps = {m1, m2, m3, m4}
    Workers = {w1, w2, w3}
    NoRequest = NoRequest
SPECIFICATION FairSpec
INVARIANTS TypeOK PendingCount Barrier OneWorkerPerMap NoNullCall
PROPERTIES ImplementsTick TickEnds ShutdownEnds
