SPECIFICATION Spec
CONSTANTS
    Certs = {c1}
    Web = {w1}
    Scheduler = {s}
    NoCert = NoCert
    Deletable = {}
    DbFaults = FALSE
    Cooldown = 0
    MaxTime = 1
    MaxJobs = 3
    MaxLives = 2
INVARIANTS
    OrphanCause
    OverlapOnlyInWindow
    ActivePairWhole
    StatusAgreesWithLog
