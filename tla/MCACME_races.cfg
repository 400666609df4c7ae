SPECIFICATION Spec
CONSTANTS
    Certs = {c1}
    Web = {w1, w2}
    Scheduler = {}
    NoCert = NoCert
    Deletable = {c1}
    DbFaults = FALSE
    Cooldown = 1
    MaxTime = 2
    MaxJobs = 3
    MaxLives = 1
SYMMETRY Symmetry
INVARIANTS
    TypeOK
    JobOwnership
    OrphanCause
    CooldownSpacing
    ActivePairWhole
    StatusAgreesWithLog
    RenewKeepsKey
PROPERTY ImplementsJobLog
