SPECIFICATION Spec
CONSTANTS
    Certs = {c1}
    Web = {w1}
    Scheduler = {}
    NoCert = NoCert
    Deletable = {}
    DbFaults = FALSE
    Cooldown = 0
    MaxTime = 0
    MaxJobs = 1
    MaxLives = 2
INVARIANT BlockReasonIsTrue
