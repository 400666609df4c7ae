SPECIFICATION Spec
CONSTANTS
    Certs = {c1}
    Web = {w1, w2}
    Scheduler = {}
    NoCert = NoCert
    Deletable = {}
    DbFaults = FALSE
    Cooldown = 0
    MaxTime = 0
    MaxJobs = 2
    MaxLives = 1
INVARIANT AtMostOneRunningJob
