SPECIFICATION Spec
CONSTANTS
    Certs = {c1}
    Web = {w1}
    Scheduler = {}
    NoCert = NoCert
    Deletable = {c1}
    DbFaults = FALSE
    Cooldown = 0
    MaxTime = 0
    MaxJobs = 1
    MaxLives = 1
PROPERTY NeverLeftRunning
