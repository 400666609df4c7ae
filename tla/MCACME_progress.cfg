SPECIFICATION FairSpec
CONSTANTS
    Certs = {c1}
    Web = {w1}
    Scheduler = {s}
    NoCert = NoCert
    Deletable = {c1}
    DbFaults = FALSE
    Cooldown = 0
    MaxTime = 1
    MaxJobs = 2
    MaxLives = 2
PROPERTIES
    OperationsReturn
    JobsFinish
    ShutdownEnds
