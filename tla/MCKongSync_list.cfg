SPECIFICATION FairSpec
CONSTANTS
    c1 = c1
    w1 = w1
    NoCert = NoCert
    Certs = {c1}
    Targets = {1, 2}
    NoTarget = 0
    Callers = {w1}
    Deletable = {1}
    MayAbandon = FALSE
    MaxVersion = 2
    MaxJobs = 2
INVARIANTS KongOwnership SyncedIsCurrent
PROPERTIES SyncsReturn SyncKeepsJobLog
