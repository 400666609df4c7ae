SPECIFICATION Spec
CONSTANTS
    c1 = c1
    w1 = w1
    w2 = w2
    NoCert = NoCert
    Certs = {c1}
    Targets = {1}
    NoTarget = 0
    Callers = {w1, w2}
    Deletable = {1, c1}
    MayAbandon = TRUE
    MaxVersion = 2
    MaxJobs = 3
SYMMETRY Symmetry
INVARIANTS TypeOK OneKongCertificate SyncedIsCurrent StatusAgreesWithSync  SyncOrphanCause
