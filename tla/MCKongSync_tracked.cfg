SPECIFICATION Spec
CONSTANTS
    c1 = c1
    w1 = w1
    w2 = w2
    NoCert = NoCert
    Certs = {c1}
    Targets = {1}
    NoTarget = 0
    Callers = {w1, w2}
    Deletable = {}
    MayAbandon = FALSE
    MaxVersion = 1
    MaxJobs = 2
INVARIANTS KongIdIsTracked
