SPECIFICATION MCSpec
CONSTANTS
    Targets = {t1, t2}
    Names = {n1, n2}
    Users = {u1, u2}
    NoTarget = NoTarget
    MayBreak = TRUE
    MaxEdits = 3
    MaxTests = 2
    Certs = {c1}
    Editors = {e1, e2, e3}
    NoCert = NoCert
    MaxLists = 2
    Clients = {a1, a2, a3}
    MaxKeys = 3
SYMMETRY MCSymmetry
INVARIANTS
    RecordsTypeOK
    EditKept
    StatusIsLastTest
    TestOrphanCause
    DomainsAreIssued
    AccountWhole
CHECK_DEADLOCK FALSE
