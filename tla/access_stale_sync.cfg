SPECIFICATION Spec
CONSTANTS
    Users = {u1}
    Servers = {s1}
    Requests = {r1}
    Workers = {w1, w2}
    Sweepers = {t1}
    NoRequest = none
    Never = never
    Decisions = {"approved", "revoked"}
    FormStatuses = {}
    Expiries = {never}
    MaxTime = 1
    MaxOverlap = 2
    MaxCrashes = 0
    MayDelete = FALSE
    Erasable = {}
INVARIANTS
    PermissionsEndWithApprovals
