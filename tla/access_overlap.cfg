SPECIFICATION Spec
CONSTANTS
    Users = {u1, u2}
    Servers = {s1}
    Requests = {r1}
    Workers = {w1, w2}
    Sweepers = {t1}
    NoRequest = none
    Never = never
    Decisions = {"approved"}
    FormStatuses = {"approved"}
    Expiries = {1}
    MaxTime = 1
    MaxOverlap = 2
    MaxCrashes = 1
    MayDelete = TRUE
    Erasable = {u1}
INVARIANTS
    TypeOK
    GrantsNeedApproval
    ApprovalsAttributed
    OwnersSeeTheirRequests
    SettledAgreement
CHECK_DEADLOCK FALSE
