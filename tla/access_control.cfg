SPECIFICATION ACSpec
CONSTANTS
    Users = {u1}
    Servers = {s1, s2}
    Requests = {r1}
    Workers = {w1}
    Sweepers = {t1}
    NoRequest = none
    Never = never
    Decisions = {"revoked"}
    FormStatuses = {"approved"}
    Expiries = {1}
    MaxTime = 1
    MaxOverlap = 2
    MaxCrashes = 1
    MayDelete = TRUE
    Erasable = {}
    Agent = s1
    Version = v1
    None = none
    LockOnRevoke = TRUE
PROPERTIES
    ExpirySwept
    EndToEnd
