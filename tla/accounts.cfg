SPECIFICATION Spec
CONSTANTS
    Users = {u1, u2}
    Names = {n1, n2}
    AdminName = n1
    None = none
    Workers = {w1, w2}
    MaxRequests = 2
    MaxCalls = 4
    MaxCrashes = 1
INVARIANTS
    TypeOK
    PrivilegeNeedsPromotion
    UpdatesSettle
    RolesAreNotLost
SYMMETRY Symmetry
CHECK_DEADLOCK FALSE
