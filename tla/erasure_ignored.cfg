SPECIFICATION Spec
CONSTANTS
    Users = {u1}
    Names = {n1}
    AdminName = n1
    None = none
    Workers = {w1}
    MaxRequests = 1
    MaxCalls = 3
    MaxCrashes = 0
INVARIANTS
    ReviewsTakeEffect
CHECK_DEADLOCK FALSE
