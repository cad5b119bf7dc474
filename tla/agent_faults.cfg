SPECIFICATION FairSpec
CONSTANTS
    Users = {u1, u2}
    Versions = {v1, v2}
    None = none
    LockOnRevoke = TRUE
    TornWrites = TRUE
    MaxChanges = 3
    MaxFailures = 2
    MaxCrashes = 1
INVARIANTS
    TypeOK
    RecordedAccountsExist
    EnabledAccountsTracked
PROPERTIES
    GrantedGetsAccount
    CleanRevocation
