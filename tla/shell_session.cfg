SPECIFICATION FairSpec
CONSTANTS
    MaxChanges = 2
    MaxKills = 1
INVARIANTS
    TypeOK
    ShellNeedsPermissions
    KeysAreTransient
    NoOrphanedProcess
PROPERTIES
    SessionsEnd
CHECK_DEADLOCK FALSE
