SPECIFICATION Spec
CONSTANTS
    MaxChanges = 0
    MaxKills = 0
INVARIANTS
    SshFindsItsKey
CHECK_DEADLOCK FALSE
