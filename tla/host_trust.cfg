SPECIFICATION FairSpec
CONSTANTS
    Keys = {k1}
    Hosts = {h1}
    Workers = {w1, w2}
    w1 = w1
    w2 = w2
    Serves <- MCServes
    Nothing = nothing
    MaxCAs = 2
    MaxEdits = 1
    MaxFaults = 1
INVARIANTS
    TypeOK
    AuthoritiesRecorded
PROPERTIES
    UsersGetIn
    RevokedKeptOut
