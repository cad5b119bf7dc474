SPECIFICATION Spec
CONSTANTS
    Agents = {a1, a2}
    Tokens = {t1, t2}
    Servers = {s1, s2}
    Workers = {w1, w2}
    None = none
    MaxCAs = 2
    MaxFaults = 1
    Nameless = a2
    a2 = a2
    Host <- MCHost
INVARIANTS
    TypeOK
    TokenSingleUse
    TokensSpentOnServers
    CredentialsMatch
SYMMETRY Symmetry
