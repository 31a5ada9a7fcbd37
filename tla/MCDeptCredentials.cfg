SPECIFICATION Spec
CONSTANTS
    r1 = r1
    r2 = r2
    r3 = r3
    None = None
    Requests = {r1, r2, r3}
    Depts = {"d1", "d2"}
    Services = {"jira", "bitbucket"}
    Accts = {"a", "b"}
    MaxFaults = 2
    Ttl = 2
    MaxTicks = 3
    Mixes <- MCMixes
INVARIANTS
    CredentialsAgree
PROPERTIES
    RowsAreGuarded
    EveryCallEnds
CHECK_DEADLOCK FALSE
