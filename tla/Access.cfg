SPECIFICATION FairSpec
CONSTANTS
    p1 = p1
    p2 = p2
    p3 = p3
    u1 = u1
    u2 = u2
    k1 = k1
    root = root
    ann = ann
    Processes <- MCProcesses
    Names <- MCNames
    Root = root
    SeedUsers <- MCSeedUsers
    SeedKeys <- MCSeedKeys
    Lifetime = 1
    MaxLag = 1
    Ops <- MCOps
    Roles <- MCRoles
    MaxAlters = 1
    None = None
CHECK_DEADLOCK FALSE
INVARIANTS
    TypeOK
    OneAccountPerName
    AccessEndsWithTheToken
    RevocationWaits
    BootstrapLeavesTheAccount
PROPERTIES
    EveryRequestEnds
