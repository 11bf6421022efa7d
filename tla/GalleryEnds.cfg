SPECIFICATION FairSpec
CONSTANTS
    r1 = r1
    r2 = r2
    r3 = r3
    s1 = s1
    n1 = n1
    None = None
    Requests = {r1, r2, r3}
    Seeds = {s1}
    Names = {n1}
    ExtIds = {}
    Kinds <- LockKinds
PROPERTY EveryRequestEnds
CHECK_DEADLOCK FALSE
