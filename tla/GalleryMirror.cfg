SPECIFICATION Spec
CONSTANTS
    r1 = r1
    r2 = r2
    s1 = s1
    n1 = n1
    x1 = x1
    None = None
    Requests = {r1, r2}
    Seeds = {s1}
    Names = {n1}
    ExtIds = {x1}
    Kinds <- StatusKinds
SYMMETRY Symmetry
INVARIANT MirrorInSync
CHECK_DEADLOCK FALSE
