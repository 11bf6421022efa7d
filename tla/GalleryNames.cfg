SPECIFICATION Spec
CONSTANTS
    r1 = r1
    r2 = r2
    s1 = s1
    n1 = n1
    n2 = n2
    x1 = x1
    None = None
    Requests = {r1, r2}
    Seeds = {s1}
    Names = {n1, n2}
    ExtIds = {x1}
    Kinds <- EnrollKinds
SYMMETRY Symmetry
INVARIANT OnePersonPerName
CHECK_DEADLOCK FALSE
