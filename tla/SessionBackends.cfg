SPECIFICATION SessionSpec
CONSTANTS
    n1 = n1
    n2 = n2
    s1 = s1
    s2 = s2
    p1 = p1
    p2 = p2
    r1 = r1
    r2 = r2
    Names = {n1, n2}
    Params = {s1, s2, p1, p2}
    Sessions = {s1, s2}
    Refs = {r1, r2}
    None = None
    MaxLoads = 2
    MaxCount = 3
SYMMETRY SessionBackendsSymmetry
INVARIANTS NoDanglingFactory DeferredUnload BackendCodeLoaded ReconnectsLikewise
