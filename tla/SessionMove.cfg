SPECIFICATION Spec
CONSTANTS
    h1 = h1
    h2 = h2
    h3 = h3
    c1 = c1
    c2 = c2
    c3 = c3
    Handles = {h1, h2}
    Conns = {c1, c2}
    None = None
    Size = 1
    FailsThroughPool = FALSE
SYMMETRY SessionSymmetry
INVARIANT StatementsUseOwnSession
