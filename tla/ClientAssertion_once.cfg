SPECIFICATION Spec
CONSTANTS
    j1 = j1  j2 = j2  p1 = p1  p2 = p2
    Assertions = {j1, j2}
    Handlers = {p1, p2}
    MaxLifetime = 3
    Leeway = 2
    SlowConsume = TRUE
    None = None
SYMMETRY MCSymmetry
INVARIANTS TypeOK AssertionAcceptedOnce
