SPECIFICATION Spec
CONSTANTS
    Starters = {s1, s2, s3}
    Pruners = {}
    Backends = {b1, b2, b3}
    MayCrash = {}
    MaxAttempts = 1
    None = None
SYMMETRY Symmetry
INVARIANT NoDuplicateBackends
CHECK_DEADLOCK FALSE
