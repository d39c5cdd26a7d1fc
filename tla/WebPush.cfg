SPECIFICATION Spec
CONSTANTS
    Device = {d1}
    Event = {x1, x2, x3}
    Critical = {}
    MaxRefs = 2
    Router = {t1, t2}
    None = None
    RateLimit = 1
    MaxRows = 3
    MaxAttempts = 2
    MaxOps = 1
INVARIANTS TypeOK CleanedIsGone PendingKeepsDevice RateHeld
SYMMETRY Symmetry
