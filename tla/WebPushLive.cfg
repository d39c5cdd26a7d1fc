SPECIFICATION FairSpec
CONSTANTS
    Device = {d1}
    Event = {x1, x2}
    Critical = {}
    MaxRefs = 2
    Router = {t1}
    None = None
    RateLimit = 1
    MaxRows = 1
    MaxAttempts = 2
    MaxOps = 2
INVARIANTS PassStaysOpen
PROPERTIES CleanupCompletes IntentsSettle
