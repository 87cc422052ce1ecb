CONSTANTS
    t1 = t1
    t2 = t2
    t3 = t3
    None = None
    Tasks = {t1, t2, t3}
    Programs <- Handlers
    PoolSize = 3
    RequestLimit = 2
    MaxRuns = 3
    MaxFailures = 1
SPECIFICATION Spec
INVARIANTS
    TypeOK
    SettledCacheIsCurrent
    SettledAccessIsCurrent
    NoOtherCircle
PROPERTIES
    CacheNeverGoesBack
SYMMETRY Symmetry
CHECK_DEADLOCK FALSE
