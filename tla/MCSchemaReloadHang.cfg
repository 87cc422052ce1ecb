CONSTANTS
    t1 = t1
    t2 = t2
    t3 = t3
    None = None
    Tasks = {t1, t2}
    Programs <- Logging
    PoolSize = 4
    RequestLimit = 2
    MaxRuns = 2
    MaxFailures = 0
SPECIFICATION FairSpec
PROPERTIES
    AllEnd
CHECK_DEADLOCK FALSE
