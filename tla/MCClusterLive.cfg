CONSTANTS
    Nodes = {n1, n2}
    MaxStarts = 2
    Mishaps = {"delete"}
    MaxMishaps = 1
SPECIFICATION FairSpec
PROPERTIES
    MasterIsRunning
CHECK_DEADLOCK FALSE
