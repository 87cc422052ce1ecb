CONSTANTS
    Nodes = {n1, n2}
    MaxStarts = 3
    Mishaps = {"delete", "late", "event"}
    MaxMishaps = 1
SPECIFICATION Spec
INVARIANTS
    TypeOK
    OneMasterRow
    RoleWasAssigned
    RoleFollowsDatabase
PROPERTIES
    RoleIsImplemented
SYMMETRY Symmetry
CHECK_DEADLOCK FALSE
