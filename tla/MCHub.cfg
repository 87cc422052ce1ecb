CONSTANTS
    c1 = c1
    c2 = c2
    s1 = s1
    s2 = s2
    Clients = {c1, c2}
    Admins = {c1}
    Fragile = {c1, c2}
    Blockable = {c2}
    Events <- Maintenance
    EventCap = 1
    Renewed = {"schema"}
    MaxRequests = 1
    Sources = {s1}
SPECIFICATION FairSpec
INVARIANTS
    TypeOK
    HubStuckByRemovalOnly
PROPERTIES
    LostClientsLeave
    EventsArrive
CHECK_DEADLOCK FALSE
