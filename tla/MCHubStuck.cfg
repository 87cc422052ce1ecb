CONSTANTS
    c1 = c1
    c2 = c2
    s1 = s1
    s2 = s2
    Clients = {c1, c2}
    Admins = {}
    Fragile = {c1}
    Blockable = {}
    Events <- Disabled
    EventCap = 1
    Renewed = {}
    MaxRequests = 1
    Sources = {s1, s2}
SPECIFICATION FairSpec
PROPERTIES
    KickedClientsLeave
CHECK_DEADLOCK FALSE
