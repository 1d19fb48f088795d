SPECIFICATION Spec
SYMMETRY RequestSymmetry
CONSTANTS
    o1 = o1
    o2 = o2
    p1 = p1
    c1 = c1
    old = old
    k1 = k1
    k2 = k2
    s1 = s1
    r1 = r1
    r2 = r2
    Orgs = {o1, o2}
    Projects = {p1}
    ProjectOrg <- MCProjectOrg
    Collections = {c1, old}
    Legacy = {old}
    Seed <- MCSeed
    Connections = {k1, k2}
    Browser = {k2}
    Sources = {s1}
    Requests = {r1, r2}
    Operations <- AllOperations
    None = None
    Gone = Gone
    MaxRequests = 2
    MaxFaults = 1
    MaxEvents = 2
INVARIANTS
    OwnersKeepTheirCollections
    OneOwner
    
    
CHECK_DEADLOCK FALSE
