SPECIFICATION Spec
CONSTANTS
    s = s
    m = m
    u = u
    w = w
    o1 = o1
    o2 = o2
    t1 = t1
    t2 = t2
    t3 = t3
    t4 = t4
    r1 = r1
    r2 = r2
    None = None
    Users = {s, m, u, w}
    Orgs = {o1, o2}
    Tokens = {t1, t2, t3, t4}
    Roles = {"admin", "manager", "member"}
    Requests = {r1, r2}
    Operations <- DistinctOperations
    Grants <- MCGrants
    Joins <- MCJoins
    MaxRequests = 2
    MaxEvents = 1
    Newcomers = {w}
    MaxBulk = 2
    InitialApproval <- MCApproval
    InitialPlatform <- MCPlatform
    InitialMembers <- MCMembers
    InitialAccepted = {}
    InitialOwner <- MCOwner
    InitialActive <- MCActive
SYMMETRY RequestSymmetry
ACTION_CONSTRAINT Overlapping
INVARIANTS ActorsAreEntitled TargetsAreInScope 
CHECK_DEADLOCK FALSE
