SPECIFICATION Spec
CONSTANTS
    o1 = o1
    p1 = p1
    p2 = p2
    k1 = k1
    k2 = k2
    n1 = n1
    n2 = n2
    a1 = a1
    a2 = a2
    a3 = a3
    i1 = i1
    None = None
    NoSite = NoSite
    NoProject = NoProject
    Organizations = {o1}
    Projects = {p1}
    OrgOf <- OneOrganization
    Keys = {k1, k2}
    Nodes = {n1}
    Asks = {a1, a2}
    Addresses = {i1}
    Cap = 1
    PerIp = 1
    PerKey = 1
    MaxBuckets = 1
    LastMonth = 2
    MaxChunks = 1
SYMMETRY AskSymmetry
CONSTRAINT PagesCarryK1
ACTION_CONSTRAINT Resting
INVARIANTS TypeOK CapHolds BurstsAreShaped RetiredKeysStayDead AnswerIsWhole PanelTells
CHECK_DEADLOCK FALSE
