SPECIFICATION Spec
CONSTANTS
    n1 = n1
    n2 = n2
    o1 = o1
    o2 = o2
    dflt = dflt
    root = root
    plain = plain
    Nodes <- MCReplicas
    Deployments <- MCDeployments
    Users <- MCUsers
    Organizations <- MCOrganizations
    Default = dflt
    Serialized = TRUE
INVARIANTS TypeOK DefaultRolesConverge CustomRolesInherit BackfillsConverge
PROPERTY CustomRolesOnlyGain
