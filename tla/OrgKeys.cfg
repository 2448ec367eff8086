SPECIFICATION Spec
CONSTANTS
    p1 = p1
    p2 = p2
    k1 = k1
    k2 = k2
    NoProject = NoProject
    Project = {p1, p2}
    Key = {k1, k2}
    ApiChoices <- ApiKeys2
    Faults = {}
INVARIANTS KeysReachAllProjects
