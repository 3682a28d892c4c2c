SPECIFICATION Spec
CONSTANTS
    v1 = v1
    v2 = v2
    s1 = s1
    s2 = s2
    Nobody = Nobody
    Servers = {v1, v2}
    Subjects = {s1, s2}
    Deployments <- MCDeployments
    MaxMemories = 2
    MaxCalls = 4
    MaxStops = 1
SYMMETRY Symmetric
INVARIANTS
    TypeOK
    SubjectsAreIsolated
    DataIsIndexed
    DeletionIsClean
CHECK_DEADLOCK FALSE
