SPECIFICATION Spec
CONSTANTS
    p1 = p1
    p2 = p2
    t1 = t1
    t2 = t2
    Absent = Absent
    Ids <- MCIds
    Texts = {t1, t2}
    Limits <- MCLimits
    Processes = {p1, p2}
    Kinds <- MCKinds
    MaxWrites = 3
    MaxRestarts = 1
SYMMETRY Symmetric
INVARIANTS
    TypeOK
    HitsAreVouchedFor
    OwnWritesAreFound
PROPERTY
    RefinesIndex
CHECK_DEADLOCK FALSE
