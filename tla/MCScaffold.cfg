CONSTANTS
    a1 = a1
    a2 = a2
    a3 = a3
    Auths = {a1, a2, a3}
    Registered <- Authorized
    Shapes <- Written
    Progresses <- Left
    Ids = {i1, i2}
    Paths = {p1, p2}
    Sessions = {s1, s2}
    MaxRecords = 3
    NoParent = NoParent
    Nothing = Nothing
    Omitted = Omitted
    Draft = Draft
SPECIFICATION Spec
SYMMETRY Symmetric
CHECK_DEADLOCK FALSE
INVARIANT ScaffoldsContinue
