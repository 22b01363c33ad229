CONSTANTS
    p1 = p1
    p2 = p2
    p3 = p3
    Procs = {p1, p2, p3}
    Hung = {p1}
    Incidents = 1
    StorageFails = TRUE
    DirectorySync = TRUE
    NoProc = NoProc
SPECIFICATION Spec
INVARIANT TypeOK OneSecret SnapshotsAreOfHome
CHECK_DEADLOCK FALSE
PROPERTY WritesAreAtomic EveryCallReturns
