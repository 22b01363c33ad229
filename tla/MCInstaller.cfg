CONSTANTS
    f1 = f1
    f2 = f2
    f3 = f3
    f4 = f4
    Targets = {f1, f2, f3, f4}
    Paths <- MCPaths
    Releases = {1, 2}
    Copies = {"one", "two"}
    Ships <- MCShips
    Retires <- MCRetires
    Runs = 3
    Edits = 2
    Windows = FALSE
    StateFile = StateFile
    Absent = Absent
    Edited = Edited
SPECIFICATION Spec
INVARIANT FailureRestores InterruptedRunsComplete
CHECK_DEADLOCK FALSE
PROPERTY EditsAreKept StateClaimsTruth
