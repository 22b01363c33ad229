CONSTANTS
    f1 = f1
    f2 = f2
    f3 = f3
    f4 = f4
    Targets = {f1, f2, f3, f4}
    Paths <- MCPaths
    Releases = {1, 2}
    Copies = {"one", "two"}
    Ships <- MCShips
    Retires <- MCRetires
    Runs = 2
    Edits = 0
    Windows = TRUE
    StateFile = StateFile
    Absent = Absent
    Edited = Edited
SPECIFICATION Spec
INVARIANT FailureRestores
CHECK_DEADLOCK FALSE
