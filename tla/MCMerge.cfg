CONSTANTS
    r1 = r1
    r2 = r2
    r3 = r3
    Releases = {r1, r2, r3}
    Fragment <- Shipped
    Body <- Bodies
    Keys = {"hooks", "Start", "Stop", "statusLine", "command"}
    Depth = 2
    Identity <- Identities
    Documents <- UserDocuments
    StartEdits <- UserStarts
    StopEdits <- UserStops
    StatusEdits <- UserStatusLines
    LineEdits <- UserLines
    Edits = 2
SPECIFICATION Spec
INVARIANT SyncIsStable
PROPERTY UserContentKept StatusLineKept ManagedAsReleased
