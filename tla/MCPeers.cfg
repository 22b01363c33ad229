CONSTANTS
    s1 = s1
    s2 = s2
    Sessions = {s1, s2}
    Auths = {a1, a2}
    Roots = {r1}
    MaxRecords = 2
    Turns <- PeersTurns
    Prompts <- PeersPrompts
    Agents <- PeersAgents
    StorageFails = FALSE
    Crashes = TRUE
    Advises = TRUE
    NoAuth = NoAuth
    NoRoot = NoRoot
    NoTag = NoTag
    NoProposal = NoProposal
SPECIFICATION Spec
SYMMETRY Symmetric
VIEW Relevant
INVARIANT TypeOK LineageNeverForks
CHECK_DEADLOCK FALSE
PROPERTY CircuitHolds OvertakenCountsToArm UserTurnsAreRecorded StopsAreJudged
