CONSTANTS
    s1 = s1
    s2 = s2
    Sessions = {s1, s2}
    Auths = {a1, a2}
    Roots = {r1, r2}
    MaxRecords = 2
    Turns <- TransitionTurns
    Prompts <- TransitionPrompts
    Agents <- TransitionAgents
    StorageFails = TRUE
    Crashes = FALSE
    Advises = FALSE
    NoAuth = NoAuth
    NoRoot = NoRoot
    NoTag = NoTag
    NoProposal = NoProposal
SPECIFICATION Spec
SYMMETRY Symmetric
VIEW Relevant
INVARIANT EvidenceMarksTransition
CHECK_DEADLOCK FALSE
PROPERTY HostTurnsAreInert QuestionsStayOpen PromptsGrantTheirOwnTurn RerootedByApproval
