CONSTANTS
    s1 = s1
    s2 = s2
    a1 = a1
    a2 = a2
    r1 = r1
    r2 = r2
    d1 = d1
    d2 = d2
    x1 = x1
    Sessions = {s1, s2}
    Auths = {a1, a2}
    Roots = {r1, r2}
    Records = {d1, d2}
    Revisions = {0, 1, 2, 3, 4, 5, 6, 7, 8}
    ChainRevisions = {0, 1, 2}
    Tags = {t1}
    Proposals = {}
    Rest = {x1}
    Rest0 = x1
    Reentries <- MCReentries
    NoAuth = NoAuth
    NoRoot = NoRoot
    NoRecord = NoRecord
    NoTag = NoTag
    NoProposal = NoProposal
SPECIFICATION Spec
SYMMETRY Symmetric
VIEW WithoutSessionRevisions
INVARIANT TypeOK PeersNeverBlockAWrite FinishedReleases
CHECK_DEADLOCK FALSE
PROPERTY RevisionsNameValues ChainHistory ChainsAreLeftByRule PeersKeepTheirState
