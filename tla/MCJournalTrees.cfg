SPECIFICATION MCTreesSpec
CONSTANTS
    commit = commit
    files = files
    c1 = c1
    c2 = c2
    c3 = c3
    c4 = c4
    k1 = k1
    k2 = k2
    k3 = k3
    k4 = k4
    Ops = {commit, files}
    Retryable = {commit}
    VerifyOnly = {files}
    Callers = {c1, c2, c3, c4}
    About <- MCAbout
    Returning = {}
    RecoveryKeys = {k1, k2}
    MaxVersion = 1
    MaxRestarts = 2
    MaxRecords = 2
    e1 = e1
    e2 = e2
    w1 = w1
    w2 = w2
    t1 = t1
    ECallers = {e1, e2}
    MaxOutside = 2
    TClaims = {t1}
    TCallers = {w1, w2}
    MaxLosses = 2
    RKeys = {"again"}
    MaxRVersion = 4
    Dispositions = {"RUNNING", "PAUSED"}
    MaxSources = 2
    MaxRevisions = 2
    MaxRows = 2
    MaxMissionVersion = 7
INVARIANTS
    JournalTellsEffects
    HandedInLineage
    CleanedIsGone
    ExecutesApproved
    RecoverySound
PROPERTIES
    ResumeOnlyDecided
    RefinesEffectOnce
CONSTRAINTS
    MCThreeCalls
    MCEpochBound
    MCAuthorityBound
    MCRecoveryBound
SYMMETRY Alike
CHECK_DEADLOCK FALSE
