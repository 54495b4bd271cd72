SPECIFICATION MCSchedulerSpec
CONSTANTS
    t1 = t1
    t2 = t2
    a1 = a1
    a2 = a2
    Tasks <- MCTasks
    Project <- MCProject
    Deps <- MCDeps
    Ids = {a1, a2}
    Requests <- MCRequests
    Instants = {0, 1}
    Ttls = {1}
    Carriers = {1, 2}
    Stagers = {1, 2}
    StageAgents = {"a", "b"}
    MaxPolicy = 3
    MaxRevs = 2
    MaxHandoffs = 1
    MaxJobs = 1
    MaxEpochs = 2
    MaxCheckpoints = 1
    MaxMissionVersion = 3
    MaxToken = 3
    MaxWork = 2
    MaxRequests = 2
    Processes = {1, 2}
    Consumers = {1, 2}
    Subjects <- MCSubjects
    TaskOfRun <- MCTaskOfRun
    MissionOfTask <- MCMissionOfTask
    MaxEvents = 4
    MaxClaims = 3
    Clerks = {1, 2}
    Intake <- MCIntake
    Drafts <- MCDrafts
    MaxVersions = 2
    MaxDecisions = 1
    MaxAttempts = 2
INVARIANTS
    DomainsExclusive
    AuthoritySound
    ChainUnbroken
    TokensNameEpochs
    OneBlueprintLine
PROPERTIES
    WritesFollowTokens
    RefinesFencedExclusion
CONSTRAINTS
    MCSchedulerBound
    MCAuthorityBound
    MCFenceBound
    MCBlueprintBound
SYMMETRY Symmetric
