SPECIFICATION MCSpec
CONSTANTS
    a = a
    b = b
    r3 = r3
    r1 = r1
    r2 = r2
    c1 = c1
    c2 = c2
    h1 = h1
    h2 = h2
    x1 = x1
    x2 = x2
    x3 = x3
    s1 = s1
    s2 = s2
    u1 = u1
    u2 = u2
    Ops = {a, b}
    ChildOps = {b}
    Sweeping = {a}
    Overlapping = {}
    Runners = {r1, r2, r3}
    Does <- MCDoesTwo
    Mortal = {r1, r3}
    Commands = {c1, s1, u1, s2, u2}
    MaxVersion = 2
    Handoffs = {h1, h2}
    StopOf <- MCStopOf
    ResumeOf <- MCResumeOf
    Activities = {x1, x2, x3}
    Of <- MCOf
    Killable = {}
    i1 = i1
    i2 = i2
    d1 = d1
    d2 = d2
    p1 = p1
    p2 = p2
    k1 = k1
    k2 = k2
    e1 = e1
    e2 = e2
    PipelineRuns = {p1, p2}
    RoleOrder <- MCRoleOrder
    Executors = {e1, e2}
    Deciders = {d1}
    MaxTries = 2
    MaxSources = 2
    MaxReports = 2
    MaxPlanVersion = 4
    Items <- MCItems
    ItemDeps <- MCItemDeps
    Edits <- MCEdits
    LCallers = {d1, d2}
    MaxRevisions = 3
    MaxEpochs = 2
    MaxCheckpoints = 1
    MaxMoves = 3
    o1 = o1
    o2 = o2
    NItems = 2
    Orders = {o1, o2}
    OrderActions = {"PAUSE", "RESUME", "RETRY", "HANDOFF"}
    Failing = {"environment", "stage"}
    MaxJobs = 4
    MaxKills = 1
CONSTRAINTS
    MCHandoffBound
    MCControlBound
    MCDeliveryBound
    MCLedgerBound
    MCPlanningBound
INVARIANTS
    WorkHoldsLease
    OneEpochPerHandoff
    OneLineOfAuthority
    ProposalsSound
    AcceptedOnce
PROPERTIES
    ResumeAtBoundary
    RefinesGate
    ReplacedAtBoundary
    CheckpointsExact
CHECK_DEADLOCK FALSE
