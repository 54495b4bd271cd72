SPECIFICATION MCSpec
CONSTANTS
    s1 = s1
    c1 = c1
    c2 = c2
    Slots = {s1}
    Runs = {1, 2, 3}
    Legacy = {1, 2}
    Stages = {"build", "docs", "review"}
    StageDeps <- MCStageDeps
    Callers = {c1, c2}
    MaxSeq = 3
    g1 = g1
    g2 = g2
    i1 = i1
    i2 = i2
    i3 = i3
    p1 = p1
    t1 = t1
    Gates = {g1, g2}
    KeyOf <- MCKeyOf
    Invokers = {i1, i2, i3}
    InvokerOf <- MCInvokerOf
    Approvals = {p1}
    AttemptOf <- MCAttemptOf
    MaxStops = 1
    MaxSnapshots = 2
    w1 = w1
    m1 = m1
    m2 = m2
    n1 = n1
    l1 = l1
    l2 = l2
    l3 = l3
    l4 = l4
    pl1 = pl1
    nt1 = nt1
    q1 = q1
    q2 = q2
    Workers = {w1}
    Admitted = {m1, m2}
    Unregistered = {n1}
    WorkerOf <- MCWorkerOf
    Launches = {l1, l2, l3, l4}
    LaunchOf <- MCLaunchOf
    MaxCapacity = 2
    MaxChanges = 2
    NoLaunch = NoLaunch
    Plans = {pl1}
    Notices = {nt1}
    Pauses = {q1}
    Resumes = {q2}
    MaxRuns = 3
INVARIANTS
    ProcessesWithinCapacity
    LaunchesSound
    DependenciesSucceeded
    GatesSound
    OneChain
PROPERTIES
    RefinesWorkflowSlots
CONSTRAINTS
    MCStagesAlone
    MCScopedAlone
    MCTwoStarts
    MCRunsBound
SYMMETRY CallersAlike
CHECK_DEADLOCK FALSE
