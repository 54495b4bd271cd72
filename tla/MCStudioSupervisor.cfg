SPECIFICATION MCStudioSpec
CONSTANTS
    r1 = r1
    r2 = r2
    q1 = q1
    q2 = q2
    Definitions <- MCDefinitions
    Stages = 3
    ModelOf <- MCModelOf
    MaxStageRepairs = 1
    MaxTries = 2
    MaxCalls = 4
    MaxFaults = 1
    MaxEvidence = 2
    NoAgent = NoAgent
    Runners = {r1, r2}
    Queue = {r1}
    Requests = {q1, q2}
    None = None
    Costs <- MCCosts
    Terms <- MCTerms
    MaxRows = 2
    MaxEvents = 1
    Results = {1, 2}
    Categories = 2
    Calls = {1, 2}
    MaxRepairs = 2
    MaxLimit = 3
    Plans = {1, 2}
    Operations <- MCOperations
    Candidates = {2}
    Previewers = {1, 2}
    Appliers = {1, 2}
    MaxGates = 2
    Sources = {s}
    Checksums = {x, y}
    Processes = {1, 2}
    Commands = {1, 2, 3}
    Branches = {b}
    MaxPlans = 1
    Proposals <- MCProposals
CONSTRAINTS
    MCPlayableBound
    MCStudioBound
    MCCallsBound
    MCStageBound
SYMMETRY Alike
INVARIANTS
    OneAtWork
    NothingAfterInterruption
    AtMostOneLate
    DeliverySound
    CompletedKeysSkipped
    PointerFollowsHistory
    ApprovedCanBeBuilt
    StagesSound
CHECK_DEADLOCK FALSE
