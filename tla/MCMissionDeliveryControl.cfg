SPECIFICATION DSpec
CONSTANTS
    NItems = 2
    Orders = {o1, o2}
    OrderActions = {"PAUSE", "RESUME"}
    Failing = {}
    MaxJobs = 2
    MaxKills = 0
INVARIANTS
    ContinuableAfterControl
CHECK_DEADLOCK FALSE
