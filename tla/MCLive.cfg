SPECIFICATION LiveSpec
CONSTANTS
    a = a
    commit = commit
    caller = caller
    k1 = k1
    k2 = k2
    k3 = k3
    k4 = k4
    r1 = r1
    r2 = r2
    c1 = c1
    c2 = c2
    h1 = h1
    h2 = h2
    x1 = x1
    x2 = x2
    x3 = x3
    s1 = s1
    s2 = s2
    u1 = u1
    u2 = u2
    Ops = {a}
    ChildOps = {}
    Sweeping = {a}
    Overlapping = {}
    Runners = {r1, r2}
    Does <- MCDoes
    Mortal = {r1}
    Commands = {s1, u1, s2, u2}
    MaxVersion = 2
    Handoffs = {h1, h2}
    StopOf <- MCStopOf
    ResumeOf <- MCResumeOf
    Activities = {x1, x2, x3}
    Of <- MCOf
    Killable = {x1}
PROPERTIES
    EveryOperationDecided
    HandoffCompletes
    StopSettles
CHECK_DEADLOCK FALSE
