SPECIFICATION FairSpec
CONSTANTS
    a = a
    b = b
    r1 = r1
    r2 = r2
    r3 = r3
    c1 = c1
    c2 = c2
    c3 = c3
    Ops = {a}
    ChildOps = {a}
    Sweeping = {}
    Overlapping = {}
    Runners = {r1, r2}
    Does <- MCDoes
    Mortal = {r1}
    Commands = {c1}
    MaxVersion = 2
PROPERTIES
    StopSettles
CHECK_DEADLOCK FALSE
