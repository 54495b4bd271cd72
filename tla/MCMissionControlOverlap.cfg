SPECIFICATION Spec
CONSTANTS
    a = a
    b = b
    r1 = r1
    r2 = r2
    r3 = r3
    c1 = c1
    c2 = c2
    c3 = c3
    Ops = {a}
    ChildOps = {a}
    Sweeping = {a}
    Overlapping = {a}
    Runners = {r1, r2}
    Does <- MCDoes
    Mortal = {}
    Commands = {c1, c2}
    MaxVersion = 2
PROPERTIES
    ResumeAtBoundary
CHECK_DEADLOCK FALSE
