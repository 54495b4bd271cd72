SPECIFICATION MRSpec
CONSTANTS
    Plans = {p1}
    Notices = {n1}
    Pauses = {q1}
    Resumes = {q2}
    MaxRuns = 3
INVARIANT NoCommandLost
CHECK_DEADLOCK FALSE
