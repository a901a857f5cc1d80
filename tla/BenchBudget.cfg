SPECIFICATION Spec
CONSTANTS
    Dirs = {target, other}
    MinRuns = 2
    Budget = 2
    Points <- MCPoints
    Second = 2
    MaxRuns = 3
    MaxRecordings = 2
    MaxTies = 1
INVARIANT VerdictIsEarned
CHECK_DEADLOCK FALSE
