CONSTANTS
    Callers = {c1, c2}
    MaxTasks = 2
    LastId = 4
    Runtimes = {TRUE, FALSE}
SPECIFICATION Spec
PROPERTY SpawnReturns
CHECK_DEADLOCK FALSE
