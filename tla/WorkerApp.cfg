CONSTANTS
    MaxTasks = 2
    LastId = 4
    MaxRestarts = 1
    TickRange = 3
SPECIFICATION WorkerSpec
INVARIANTS LiveTasksBounded DrainLeavesNothing FailuresReportedOnce
PROPERTIES HooksReturn TicksEnd HeartbeatLeaves
