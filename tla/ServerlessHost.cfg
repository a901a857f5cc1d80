CONSTANTS
    Threads = {t1, t2, t3}
    MaxConcurrent = 2
    MaxScopes = 4
    MaxLeaks = 1
SPECIFICATION Spec
INVARIANTS CapacityAccounted RegistryExact ShutdownClosesScopes
PROPERTY ImplementsAdmission
