SPECIFICATION Spec
CONSTANTS
    RELEASE_ORDER <- MCOrder
    Workspaces <- MCWorkspaces
    Tag = "0.1"
    Stable = {"1.0"}
    Checksums = {c1, c2}
    MaxAttempts = 2
    MaxJobs = 3
INVARIANTS PublishedInOrder SuccessIsServed
CHECK_DEADLOCK FALSE
