\* Every graph of up to three plugins under its owner, and the probe applications
\* under the oracle.
SPECIFICATION MCSpec
CONSTANTS
    MaxPlugins = 3
    Plugins <- MCPlugins
    Caps <- MCCaps
    Graphs <- AllGraphs
    Versions = {"v1", "v2"}
    Markers = {"m1"}
    HookErrors = {"Bad Tag"}
    ValidTags = {"io"}
    MaxCancels = 1
    FailurePlans <- MCFailurePlans
    Attributions <- MCAttributions
INVARIANTS
    TypeOK
    DependenciesAvailable
    FailedStartIsUndone
    HooksSeeScope
    ShutdownIsComplete
    DependencyOrder
    PhaseBarriers
    FailuresAccounted
    RootAccessBoundary
    OracleIsRight
PROPERTIES
    ReportIsFinal
    CallsReturn
    ImplementsContract
