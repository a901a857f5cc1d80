\* A dropped shutdown() future and the report of the call that repeats it.
SPECIFICATION Spec
CONSTANTS
    MaxPlugins = 2
    Plugins <- MCPlugins
    Caps <- MCCaps
    Graphs <- MCGraphs
    Versions = {"v1"}
    Markers = {"m1"}
    HookErrors = {"io"}
    ValidTags = {"io"}
    MaxCancels = 1
INVARIANTS
    CleanMeansAllSucceeded
