CONSTANTS
    Ids <- MCIds
    Links <- MCLinks
    Inputs = {}
    SemVers <- MCSemVers
    Maxima <- MCMaxima
    Specs <- MCSpecs
SPECIFICATION PermutedSpec
INVARIANT DiagnosticsPermutationFree
