CONSTANTS
    Ids <- MCIds
    Links <- MCLinks
    Inputs = {}
    SemVers <- MCSemVers
    Maxima <- MCMaxima
    Specs <- MCSpecs
    Markers = {m1, m2}
    MAX_SPEC_BYTES = 2
    Files <- MCFiles
SPECIFICATION MCSpec
INVARIANTS
    ResolvesExactly
    GraphIsExpected
    RefusalNamesFault
    WorkBounded
    AppResolvesExactly
    AccessIsExact
    AnswerIsRight
