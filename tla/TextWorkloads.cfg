SPECIFICATION MCSpec
CONSTANTS
    Off = Off
    TextFields = {"a", "b"}
    SearchConfigs <- MCSearchConfigs
    EngineConfigs <- MCEngineConfigs
    None = None
    Short = Short
    Refused = Refused
    Rows = {1, 2, 3, 4}
    Window = 3
    RankConstant = 1
    Scale = 12
    Clients = {c1, c2}
    RrfSpecs <- MCRrfSpecs
    RrfQueries = {1, 2}
    NoPipe = NoPipe
    QueryRows <- MCQueryRows
    CorpusSize = 1000
    MinMatches = 1
    SamplePerPredicate = 1
    MaxForeign = 1
    NoPass = NoPass
    LayoutConfigs <- MCLayoutConfigs
    NoIndex = NoIndex
    NoSitting = NoSitting
    NoResult = NoResult
CHECK_DEADLOCK FALSE
INVARIANTS
    MeasuredAsPinned
    RecallIsBestOverlap
    FusedAsAsked
    LabelsTrue
