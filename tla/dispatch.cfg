SPECIFICATION Spec
CONSTANTS
    a1 = a1
    a2 = a2
    Articles = {a1, a2}
    NumChannels = 2
    Scheduler = scheduler
    Handlers = {h1}
    Buffer = 1
    Feeds <- OverlappingFeeds
    NoArticle = none
    LongArticles = {}
    LongErrors = TRUE
    MaxFaults = 1
    MaxRuns = 2
    MaxRestarts = 1
INVARIANTS
    TypeOK
    SingleFlight
    AttemptedOnce
    InOrder
    FiledOnce
    Accounted
    RunsEndBeforeClose
    ExitDrained
    JobsHaveArticles
