SPECIFICATION Spec
CONSTANTS
    a1 = a1
    a2 = a2
    Articles = {a1, a2}
    NumChannels = 2
    Scheduler = scheduler
    Handlers = {h1}
    Buffer = 1
    Feeds <- OneFeed
    NoArticle = none
    LongArticles = {a2}
    LongErrors = FALSE
    MaxFaults = 0
    MaxRuns = 2
    MaxRestarts = 1
INVARIANTS
    StartsAgain
