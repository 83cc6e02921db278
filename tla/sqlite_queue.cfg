SPECIFICATION FairSpec
CONSTANTS
    Articles = {a1, a2}
    Channels = {blog}
    Stamps = {1, 2}
    MaxAttempts = 2
    Snapshots = {0}
    Callers = {worker, dispatcher}
    Dispatcher = dispatcher
    Nobody = nobody
    Limits = {0}
    ClaimDefault = 2
    ArchiveDefault = 2
    ArticleRows = {a1, a2}
    MaxFiled = 2
INVARIANTS
    TypeOK
    MovedWhole
PROPERTIES
    ImplementsQueue
    CallsReturn
