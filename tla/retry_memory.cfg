SPECIFICATION FairSpec
CONSTANTS
    Articles = {a1, a2}
    Channels = {blog}
    Stamps = {1}
    MaxAttempts = 3
    Worker = worker
    Handlers = {h1}
    Nobody = nobody
    BatchSize = 1
    Limits = {1, 2}
    Durable = FALSE
    MaxTries = 4
    MaxFaults = 0
    MaxRestarts = 0
INVARIANT ProcessingIsHeld
PROPERTY Settles
