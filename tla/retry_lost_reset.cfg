SPECIFICATION FairSpec
CONSTANTS
    Articles = {a1}
    Channels = {blog}
    Stamps = {1}
    MaxAttempts = 3
    Worker = worker
    Handlers = {h1}
    Nobody = nobody
    BatchSize = 10
    Limits = {10}
    Durable = FALSE
    MaxTries = 3
    MaxFaults = 0
    MaxRestarts = 0
PROPERTY ResetSticks
