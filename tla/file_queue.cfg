SPECIFICATION Spec
CONSTANTS
    Articles = {a1}
    Channels = {blog}
    Stamps = {1, 2}
    MaxAttempts = 2
    Snapshots = {0, 1}
    WriteErrors = TRUE
    MaxCrashes = 2
    MaxErrors = 1
CHECK_DEADLOCK FALSE
INVARIANTS
    TypeOK
    NeverForgotten
    MovedOnce
PROPERTIES
    ImplementsQueue
