SPECIFICATION Spec
CONSTANTS
    Articles = {a1}
    Channels = {blog}
    Stamps = {1, 2}
    MaxAttempts = 2
    Worker = worker
    Handlers = {h1, h2}
    Nobody = nobody
    BatchSize = 1
    Limits = {2}
    Durable = TRUE
    MaxTries = 3
    MaxFaults = 1
    MaxRestarts = 1
SYMMETRY Symmetry
INVARIANTS
    TypeOK
    HeldOnce
    HeldIsActive
    BudgetLeft
    FailedIsSpent
    DoneMeansDelivered
    SentOnce
    OneRetryPerTarget
    TriesWithinBudget
PROPERTIES
    KeepsContract
    ResetSticksUnheld
