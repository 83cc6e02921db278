SPECIFICATION Spec
CONSTANTS
    MaxInt = 31
    DefaultBackoff = 3
    DefaultMaxBackoff = 20
    Configured = {0, 1, 2, 3, 4, 5, 7, 8, 12, 15, 16, 17, 20, 24, 30, 31}
    Resets = TRUE
    MaxRounds = 8
INVARIANTS
    TypeOK
    DelayInRange
PROPERTIES
    DoublesUntilCapped
