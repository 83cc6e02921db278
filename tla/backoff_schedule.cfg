SPECIFICATION Spec
CONSTANTS
    MaxInt = 31
    DefaultBackoff = 3
    DefaultMaxBackoff = 20
    Configured = {0, 1, 2, 5, 15, 20}
    Resets = FALSE
    MaxRounds = 4
INVARIANTS
    FollowsDocs
