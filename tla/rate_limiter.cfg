SPECIFICATION FairSpec
CONSTANTS
    Callers = {dispatcher, retry}
    Impatient = {retry}
    Nobody = nobody
    Rate = 2
    Period = 3
    MaxPermits = 4
INVARIANTS
    TypeOK
    WindowBound
    SlowsDown
PROPERTY Answers
