CONSTANTS
    a = a
    b = b
    out = out
    Paths = {a, b}
    Relevant = {a, b}
    Deletable = {}
    BatchSize = 2
    MaxTime = 5
SPECIFICATION GateSpec
INVARIANTS NothingLost
CHECK_DEADLOCK FALSE
