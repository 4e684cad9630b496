CONSTANTS
    a = a
    b = b
    out = out
    Paths = {a, out}
    Relevant = {a}
    Deletable = {a, out}
    BatchSize = 1
    MaxTime = 5
SPECIFICATION GateSpec
INVARIANTS GateTypeOK NothingLost CapWatches
PROPERTIES EveryChangeReleased
CHECK_DEADLOCK FALSE
