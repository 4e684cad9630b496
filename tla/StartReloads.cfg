CONSTANTS
    a = a
    tab = tab
    Paths = {a}
    Relevant = {a}
    Pages = {tab}
    Deletable = {}
    BatchSize = 1
    MaxTime = 5
SPECIFICATION Spec
INVARIANTS TypeOK ReloadReleasable NoMissedReload StampHonest
PROPERTIES PagesCatchUp
CHECK_DEADLOCK FALSE
