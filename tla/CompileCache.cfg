CONSTANTS
    r1 = r1
    r2 = r2
    None = None
    Requests = {r1, r2}
    Hmr = TRUE
    Inlining = {0}
    Importing = {}
    MaxOwn = 1
    MaxDep = 1
    MaxBoots = 1
SPECIFICATION Spec
SYMMETRY Symmetry
INVARIANTS TypeOK KeyedFresh OwnFresh
CHECK_DEADLOCK FALSE
