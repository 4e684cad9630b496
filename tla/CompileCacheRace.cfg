CONSTANTS
    r1 = r1
    r2 = r2
    None = None
    Requests = {r1, r2}
    Hmr = TRUE
    Inlining = {0}
    Importing = {}
    MaxOwn = 0
    MaxDep = 1
    MaxBoots = 0
SPECIFICATION Spec
INVARIANTS ServedFresh
CHECK_DEADLOCK FALSE
