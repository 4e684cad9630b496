CONSTANTS
    c1 = c1
    c2 = c2
    None = None
    Callers = {c1, c2}
    Limit = 2
    Addons = TRUE
SPECIFICATION Spec
INVARIANTS TypeOK NoEngineLeftBehind InitOwed
CHECK_DEADLOCK FALSE
