CONSTANTS
    c1 = c1
    c2 = c2
    None = None
    Callers = {c1, c2}
    Limit = 1
    Addons = TRUE
SPECIFICATION Spec
INVARIANTS DeadOrRearmed
CHECK_DEADLOCK FALSE
