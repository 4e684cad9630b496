CONSTANTS
    found = found
    missed = missed
    c1 = c1
    c2 = c2
    c3 = c3
    Deps = {found, missed}
    Scanned = {found}
    Calls = {c1, c2, c3}
    Import <- MCImport
    NoDep = NoDep
SPECIFICATION Spec
INVARIANTS TypeOK WakeOwed
PROPERTIES  RequestsAnswered
CHECK_DEADLOCK FALSE
