CONSTANTS
    c1 = c1
    c2 = c2
    e1 = e1
    w1 = w1
    g1 = g1
    NoRequest = NoRequest
    Flush = Flush
    Requests <- MCRequests
    Kind <- MCKind
    HasDeadline = {c2, w1}
    Capped = TRUE
    Wedging = {w1}
    Hanging = {c2}
    Causes <- MCCauses
SPECIFICATION Spec
INVARIANTS TypeOK TerminationOwned WatchdogAlone CondemnedIdle HonestReply
PROPERTIES ImplementsService EveryRequestAnswered
CHECK_DEADLOCK FALSE
