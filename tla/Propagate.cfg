CONSTANTS
    a = a
    b = b
    c = c
    Modules <- MCModules
    Rank <- MCRank
    Edges <- MCEdges
    Sheets <- MCSheets
    Names = {x}
    NoExports = {none}
    EdgeKinds = {"none", "plain", "accepts", "gated"}
    NodeKinds = {"plain", "self", "partial"}
SPECIFICATION Spec
INVARIANTS TypeOK WalkExact CircularFlag TargetsStamped UnstampedPastAccepting
PROPERTIES Terminates
CHECK_DEADLOCK FALSE
