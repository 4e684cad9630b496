CONSTANTS
    a = a
    b = b
    css = css
    Modules <- MCModules
    Sheets <- MCSheets
    Names = {}
    NoExports = {none}
    Shapes <- MCShapes
    MaxTime = 2
    MaxStamp = 2
SPECIFICATION Spec
INVARIANTS TypeOK EdgesAgree
PROPERTIES PruneExact InvalidatedOnce ChainStamped SheetsFollow InvalidationStampsGrow
CHECK_DEADLOCK FALSE
