SPECIFICATION Spec
CONSTANTS
    Depth = 3
    Leaves = {a, b}
    Empty = Empty
INVARIANTS FrontierIsTree PathsProveMembership PathReplacesLeaf
CHECK_DEADLOCK FALSE
