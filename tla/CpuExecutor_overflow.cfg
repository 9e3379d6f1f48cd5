SPECIFICATION AtomicSpec
CONSTANTS
    NThread = 3
    Cols = 6
    Rows = 1
    TileSize = 1
    Barriers = 0
    Wrap = 16
    Cell <- MCCell
    CellType <- MCCellType
    NoCall = NoCall
    Kernels <- MCNoCalls
INVARIANTS AllRanOnReturn
CHECK_DEADLOCK FALSE
