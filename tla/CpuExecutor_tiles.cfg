SPECIFICATION AtomicSpec
CONSTANTS
    NThread = 3
    Cols = 2
    Rows = 2
    TileSize = 3
    Barriers = 2
    Wrap = 16
    Cell <- MCCell
    CellType <- MCCellType
    NoCall = NoCall
    Kernels <- MCKernels
INVARIANTS TypeOK RingInStep UpdatesKept OwnPlace
PROPERTIES BarriersHold
CHECK_DEADLOCK FALSE
