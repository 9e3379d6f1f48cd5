SPECIFICATION Spec
CONSTANTS
    b1 = b1
    b2 = b2
    Block = {b1, b2}
    Garbage = {1}
    Unset = {b1}
    Kernel <- Kernels
INVARIANTS TypeOK HeldIsLive OwnAnswer NothingLeaks PendingKeepsAwake
PROPERTIES Finishes
CHECK_DEADLOCK FALSE
