SPECIFICATION Spec
CONSTANTS
    b1 = b1
    b2 = b2
    f1 = f1
    f2 = f2
    v1 = v1
    v2 = v2
    Buf = {b1, b2}
    Functor = {f1, f2}
    NSlot = 2
    Val = {v1, v2}
    Unsafe = {"reuse", "soleOwner", "otherThread"}
SYMMETRY Symmetry
INVARIANTS TypeOK ShadowsKept UserMemoryKept TablesClean
PROPERTIES OneMemory
CHECK_DEADLOCK FALSE
