SPECIFICATION Spec
CONSTANTS
    c1 = c1
    c2 = c2
    o1 = o1
    f1 = f1
    None = None
    Obj = {c1, c2}
    Op = {o1}
    Fun = {f1}
    NThread = 2
INVARIANTS TypeOK NoFault OneOwner
PROPERTIES Ends
CHECK_DEADLOCK FALSE
