SPECIFICATION Spec
CONSTANTS
    b1 = b1
    b2 = b2
    f1 = f1
    f2 = f2
    v1 = v1
    v2 = v2
    Buf = {b1}
    Functor = {f1}
    NSlot = 2
    Val = {v1, v2}
    Unsafe = {"reuse"}
PROPERTIES ReadsCurrent
