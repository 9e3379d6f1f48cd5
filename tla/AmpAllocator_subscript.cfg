SPECIFICATION Spec
CONSTANTS
    u = u
    a = a
    c1 = c1
    c2 = c2
    v1 = v1
    v2 = v2
    Buf = {u, a}
    SrcBuf = {u}
    DevBuf = {u, a}
    Cell = {c1}
    Val = {v1, v2}
    MaxRef = 2
    InOrderQueue = TRUE
    Clients = {{"arraySubscript"}}
SYMMETRY Symmetry
PROPERTIES StoreIsRead
