SPECIFICATION Spec
CONSTANTS
    h1 = h1
    h2 = h2
    Host = {h1, h2}
    NLaunch = 3
    QSize = 2
INVARIANTS TypeOK ArgumentsHeld
PROPERTIES KernelsInOrder AllReported
CHECK_DEADLOCK FALSE
