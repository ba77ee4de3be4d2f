CONSTANTS
    c1 = c1
    c2 = c2
    Conns <- MCTwo
    IoLoops <- MCIoLoops
    ThreadNums = {0, 1}
    MaxSends = 1
    Overflows = {}
    KInitEventListSize = 2
SPECIFICATION Spec
CHECK_DEADLOCK FALSE
SYMMETRY Symmetry
INVARIANTS
    TypeOK
    ErasedOnce
    CtlNeverRefused
    WatchedIsAlive
    CallbackOrder
