CONSTANTS
    c1 = c1
    c2 = c2
    Conns <- MCOne
    IoLoops <- MCIoLoops
    ThreadNums = {0, 1}
    MaxSends = 3
    Overflows = {"inputBuffer_", "outputBuffer_"}
    KInitEventListSize = 16
SPECIFICATION FairSpec
CHECK_DEADLOCK FALSE
PROPERTIES
    PeerCloseCleansUp
    DestructorEnds
INVARIANTS
    FinWhenDrained
    NothingLost
