CONSTANTS
    c1 = c1
    u1 = u1
    Conns <- MCConns
    Users <- MCUsers
    IoLoops <- MCIoLoops
    ThreadNums = {1}
    MaxSends = 1
    Overflows = {}
    KInitEventListSize = 16
SPECIFICATION UsersSpec
CHECK_DEADLOCK FALSE
INVARIANT ErasedOnce
