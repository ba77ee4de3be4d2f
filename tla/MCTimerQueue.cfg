CONSTANTS
    Threads = {loop, other}
    LoopThread = loop
    Addr <- MCAddr
    RunAtTimes = {0, 6}
    Delays = {}
    Intervals = {}
    MicroSecondsPerSecond = 2
    MinDelay = 1
    Epoch = 4
    MaxTimers = 3
    MaxClock = 2
    MaxFunctors = 1
SPECIFICATION Spec
CHECK_DEADLOCK FALSE
INVARIANTS
    TypeOK
    SetsAgree
    IdNamesItsTimer
    CancelledIsGone
    AlarmForFirst
