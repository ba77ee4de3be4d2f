CONSTANTS
    Threads = {loop}
    LoopThread = loop
    Addr <- MCAddr
    RunAtTimes = {}
    Delays = {4}
    Intervals = {8}
    MicroSecondsPerSecond = 4
    MinDelay = 1
    Epoch = 4
    MaxTimers = 1
    MaxClock = 6
    MaxFunctors = 0
SPECIFICATION Spec
CHECK_DEADLOCK FALSE
INVARIANT
    BoundIsAfterNow
