CONSTANTS
    rollSize_ = 2
    flushInterval_ = 0
    checkEveryN_ = 2
    kpollpersecond = 2
    KLargeBuffer = 3
    Null = Null
    MaxLines = 6
    MaxSeconds = 3
    MaxErrors = 2
SPECIFICATION FairSpec
CHECK_DEADLOCK FALSE
INVARIANTS
    TypeOK
    LinesInOrder
    WrittenWhenIdle
    BackExists
PROPERTY
    StopReturns
