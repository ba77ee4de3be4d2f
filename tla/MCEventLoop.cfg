CONSTANTS
    th1 = th1
    th2 = th2
    f1 = f1
    f2 = f2
    f3 = f3
    Threads <- MCThreads
    Tasks <- MCTasks
SPECIFICATION FairSpec
INVARIANTS
    TypeOK
    NoSleepOnWork
    NoEmptyRead
    RunInOrder
PROPERTIES
    ImplementsExecutor
    EventuallyRun
    QuitEndsLoop
