CONSTANTS
    f1 = f1
    f2 = f2
    Tasks <- MCTasks
SPECIFICATION FairSpec
CHECK_DEADLOCK FALSE
INVARIANTS
    PublishedLoopExists
    ThreadEndsBeforeObject
PROPERTIES
    StartloopReturns
    RunningLoopIsJoined
