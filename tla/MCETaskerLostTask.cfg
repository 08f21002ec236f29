SPECIFICATION FairSpec
CONSTANTS
    Threads = {t1, t2}
    Tasks = {k1, k2}
    ThrowingTasks = {}
    NoTask = NoTask
    NoThread = NoThread
    Timer = Timer
    OwnerThread = OwnerThread
    WordSize = 8
    ThreadLimit = 1
    InitialTimeout = 5
    TimeoutValues = {}
    FixedValues = {FALSE}
    AttributesMayFail = FALSE
    TimerStarts = {"boot"}
    MayDestroy = FALSE
    TeardownTimeout = 0
    MaxTime = 0
PROPERTY EveryTaskStarts
CHECK_DEADLOCK FALSE
