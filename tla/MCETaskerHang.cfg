SPECIFICATION FairSpec
CONSTANTS
    Threads = {t1, t2}
    Tasks = {k1}
    ThrowingTasks = {}
    NoTask = NoTask
    NoThread = NoThread
    Timer = Timer
    OwnerThread = OwnerThread
    WordSize = 8
    ThreadLimit = 7
    InitialTimeout = 5
    TimeoutValues = {}
    FixedValues = {FALSE}
    AttributesMayFail = FALSE
    TimerStarts = {"boot"}
    MayDestroy = TRUE
    TeardownTimeout = 1
    MaxTime = 0
PROPERTY DestroyEnds
CHECK_DEADLOCK FALSE
