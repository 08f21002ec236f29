SPECIFICATION FairSpec
CONSTANTS
    Threads = {t1, t2}
    Tasks = {k1, k2, k3}
    ThrowingTasks = {k1, k2}
    NoTask = NoTask
    NoThread = NoThread
    Timer = Timer
    OwnerThread = OwnerThread
    WordSize = 8
    ThreadLimit = 2
    InitialTimeout = 5
    TimeoutValues = {}
    FixedValues = {TRUE}
    AttributesMayFail = FALSE
    TimerStarts = {"boot"}
    MayDestroy = FALSE
    TeardownTimeout = 0
    MaxTime = 0
PROPERTY EveryTaskStarts
