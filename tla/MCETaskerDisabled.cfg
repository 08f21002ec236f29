SPECIFICATION Spec
CONSTANTS
    Threads = {t1, t2}
    Tasks = {k1}
    ThrowingTasks = {}
    NoTask = NoTask
    NoThread = NoThread
    Timer = Timer
    OwnerThread = OwnerThread
    WordSize = 8
    ThreadLimit = 7
    InitialTimeout = 5
    TimeoutValues = {7}
    FixedValues = {FALSE}
    AttributesMayFail = FALSE
    TimerStarts = {"boot"}
    MayDestroy = FALSE
    TeardownTimeout = 0
    MaxTime = 2
INVARIANT DisabledTimeoutHolds
CHECK_DEADLOCK FALSE
