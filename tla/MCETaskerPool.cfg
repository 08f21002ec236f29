SPECIFICATION Spec
CONSTANTS
    Threads = {t1, t2, t3}
    Tasks = {k1, k2, k3}
    ThrowingTasks = {k1}
    NoTask = NoTask
    NoThread = NoThread
    Timer = Timer
    OwnerThread = OwnerThread
    WordSize = 8
    ThreadLimit = 2
    InitialTimeout = 5
    TimeoutValues = {5}
    FixedValues = {TRUE, FALSE}
    AttributesMayFail = TRUE
    TimerStarts = {"boot", "dead"}
    MayDestroy = FALSE
    TeardownTimeout = 0
    MaxTime = 1
SYMMETRY Interchangeable
INVARIANTS TypeOK TaskRunsOnce
PROPERTY ImplementsPool
CHECK_DEADLOCK FALSE
