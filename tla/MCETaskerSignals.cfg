SPECIFICATION Spec
CONSTANTS
    Threads = {t1, t2}
    Tasks = {k1, k2, k3}
    ThrowingTasks = {}
    NoTask = NoTask
    NoThread = NoThread
    Timer = Timer
    OwnerThread = OwnerThread
    WordSize = 8
    ThreadLimit = 2
    InitialTimeout = 0
    TimeoutValues = {}
    FixedValues = {FALSE}
    AttributesMayFail = TRUE
    TimerStarts = {"boot"}
    MayDestroy = TRUE
    TeardownTimeout = 0
    MaxTime = 0
SYMMETRY Interchangeable
INVARIANTS WorkersCounted NoDanglingHandler ExitHookRan ExitHookAtMostTwice DestroyedWithoutWorkers
CHECK_DEADLOCK FALSE
