SPECIFICATION MCSpec
CONSTANTS
    TimerCallers = {c1, c2}
    TimerFds = {3}
    TimerTimeouts = {0, 1}
    MaxConnections = 2
    TimerHorizon = 1
    PtrThreads = {t1, t2}
    Slots = {1, 2}
    MaxControls = 2
    MaxObjects = 1
    MaxCount = 3
    WatchPaths = {1, 2}
    Watchers = {1, 2}
    PathsOf <- MCPathsOf
    MaxStarts = 2
    MaxEvents = 1
    FileWriters = {1, 2}
    Buffers <- MCBuffers
    MaxWrites = 3
    Limit = 2
    ClockBound = 4
    ChildCodes = {0, 177}
INVARIANTS
    EveryConnectionListed
    OwnedExactly
    HandledBeforeFreed
    UndisturbedWriteStays
    ExitCodeIsTrue
PROPERTIES
    DueConnectionsClosed EventsAreRead WritesEnd ETimeoutEnds
CHECK_DEADLOCK FALSE
