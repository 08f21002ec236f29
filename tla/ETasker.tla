------------------------------- MODULE ETasker -------------------------------
(***************************************************************************)
(* The thread pool of lib/threads/etasker.{h,cpp}: run() hands a task to a *)
(* new thread or queues it; a worker runs its task, tears itself down or   *)
(* takes the next queued task; a timer thread sends SIGTERM to workers     *)
(* past their deadline; the destructor sends SIGTERM to everyone and polls *)
(* until the workers are gone.                                             *)
(*                                                                         *)
(* Grain of atomicity.  A signal handler may start between any two         *)
(* instructions of its thread, so each critical section that a signal can  *)
(* interrupt is two steps: one takes the mutex, the next does the work and *)
(* releases it.  run() and the destructor execute in the owner's thread,   *)
(* which is never registered for signals; their sections are single steps, *)
(* and so are the two a worker executes before it is in thread_pool (only  *)
(* threads in thread_pool are signalled).                                  *)
(***************************************************************************)
EXTENDS Integers, Sequences, FiniteSets

CONSTANTS
    Threads,          \* pthread_t values the kernel can hand out
    Tasks,            \* the tasks the owner may pass to run(), each once
    ThrowingTasks,    \* the tasks whose run() may throw a std::exception
    NoTask,           \* a null ESharedPtr<ETask>
    NoThread,         \* owner of a free mutex
    Timer,            \* the timer thread
    OwnerThread,      \* the thread that calls run() and the destructor
    WordSize,         \* 2^64 in the code: uint64_t arithmetic is modulo it
    ThreadLimit,      \* thread_limit
    InitialTimeout,   \* initial_timeout_s
    TimeoutValues,    \* what tasks pass to setThreadTimeout
    FixedValues,      \* outcomes of the uninitialised member `fixed`
    AttributesMayFail, \* whether setThreadAttributes may throw
    TimerStarts,      \* outcomes of starting the timer, see Init
    MayDestroy,       \* whether the owner ever destroys the tasker
    TeardownTimeout,  \* teardown_timeout_s, 7 in the code
    MaxTime           \* bound: the last second of the modelled clock

(* thread_limit == SIZE_MAX means "no limit". *)
SIZE_MAX == WordSize - 1

ASSUME ConstantsAssumption ==
    /\ IsFiniteSet(Threads)
    /\ NoTask \notin Tasks
    /\ NoThread \notin Threads /\ Timer \notin Threads /\ Timer # NoThread
    /\ OwnerThread \notin Threads \union {Timer, NoThread}
    /\ WordSize \in Nat \ {0}
    /\ ThreadLimit \in 0..SIZE_MAX
    /\ InitialTimeout \in 0..SIZE_MAX
    /\ TimeoutValues \subseteq 0..SIZE_MAX
    /\ FixedValues \subseteq BOOLEAN
    /\ AttributesMayFail \in BOOLEAN /\ MayDestroy \in BOOLEAN
    /\ TimerStarts \subseteq {"boot", "dead"}
    /\ TeardownTimeout \in Nat
    /\ MaxTime \in Nat

VARIABLES
    fixed,              \* this->fixed, never assigned by the constructor
    mutex,              \* owner of this->mutex
    sig_mutex,          \* owner of thread_specific_sig_handler_mutex
    num_threads,
    thread_pool_queue,
    thread_pool,        \* the keys of the map thread_pool
    task,               \* ThreadArg::task, then thread_pool[t].task
    start_time,         \* thread_pool[t].start_time
    timeout_s,          \* thread_pool[t].timeout_s
    sig_handlers,       \* the keys of thread_specific_sig_handlers
    pc,                 \* where each worker thread is
    force,              \* parameter of the worker's innermost threadTeardown
    frame,              \* what the worker's SIGTERM handler interrupted
    pending,            \* threads with a pending SIGTERM
    masked,             \* workers with SIGTERM blocked
    timer,              \* where the timer thread is
    dtor,               \* where the owner is in ~ETasker
    polls,              \* teardown_timeout_s
    submitted,          \* tasks passed to run()
    runs,               \* per task, how often initialize()/run() was entered
    exits,              \* per task, how often onExit() was entered
    now,                \* CLOCK_MONOTONIC, in seconds
    aborted             \* std::terminate was called

poolVars == <<num_threads, thread_pool_queue, thread_pool, task>>
timeVars == <<start_time, timeout_s, now>>
sigVars  == <<sig_handlers, pending, masked>>
taskVars == <<submitted, runs, exits>>
ownerVars == <<dtor, polls>>
vars == <<fixed, mutex, sig_mutex, poolVars, timeVars, sigVars, taskVars,
          ownerVars, pc, force, frame, timer, aborted>>

(***************************************************************************)
(* Worker locations.  top: in threadContext, outside its try block.  loop: *)
(* at the head of processThread.  td1..td4: the four lock operations of    *)
(* threadTeardown; a name ending in cs holds the lock.                     *)
(***************************************************************************)
MutexSections == {"qcs", "setcs", "td1cs", "td2cs"}
TeardownPCs == {"td1", "td1cs", "onexit", "td2", "td2cs", "td3", "td3cs"}
WorkerPCs == {"idle", "created", "enroll", "top", "loop", "qwait", "run",
              "set", "td4"} \union MutexSections \union TeardownPCs
TimerPCs == {"boot", "reg", "sleep", "scan", "stop", "dead"}
OwnerPCs == {"alive", "lock", "poll", "destroyed", "failed"}

NoFrame == [at |-> "none", force |-> FALSE]
Frames == [at : WorkerPCs \union {"none"}, force : BOOLEAN]

Live == {t \in Threads : pc[t] # "idle"}

(* The constructor ignores the result of pthread_create for the timer,     *)
(* which asks for real-time scheduling: without the privilege there is no  *)
(* timer ("dead").                                                         *)
Init ==
    /\ fixed \in FixedValues
    /\ mutex = NoThread /\ sig_mutex = NoThread
    /\ num_threads = 0
    /\ thread_pool_queue = <<>>
    /\ thread_pool = {}
    /\ task = [t \in Threads |-> NoTask]
    /\ start_time = [t \in Threads |-> 0]
    /\ timeout_s = [t \in Threads |-> 0]
    /\ sig_handlers = {}
    /\ pc = [t \in Threads |-> "idle"]
    /\ force = [t \in Threads |-> FALSE]
    /\ frame = [t \in Threads |-> NoFrame]
    /\ pending = {} /\ masked = {}
    /\ timer \in TimerStarts
    /\ dtor = "alive" /\ polls = TeardownTimeout
    /\ submitted = {}
    /\ runs = [k \in Tasks |-> 0]
    /\ exits = [k \in Tasks |-> 0]
    /\ now = 0
    /\ aborted = FALSE

-----------------------------------------------------------------------------
(* Where a thread of a process that has not been terminated is. *)

At(t, p) == ~aborted /\ pc[t] = p
TimerAt(p) == ~aborted /\ timer = p
OwnerAt(p) == ~aborted /\ dtor = p

-----------------------------------------------------------------------------
(* The owner: run(). *)

(* Mutation: thread_limit + 1 threads. *)
LimitReachedOffByOne == ThreadLimit # SIZE_MAX /\ num_threads > ThreadLimit

LimitReached == ThreadLimit # SIZE_MAX /\ num_threads >= ThreadLimit

CanSubmit(k) == OwnerAt("alive") /\ mutex = NoThread /\ k \in Tasks \ submitted

RunQueues(k) ==
    /\ CanSubmit(k) /\ LimitReached
    /\ thread_pool_queue' = Append(thread_pool_queue, k)
    /\ submitted' = submitted \union {k}
    /\ UNCHANGED <<fixed, mutex, sig_mutex, num_threads, thread_pool, task,
                   timeVars, sigVars, runs, exits, ownerVars, pc, force,
                   frame, timer, aborted>>

(* Mutation: num_threads++ is missing. *)
RunCreatesUncounted(k, t) ==
    /\ CanSubmit(k) /\ ~LimitReached
    /\ pc[t] = "idle"
    /\ pc' = [pc EXCEPT ![t] = "created"]
    /\ task' = [task EXCEPT ![t] = k]
    /\ submitted' = submitted \union {k}
    /\ UNCHANGED <<fixed, mutex, sig_mutex, num_threads, thread_pool_queue,
                   thread_pool, timeVars, sigVars, runs, exits, ownerVars,
                   force, frame, timer, aborted>>

(* taskRun: pthread_create succeeds and the new thread is t. *)
RunCreates(k, t) ==
    /\ CanSubmit(k) /\ ~LimitReached
    /\ pc[t] = "idle"
    /\ pc' = [pc EXCEPT ![t] = "created"]
    /\ task' = [task EXCEPT ![t] = k]
    /\ num_threads' = num_threads + 1
    /\ submitted' = submitted \union {k}
    /\ UNCHANGED <<fixed, mutex, sig_mutex, thread_pool_queue, thread_pool,
                   timeVars, sigVars, runs, exits, ownerVars, force, frame,
                   timer, aborted>>

(* Mutation: num_threads++ although pthread_create failed. *)
RunFailsCounted(k) ==
    /\ CanSubmit(k) /\ ~LimitReached
    /\ num_threads' = num_threads + 1
    /\ submitted' = submitted \union {k}
    /\ UNCHANGED <<fixed, mutex, sig_mutex, thread_pool_queue, thread_pool,
                   task, timeVars, sigVars, runs, exits, ownerVars, pc, force,
                   frame, timer, aborted>>

(* taskRun: pthread_create fails; run() returns its error, the task is     *)
(* kept nowhere.                                                           *)
RunFails(k) ==
    /\ CanSubmit(k) /\ ~LimitReached
    /\ submitted' = submitted \union {k}
    /\ UNCHANGED <<fixed, mutex, sig_mutex, poolVars, timeVars, sigVars, runs,
                   exits, ownerVars, pc, force, frame, timer, aborted>>

(* taskRun: setThreadAttributes throws (a stack size pthreads rejects).    *)
(* The exception leaves run(), which never unlocks.                        *)
RunThrowsLocked(k) ==
    /\ AttributesMayFail /\ CanSubmit(k) /\ ~LimitReached
    /\ mutex' = OwnerThread
    /\ submitted' = submitted \union {k}
    /\ UNCHANGED <<fixed, sig_mutex, poolVars, timeVars, sigVars, runs, exits,
                   ownerVars, pc, force, frame, timer, aborted>>

-----------------------------------------------------------------------------
(* A worker: threadContext and processThread. *)

Goto(t, p) == pc' = [pc EXCEPT ![t] = p]

RegisterHandler(t) ==
    /\ At(t, "created") /\ sig_mutex = NoThread
    /\ sig_handlers' = sig_handlers \union {t}
    /\ Goto(t, "enroll")
    /\ UNCHANGED <<fixed, mutex, sig_mutex, poolVars, timeVars, pending,
                   masked, taskVars, ownerVars, force, frame, timer, aborted>>

Enroll(t) ==
    /\ At(t, "enroll") /\ mutex = NoThread
    /\ thread_pool' = thread_pool \union {t}
    /\ start_time' = [start_time EXCEPT ![t] = now]
    /\ timeout_s' = [timeout_s EXCEPT ![t] = InitialTimeout]
    /\ Goto(t, "top")
    /\ UNCHANGED <<fixed, mutex, sig_mutex, num_threads, thread_pool_queue,
                   task, now, sigVars, taskVars, ownerVars, force, frame,
                   timer, aborted>>

EnterTry(t) ==
    /\ At(t, "top")
    /\ Goto(t, "loop")
    /\ UNCHANGED <<fixed, mutex, sig_mutex, poolVars, timeVars, sigVars,
                   taskVars, ownerVars, force, frame, timer, aborted>>

(* Mutation: the busy wait ends at two queued tasks. *)
SeeQueueOffByOne(t) ==
    /\ At(t, "loop") /\ task[t] = NoTask
    /\ Len(thread_pool_queue) > 1
    /\ Goto(t, "qwait")
    /\ UNCHANGED <<fixed, mutex, sig_mutex, poolVars, timeVars, sigVars,
                   taskVars, ownerVars, force, frame, timer, aborted>>

(* The unlocked read of thread_pool_queue.size() that ends the busy wait.  *)
SeeQueue(t) ==
    /\ At(t, "loop") /\ task[t] = NoTask
    /\ thread_pool_queue # <<>>
    /\ Goto(t, "qwait")
    /\ UNCHANGED <<fixed, mutex, sig_mutex, poolVars, timeVars, sigVars,
                   taskVars, ownerVars, force, frame, timer, aborted>>

(* What a worker holds after it took the mutex at a waiting location.      *)
Section(p) == CASE p = "qwait" -> "qcs"
                [] p = "set"   -> "setcs"
                [] p = "td1"   -> "td1cs"
                [] OTHER       -> "td2cs"

LockMutex(t) ==
    /\ ~aborted /\ pc[t] \in {"qwait", "set", "td1", "td2"}
    /\ mutex = NoThread
    /\ mutex' = t
    /\ Goto(t, Section(pc[t]))
    /\ UNCHANGED <<fixed, sig_mutex, poolVars, timeVars, sigVars, taskVars,
                   ownerVars, force, frame, timer, aborted>>

(* Mutation: pop_front is missing. *)
TakeQueuedNoPop(t) ==
    /\ At(t, "qcs")
    /\ task' = [task EXCEPT ![t] = IF thread_pool_queue # <<>>
                                   THEN Head(thread_pool_queue) ELSE @]
    /\ mutex' = NoThread
    /\ Goto(t, "loop")
    /\ UNCHANGED <<fixed, sig_mutex, num_threads, thread_pool_queue,
                   thread_pool, timeVars, sigVars, taskVars, ownerVars, force,
                   frame, timer, aborted>>

(* The queue is looked at again under the mutex: another worker may have   *)
(* emptied it since SeeQueue.                                              *)
TakeQueued(t) ==
    /\ At(t, "qcs")
    /\ IF thread_pool_queue # <<>>
       THEN /\ task' = [task EXCEPT ![t] = Head(thread_pool_queue)]
            /\ thread_pool_queue' = Tail(thread_pool_queue)
       ELSE UNCHANGED <<task, thread_pool_queue>>
    /\ mutex' = NoThread
    /\ Goto(t, "loop")
    /\ UNCHANGED <<fixed, sig_mutex, num_threads, thread_pool, timeVars,
                   sigVars, taskVars, ownerVars, force, frame, timer, aborted>>

(* initialize() and run() are entered. *)
BeginTask(t) ==
    /\ At(t, "loop") /\ task[t] # NoTask
    /\ runs' = [runs EXCEPT ![task[t]] = @ + 1]
    /\ Goto(t, "run")
    /\ UNCHANGED <<fixed, mutex, sig_mutex, poolVars, timeVars, sigVars,
                   submitted, exits, ownerVars, force, frame, timer, aborted>>

(* The task calls setThreadTimeout. *)
CallSetTimeout(t) ==
    /\ At(t, "run") /\ TimeoutValues # {}
    /\ Goto(t, "set")
    /\ UNCHANGED <<fixed, mutex, sig_mutex, poolVars, timeVars, sigVars,
                   taskVars, ownerVars, force, frame, timer, aborted>>

setThreadTimeout(t, ts) ==
    /\ At(t, "setcs")
    /\ timeout_s' = [timeout_s EXCEPT ![t] = ts]
    /\ mutex' = NoThread
    /\ Goto(t, "run")
    /\ UNCHANGED <<fixed, sig_mutex, poolVars, start_time, now, sigVars,
                   taskVars, ownerVars, force, frame, timer, aborted>>

(* run() returns: a fixed pool clears the task and loops, any other tears  *)
(* the thread down.                                                        *)
RunReturns(t) ==
    /\ At(t, "run")
    /\ IF fixed
       THEN task' = [task EXCEPT ![t] = NoTask] /\ Goto(t, "top")
       ELSE UNCHANGED task /\ Goto(t, "td1")
    /\ force' = [force EXCEPT ![t] = FALSE]
    /\ UNCHANGED <<fixed, mutex, sig_mutex, num_threads, thread_pool_queue,
                   thread_pool, timeVars, sigVars, taskVars, ownerVars, frame,
                   timer, aborted>>

(* run() throws: threadContext catches it and calls threadTeardown(true),  *)
(* which is outside the try block.                                         *)
RunThrows(t) ==
    /\ At(t, "run") /\ task[t] \in ThrowingTasks
    /\ Goto(t, "td1")
    /\ force' = [force EXCEPT ![t] = TRUE]
    /\ UNCHANGED <<fixed, mutex, sig_mutex, poolVars, timeVars, sigVars,
                   taskVars, ownerVars, frame, timer, aborted>>

-----------------------------------------------------------------------------
(* threadTeardown(force). *)

(* Mutation: the teardown of the SIGTERM handler skips onExit. *)
CopyThreadSignalSkips(t) ==
    /\ At(t, "td1cs")
    /\ mutex' = NoThread
    /\ IF task[t] # NoTask /\ t \notin masked
       THEN exits' = [exits EXCEPT ![task[t]] = @ + 1] /\ Goto(t, "onexit")
       ELSE UNCHANGED exits /\ Goto(t, "td2")
    /\ UNCHANGED <<fixed, sig_mutex, poolVars, timeVars, sigVars, submitted,
                   runs, ownerVars, force, frame, timer, aborted>>

(* Copies the EThread, unlocks, and enters onExit unless the task is null. *)
CopyThread(t) ==
    /\ At(t, "td1cs")
    /\ mutex' = NoThread
    /\ IF task[t] # NoTask
       THEN exits' = [exits EXCEPT ![task[t]] = @ + 1] /\ Goto(t, "onexit")
       ELSE UNCHANGED exits /\ Goto(t, "td2")
    /\ UNCHANGED <<fixed, sig_mutex, poolVars, timeVars, sigVars, submitted,
                   runs, ownerVars, force, frame, timer, aborted>>

(* onExit returns, or throws into the catch of threadTeardown. *)
OnExitEnds(t) ==
    /\ At(t, "onexit")
    /\ Goto(t, "td2")
    /\ UNCHANGED <<fixed, mutex, sig_mutex, poolVars, timeVars, sigVars,
                   taskVars, ownerVars, force, frame, timer, aborted>>

MustReuse(t) ==
    ThreadLimit # SIZE_MAX /\ thread_pool_queue # <<>> /\ ~force[t]

(***************************************************************************)
(* Where an ETaskerUnWind is caught.  It is a std::exception, so the catch *)
(* around onExit stops it there, and the code of a task may stop it in     *)
(* run().  Outside any try block it ends the process.                      *)
(***************************************************************************)
Uncaught(f) == f.at = "top" \/ (f.at \in TeardownPCs \ {"onexit"} /\ f.force)
CatchPoints(f) == CASE f.at = "onexit" -> {"td2"}
                    [] f.at = "run"    -> {"top", "run"}
                    [] OTHER           -> {"top"}

(* The queue is not empty: drop the task, unlock, throw ETaskerUnWind. *)
Unwind(t) ==
    /\ At(t, "td2cs") /\ MustReuse(t)
    /\ task' = [task EXCEPT ![t] = NoTask]
    /\ mutex' = NoThread
    /\ \E p \in CatchPoints(frame[t]) : Goto(t, p)
    /\ force' = [force EXCEPT ![t] = frame[t].force]
    /\ frame' = [frame EXCEPT ![t] = NoFrame]
    /\ aborted' = Uncaught(frame[t])
    /\ UNCHANGED <<fixed, sig_mutex, num_threads, thread_pool_queue,
                   thread_pool, timeVars, sigVars, taskVars, ownerVars, timer>>

(* The queue is empty, or force: unlock and go on with the teardown. *)
KeepTearingDown(t) ==
    /\ At(t, "td2cs") /\ ~MustReuse(t)
    /\ mutex' = NoThread
    /\ Goto(t, "td3")
    /\ UNCHANGED <<fixed, sig_mutex, poolVars, timeVars, sigVars, taskVars,
                   ownerVars, force, frame, timer, aborted>>

LockHandlers(t) ==
    /\ At(t, "td3") /\ sig_mutex = NoThread
    /\ sig_mutex' = t
    /\ Goto(t, "td3cs")
    /\ UNCHANGED <<fixed, mutex, poolVars, timeVars, sigVars, taskVars,
                   ownerVars, force, frame, timer, aborted>>

(* Mutation: the registration is not erased. *)
EraseHandlerForgets(t) ==
    /\ At(t, "td3cs")
    /\ sig_mutex' = NoThread
    /\ Goto(t, "td4")
    /\ UNCHANGED <<fixed, mutex, poolVars, timeVars, sigVars, taskVars,
                   ownerVars, force, frame, timer, aborted>>

EraseHandler(t) ==
    /\ At(t, "td3cs")
    /\ sig_handlers' = sig_handlers \ {t}
    /\ sig_mutex' = NoThread
    /\ Goto(t, "td4")
    /\ UNCHANGED <<fixed, mutex, poolVars, timeVars, pending, masked, taskVars,
                   ownerVars, force, frame, timer, aborted>>

(* The last critical section and pthread_exit; t may be handed out again.  *)
(* One step: the thread has no handler any more, SIGTERM does nothing.     *)
ExitThread(t) ==
    /\ At(t, "td4") /\ mutex = NoThread
    /\ thread_pool' = thread_pool \ {t}
    /\ num_threads' = num_threads - 1
    /\ task' = [task EXCEPT ![t] = NoTask]
    /\ Goto(t, "idle")
    /\ pending' = pending \ {t} /\ masked' = masked \ {t}
    /\ frame' = [frame EXCEPT ![t] = NoFrame]
    /\ force' = [force EXCEPT ![t] = FALSE]
    /\ start_time' = [start_time EXCEPT ![t] = 0]
    /\ timeout_s' = [timeout_s EXCEPT ![t] = 0]
    /\ UNCHANGED <<fixed, mutex, sig_mutex, thread_pool_queue, now,
                   sig_handlers, taskVars, ownerVars, timer, aborted>>

-----------------------------------------------------------------------------
(* Mutation: SIGTERM is not blocked while its handler runs. *)
threadSigActionNoDefer(t) ==
    /\ ~aborted /\ t \in pending
    /\ pc[t] # "idle"
    /\ pending' = pending \ {t}
    /\ IF t \in sig_handlers
       THEN /\ frame' = [frame EXCEPT ![t] = [at |-> pc[t], force |-> force[t]]]
            /\ force' = [force EXCEPT ![t] = FALSE]
            /\ Goto(t, "td1")
       ELSE UNCHANGED <<frame, force, pc>>
    /\ UNCHANGED <<fixed, mutex, sig_mutex, poolVars, timeVars, sig_handlers,
                   masked, taskVars, ownerVars, timer, aborted>>

(***************************************************************************)
(* SIGTERM reaches worker t.  The application's handler (http_test/        *)
(* main.cpp) calls threadSigAction, hence threadTeardown(false), when t is *)
(* registered and returns otherwise.  The handler runs with SIGTERM        *)
(* blocked; it never returns from threadTeardown, so nothing unblocks it.  *)
(***************************************************************************)
threadSigAction(t) ==
    /\ ~aborted /\ t \in pending \ masked
    /\ pc[t] # "idle"
    /\ pending' = pending \ {t}
    /\ IF t \in sig_handlers
       THEN /\ masked' = masked \union {t}
            /\ frame' = [frame EXCEPT ![t] = [at |-> pc[t], force |-> force[t]]]
            /\ force' = [force EXCEPT ![t] = FALSE]
            /\ Goto(t, "td1")
       ELSE UNCHANGED <<masked, frame, force, pc>>
    /\ UNCHANGED <<fixed, mutex, sig_mutex, poolVars, timeVars, sig_handlers,
                   taskVars, ownerVars, timer, aborted>>

-----------------------------------------------------------------------------
(* The timer thread: timerProcess. *)

TimerRegisters ==
    /\ TimerAt("boot") /\ sig_mutex = NoThread
    /\ sig_mutex' = Timer
    /\ sig_handlers' = sig_handlers \union {Timer}
    /\ timer' = "reg"
    /\ UNCHANGED <<fixed, mutex, poolVars, timeVars, pending, masked, taskVars,
                   ownerVars, pc, force, frame, aborted>>

TimerRegistered ==
    /\ TimerAt("reg")
    /\ sig_mutex' = NoThread
    /\ timer' = "sleep"
    /\ UNCHANGED <<fixed, mutex, poolVars, timeVars, sigVars, taskVars,
                   ownerVars, pc, force, frame, aborted>>

TimerWakes ==
    /\ TimerAt("sleep") /\ mutex = NoThread
    /\ mutex' = Timer
    /\ timer' = "scan"
    /\ UNCHANGED <<fixed, sig_mutex, poolVars, timeVars, sigVars, taskVars,
                   ownerVars, pc, force, frame, aborted>>

(* uint64_t: start_time + timeout_s wraps. *)
Expired(t) == (start_time[t] + timeout_s[t]) % WordSize <= now

TimerScans ==
    /\ TimerAt("scan")
    /\ pending' = pending \union {t \in thread_pool : Expired(t)}
    /\ mutex' = NoThread
    /\ timer' = "sleep"
    /\ UNCHANGED <<fixed, sig_mutex, poolVars, timeVars, sig_handlers, masked,
                   taskVars, ownerVars, pc, force, frame, aborted>>

(* SIGTERM reaches the timer thread, which may hold either mutex. *)
TimerSigAction ==
    /\ ~aborted /\ Timer \in pending /\ timer \notin {"stop", "dead"}
    /\ pending' = pending \ {Timer}
    /\ timer' = IF Timer \in sig_handlers THEN "stop" ELSE timer
    /\ UNCHANGED <<fixed, mutex, sig_mutex, poolVars, timeVars, sig_handlers,
                   masked, taskVars, ownerVars, pc, force, frame, aborted>>

(* The timer's handler erases the registration and calls pthread_exit. *)
TimerExits ==
    /\ TimerAt("stop") /\ sig_mutex = NoThread
    /\ sig_handlers' = sig_handlers \ {Timer}
    /\ timer' = "dead"
    /\ UNCHANGED <<fixed, mutex, sig_mutex, poolVars, timeVars, pending,
                   masked, taskVars, ownerVars, pc, force, frame, aborted>>

Tick ==
    /\ ~aborted /\ now < MaxTime
    /\ now' = now + 1
    /\ UNCHANGED <<fixed, mutex, sig_mutex, poolVars, start_time, timeout_s,
                   sigVars, taskVars, ownerVars, pc, force, frame, timer,
                   aborted>>

-----------------------------------------------------------------------------
(* The owner: ~ETasker. *)

DestroySignalsTimer ==
    /\ MayDestroy /\ OwnerAt("alive")
    /\ pending' = pending \union {Timer}
    /\ dtor' = "lock"
    /\ UNCHANGED <<fixed, mutex, sig_mutex, poolVars, timeVars, sig_handlers,
                   masked, taskVars, polls, pc, force, frame, timer, aborted>>

DestroySignalsWorkers ==
    /\ OwnerAt("lock") /\ mutex = NoThread
    /\ pending' = pending \union thread_pool
    /\ dtor' = "poll"
    /\ UNCHANGED <<fixed, mutex, sig_mutex, poolVars, timeVars, sig_handlers,
                   masked, taskVars, polls, pc, force, frame, timer, aborted>>

(* Mutation: off by one. *)
hasThreadsOffByOne == num_threads > 1 \/ Timer \in sig_handlers

hasThreads == num_threads > 0 \/ Timer \in sig_handlers

DestroyPolls ==
    /\ OwnerAt("poll") /\ mutex = NoThread /\ sig_mutex = NoThread
    /\ IF hasThreads
       THEN IF polls > 0 THEN polls' = polls - 1 /\ UNCHANGED dtor
                         ELSE dtor' = "failed" /\ UNCHANGED polls
       ELSE dtor' = "destroyed" /\ UNCHANGED polls
    /\ UNCHANGED <<fixed, mutex, sig_mutex, poolVars, timeVars, sigVars,
                   taskVars, pc, force, frame, timer, aborted>>

-----------------------------------------------------------------------------
Worker(t) ==
    \/ RegisterHandler(t) \/ Enroll(t) \/ EnterTry(t) \/ SeeQueue(t)
    \/ LockMutex(t) \/ TakeQueued(t) \/ BeginTask(t)
    \/ CallSetTimeout(t) \/ (\E ts \in TimeoutValues : setThreadTimeout(t, ts))
    \/ RunReturns(t) \/ RunThrows(t)
    \/ CopyThread(t) \/ OnExitEnds(t) \/ Unwind(t) \/ KeepTearingDown(t)
    \/ LockHandlers(t) \/ EraseHandler(t) \/ ExitThread(t)
    \/ threadSigAction(t)

timerProcess ==
    \/ TimerRegisters \/ TimerRegistered \/ TimerWakes \/ TimerScans
    \/ TimerSigAction \/ TimerExits

Owner ==
    \/ \E k \in Tasks : RunQueues(k) \/ RunFails(k) \/ RunThrowsLocked(k)
                       \/ \E t \in Threads : RunCreates(k, t)
    \/ DestroySignalsTimer \/ DestroySignalsWorkers \/ DestroyPolls

Next ==
    \/ Owner \/ timerProcess \/ Tick
    \/ \E t \in Threads : Worker(t)

Spec == Init /\ [][Next]_vars

(***************************************************************************)
(* Fairness.  Every runnable thread is scheduled; tasks' run() and onExit  *)
(* return.  A mutex that is free again and again is eventually obtained:   *)
(* the timer, the only thread that takes it for ever, sleeps 4 seconds     *)
(* between two scans.  Nothing is assumed of the owner's calls to run(),   *)
(* of CallSetTimeout or of RunThrows; once in ~ETasker the owner goes on.  *)
(***************************************************************************)
Proceeds(t) ==
    \/ RegisterHandler(t) \/ Enroll(t) \/ EnterTry(t) \/ SeeQueue(t)
    \/ LockMutex(t) \/ TakeQueued(t) \/ BeginTask(t)
    \/ \E ts \in TimeoutValues : setThreadTimeout(t, ts)
    \/ CopyThread(t) \/ OnExitEnds(t) \/ Unwind(t) \/ KeepTearingDown(t)
    \/ LockHandlers(t) \/ EraseHandler(t) \/ ExitThread(t)

WorkerFairness(t) ==
    /\ SF_vars(Proceeds(t))
    /\ SF_vars(RunReturns(t))
    /\ WF_vars(threadSigAction(t))

FairSpec ==
    /\ Spec
    /\ \A t \in Threads : WorkerFairness(t)
    /\ SF_vars(timerProcess)
    /\ WF_vars(Tick)
    /\ SF_vars(DestroySignalsWorkers \/ DestroyPolls)

-----------------------------------------------------------------------------
(* Properties. *)

Queued(k) == \E i \in DOMAIN thread_pool_queue : thread_pool_queue[i] = k
Holders(k) == {t \in Threads : task[t] = k}

(* Every variable has the type its declaration in etasker.h gives it, and  *)
(* a lock's owner is a thread that can own it.                             *)
TypeOK ==
    /\ fixed \in BOOLEAN
    /\ mutex \in Threads \union {Timer, OwnerThread, NoThread}
    /\ sig_mutex \in Threads \union {Timer, NoThread}
    /\ num_threads \in Nat
    /\ thread_pool_queue \in Seq(Tasks)
    /\ thread_pool \subseteq Threads
    /\ task \in [Threads -> Tasks \union {NoTask}]
    /\ start_time \in [Threads -> Nat]
    /\ timeout_s \in [Threads -> Nat]
    /\ sig_handlers \subseteq Threads \union {Timer}
    /\ pc \in [Threads -> WorkerPCs]
    /\ force \in [Threads -> BOOLEAN]
    /\ frame \in [Threads -> Frames]
    /\ pending \subseteq Threads \union {Timer}
    /\ masked \subseteq Threads
    /\ timer \in TimerPCs
    /\ dtor \in OwnerPCs
    /\ polls \in Nat
    /\ submitted \subseteq Tasks
    /\ runs \in [Tasks -> Nat]
    /\ exits \in [Tasks -> Nat]
    /\ now \in Nat
    /\ aborted \in BOOLEAN

(* num_threads is the number of threads created and not yet torn down,     *)
(* and never exceeds thread_limit, whatever SIGTERM interrupts: a worker   *)
(* signalled in its own threadTeardown is not counted down twice.          *)
WorkersCounted ==
    /\ num_threads = Cardinality(Live)
    /\ ThreadLimit # SIZE_MAX => num_threads <= ThreadLimit

(* A task is in one place at a time (the queue once, or one thread), its   *)
(* run() is entered at most once, and never before it left the queue.      *)
TaskRunsOnce ==
    /\ \A i, j \in DOMAIN thread_pool_queue :
          thread_pool_queue[i] = thread_pool_queue[j] => i = j
    /\ \A k \in Tasks :
          /\ \A t, u \in Holders(k) : t = u
          /\ Queued(k) => Holders(k) = {} /\ runs[k] = 0
          /\ runs[k] <= 1

(* What the proofs carry from step to step: which locations of a worker go *)
(* with being in the two maps, and that only workers of the pool are       *)
(* signalled.                                                              *)
LifeCycle ==
    \A t \in Threads :
        /\ t \in sig_handlers <=> pc[t] \notin {"idle", "created", "td4"}
        /\ t \in thread_pool <=> pc[t] \notin {"idle", "created", "enroll"}
        /\ t \in pending => t \in thread_pool

(* Which tasks a worker can hold where: none while it looks for one, and   *)
(* before it enters run() one that was never run.                          *)
Ownership ==
    /\ \A t \in Threads :
          /\ pc[t] \in {"idle", "qwait", "qcs"} => task[t] = NoTask
          /\ task[t] # NoTask => task[t] \in submitted
          /\ pc[t] \in {"created", "enroll", "top", "loop"} /\ task[t] # NoTask
                => runs[task[t]] = 0
    /\ \A i \in DOMAIN thread_pool_queue : thread_pool_queue[i] \in submitted
    /\ \A k \in Tasks \ submitted : runs[k] = 0

(* "we don't want dangling ptrs" (etasker.cpp:215): a thread that has      *)
(* exited is not registered for signals, and a worker still in the pool    *)
(* without a registration is about to leave it.                            *)
NoDanglingHandler ==
    /\ sig_handlers \intersect Threads \subseteq Live
    /\ \A t \in thread_pool \ sig_handlers : pc[t] = "td4"

(* In a pool that is not fixed, a task whose run() was entered and that no *)
(* thread holds any more had its onExit() called (it closes the            *)
(* connection), whether run() returned, threw or was timed out.            *)
ExitHookRan ==
    ~fixed => \A k \in Tasks : runs[k] > 0 /\ Holders(k) = {} => exits[k] > 0

(* A SIGTERM that interrupts the teardown enters onExit() a second time;   *)
(* SIGTERM stays blocked from then on, so there is no third time.          *)
ExitHookAtMostTwice == \A k \in Tasks : exits[k] <= 2

(* When the destructor returns no worker is left to use the object.        *)
DestroyedWithoutWorkers ==
    dtor = "destroyed" => Live = {} /\ sig_handlers \intersect Threads = {}

(* The pool as its users see it. *)
Active == {task[t] : t \in Threads} \ {NoTask}
Pool == INSTANCE TaskPool WITH
            Limited <- (ThreadLimit # SIZE_MAX), Limit <- ThreadLimit,
            fresh <- Tasks \ submitted, queue <- thread_pool_queue,
            active <- Active

(* ETasker implements TaskPool: tasks become active in the order they were *)
(* queued, never more than thread_limit at a time, each at most once.      *)
ImplementsPool == Pool!PoolSpec

(* Every task that was queued is eventually entered, as long as the pool   *)
(* has a worker: a task that throws ends its worker (etasker.cpp:148), and *)
(* a fixed pool replaces none before the next call of run().               *)
EveryTaskStarts ==
    \A k \in Tasks : Queued(k) ~> runs[k] = 1 \/ (fixed /\ Live = {})

(* disableConnectionTimeout: a worker whose timeout is SIZE_MAX is not     *)
(* timed out.                                                              *)
DisabledTimeoutHolds ==
    \A t \in Threads : t \in pending /\ dtor = "alive" => timeout_s[t] # SIZE_MAX

(* "Failed to teardown threads within specified timeout" (etasker.h:320):  *)
(* the destructor returns or throws.                                       *)
DestroyEnds == dtor = "lock" ~> dtor \in {"destroyed", "failed"}

=============================================================================
