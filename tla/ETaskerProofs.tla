---------------------------- MODULE ETaskerProofs ----------------------------
(***************************************************************************)
(* Proofs about ETasker, for every number of threads and tasks, every      *)
(* thread_limit, word size and clock bound.                                *)
(***************************************************************************)
EXTENDS ETasker, FiniteSetTheorems, SequenceTheorems, TLAPS

USE DEF MutexSections, TeardownPCs

-----------------------------------------------------------------------------
(* Counting the workers. *)

(* A step creates one thread while the limit allows it, ends one thread,   *)
(* or leaves the set of live threads and num_threads alone.                *)
LEMMA LiveChanges ==
    ASSUME TypeOK, [Next]_vars
    PROVE  \/ Live' = Live /\ num_threads' = num_threads
           \/ \E t \in Threads \ Live :
                 /\ Live' = Live \union {t}
                 /\ num_threads' = num_threads + 1
                 /\ ~LimitReached /\ dtor = "alive" /\ dtor' = "alive"
           \/ \E t \in Live : /\ Live' = Live \ {t}
                              /\ num_threads' = num_threads - 1
<1> DEFINE Same == Live' = Live /\ num_threads' = num_threads
<1>1. CASE UNCHANGED vars
  BY <1>1 DEF vars, poolVars, Live
<1>2. ASSUME NEW k \in Tasks, RunQueues(k) \/ RunFails(k) \/ RunThrowsLocked(k)
      PROVE Same
  BY <1>2 DEF RunQueues, RunFails, RunThrowsLocked, poolVars, Live
<1>3. ASSUME NEW k \in Tasks, NEW t \in Threads, RunCreates(k, t)
      PROVE  /\ t \in Threads \ Live /\ Live' = Live \union {t}
             /\ num_threads' = num_threads + 1
             /\ ~LimitReached /\ dtor = "alive" /\ dtor' = "alive"
  BY <1>3 DEF RunCreates, CanSubmit, OwnerAt, ownerVars, Live, TypeOK
<1>4. CASE DestroySignalsTimer \/ DestroySignalsWorkers \/ DestroyPolls
  BY <1>4 DEF DestroySignalsTimer, DestroySignalsWorkers, DestroyPolls,
     poolVars, Live
<1>5. CASE timerProcess \/ Tick
  BY <1>5 DEF timerProcess, TimerRegisters, TimerRegistered, TimerWakes,
     TimerScans, TimerSigAction, TimerExits, Tick, poolVars, Live
<1>6. ASSUME NEW t \in Threads, ExitThread(t)
      PROVE  /\ t \in Live /\ Live' = Live \ {t}
             /\ num_threads' = num_threads - 1
  BY <1>6 DEF ExitThread, At, Goto, Live, TypeOK
<1>7. ASSUME NEW t \in Threads, Worker(t), ~ExitThread(t) PROVE Same
  <2>1. num_threads' = num_threads
    BY <1>7 DEF Worker, RegisterHandler, Enroll, EnterTry, SeeQueue, LockMutex,
       TakeQueued, BeginTask, CallSetTimeout, setThreadTimeout, RunReturns,
       RunThrows, CopyThread, OnExitEnds, Unwind, KeepTearingDown,
       LockHandlers, EraseHandler, threadSigAction, poolVars
  <2>2. \/ pc' = pc
        \/ \E p \in WorkerPCs \ {"idle"} : pc' = [pc EXCEPT ![t] = p]
    BY <1>7 DEF Worker, RegisterHandler, Enroll, EnterTry, SeeQueue, LockMutex,
       TakeQueued, BeginTask, CallSetTimeout, setThreadTimeout, RunReturns,
       RunThrows, CopyThread, OnExitEnds, Unwind, KeepTearingDown,
       LockHandlers, EraseHandler, threadSigAction, Goto, Section,
       CatchPoints, WorkerPCs
  <2>3. pc[t] # "idle"
    BY <1>7 DEF Worker, RegisterHandler, Enroll, EnterTry, SeeQueue, LockMutex,
       TakeQueued, BeginTask, CallSetTimeout, setThreadTimeout, RunReturns,
       RunThrows, CopyThread, OnExitEnds, Unwind, KeepTearingDown,
       LockHandlers, EraseHandler, threadSigAction, At
  <2>4. Live' = Live
    BY <2>2, <2>3 DEF Live, TypeOK
  <2>. QED BY <2>1, <2>4
<1>. QED
  BY <1>1, <1>2, <1>3, <1>4, <1>5, <1>6, <1>7 DEF Next, Owner

(* The live threads are finitely many, so their number is a natural.       *)
LEMMA LiveFinite == IsFiniteSet(Live) /\ Cardinality(Live) \in Nat
<1>1. Live \subseteq Threads
  BY DEF Live
<1>. QED
  BY <1>1, ConstantsAssumption, FS_Subset, FS_CardinalityType

(* num_threads keeps counting the live threads, within the limit.          *)
LEMMA CountStep ==
    ASSUME TypeOK, WorkersCounted, [Next]_vars
    PROVE  WorkersCounted'
<1>. USE LiveFinite DEF WorkersCounted
<1>1. CASE Live' = Live /\ num_threads' = num_threads
  BY <1>1
<1>2. ASSUME NEW t \in Threads \ Live, Live' = Live \union {t},
             num_threads' = num_threads + 1, ~LimitReached
      PROVE  WorkersCounted'
  <2>1. Cardinality(Live') = Cardinality(Live) + 1
    BY <1>2, FS_AddElement
  <2>. QED
    BY <1>2, <2>1, ConstantsAssumption DEF LimitReached, TypeOK, SIZE_MAX
<1>3. ASSUME NEW t \in Live, Live' = Live \ {t},
             num_threads' = num_threads - 1
      PROVE  WorkersCounted'
  <2>1. Cardinality(Live') = Cardinality(Live) - 1
    BY <1>3, FS_RemoveElement
  <2>. QED
    BY <1>3, <2>1, ConstantsAssumption DEF TypeOK, SIZE_MAX
<1>. QED
  BY <1>1, <1>2, <1>3, LiveChanges

(* A thread that exits was counted. *)
LEMMA LivePositive ==
    ASSUME WorkersCounted, NEW t \in Live
    PROVE  num_threads > 0
  BY LiveFinite, FS_EmptySet DEF WorkersCounted

-----------------------------------------------------------------------------
(* Types. *)

(* run() and the destructor keep every variable's type. *)
LEMMA TypeStepOwner ==
    ASSUME TypeOK, Owner
    PROVE  TypeOK'
<1>. USE DEF TypeOK, poolVars, timeVars, sigVars, taskVars, ownerVars
<1>1. ASSUME NEW k \in Tasks, RunQueues(k) PROVE TypeOK'
  BY <1>1 DEF RunQueues
<1>2. ASSUME NEW k \in Tasks, RunFails(k) \/ RunThrowsLocked(k) PROVE TypeOK'
  BY <1>2 DEF RunFails, RunThrowsLocked
<1>3. ASSUME NEW k \in Tasks, NEW t \in Threads, RunCreates(k, t)
      PROVE  TypeOK'
  BY <1>3 DEF RunCreates, WorkerPCs
<1>4. CASE DestroySignalsTimer
  BY <1>4 DEF DestroySignalsTimer, OwnerPCs
<1>5. CASE DestroySignalsWorkers
  BY <1>5 DEF DestroySignalsWorkers, OwnerPCs
<1>6. CASE DestroyPolls
  BY <1>6 DEF DestroyPolls, OwnerPCs
<1>. QED
  BY <1>1, <1>2, <1>3, <1>4, <1>5, <1>6 DEF Owner

(* The timer thread keeps every variable's type. *)
LEMMA TypeStepTimer ==
    ASSUME TypeOK, timerProcess \/ Tick
    PROVE  TypeOK'
<1>. USE DEF TypeOK, poolVars, timeVars, sigVars, taskVars, ownerVars
<1>1. CASE TimerRegisters
  BY <1>1 DEF TimerRegisters, TimerPCs
<1>2. CASE TimerRegistered
  BY <1>2 DEF TimerRegistered, TimerPCs
<1>3. CASE TimerWakes
  BY <1>3 DEF TimerWakes, TimerPCs
<1>4. CASE TimerScans
  BY <1>4 DEF TimerScans, TimerPCs
<1>5. CASE TimerSigAction
  BY <1>5 DEF TimerSigAction, TimerPCs
<1>6. CASE TimerExits
  BY <1>6 DEF TimerExits, TimerPCs
<1>7. CASE Tick
  BY <1>7 DEF Tick
<1>. QED
  BY <1>1, <1>2, <1>3, <1>4, <1>5, <1>6, <1>7 DEF timerProcess

(* A worker keeps every variable's type. *)
LEMMA TypeStepWorker ==
    ASSUME TypeOK, WorkersCounted, NEW t \in Threads, Worker(t)
    PROVE  TypeOK'
<1>. USE DEF TypeOK, poolVars, timeVars, sigVars, taskVars, ownerVars, Goto,
             At, WorkerPCs
<1>1. CASE RegisterHandler(t)
  BY <1>1 DEF RegisterHandler
<1>2. CASE Enroll(t)
  BY <1>2, ConstantsAssumption DEF Enroll, SIZE_MAX
<1>3. CASE EnterTry(t)
  BY <1>3 DEF EnterTry
<1>4. CASE SeeQueue(t)
  BY <1>4 DEF SeeQueue
<1>5. CASE LockMutex(t)
  BY <1>5 DEF LockMutex, Section
<1>6. CASE TakeQueued(t)
  <2>1. /\ task' \in [Threads -> Tasks \union {NoTask}]
        /\ thread_pool_queue' \in Seq(Tasks)
    <3>1. CASE thread_pool_queue = <<>>
      BY <1>6, <3>1 DEF TakeQueued
    <3>2. CASE thread_pool_queue # <<>>
      <4>1. /\ Head(thread_pool_queue) \in Tasks
            /\ Tail(thread_pool_queue) \in Seq(Tasks)
        BY <3>2, HeadTailProperties
      <4>. QED
        BY <1>6, <3>2, <4>1 DEF TakeQueued
    <3>. QED
      BY <3>1, <3>2
  <2>2. pc' \in [Threads -> WorkerPCs]
    BY <1>6 DEF TakeQueued
  <2>. QED
    BY <1>6, <2>1, <2>2 DEF TakeQueued
<1>7. CASE BeginTask(t)
  BY <1>7 DEF BeginTask
<1>8. CASE CallSetTimeout(t)
  BY <1>8 DEF CallSetTimeout
<1>9. ASSUME NEW ts \in TimeoutValues, setThreadTimeout(t, ts) PROVE TypeOK'
  BY <1>9, ConstantsAssumption DEF setThreadTimeout, SIZE_MAX
<1>10. CASE RunReturns(t)
  BY <1>10 DEF RunReturns
<1>11. CASE RunThrows(t)
  BY <1>11 DEF RunThrows
<1>12. CASE CopyThread(t)
  <2>1. exits' \in [Tasks -> Nat]
    <3>1. CASE task[t] = NoTask
      BY <1>12, <3>1 DEF CopyThread
    <3>2. CASE task[t] # NoTask
      BY <1>12, <3>2 DEF CopyThread
    <3>. QED
      BY <3>1, <3>2
  <2>2. pc' \in [Threads -> WorkerPCs]
    BY <1>12 DEF CopyThread
  <2>. QED
    BY <1>12, <2>1, <2>2 DEF CopyThread
<1>13. CASE OnExitEnds(t)
  BY <1>13 DEF OnExitEnds
<1>14. CASE Unwind(t)
  BY <1>14 DEF Unwind, CatchPoints, Uncaught, Frames, NoFrame
<1>15. CASE KeepTearingDown(t)
  BY <1>15 DEF KeepTearingDown
<1>16. CASE LockHandlers(t)
  BY <1>16 DEF LockHandlers
<1>17. CASE EraseHandler(t)
  BY <1>17 DEF EraseHandler
<1>18. CASE ExitThread(t)
  <2>1. num_threads > 0
    BY <1>18, LivePositive DEF ExitThread, Live
  <2>. QED
    BY <1>18, <2>1 DEF ExitThread, Frames, NoFrame
<1>19. CASE threadSigAction(t)
  <2>1. [at |-> pc[t], force |-> force[t]] \in Frames
    BY DEF Frames
  <2>2. /\ frame' \in [Threads -> Frames]
        /\ force' \in [Threads -> BOOLEAN]
        /\ pc' \in [Threads -> WorkerPCs]
        /\ masked' \subseteq Threads
        /\ pending' \subseteq Threads \union {Timer}
    <3>1. CASE t \in sig_handlers
      <4>1. /\ frame' = [frame EXCEPT ![t] = [at |-> pc[t], force |-> force[t]]]
            /\ force' = [force EXCEPT ![t] = FALSE]
            /\ pc' = [pc EXCEPT ![t] = "td1"]
            /\ masked' = masked \union {t} /\ pending' = pending \ {t}
        BY <1>19, <3>1 DEF threadSigAction
      <4>2. frame' \in [Threads -> Frames]
        BY <2>1, <4>1
      <4>. QED
        BY <4>1, <4>2
    <3>2. CASE t \notin sig_handlers
      BY <1>19, <3>2 DEF threadSigAction
    <3>. QED
      BY <3>1, <3>2
  <2>. QED
    BY <1>19, <2>2 DEF threadSigAction
<1>. QED
  BY <1>1, <1>2, <1>3, <1>4, <1>5, <1>6, <1>7, <1>8, <1>9, <1>10,
     <1>11, <1>12, <1>13, <1>14, <1>15, <1>16, <1>17, <1>18, <1>19
     DEF Worker

(* Any step keeps the types, so num_threads stays a natural. *)
LEMMA TypeStep ==
    ASSUME TypeOK, WorkersCounted, [Next]_vars
    PROVE  TypeOK'
<1>1. CASE UNCHANGED vars
  BY <1>1 DEF TypeOK, vars, poolVars, timeVars, sigVars, taskVars, ownerVars
<1>. QED
  BY <1>1, TypeStepOwner, TypeStepTimer, TypeStepWorker DEF Next

(* The constructor's state is well typed and counts no thread. *)
LEMMA TypeInit == Init => TypeOK /\ WorkersCounted
<1>. SUFFICES ASSUME Init PROVE TypeOK /\ WorkersCounted
  OBVIOUS
<1>1. fixed \in BOOLEAN
  BY ConstantsAssumption DEF Init
<1>2. frame \in [Threads -> Frames]
  BY DEF Init, Frames, NoFrame
<1>3. thread_pool_queue \in Seq(Tasks)
  BY DEF Init
<1>4. TypeOK
  BY <1>1, <1>2, <1>3, ConstantsAssumption
     DEF Init, TypeOK, WorkerPCs, TimerPCs, OwnerPCs
<1>5. Live = {}
  BY DEF Init, Live
<1>6. Cardinality(Live) = 0
  BY <1>5, FS_EmptySet
<1>7. WorkersCounted
  BY <1>6, ConstantsAssumption DEF Init, WorkersCounted, SIZE_MAX
<1>. QED
  BY <1>4, <1>7

(***************************************************************************)
(* Every variable keeps the type the declarations of etasker.h give it; in *)
(* particular num_threads (a size_t) is never decremented below zero.      *)
(***************************************************************************)
THEOREM TypeCorrect == Spec => [](TypeOK /\ WorkersCounted)
<1>1. Init => TypeOK /\ WorkersCounted
  BY TypeInit
<1>2. TypeOK /\ WorkersCounted /\ [Next]_vars => (TypeOK /\ WorkersCounted)'
  BY TypeStep, CountStep
<1>. QED
  BY <1>1, <1>2, PTL DEF Spec

(***************************************************************************)
(* num_threads counts the created and not yet torn down workers and stays  *)
(* within thread_limit, whatever SIGTERM interrupts.                       *)
(***************************************************************************)
THEOREM ThreadAccounting == Spec => []WorkersCounted
  BY TypeCorrect, PTL

-----------------------------------------------------------------------------
(* The life of a worker. *)

(* run() and the destructor signal only threads of thread_pool. *)
LEMMA LifeCycleOwner ==
    ASSUME TypeOK, LifeCycle, Owner
    PROVE  LifeCycle'
<1>. USE ConstantsAssumption
     DEF TypeOK, LifeCycle, poolVars, sigVars, WorkerPCs
<1>1. ASSUME NEW k \in Tasks, RunQueues(k) \/ RunFails(k) \/ RunThrowsLocked(k)
      PROVE LifeCycle'
  BY <1>1 DEF RunQueues, RunFails, RunThrowsLocked
<1>2. ASSUME NEW k \in Tasks, NEW t \in Threads, RunCreates(k, t)
      PROVE  LifeCycle'
  BY <1>2 DEF RunCreates
<1>3. CASE DestroySignalsTimer
  BY <1>3 DEF DestroySignalsTimer
<1>4. CASE DestroySignalsWorkers
  BY <1>4 DEF DestroySignalsWorkers
<1>5. CASE DestroyPolls
  BY <1>5 DEF DestroyPolls
<1>. QED
  BY <1>1, <1>2, <1>3, <1>4, <1>5 DEF Owner

(* The timer signals only threads of thread_pool. *)
LEMMA LifeCycleTimer ==
    ASSUME TypeOK, LifeCycle, timerProcess \/ Tick
    PROVE  LifeCycle'
  BY ConstantsAssumption
     DEF TypeOK, LifeCycle, poolVars, sigVars, timerProcess, TimerRegisters,
         TimerRegistered, TimerWakes, TimerScans, TimerSigAction, TimerExits,
         Tick

(* A worker enters and leaves the two maps where LifeCycle says. *)
LEMMA LifeCycleWorker ==
    ASSUME TypeOK, LifeCycle, NEW t \in Threads, Worker(t)
    PROVE  LifeCycle'
<1>. USE ConstantsAssumption
     DEF TypeOK, LifeCycle, poolVars, sigVars, WorkerPCs, Goto, At
<1>1. CASE RegisterHandler(t)
  BY <1>1 DEF RegisterHandler
<1>2. CASE Enroll(t)
  BY <1>2 DEF Enroll
<1>3. CASE EnterTry(t)
  BY <1>3 DEF EnterTry
<1>4. CASE SeeQueue(t)
  BY <1>4 DEF SeeQueue
<1>5. CASE LockMutex(t)
  BY <1>5 DEF LockMutex, Section
<1>6. CASE TakeQueued(t)
  BY <1>6 DEF TakeQueued
<1>7. CASE BeginTask(t)
  BY <1>7 DEF BeginTask
<1>8. CASE CallSetTimeout(t)
  BY <1>8 DEF CallSetTimeout
<1>9. ASSUME NEW ts \in TimeoutValues, setThreadTimeout(t, ts)
      PROVE  LifeCycle'
  BY <1>9 DEF setThreadTimeout
<1>10. CASE RunReturns(t)
  BY <1>10 DEF RunReturns
<1>11. CASE RunThrows(t)
  BY <1>11 DEF RunThrows
<1>12. CASE CopyThread(t)
  BY <1>12 DEF CopyThread
<1>13. CASE OnExitEnds(t)
  BY <1>13 DEF OnExitEnds
<1>14. CASE Unwind(t)
  BY <1>14, SMTT(60) DEF Unwind, CatchPoints, Frames
<1>15. CASE KeepTearingDown(t)
  BY <1>15 DEF KeepTearingDown
<1>16. CASE LockHandlers(t)
  BY <1>16 DEF LockHandlers
<1>17. CASE EraseHandler(t)
  BY <1>17 DEF EraseHandler
<1>18. CASE ExitThread(t)
  BY <1>18 DEF ExitThread
<1>19. CASE threadSigAction(t)
  BY <1>19 DEF threadSigAction
<1>. QED
  BY <1>1, <1>2, <1>3, <1>4, <1>5, <1>6, <1>7, <1>8, <1>9, <1>10,
     <1>11, <1>12, <1>13, <1>14, <1>15, <1>16, <1>17, <1>18, <1>19
     DEF Worker

(* The two maps and the workers' locations always agree. *)
LEMMA LifeCycleHolds == Spec => []LifeCycle
<1>1. Init => LifeCycle
  BY DEF Init, LifeCycle
<1>2. TypeOK /\ LifeCycle /\ [Next]_vars => LifeCycle'
  <2>1. ASSUME LifeCycle, UNCHANGED vars PROVE LifeCycle'
    BY <2>1 DEF LifeCycle, vars, poolVars, sigVars
  <2>. QED
    BY <2>1, LifeCycleOwner, LifeCycleTimer, LifeCycleWorker DEF Next
<1>. QED
  BY <1>1, <1>2, TypeCorrect, PTL DEF Spec

(***************************************************************************)
(* A thread that exited is not in thread_specific_sig_handlers, and one in *)
(* the pool without a registration is in its last critical section.        *)
(***************************************************************************)
THEOREM HandlersNeverDangle == Spec => []NoDanglingHandler
<1>1. TypeOK /\ LifeCycle => NoDanglingHandler
  BY DEF TypeOK, LifeCycle, NoDanglingHandler, Live
<1>. QED
  BY <1>1, TypeCorrect, LifeCycleHolds, PTL

-----------------------------------------------------------------------------
(* The destructor. *)

(* Once the destructor is done no thread is counted: run() is not called   *)
(* any more, and every other step can only lower num_threads.              *)
DestroyedEmpty == dtor = "destroyed" => num_threads = 0

(* No worker appears once the destructor has returned. *)
LEMMA DestroyStep ==
    ASSUME TypeOK, WorkersCounted, DestroyedEmpty, [Next]_vars
    PROVE  DestroyedEmpty'
<1>1. CASE DestroyPolls
  BY <1>1 DEF DestroyPolls, DestroyedEmpty, hasThreads, TypeOK, poolVars
<1>2. CASE ~DestroyPolls
  <2>1. dtor' = "destroyed" => dtor = "destroyed"
    BY <1>2 DEF Next, vars, Owner, timerProcess, Worker, RunQueues, RunFails,
         RunThrowsLocked,
       RunCreates, DestroySignalsTimer, DestroySignalsWorkers, TimerRegisters,
       TimerRegistered, TimerWakes, TimerScans, TimerSigAction, TimerExits,
       Tick, RegisterHandler, Enroll, EnterTry, SeeQueue, LockMutex,
       TakeQueued, BeginTask, CallSetTimeout, setThreadTimeout, RunReturns,
       RunThrows, CopyThread, OnExitEnds, Unwind, KeepTearingDown,
       LockHandlers, EraseHandler, ExitThread, threadSigAction, ownerVars
  <2>2. dtor = "destroyed" => Live = {}
    BY LiveFinite, FS_EmptySet DEF DestroyedEmpty, WorkersCounted
  <2>3. dtor = "destroyed" => num_threads' = num_threads
    BY <2>2, LiveChanges
  <2>. QED
    BY <2>1, <2>3 DEF DestroyedEmpty
<1>. QED
  BY <1>1, <1>2

(***************************************************************************)
(* When ~ETasker returns, every worker has left its last critical section  *)
(* and none is registered: no worker uses the destroyed object.            *)
(***************************************************************************)
THEOREM DestructorWaits == Spec => []DestroyedWithoutWorkers
<1>1. Init => DestroyedEmpty
  BY DEF Init, DestroyedEmpty
<1>2. TypeOK /\ WorkersCounted /\ DestroyedEmpty /\ [Next]_vars => DestroyedEmpty'
  BY DestroyStep
<1>3. WorkersCounted /\ DestroyedEmpty /\ NoDanglingHandler
         => DestroyedWithoutWorkers
  BY LiveFinite, FS_EmptySet
     DEF WorkersCounted, DestroyedEmpty, NoDanglingHandler,
         DestroyedWithoutWorkers
<1>. QED
  BY <1>1, <1>2, <1>3, TypeCorrect, HandlersNeverDangle, PTL DEF Spec

-----------------------------------------------------------------------------
(* Where a task is. *)

(* TaskRunsOnce, without the abbreviations Queued and Holders. *)
Exclusive ==
    /\ \A i, j \in DOMAIN thread_pool_queue :
          thread_pool_queue[i] = thread_pool_queue[j] => i = j
    /\ \A t, u \in Threads : task[t] = task[u] /\ task[t] # NoTask => t = u
    /\ \A i \in DOMAIN thread_pool_queue :
          /\ runs[thread_pool_queue[i]] = 0
          /\ \A t \in Threads : task[t] # thread_pool_queue[i]
    /\ \A k \in Tasks : runs[k] <= 1

Places == Exclusive /\ Ownership

(* The queue's entries are tasks. *)
LEMMA QueueTyped ==
    ASSUME TypeOK
    PROVE  /\ Len(thread_pool_queue) \in Nat
           /\ DOMAIN thread_pool_queue = 1..Len(thread_pool_queue)
           /\ \A i \in DOMAIN thread_pool_queue : thread_pool_queue[i] \in Tasks
  BY LenProperties, ElementOfSeq DEF TypeOK

(* run() at the limit: the new task is at the end of the queue only. *)
LEMMA PlacesRunQueues ==
    ASSUME TypeOK, Places, NEW k \in Tasks, RunQueues(k)
    PROVE  Places'
<1>. DEFINE q == thread_pool_queue
            n == Len(q)
<1>1. /\ q' = Append(q, k) /\ submitted' = submitted \union {k}
      /\ k \notin submitted
      /\ UNCHANGED <<pc, task, runs>>
  BY DEF RunQueues, CanSubmit
<1>2. /\ n \in Nat /\ DOMAIN q = 1..n /\ DOMAIN q' = 1..(n + 1)
      /\ \A i \in 1..n : q'[i] = q[i] /\ q[i] \in Tasks
      /\ q'[n + 1] = k
  BY <1>1, QueueTyped, AppendProperties DEF TypeOK
<1>3. \A i \in 1..n : q[i] # k /\ q[i] \in submitted
  BY <1>1, <1>2 DEF Places, Ownership
<1>4. \A t \in Threads : task[t] # k
  BY <1>1, ConstantsAssumption DEF Places, Ownership
<1>5. runs[k] = 0
  BY <1>1 DEF Places, Ownership
<1>6. \A i, j \in DOMAIN q' : q'[i] = q'[j] => i = j
  <2>. SUFFICES ASSUME NEW i \in DOMAIN q', NEW j \in DOMAIN q', q'[i] = q'[j]
                PROVE  i = j
    OBVIOUS
  <2>1. i \in 1..n \/ i = n + 1
    BY <1>2
  <2>2. j \in 1..n \/ j = n + 1
    BY <1>2
  <2>. QED
    BY <2>1, <2>2, <1>2, <1>3 DEF Places, Exclusive
<1>7. \A i \in DOMAIN q' : /\ runs[q'[i]] = 0 /\ q'[i] \in submitted'
                          /\ \A t \in Threads : task[t] # q'[i]
  <2>. SUFFICES ASSUME NEW i \in DOMAIN q'
                PROVE  /\ runs[q'[i]] = 0 /\ q'[i] \in submitted'
                       /\ \A t \in Threads : task[t] # q'[i]
    OBVIOUS
  <2>1. i \in 1..n \/ i = n + 1
    BY <1>2
  <2>. QED
    BY <2>1, <1>1, <1>2, <1>3, <1>4, <1>5 DEF Places, Exclusive
<1>8. Exclusive'
  BY <1>1, <1>6, <1>7 DEF Places, Exclusive
<1>9. Ownership'
  BY <1>1, <1>7 DEF Places, Ownership
<1>. QED
  BY <1>8, <1>9 DEF Places

(* run() below the limit: the new task is in the new thread only. *)
LEMMA PlacesRunCreates ==
    ASSUME TypeOK, Places, NEW k \in Tasks, NEW t \in Threads, RunCreates(k, t)
    PROVE  Places'
<1>1. /\ task' = [task EXCEPT ![t] = k] /\ submitted' = submitted \union {k}
      /\ pc' = [pc EXCEPT ![t] = "created"]
      /\ k \notin submitted
      /\ UNCHANGED <<thread_pool_queue, runs>>
  BY DEF RunCreates, CanSubmit
<1>2. /\ \A u \in Threads : task[u] # k
      /\ \A i \in DOMAIN thread_pool_queue : thread_pool_queue[i] # k
      /\ runs[k] = 0
  BY <1>1, ConstantsAssumption DEF Places, Ownership
<1>3. \A u \in Threads : task'[u] = IF u = t THEN k ELSE task[u]
  BY <1>1 DEF TypeOK
<1>4. \A u \in Threads : pc'[u] = IF u = t THEN "created" ELSE pc[u]
  BY <1>1 DEF TypeOK
<1>5. Exclusive'
  BY <1>1, <1>2, <1>3 DEF Places, Exclusive
<1>6. Ownership'
  BY <1>1, <1>2, <1>3, <1>4 DEF Places, Ownership
<1>. QED
  BY <1>5, <1>6 DEF Places

(* A worker takes the first queued task. *)
LEMMA PlacesTakeQueued ==
    ASSUME TypeOK, Places, NEW t \in Threads, TakeQueued(t)
    PROVE  Places'
<1>. DEFINE q == thread_pool_queue
            n == Len(q)
<1>1. /\ pc' = [pc EXCEPT ![t] = "loop"] /\ pc[t] = "qcs"
      /\ UNCHANGED <<submitted, runs>>
  BY DEF TakeQueued, Goto, At, taskVars
<1>2. \A u \in Threads : pc'[u] = IF u = t THEN "loop" ELSE pc[u]
  BY <1>1 DEF TypeOK
<1>3. CASE q = <<>>
  <2>1. UNCHANGED <<task, thread_pool_queue>>
    BY <1>3 DEF TakeQueued
  <2>2. task[t] = NoTask
    BY <1>1 DEF Places, Ownership
  <2>3. Exclusive'
    BY <2>1, <1>1 DEF Places, Exclusive
  <2>4. Ownership'
    BY <2>1, <2>2, <1>1, <1>2 DEF Places, Ownership
  <2>. QED
    BY <2>3, <2>4 DEF Places
<1>4. CASE q # <<>>
  <2>1. /\ task' = [task EXCEPT ![t] = Head(q)] /\ q' = Tail(q)
    BY <1>4 DEF TakeQueued
  <2>2. /\ n \in Nat \ {0} /\ DOMAIN q = 1..n /\ DOMAIN q' = 1..(n - 1)
        /\ Head(q) = q[1] /\ \A i \in 1..(n - 1) : q'[i] = q[i + 1]
        /\ \A i \in 1..n : q[i] \in Tasks
    BY <1>4, <2>1, QueueTyped, HeadTailProperties, EmptySeq DEF TypeOK
  <2>3. \A u \in Threads : task'[u] = IF u = t THEN q[1] ELSE task[u]
    BY <2>1, <2>2 DEF TypeOK
  <2>4. /\ q[1] \in submitted /\ runs[q[1]] = 0 /\ q[1] \in Tasks
        /\ \A u \in Threads : task[u] # q[1]
        /\ \A i \in 1..(n - 1) : q[i + 1] # q[1]
    BY <2>2 DEF Places, Exclusive, Ownership
  <2>5. \A i \in DOMAIN q' : /\ i + 1 \in DOMAIN q /\ q'[i] = q[i + 1]
                            /\ q'[i] # q[1]
    BY <2>2, <2>4
  <2>6. \A i, j \in DOMAIN q' : q'[i] = q'[j] => i = j
    BY <2>2, <2>5 DEF Places, Exclusive
  <2>7. \A i \in DOMAIN q' : /\ runs[q'[i]] = 0 /\ q'[i] \in submitted
                            /\ \A u \in Threads : task'[u] # q'[i]
    BY <2>3, <2>5 DEF Places, Exclusive, Ownership
  <2>8. Exclusive'
    BY <1>1, <2>3, <2>4, <2>6, <2>7 DEF Places, Exclusive
  <2>9. Ownership'
    BY <1>1, <1>2, <2>3, <2>4, <2>7 DEF Places, Ownership
  <2>. QED
    BY <2>8, <2>9 DEF Places
<1>. QED
  BY <1>3, <1>4

(* A worker enters the run() of a task that was never entered. *)
LEMMA PlacesBeginTask ==
    ASSUME TypeOK, Places, NEW t \in Threads, BeginTask(t)
    PROVE  Places'
<1>1. /\ pc[t] = "loop" /\ pc' = [pc EXCEPT ![t] = "run"]
      /\ task[t] \in Tasks
      /\ runs' = [runs EXCEPT ![task[t]] = @ + 1]
      /\ UNCHANGED <<task, thread_pool_queue, submitted>>
  BY DEF BeginTask, At, Goto, poolVars, TypeOK
<1>2. runs[task[t]] = 0 /\ task[t] \in submitted
  BY <1>1, ConstantsAssumption DEF Places, Ownership
<1>3. /\ \A k \in Tasks : runs'[k] = IF k = task[t] THEN 1 ELSE runs[k]
      /\ \A u \in Threads : pc'[u] = IF u = t THEN "run" ELSE pc[u]
  BY <1>1, <1>2 DEF TypeOK
<1>4. Exclusive'
  BY <1>1, <1>3, QueueTyped DEF Places, Exclusive
<1>5. \A u \in Threads : u # t /\ task[u] # NoTask
                            => task[u] # task[t] /\ task[u] \in Tasks
  BY <1>1 DEF Places, Exclusive, TypeOK
<1>6. Ownership'
  BY <1>1, <1>2, <1>3, <1>5 DEF Places, Ownership
<1>. QED
  BY <1>4, <1>6 DEF Places

(* Every other step of a worker keeps its task or drops it, and goes to a  *)
(* location where it may hold what it then holds.                          *)
LEMMA PlacesOther ==
    ASSUME TypeOK, Places, NEW t \in Threads, NEW p \in WorkerPCs,
           NEW k \in {task[t], NoTask},
           pc' = [pc EXCEPT ![t] = p], task' = [task EXCEPT ![t] = k],
           p \in {"idle", "qwait", "qcs"} => k = NoTask,
           p \in {"created", "enroll", "top", "loop"}
              => k = NoTask \/ pc[t] \in {"created", "enroll", "top", "loop"},
           UNCHANGED <<thread_pool_queue, submitted, runs>>
    PROVE  Places'
<1>1. \A u \in Threads : /\ pc'[u] = IF u = t THEN p ELSE pc[u]
                         /\ task'[u] = IF u = t THEN k ELSE task[u]
  BY DEF TypeOK
<1>2. Exclusive'
  BY <1>1, QueueTyped, ConstantsAssumption DEF Places, Exclusive
<1>3. Ownership'
  BY <1>1 DEF Places, Ownership
<1>. QED
  BY <1>2, <1>3 DEF Places

(* What the remaining steps of a worker do to its location and its task.   *)
LEMMA OtherSteps ==
    ASSUME TypeOK, Places, NEW t \in Threads, Worker(t),
           ~TakeQueued(t), ~BeginTask(t)
    PROVE  \E p \in WorkerPCs, k \in {task[t], NoTask} :
              /\ pc' = [pc EXCEPT ![t] = p] /\ task' = [task EXCEPT ![t] = k]
              /\ p \in {"idle", "qwait", "qcs"} => k = NoTask
              /\ p \in {"created", "enroll", "top", "loop"}
                    => k = NoTask \/ pc[t] \in {"created", "enroll", "top", "loop"}
              /\ UNCHANGED <<thread_pool_queue, submitted, runs>>
<1>. DEFINE
       Goal(p, k) ==
         /\ pc' = [pc EXCEPT ![t] = p] /\ task' = [task EXCEPT ![t] = k]
         /\ p \in {"idle", "qwait", "qcs"} => k = NoTask
         /\ p \in {"created", "enroll", "top", "loop"}
               => k = NoTask \/ pc[t] \in {"created", "enroll", "top", "loop"}
         /\ UNCHANGED <<thread_pool_queue, submitted, runs>>
<1>. SUFFICES \E p \in WorkerPCs, k \in {task[t], NoTask} : Goal(p, k)
  OBVIOUS
<1>0. /\ task = [task EXCEPT ![t] = task[t]]
      /\ pc = [pc EXCEPT ![t] = pc[t]]
      /\ pc[t] \in WorkerPCs
  BY DEF TypeOK
<1>. USE <1>0 DEF At, Goto, poolVars, taskVars, WorkerPCs
<1>1. ASSUME RegisterHandler(t) PROVE Goal("enroll", task[t])
  BY <1>1 DEF RegisterHandler
<1>2. ASSUME Enroll(t) PROVE Goal("top", task[t])
  BY <1>2 DEF Enroll
<1>3. ASSUME EnterTry(t) PROVE Goal("loop", task[t])
  BY <1>3 DEF EnterTry
<1>4. ASSUME SeeQueue(t) PROVE Goal("qwait", task[t])
  BY <1>4 DEF SeeQueue
<1>5. ASSUME CallSetTimeout(t) PROVE Goal("set", task[t])
  BY <1>5 DEF CallSetTimeout
<1>6. ASSUME RunThrows(t) PROVE Goal("td1", task[t])
  BY <1>6 DEF RunThrows
<1>7. ASSUME OnExitEnds(t) PROVE Goal("td2", task[t])
  BY <1>7 DEF OnExitEnds
<1>8. ASSUME KeepTearingDown(t) PROVE Goal("td3", task[t])
  BY <1>8 DEF KeepTearingDown
<1>9. ASSUME LockHandlers(t) PROVE Goal("td3cs", task[t])
  BY <1>9 DEF LockHandlers
<1>10. ASSUME EraseHandler(t) PROVE Goal("td4", task[t])
  BY <1>10 DEF EraseHandler
<1>11. ASSUME ExitThread(t) PROVE Goal("idle", NoTask)
  BY <1>11 DEF ExitThread
<1>12. ASSUME LockMutex(t) PROVE Goal(Section(pc[t]), task[t])
  <2>1. /\ pc[t] = "qwait" => task[t] = NoTask
        /\ pc[t] \in {"qwait", "set", "td1", "td2"}
    BY <1>12 DEF LockMutex, Places, Ownership
  <2>2. /\ Section(pc[t]) \in {"qcs", "setcs", "td1cs", "td2cs"}
        /\ Section(pc[t]) = "qcs" => pc[t] = "qwait"
    BY <2>1 DEF Section
  <2>. QED
    BY <1>12, <2>1, <2>2 DEF LockMutex
<1>13. ASSUME NEW ts \in TimeoutValues, setThreadTimeout(t, ts)
      PROVE  Goal("run", task[t])
  BY <1>13 DEF setThreadTimeout
<1>14. ASSUME RunReturns(t)
      PROVE  Goal("top", NoTask) \/ Goal("td1", task[t])
  BY <1>14 DEF RunReturns
<1>15. ASSUME CopyThread(t)
      PROVE  Goal("onexit", task[t]) \/ Goal("td2", task[t])
  BY <1>15 DEF CopyThread
<1>16. ASSUME Unwind(t)
      PROVE  Goal("top", NoTask) \/ Goal("run", NoTask) \/ Goal("td2", NoTask)
  BY <1>16 DEF Unwind, CatchPoints
<1>17. ASSUME threadSigAction(t)
      PROVE  Goal("td1", task[t]) \/ Goal(pc[t], task[t])
  <2>1. CASE t \in sig_handlers
    BY <1>17, <2>1 DEF threadSigAction
  <2>2. CASE t \notin sig_handlers
    <3>1. pc[t] \in {"idle", "qwait", "qcs"} => task[t] = NoTask
      BY DEF Places, Ownership
    <3>. QED
      BY <1>17, <2>2, <3>1 DEF threadSigAction
  <2>. QED
    BY <2>1, <2>2
<1>18. Section(pc[t]) \in WorkerPCs
  BY DEF Section
<1>. HIDE DEF Goal
<1>. QED
  BY <1>1, <1>2, <1>3, <1>4, <1>5, <1>6, <1>7, <1>8, <1>9,
     <1>10, <1>11, <1>12, <1>13, <1>14, <1>15, <1>16, <1>17, <1>18 DEF Worker

(* Any step keeps every task in one place. *)
LEMMA PlacesStep ==
    ASSUME TypeOK, Places, [Next]_vars
    PROVE  Places'
<1>1. CASE UNCHANGED <<pc, task, thread_pool_queue, submitted, runs>>
  BY <1>1 DEF Places, Exclusive, Ownership
<1>2. ASSUME UNCHANGED vars \/ timerProcess \/ Tick \/ DestroySignalsTimer
             \/ DestroySignalsWorkers \/ DestroyPolls
      PROVE  UNCHANGED <<pc, task, thread_pool_queue, submitted, runs>>
  BY <1>2 DEF vars, timerProcess, TimerRegisters, TimerRegistered, TimerWakes,
     TimerScans, TimerSigAction, TimerExits, Tick, DestroySignalsTimer,
     DestroySignalsWorkers, DestroyPolls, poolVars, taskVars
<1>3. ASSUME NEW k \in Tasks, RunFails(k) \/ RunThrowsLocked(k) PROVE Places'
  BY <1>3 DEF RunFails, RunThrowsLocked, poolVars, Places, Exclusive, Ownership
<1>4. ASSUME NEW t \in Threads, Worker(t) PROVE Places'
  BY <1>4, OtherSteps, PlacesOther, PlacesTakeQueued, PlacesBeginTask
<1>. QED
  BY <1>1, <1>2, <1>3, <1>4, PlacesRunQueues, PlacesRunCreates DEF Next, Owner

(* Every task is always in one place. *)
LEMMA PlacesHold == Spec => []Places
<1>1. Init => Places
  BY EmptySeq DEF Init, Places, Exclusive, Ownership
<1>2. TypeOK /\ Places /\ [Next]_vars => Places'
  BY PlacesStep
<1>. QED
  BY <1>1, <1>2, TypeCorrect, PTL DEF Spec

(***************************************************************************)
(* A task is in one place at a time and its run() is entered at most once, *)
(* whatever the interleaving of run(), workers, timer and signals.         *)
(***************************************************************************)
THEOREM EachTaskOnce == Spec => []TaskRunsOnce
<1>1. Places => TaskRunsOnce
  <2>. SUFFICES ASSUME Places PROVE TaskRunsOnce
    OBVIOUS
  <2>1. ASSUME NEW k \in Tasks
        PROVE  /\ \A t, u \in Holders(k) : t = u
               /\ Queued(k) => Holders(k) = {} /\ runs[k] = 0
               /\ runs[k] <= 1
    BY ConstantsAssumption DEF Places, Exclusive, Holders, Queued
  <2>. QED
    BY <2>1 DEF TaskRunsOnce, Places, Exclusive
<1>. QED
  BY <1>1, PlacesHold, PTL

-----------------------------------------------------------------------------
(* ETasker implements TaskPool. *)

Busy == {u \in Threads : task[u] # NoTask}

(* There are at most as many active tasks as threads that hold one. *)
LEMMA ActiveAtMostBusy ==
    ASSUME TypeOK, NEW S \in SUBSET Live, Busy \subseteq S
    PROVE  Cardinality(Active) \in Nat /\ Cardinality(Active) <= Cardinality(S)
<1>. DEFINE f == [u \in Busy |-> task[u]]
<1>1. f \in Surjection(Busy, Active)
  <2>1. f \in [Busy -> Active]
    BY DEF Busy, Active
  <2>2. \A k \in Active : \E u \in Busy : f[u] = k
    BY DEF Busy, Active
  <2>. QED
    BY <2>1, <2>2 DEF Surjection
<1>2. IsFiniteSet(S) /\ Cardinality(S) \in Nat
  BY LiveFinite, FS_Subset, FS_CardinalityType
<1>3. IsFiniteSet(Busy) /\ Cardinality(Busy) <= Cardinality(S)
  BY <1>2, FS_Subset
<1>4. IsFiniteSet(Active) /\ Cardinality(Active) <= Cardinality(Busy)
  BY <1>1, <1>3, FS_Surjection
<1>. QED
  BY <1>2, <1>3, <1>4, FS_CardinalityType

(* A thread that holds a task is live. *)
LEMMA BusyIsLive ==
    ASSUME TypeOK, Places
    PROVE  Busy \subseteq Live
  BY DEF Places, Ownership, Busy, Live

(* A live thread without a task leaves room for one more active task. *)
LEMMA RoomForOne ==
    ASSUME TypeOK, WorkersCounted, Places, ThreadLimit # SIZE_MAX,
           NEW t \in Live, task[t] = NoTask
    PROVE  Cardinality(Active) < ThreadLimit
<1>1. Busy \subseteq Live \ {t}
  BY BusyIsLive DEF Busy
<1>2. Cardinality(Live \ {t}) = Cardinality(Live) - 1
  BY LiveFinite, FS_RemoveElement
<1>3. Cardinality(Active) \in Nat /\ Cardinality(Active) <= Cardinality(Live \ {t})
  BY <1>1, ActiveAtMostBusy
<1>. QED
  BY <1>2, <1>3, LiveFinite, ConstantsAssumption DEF WorkersCounted, SIZE_MAX

(* The two copies of FiniteSets agree. *)
LEMMA PoolCardinality ==
    ASSUME NEW S PROVE Pool!Cardinality(S) = Cardinality(S)
  BY Zenon DEF Pool!Cardinality, Cardinality

(* Dropping a task removes it from the active ones. *)
LEMMA TaskDropped ==
    ASSUME TypeOK, Places, NEW t \in Threads, task' = [task EXCEPT ![t] = NoTask],
           UNCHANGED <<thread_pool_queue, submitted>>
    PROVE  [Pool!PoolNext]_(Pool!poolSpecVars)
<1>1. CASE task[t] = NoTask
  <2>1. task' = task
    BY <1>1 DEF TypeOK
  <2>. QED
    BY <2>1 DEF Pool!poolSpecVars, Active
<1>2. CASE task[t] # NoTask
  <2>1. \A u \in Threads : task'[u] = IF u = t THEN NoTask ELSE task[u]
    BY DEF TypeOK
  <2>2. Active' = Active \ {task[t]}
    BY <1>2, <2>1 DEF Active, Places, Exclusive
  <2>3. task[t] \in Active /\ task[t] \in Tasks
    BY <1>2 DEF Active, TypeOK
  <2>4. Pool!GiveUp(task[t])
    BY <2>2, <2>3 DEF Pool!GiveUp
  <2>. QED
    BY <2>3, <2>4 DEF Pool!PoolNext
<1>. QED
  BY <1>1, <1>2

(* run() is Accept, Enqueue or Refuse of the abstract pool. *)
LEMMA PoolStepRun ==
    ASSUME TypeOK, WorkersCounted, Places, NEW k \in Tasks,
           \/ RunQueues(k) \/ RunFails(k) \/ RunThrowsLocked(k)
           \/ \E t \in Threads : RunCreates(k, t)
    PROVE  Pool!PoolNext
<1>1. CASE RunQueues(k)
  <2>1. Pool!Enqueue(k)
    BY <1>1 DEF RunQueues, CanSubmit, LimitReached, Pool!Enqueue, Active
  <2>. QED
    BY <2>1 DEF Pool!PoolNext
<1>2. CASE RunFails(k) \/ RunThrowsLocked(k)
  <2>1. Pool!Refuse(k)
    BY <1>2 DEF RunFails, RunThrowsLocked, CanSubmit, Pool!Refuse, Active, poolVars
  <2>. QED
    BY <2>1 DEF Pool!PoolNext
<1>3. ASSUME NEW t \in Threads, RunCreates(k, t) PROVE Pool!PoolNext
  <2>1. /\ task' = [task EXCEPT ![t] = k] /\ task[t] = NoTask
        /\ k \notin submitted /\ submitted' = submitted \union {k}
        /\ thread_pool_queue' = thread_pool_queue
    BY <1>3 DEF RunCreates, CanSubmit, Places, Ownership
  <2>2. Active' = Active \union {k}
    <3>1. \A u \in Threads : task'[u] = IF u = t THEN k ELSE task[u]
      BY <2>1 DEF TypeOK
    <3>. QED
      BY <2>1, <3>1, ConstantsAssumption DEF Active
  <2>3. Pool!Room
    <3>1. Cardinality(Active) \in Nat /\ Cardinality(Active) <= Cardinality(Live)
      BY ActiveAtMostBusy, BusyIsLive
    <3>2. ThreadLimit # SIZE_MAX => num_threads < ThreadLimit
      BY <1>3, ConstantsAssumption
         DEF RunCreates, LimitReached, TypeOK, SIZE_MAX
    <3>. QED
      BY <3>1, <3>2, LiveFinite, ConstantsAssumption, PoolCardinality
         DEF Pool!Room, WorkersCounted, SIZE_MAX
  <2>4. Pool!Accept(k)
    BY <2>1, <2>2, <2>3 DEF Pool!Accept
  <2>. QED
    BY <2>4 DEF Pool!PoolNext
<1>. QED
  BY <1>1, <1>2, <1>3

(* Taking a queued task is Dispatch of the abstract pool. *)
LEMMA PoolStepTakeQueued ==
    ASSUME TypeOK, WorkersCounted, Places, NEW t \in Threads, TakeQueued(t)
    PROVE  [Pool!PoolNext]_(Pool!poolSpecVars)
<1>. DEFINE q == thread_pool_queue
<1>1. submitted' = submitted /\ task[t] = NoTask /\ t \in Live
  BY DEF TakeQueued, taskVars, At, Places, Ownership, Live
<1>2. CASE q = <<>>
  BY <1>1, <1>2 DEF TakeQueued, Pool!poolSpecVars, Active
<1>3. CASE q # <<>>
  <2>1. task' = [task EXCEPT ![t] = Head(q)] /\ q' = Tail(q)
    BY <1>3 DEF TakeQueued
  <2>2. Head(q) \in Tasks /\ Head(q) = q[1] /\ 1 \in DOMAIN q
    BY <1>3, QueueTyped, HeadTailProperties, EmptySeq DEF TypeOK
  <2>3. \A u \in Threads : task'[u] = IF u = t THEN Head(q) ELSE task[u]
    BY <2>1 DEF TypeOK
  <2>4. Active' = Active \union {Head(q)}
    BY <1>1, <2>2, <2>3, ConstantsAssumption DEF Active
  <2>5. Head(q) \notin Active
    BY <2>2 DEF Active, Places, Exclusive
  <2>6. Pool!Room
    BY <1>1, RoomForOne, PoolCardinality DEF Pool!Room
  <2>7. Pool!Dispatch
    BY <1>1, <1>3, <2>1, <2>4, <2>5, <2>6 DEF Pool!Dispatch
  <2>. QED
    BY <2>7 DEF Pool!PoolNext
<1>. QED
  BY <1>2, <1>3

(* Any step of ETasker is a step of the abstract pool or a stutter. *)
LEMMA PoolStep ==
    ASSUME TypeOK, WorkersCounted, Places, [Next]_vars
    PROVE  [Pool!PoolNext]_(Pool!poolSpecVars)
<1>1. CASE UNCHANGED <<task, thread_pool_queue, submitted>>
  BY <1>1 DEF Pool!poolSpecVars, Active
<1>2. ASSUME UNCHANGED vars \/ timerProcess \/ Tick \/ DestroySignalsTimer
             \/ DestroySignalsWorkers \/ DestroyPolls
      PROVE  UNCHANGED <<task, thread_pool_queue, submitted>>
  BY <1>2 DEF vars, timerProcess, TimerRegisters, TimerRegistered, TimerWakes,
     TimerScans, TimerSigAction, TimerExits, Tick, DestroySignalsTimer,
     DestroySignalsWorkers, DestroyPolls, poolVars, taskVars
<1>3. ASSUME NEW t \in Threads, Worker(t)
      PROVE  [Pool!PoolNext]_(Pool!poolSpecVars)
  <2>1. CASE TakeQueued(t)
    BY <2>1, PoolStepTakeQueued
  <2>2. CASE BeginTask(t)
    BY <1>1, <2>2 DEF BeginTask, poolVars
  <2>3. CASE ~TakeQueued(t) /\ ~BeginTask(t)
    <3>1. PICK k \in {task[t], NoTask} :
             /\ task' = [task EXCEPT ![t] = k]
             /\ UNCHANGED <<thread_pool_queue, submitted>>
      BY <1>3, <2>3, OtherSteps
    <3>2. CASE k = NoTask
      BY <3>1, <3>2, TaskDropped
    <3>3. CASE k = task[t]
      <4>1. task' = task
        BY <3>1, <3>3 DEF TypeOK
      <4>. QED
        BY <1>1, <3>1, <4>1
    <3>. QED
      BY <3>1, <3>2, <3>3
  <2>. QED
    BY <2>1, <2>2, <2>3
<1>. QED
  BY <1>1, <1>2, <1>3, PoolStepRun DEF Next, Owner

(***************************************************************************)
(* ETasker implements TaskPool: seen from outside, tasks leave the queue   *)
(* in order, at most thread_limit are active, and none comes back.         *)
(***************************************************************************)
THEOREM ETaskerImplementsPool == Spec => ImplementsPool
<1>1. Init => Pool!PoolInit
  BY DEF Init, Pool!PoolInit, Active
<1>2. TypeOK /\ WorkersCounted /\ Places /\ [Next]_vars
         => [Pool!PoolNext]_(Pool!poolSpecVars)
  BY PoolStep
<1>. QED
  BY <1>1, <1>2, TypeCorrect, PlacesHold, PTL
     DEF Spec, ImplementsPool, Pool!PoolSpec


-----------------------------------------------------------------------------
(* onExit. *)

(* Where the innermost threadTeardown of a worker has already entered the  *)
(* onExit() of its task.                                                   *)
Hooked == {"onexit", "td2", "td2cs", "td3", "td3cs", "td4"}

(* The entries into onExit() that a worker at p can have made for the task *)
(* it holds: one in this teardown, and one in a teardown that SIGTERM      *)
(* interrupted, after which the worker has SIGTERM blocked.                *)
Once(b) == IF b THEN 1 ELSE 0
Entries(blocked, p) == Once(blocked) + Once(p \in Hooked)

(* ExitHookAtMostTwice alone is not inductive: a third entry is excluded   *)
(* by where the worker that holds the task is and whether it was signalled.*)
HookCount ==
    /\ \A t \in Threads : task[t] # NoTask
          => exits[task[t]] <= Entries(t \in masked, pc[t])
    /\ \A i \in DOMAIN thread_pool_queue : exits[thread_pool_queue[i]] = 0
    /\ \A k \in Tasks \ submitted : exits[k] = 0
    /\ \A k \in Tasks : exits[k] <= 2

(* Nor is ExitHookRan: a worker that is past its onExit() has run it, and  *)
(* only such a worker gives its task up.                                   *)
HookDone ==
    ~fixed => /\ \A t \in Threads : task[t] # NoTask /\ pc[t] \in Hooked
                    => exits[task[t]] > 0
              /\ \A k \in Tasks : runs[k] > 0 /\ (\A t \in Threads : task[t] # k)
                    => exits[k] > 0

Hooks == HookCount /\ HookDone

(* A step of worker t that enters no onExit() and takes no queued task:    *)
(* it keeps its task with as many entries to come, or gives it up.         *)
LEMMA HooksOther ==
    ASSUME TypeOK, Places, Hooks, NEW t \in Threads, NEW p \in WorkerPCs,
           NEW k \in {task[t], NoTask},
           pc' = [pc EXCEPT ![t] = p], task' = [task EXCEPT ![t] = k],
           k # NoTask => /\ Entries(t \in masked, pc[t]) <= Entries(t \in masked', p)
                         /\ p \in Hooked => pc[t] \in Hooked,
           ~fixed /\ k # task[t] => pc[t] \in Hooked,
           \A u \in Threads \ {t} : u \in masked' <=> u \in masked,
           UNCHANGED <<fixed, thread_pool_queue, submitted, runs, exits>>
    PROVE  Hooks'
<1>1. \A u \in Threads : /\ pc'[u] = IF u = t THEN p ELSE pc[u]
                         /\ task'[u] = IF u = t THEN k ELSE task[u]
  BY DEF TypeOK
<1>2. \A j \in Tasks : exits[j] \in Nat
  BY DEF TypeOK
<1>3. \A u \in Threads : task[u] # NoTask => task[u] \in Tasks
  BY DEF TypeOK
<1>4. ASSUME NEW u \in Threads, task'[u] # NoTask
      PROVE  exits[task'[u]] <= Entries(u \in masked', pc'[u])
  <2>1. CASE u = t
    <3>1. task'[u] = task[t] /\ pc'[u] = p /\ k # NoTask
      BY <1>1, <1>4, <2>1
    <3>2. exits[task[t]] <= Entries(t \in masked, pc[t])
      BY <1>4, <3>1 DEF Hooks, HookCount
    <3>. QED
      BY <1>2, <1>3, <1>4, <2>1, <3>1, <3>2 DEF Entries, Once
  <2>2. CASE u # t
    BY <1>1, <1>4, <2>2 DEF Hooks, HookCount, Entries, Once
  <2>. QED
    BY <2>1, <2>2
<1>5. HookCount'
  BY <1>4 DEF Hooks, HookCount
<1>6. ASSUME ~fixed, NEW u \in Threads, task'[u] # NoTask, pc'[u] \in Hooked
      PROVE  exits[task'[u]] > 0
  BY <1>1, <1>6 DEF Hooks, HookDone
<1>7. ASSUME ~fixed, NEW j \in Tasks, runs[j] > 0, \A u \in Threads : task'[u] # j
      PROVE  exits[j] > 0
  <2>1. CASE task[t] = j
    <3>1. k # task[t] /\ task[t] # NoTask
      BY <1>1, <1>7, <2>1, ConstantsAssumption
    <3>. QED
      BY <1>7, <2>1, <3>1 DEF Hooks, HookDone
  <2>2. CASE task[t] # j
    BY <1>1, <1>7, <2>2 DEF Hooks, HookDone
  <2>. QED
    BY <2>1, <2>2
<1>8. HookDone'
  BY <1>6, <1>7 DEF HookDone
<1>. QED
  BY <1>5, <1>8 DEF Hooks

(* Which steps of a worker those are.                                      *)
LEMMA HooksOtherSteps ==
    ASSUME TypeOK, NEW t \in Threads, Worker(t),
           ~TakeQueued(t), ~BeginTask(t), ~CopyThread(t)
    PROVE  \E p \in WorkerPCs, k \in {task[t], NoTask} :
              /\ pc' = [pc EXCEPT ![t] = p] /\ task' = [task EXCEPT ![t] = k]
              /\ k # NoTask
                    => /\ Entries(t \in masked, pc[t]) <= Entries(t \in masked', p)
                       /\ p \in Hooked => pc[t] \in Hooked
              /\ ~fixed /\ k # task[t] => pc[t] \in Hooked
              /\ \A u \in Threads \ {t} : u \in masked' <=> u \in masked
              /\ UNCHANGED <<fixed, thread_pool_queue, submitted, runs, exits>>
<1>. DEFINE
       Goal(p, k) ==
         /\ pc' = [pc EXCEPT ![t] = p] /\ task' = [task EXCEPT ![t] = k]
         /\ k # NoTask
               => /\ Entries(t \in masked, pc[t]) <= Entries(t \in masked', p)
                  /\ p \in Hooked => pc[t] \in Hooked
         /\ ~fixed /\ k # task[t] => pc[t] \in Hooked
         /\ \A u \in Threads \ {t} : u \in masked' <=> u \in masked
         /\ UNCHANGED <<fixed, thread_pool_queue, submitted, runs, exits>>
<1>. SUFFICES \E p \in WorkerPCs, k \in {task[t], NoTask} : Goal(p, k)
  OBVIOUS
<1>0. /\ task = [task EXCEPT ![t] = task[t]]
      /\ pc = [pc EXCEPT ![t] = pc[t]]
      /\ pc[t] \in WorkerPCs
  BY DEF TypeOK
<1>. USE <1>0 DEF At, Goto, poolVars, taskVars, sigVars, WorkerPCs, Hooked,
                  Entries, Once
<1>1. ASSUME RegisterHandler(t) PROVE Goal("enroll", task[t])
  BY <1>1 DEF RegisterHandler
<1>2. ASSUME Enroll(t) PROVE Goal("top", task[t])
  BY <1>2 DEF Enroll
<1>3. ASSUME EnterTry(t) PROVE Goal("loop", task[t])
  BY <1>3 DEF EnterTry
<1>4. ASSUME SeeQueue(t) PROVE Goal("qwait", task[t])
  BY <1>4 DEF SeeQueue
<1>5. ASSUME CallSetTimeout(t) PROVE Goal("set", task[t])
  BY <1>5 DEF CallSetTimeout
<1>6. ASSUME RunThrows(t) PROVE Goal("td1", task[t])
  BY <1>6 DEF RunThrows
<1>7. ASSUME OnExitEnds(t) PROVE Goal("td2", task[t])
  BY <1>7 DEF OnExitEnds
<1>8. ASSUME KeepTearingDown(t) PROVE Goal("td3", task[t])
  BY <1>8 DEF KeepTearingDown
<1>9. ASSUME LockHandlers(t) PROVE Goal("td3cs", task[t])
  BY <1>9 DEF LockHandlers
<1>10. ASSUME EraseHandler(t) PROVE Goal("td4", task[t])
  BY <1>10 DEF EraseHandler
<1>11. ASSUME ExitThread(t) PROVE Goal("idle", NoTask)
  BY <1>11 DEF ExitThread
<1>12. ASSUME LockMutex(t) PROVE Goal(Section(pc[t]), task[t])
  <2>1. /\ Section(pc[t]) \in {"qcs", "setcs", "td1cs", "td2cs"}
        /\ Section(pc[t]) \in Hooked <=> pc[t] \in Hooked
    BY <1>12 DEF LockMutex, Section
  <2>. QED
    BY <1>12, <2>1 DEF LockMutex
<1>13. ASSUME NEW ts \in TimeoutValues, setThreadTimeout(t, ts)
      PROVE  Goal("run", task[t])
  BY <1>13 DEF setThreadTimeout
<1>14. ASSUME RunReturns(t)
      PROVE  Goal("top", NoTask) \/ Goal("td1", task[t])
  BY <1>14 DEF RunReturns
<1>15. ASSUME Unwind(t)
      PROVE  Goal("top", NoTask) \/ Goal("run", NoTask) \/ Goal("td2", NoTask)
  BY <1>15 DEF Unwind, CatchPoints
<1>16. ASSUME threadSigAction(t)
      PROVE  Goal("td1", task[t]) \/ Goal(pc[t], task[t])
  BY <1>16 DEF threadSigAction
<1>17. Section(pc[t]) \in WorkerPCs
  BY DEF Section
<1>. HIDE DEF Goal
<1>. QED
  BY <1>1, <1>2, <1>3, <1>4, <1>5, <1>6, <1>7, <1>8, <1>9, <1>10, <1>11,
     <1>12, <1>13, <1>14, <1>15, <1>16, <1>17 DEF Worker

(* A worker enters the onExit() of the task it holds: no other thread and  *)
(* no place in the queue holds it.                                         *)
LEMMA HooksCopyThread ==
    ASSUME TypeOK, Places, Hooks, NEW t \in Threads, CopyThread(t)
    PROVE  Hooks'
<1>. DEFINE k == task[t]
<1>1. /\ pc[t] = "td1cs"
      /\ UNCHANGED <<fixed, task, thread_pool_queue, submitted, runs, masked>>
  BY DEF CopyThread, At, poolVars, sigVars
<1>2. CASE k = NoTask
  <2>1. pc' = [pc EXCEPT ![t] = "td2"] /\ exits' = exits
    BY <1>2 DEF CopyThread, Goto
  <2>2. task' = [task EXCEPT ![t] = NoTask]
    BY <1>1, <1>2 DEF TypeOK
  <2>. QED
    BY <1>1, <1>2, <2>1, <2>2, HooksOther DEF WorkerPCs
<1>3. CASE k # NoTask
  <2>1. /\ pc' = [pc EXCEPT ![t] = "onexit"]
        /\ exits' = [exits EXCEPT ![k] = @ + 1]
    BY <1>3 DEF CopyThread, Goto
  <2>2. k \in Tasks /\ exits[k] \in Nat
    BY <1>3 DEF TypeOK
  <2>3. \A j \in Tasks : exits'[j] = IF j = k THEN exits[k] + 1 ELSE exits[j]
    BY <2>1, <2>2 DEF TypeOK
  <2>4. \A u \in Threads : pc'[u] = IF u = t THEN "onexit" ELSE pc[u]
    BY <2>1 DEF TypeOK
  <2>5. exits[k] <= Once(t \in masked)
    BY <1>1, <1>3, <2>2 DEF Hooks, HookCount, Entries, Once, Hooked
  <2>6. exits'[k] <= Entries(t \in masked, "onexit") /\ exits'[k] <= 2
    BY <2>2, <2>3, <2>5 DEF Entries, Once, Hooked
  <2>7. \A u \in Threads : u # t /\ task[u] # NoTask
                              => task[u] \in Tasks /\ task[u] # k
    BY <1>3 DEF Places, Exclusive, TypeOK
  <2>8. \A i \in DOMAIN thread_pool_queue :
           thread_pool_queue[i] \in Tasks /\ thread_pool_queue[i] # k
    BY QueueTyped DEF Places, Exclusive
  <2>9. k \in submitted
    BY <1>3 DEF Places, Ownership
  <2>10. HookCount'
    BY <1>1, <2>3, <2>4, <2>6, <2>7, <2>8, <2>9 DEF Hooks, HookCount
  <2>11. HookDone'
    BY <1>1, <2>2, <2>3, <2>4, <2>7 DEF Hooks, HookDone
  <2>. QED
    BY <2>10, <2>11 DEF Hooks
<1>. QED
  BY <1>2, <1>3

(* A queued task had no onExit() yet; neither had one that run() is passed.*)
LEMMA HooksTakeQueued ==
    ASSUME TypeOK, Places, Hooks, NEW t \in Threads, TakeQueued(t)
    PROVE  Hooks'
<1>. DEFINE q == thread_pool_queue
            n == Len(q)
<1>1. /\ pc' = [pc EXCEPT ![t] = "loop"] /\ pc[t] = "qcs"
      /\ UNCHANGED <<fixed, submitted, runs, exits, masked>>
  BY DEF TakeQueued, Goto, At, taskVars, sigVars
<1>2. task[t] = NoTask
  BY <1>1 DEF Places, Ownership
<1>3. CASE q = <<>>
  <2>1. task' = [task EXCEPT ![t] = NoTask] /\ q' = q
    BY <1>2, <1>3 DEF TakeQueued, TypeOK
  <2>. QED
    BY <1>1, <1>2, <2>1, HooksOther DEF WorkerPCs
<1>4. CASE q # <<>>
  <2>1. /\ task' = [task EXCEPT ![t] = Head(q)] /\ q' = Tail(q)
    BY <1>4 DEF TakeQueued
  <2>2. /\ n \in Nat \ {0} /\ DOMAIN q = 1..n /\ DOMAIN q' = 1..(n - 1)
        /\ Head(q) = q[1] /\ \A i \in 1..(n - 1) : q'[i] = q[i + 1]
        /\ q[1] \in Tasks
    BY <1>4, <2>1, QueueTyped, HeadTailProperties, EmptySeq DEF TypeOK
  <2>3. \A u \in Threads : /\ task'[u] = IF u = t THEN q[1] ELSE task[u]
                           /\ pc'[u] = IF u = t THEN "loop" ELSE pc[u]
    BY <1>1, <2>1, <2>2 DEF TypeOK
  <2>4. \A i \in DOMAIN q' : i + 1 \in DOMAIN q /\ q'[i] = q[i + 1]
    BY <2>2
  <2>5. exits[q[1]] = 0 /\ runs[q[1]] = 0
    BY <2>2 DEF Hooks, HookCount, Places, Exclusive
  <2>6. HookCount'
    BY <1>1, <2>3, <2>4, <2>5 DEF Hooks, HookCount, Entries, Once
  <2>7. HookDone'
    BY <1>1, <1>2, <2>2, <2>3, ConstantsAssumption, SMTT(60) DEF Hooks, HookDone, Hooked
  <2>. QED
    BY <2>6, <2>7 DEF Hooks
<1>. QED
  BY <1>3, <1>4

(* The task whose run() is entered is held. *)
LEMMA HooksBeginTask ==
    ASSUME TypeOK, Places, Hooks, NEW t \in Threads, BeginTask(t)
    PROVE  Hooks'
<1>1. /\ pc[t] = "loop" /\ pc' = [pc EXCEPT ![t] = "run"]
      /\ task[t] \in Tasks
      /\ runs' = [runs EXCEPT ![task[t]] = @ + 1]
      /\ UNCHANGED <<fixed, task, thread_pool_queue, submitted, exits, masked>>
  BY DEF BeginTask, At, Goto, poolVars, sigVars, TypeOK
<1>2. /\ \A k \in Tasks : k # task[t] => runs'[k] = runs[k]
      /\ \A u \in Threads : pc'[u] = IF u = t THEN "run" ELSE pc[u]
  BY <1>1 DEF TypeOK
<1>3. HookCount'
  BY <1>1, <1>2 DEF Hooks, HookCount, Entries, Once, Hooked
<1>4. HookDone'
  BY <1>1, <1>2 DEF Hooks, HookDone, Hooked
<1>. QED
  BY <1>3, <1>4 DEF Hooks

(* run() passes a task that no onExit() was entered for. *)
LEMMA HooksRun ==
    ASSUME TypeOK, Places, Hooks, NEW k \in Tasks,
           \/ RunQueues(k) \/ RunFails(k) \/ RunThrowsLocked(k)
           \/ \E t \in Threads : RunCreates(k, t)
    PROVE  Hooks'
<1>1. k \notin submitted /\ exits[k] = 0 /\ runs[k] = 0
  BY DEF RunQueues, RunFails, RunThrowsLocked, RunCreates, CanSubmit, Hooks,
     HookCount, Places, Ownership
<1>2. /\ submitted' = submitted \union {k}
      /\ UNCHANGED <<fixed, runs, exits, masked>>
  BY DEF RunQueues, RunFails, RunThrowsLocked, RunCreates, sigVars
<1>3. CASE RunQueues(k)
  <2>1. /\ thread_pool_queue' = Append(thread_pool_queue, k)
        /\ UNCHANGED <<task, pc>>
    BY <1>3 DEF RunQueues
  <2>2. \A i \in DOMAIN thread_pool_queue' :
           \/ thread_pool_queue'[i] = k
           \/ i \in DOMAIN thread_pool_queue
                 /\ thread_pool_queue'[i] = thread_pool_queue[i]
    <3>1. thread_pool_queue \in Seq(Tasks)
      BY DEF TypeOK
    <3>. QED
      BY <2>1, <3>1, AppendProperties
  <2>3. HookCount'
    BY <1>1, <1>2, <2>1, <2>2 DEF Hooks, HookCount
  <2>4. HookDone'
    BY <1>2, <2>1 DEF Hooks, HookDone
  <2>. QED
    BY <2>3, <2>4 DEF Hooks
<1>4. CASE RunFails(k) \/ RunThrowsLocked(k)
  BY <1>2, <1>4 DEF RunFails, RunThrowsLocked, poolVars, Hooks, HookCount, HookDone
<1>5. ASSUME NEW t \in Threads, RunCreates(k, t) PROVE Hooks'
  <2>1. /\ pc[t] = "idle" /\ task[t] = NoTask
        /\ pc' = [pc EXCEPT ![t] = "created"] /\ task' = [task EXCEPT ![t] = k]
        /\ UNCHANGED thread_pool_queue
    BY <1>5 DEF RunCreates, Places, Ownership
  <2>2. \A u \in Threads : /\ task'[u] = IF u = t THEN k ELSE task[u]
                           /\ pc'[u] = IF u = t THEN "created" ELSE pc[u]
    BY <2>1 DEF TypeOK
  <2>3. HookCount'
    BY <1>1, <1>2, <2>1, <2>2 DEF Hooks, HookCount, Entries, Once
  <2>4. HookDone'
    BY <1>1, <1>2, <2>1, <2>2, ConstantsAssumption DEF Hooks, HookDone, Hooked
  <2>. QED
    BY <2>3, <2>4 DEF Hooks
<1>. QED
  BY <1>3, <1>4, <1>5

(* Any step keeps the two invariants about onExit. *)
LEMMA HooksStep ==
    ASSUME TypeOK, Places, Hooks, [Next]_vars
    PROVE  Hooks'
<1>1. CASE UNCHANGED <<fixed, pc, task, thread_pool_queue, submitted, runs,
                       exits, masked>>
  BY <1>1 DEF Hooks, HookCount, HookDone
<1>2. ASSUME UNCHANGED vars \/ timerProcess \/ Tick \/ DestroySignalsTimer
             \/ DestroySignalsWorkers \/ DestroyPolls
      PROVE  UNCHANGED <<fixed, pc, task, thread_pool_queue, submitted, runs,
                         exits, masked>>
  BY <1>2 DEF vars, timerProcess, TimerRegisters, TimerRegistered, TimerWakes,
     TimerScans, TimerSigAction, TimerExits, Tick, DestroySignalsTimer,
     DestroySignalsWorkers, DestroyPolls, poolVars, taskVars, sigVars
<1>3. ASSUME NEW t \in Threads, Worker(t),
             ~TakeQueued(t), ~BeginTask(t), ~CopyThread(t)
      PROVE  Hooks'
  BY <1>3, HooksOtherSteps, HooksOther
<1>. QED
  BY <1>1, <1>2, <1>3, HooksRun, HooksTakeQueued, HooksBeginTask, HooksCopyThread
     DEF Next, Owner

(* Both invariants hold in every state. *)
LEMMA HooksHold == Spec => []Hooks
<1>1. Init => Hooks
  BY EmptySeq DEF Init, Hooks, HookCount, HookDone
<1>2. TypeOK /\ Places /\ Hooks /\ [Next]_vars => Hooks'
  BY HooksStep
<1>. QED
  BY <1>1, <1>2, TypeCorrect, PlacesHold, PTL DEF Spec

(***************************************************************************)
(* In a pool that is not fixed, no thread gives up a task that ran before  *)
(* its onExit() was entered, whether run() returned, threw or was timed    *)
(* out, and wherever SIGTERM interrupted the teardown.                     *)
(***************************************************************************)
THEOREM ExitHookAlwaysRuns == Spec => []ExitHookRan
<1>1. Hooks => ExitHookRan
  BY DEF Hooks, HookDone, ExitHookRan, Holders
<1>. QED
  BY <1>1, HooksHold, PTL

(***************************************************************************)
(* onExit() is entered at most twice for a task: once more when SIGTERM    *)
(* interrupts the teardown, and SIGTERM stays blocked from then on.        *)
(***************************************************************************)
THEOREM NoThirdExitHook == Spec => []ExitHookAtMostTwice
<1>1. Hooks => ExitHookAtMostTwice
  BY DEF Hooks, HookCount, ExitHookAtMostTwice
<1>. QED
  BY <1>1, HooksHold, PTL

=============================================================================
