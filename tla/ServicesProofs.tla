---------------------------- MODULE ServicesProofs ----------------------------
(***************************************************************************)
(* Proofs about the services of the library, for every value of their      *)
(* constants: etimeout, the file manager, the file watcher and the         *)
(* connection timer.                                                       *)
(***************************************************************************)
EXTENDS ETimeout, FileManager, FileWatcher, ConnectionTimer, Induction,
        SequenceTheorems

-----------------------------------------------------------------------------
(* etimeout. *)

(* What main() has seen of its child.  A SIGCHLD about an end is of a      *)
(* child that ended; once the flag is armed a handled signal stays seen;   *)
(* the code is the child's when nothing but an end was handled.            *)
Armed == {"polls", "asleep", "slept", "killed", "exited"}

ChildSeen ==
    /\ child \in {"none", "runs", "stopped", "ended"}
    /\ parent = "start" => child = "none"
    /\ sigchld \in {"none", "end", "stop", "continue"}
    /\ sigchld = "end" \/ "end" \in taken => child = "ended"
    /\ taken = {"end"} => code = status
    /\ available = 0 => taken # {}
    /\ ended_at \in {"polls", "asleep", "slept"} =>
          parent \in Armed /\ ("end" \in taken => available = 0)

(* The time is up when main() has sent the SIGKILL, and the exit code is   *)
(* the one of the child or the one of the timeout.                         *)
ClockSeen ==
    /\ elapsed \in Int
    /\ parent = "killed" =>
          /\ elapsed >= Limit /\ exit_code = TimedOut
          /\ child \in {"none", "ended"}
    /\ parent = "exited" /\ child # "none" =>
          IF available = 0 THEN exit_code = code
          ELSE elapsed >= Limit /\ exit_code = TimedOut

ETimeoutInv == ChildSeen /\ ClockSeen

(* A step of etimeout or of its child keeps both.                          *)
LEMMA ETimeoutStep ==
    ASSUME ETimeoutInv, [ETimeoutNext]_et_vars
    PROVE  ETimeoutInv'
<1>. USE ETimeoutAssumption DEF ETimeoutInv, ChildSeen, ClockSeen, Armed
<1>1. CASE Spawns
  BY <1>1 DEF Spawns
<1>2. CASE InstallsHandler
  BY <1>2 DEF InstallsHandler
<1>3. CASE ArmsFlag
  BY <1>3 DEF ArmsFlag
<1>4. CASE Sleeps
  BY <1>4 DEF Sleeps
<1>5. CASE Wakes
  BY <1>5 DEF Wakes
<1>6. CASE ChecksClock
  BY <1>6 DEF ChecksClock, Sends
<1>7. CASE Exits
  BY <1>7 DEF Exits
<1>8. CASE ChildEnds
  BY <1>8 DEF ChildEnds, Sends, HandlerInstalled
<1>9. CASE ChildStops
  BY <1>9 DEF ChildStops, Sends
<1>10. CASE ChildContinues
  BY <1>10 DEF ChildContinues, Sends
<1>11. CASE sig_handler
  BY <1>11 DEF sig_handler, SiStatus
<1>12. CASE UNCHANGED et_vars
  BY <1>12 DEF et_vars
<1>. QED
  BY <1>1, <1>2, <1>3, <1>4, <1>5, <1>6, <1>7, <1>8, <1>9, <1>10, <1>11, <1>12
  DEF ETimeoutNext, ParentStep

(* main(): the code etimeout exits with is true, for every timeout, every  *)
(* set of exit codes and every order of the child's stops, its end, the    *)
(* signals and the polls, unless a stop or a continuation was taken for    *)
(* the end.                                                                *)
THEOREM ExitCodeTells == ETimeoutSpec => []ExitCodeIsTrue
<1>1. ETimeoutInit => ETimeoutInv
  BY DEF ETimeoutInit, ETimeoutInv, ChildSeen, ClockSeen
<1>2. ETimeoutInv => ExitCodeIsTrue
  BY DEF ETimeoutInv, ChildSeen, ClockSeen, ExitCodeIsTrue
<1>. QED
  BY <1>1, <1>2, ETimeoutStep, PTL DEF ETimeoutSpec

-----------------------------------------------------------------------------
(* The file manager. *)

At(t) == writing[t].at
WriterRecords == [at : {"idle", "called", "opened", "written"},
                  buffer : Buffers \union {<<>>}, append : BOOLEAN]

(* Unless the last write was disturbed, at most one thread is between the  *)
(* opening and the removal of its writer, the file is empty until it has   *)
(* written, and holds its buffer afterwards.                               *)
CleanWrite ==
    clean # Disturbed =>
       /\ \A t, u \in Between : t = u
       /\ \A t \in Between : At(t) = "opened" => file = <<>> /\ clean = writing[t].buffer
       /\ (\A t \in Between : At(t) = "written") => file = clean

FileInv == writing \in [FileWriters -> WriterRecords] /\ CleanWrite

(* write() puts its buffer into an empty file, whether it appends or not.  *)
LEMMA WriteToEmpty ==
    ASSUME NEW t \in FileWriters, writeBuffer(t), file = <<>>,
           writing[t].buffer \in Seq(Nat)
    PROVE  file' = writing[t].buffer
<1>. DEFINE b   == writing[t].buffer
            pos == IF writing[t].append THEN Len(file) ELSE 0
            n   == IF Len(file) > pos + Len(b) THEN Len(file) ELSE pos + Len(b)
<1>1. file' = [i \in 1..n |-> IF i \in (pos + 1)..(pos + Len(b))
                              THEN b[i - pos] ELSE file[i]]
  BY DEF writeBuffer
<1>2. pos = 0 /\ n = Len(b) /\ Len(b) \in Nat
  OBVIOUS
<1>. HIDE DEF pos, n
<1>3. file' = [i \in 1..Len(b) |-> b[i]]
  BY <1>1, <1>2
<1>. QED
  BY <1>3

(* A step of a writer, or a restart, keeps the invariant.                  *)
LEMMA FileStepKeeps ==
    ASSUME FileInv, [FileNext]_file_vars
    PROVE  FileInv'
<1>. USE DEF FileInv, CleanWrite, At, Between, WriterRecords, NotWriting
<1>1. ASSUME NEW t \in FileWriters, NEW b \in Buffers, NEW append \in BOOLEAN,
             CallWrite(t, b, append)
      PROVE  FileInv'
  BY <1>1 DEF CallWrite
<1>2. ASSUME NEW t \in FileWriters, writer(t) PROVE FileInv'
  BY <1>2 DEF writer, Overlapped, Undisturbed
<1>3. ASSUME NEW t \in FileWriters, writerThrows(t) PROVE FileInv'
  BY <1>3 DEF writerThrows
<1>4. ASSUME NEW t \in FileWriters, writeBuffer(t) PROVE FileInv'
  <2>1. writing' = [writing EXCEPT ![t].at = "written"] /\ clean' = clean
    BY <1>4 DEF writeBuffer
  <2>2. writing' \in [FileWriters -> WriterRecords] /\ Between' = Between
    BY <1>4, <2>1 DEF writeBuffer
  <2>3. CASE clean = Disturbed
    BY <2>1, <2>2, <2>3
  <2>4. CASE clean # Disturbed
    <3>1. Between = {t}
      BY <1>4, <2>4 DEF writeBuffer
    <3>2. file = <<>> /\ clean = writing[t].buffer
      BY <1>4, <2>4, <3>1 DEF writeBuffer
    <3>3. writing[t].buffer \in Seq(Nat)
      <4>1. writing[t].buffer \in Buffers \/ writing[t].buffer = <<>>
        BY <1>4
      <4>2. CASE writing[t].buffer \in Buffers
        BY <4>2, FileAssumption
      <4>3. CASE writing[t].buffer = <<>>
        BY <4>3
      <4>. QED
        BY <4>1, <4>2, <4>3
    <3>4. file' = writing[t].buffer
      BY <1>4, <3>2, <3>3, WriteToEmpty
    <3>5. Between' = {t} /\ writing'[t].at = "written"
      BY <2>1, <2>2, <3>1
    <3>6. file' = clean'
      BY <2>1, <3>2, <3>4
    <3>. QED
      BY <2>2, <3>5, <3>6
  <2>. QED
    BY <2>3, <2>4
<1>5. ASSUME NEW t \in FileWriters, removeWriter(t) PROVE FileInv'
  BY <1>5 DEF removeWriter
<1>6. CASE Kill
  BY <1>6 DEF Kill
<1>7. CASE UNCHANGED file_vars
  BY <1>7 DEF file_vars
<1>. QED
  BY <1>1, <1>2, <1>3, <1>4, <1>5, <1>6, <1>7 DEF FileNext, FileStep

(* FileManager::write: a write that is not to append and that no other     *)
(* overlaps leaves its buffer in the file and nothing else, for any number *)
(* of writers and any buffers, in whatever order they open, write, close   *)
(* and are killed.                                                         *)
THEOREM WriteStays == FileSpec => []UndisturbedWriteStays
<1>1. FileInit => FileInv
  BY DEF FileInit, FileInv, CleanWrite, Between, WriterRecords, NotWriting
<1>2. FileInv => UndisturbedWriteStays
  BY DEF FileInv, CleanWrite, UndisturbedWriteStays, Overlapped
<1>. QED
  BY <1>1, <1>2, FileStepKeeps, PTL DEF FileSpec

-----------------------------------------------------------------------------
(* The file watcher: the inductive invariant. *)

Places == {"none", "loop", "end", "lock", "read", "events", "handle", "stop",
           "stuck", "aborted"}
Stages == {"new", "alive", "dying", "base", "freed"}
There == {"alive", "dying", "base"}
ThreadRecords ==
    [at : Places, batch : Seq(WatchPaths), cur : {0} \union Watchers, fd : Nat]

ThreadsTyped == thread \in [Threads -> ThreadRecords]

WatchTypes ==
    /\ watch_mutex \in {Main, Owner, 0} \union Threads
    /\ started \in Nat
    /\ registeredWatchers \in [WatchPaths -> {0} \union Watchers]
    /\ paths_wd_map \in [Watchers -> SUBSET WatchPaths]
    /\ watch_paths \in [Watchers -> SUBSET WatchPaths]
    /\ refs \in [Watchers -> Nat]
    /\ life \in [Watchers -> Stages]
    /\ owned \subseteq Watchers
    /\ kernel \in Seq(WatchPaths) /\ Len(kernel) <= MaxEvents
    /\ ThreadsTyped

(* A thread that reads or handles events owns the mutex, and has locked a  *)
(* weak pointer only while it calls handle().                              *)
Locked ==
    \A g \in Threads :
       /\ thread[g].at \in {"read", "events", "handle", "stuck", "aborted"} =>
             watch_mutex = g
       /\ thread[g].cur # 0 => thread[g].at \in {"handle", "aborted"}

(* The owner's pointer and the one of a thread in handle() are counted; a  *)
(* watcher in handle() that is not alive was not when it was locked.       *)
Counted ==
    /\ \A w \in owned : life[w] = "alive" /\ refs[w] >= 1
    /\ \A g \in Threads : thread[g].cur # 0 =>
          /\ life[thread[g].cur] \in There
          /\ life[thread[g].cur] = "alive" \/ thread[g].cur \in late
          /\ refs[thread[g].cur] >= 1
          /\ thread[g].cur \in owned => refs[thread[g].cur] >= 2

(* The mutex is free, or will be unlocked by the thread that has it.       *)
MutexInUse ==
    \/ watch_mutex = 0
    \/ /\ watch_mutex \in Threads
       /\ thread[watch_mutex].at \in {"read", "events", "handle"}

(* A watcher is registered while its memory is there, and its destructor   *)
(* will find its paths, unless it will never get the mutex.                *)
RegisteredAlive ==
    /\ \A p \in WatchPaths : registeredWatchers[p] # 0 =>
          /\ life[registeredWatchers[p]] \in There
          /\ MutexInUse => p \in paths_wd_map[registeredWatchers[p]]
    /\ \A w \in Watchers : paths_wd_map[w] \subseteq watch_paths[w]

WatchInv == WatchTypes /\ Locked /\ Counted /\ RegisteredAlive

-----------------------------------------------------------------------------
(* The file watcher: the steps. *)

(* A thread that moves keeps what it locked, the others stay.              *)
LEMMA MoveFrame ==
    ASSUME WatchTypes, NEW g \in Threads, NEW at, Move(g, at)
    PROVE  /\ \A h \in Threads : /\ thread'[h].cur = thread[h].cur
                                 /\ h # g => thread'[h] = thread[h]
           /\ thread'[g].at = at
  BY DEF WatchTypes, ThreadsTyped, ThreadRecords, Move

(* While the mutex is free no thread has a weak pointer locked.            *)
LEMMA NoneHandles ==
    ASSUME WatchTypes, Locked, watch_mutex = 0, NEW g \in Threads
    PROVE  thread[g].cur = 0
  BY DEF Locked, Threads

(* The mutex stays with the thread that reads or handles.                  *)
LEMMA LockedStep ==
    ASSUME WatchTypes, Locked, [WatchNext]_watch_vars
    PROVE  Locked'
<1>. USE DEF Locked, WatchTypes, ThreadsTyped, ThreadRecords, Step, Move, Main,
          Owner, Threads, NoThread
<1>1. CASE fileWatcherThreadStart
  BY <1>1 DEF fileWatcherThreadStart, NewThread
<1>2. CASE fileWatcherThreadStartThrows
  BY <1>2 DEF fileWatcherThreadStartThrows
<1>3. CASE fileWatcherThreadStop
  BY <1>3 DEF fileWatcherThreadStop, Stops
<1>4. ASSUME NEW w \in Watchers, NewFileWatcher(w) PROVE Locked'
  BY <1>4 DEF NewFileWatcher
<1>5. ASSUME NEW w \in Watchers, initialize(w) PROVE Locked'
  BY <1>5 DEF initialize
<1>6. ASSUME NEW w \in Watchers, initializeThrows(w) PROVE Locked'
  BY <1>6 DEF initializeThrows
<1>7. ASSUME NEW w \in Watchers, OwnerDrops(w) PROVE Locked'
  BY <1>7 DEF OwnerDrops, Dropped
<1>8. ASSUME NEW w \in Watchers, Destructor(w) PROVE Locked'
  BY <1>8 DEF Destructor
<1>9. ASSUME NEW p \in WatchPaths, FileChanges(p) PROVE Locked'
  BY <1>9 DEF FileChanges
<1>10. ASSUME NEW g \in Threads, ThreadEnds(g) PROVE Locked'
  BY <1>10 DEF ThreadEnds
<1>11. ASSUME NEW g \in Threads, ThreadEnters(g) PROVE Locked'
  BY <1>11 DEF ThreadEnters
<1>12. ASSUME NEW g \in Threads, ThreadPolls(g) PROVE Locked'
  <2>1. CASE watch_mutex' = watch_mutex /\ Move(g, "loop")
    BY <1>12, <2>1, MoveFrame DEF ThreadPolls
  <2>2. CASE watch_mutex' = g /\ Move(g, "read")
    BY <1>12, <2>2, MoveFrame DEF ThreadPolls
  <2>. QED
    BY <1>12, <2>1, <2>2 DEF ThreadPolls
<1>13. ASSUME NEW g \in Threads, ThreadReads(g) PROVE Locked'
  BY <1>13 DEF ThreadReads
<1>14. ASSUME NEW g \in Threads, ThreadContinues(g) PROVE Locked'
  BY <1>14 DEF ThreadContinues
<1>15. ASSUME NEW g \in Threads, ThreadFails(g) PROVE Locked'
  BY <1>15 DEF ThreadFails
<1>16. ASSUME NEW g \in Threads, ThreadLocksWeak(g) PROVE Locked'
  BY <1>16 DEF ThreadLocksWeak
<1>17. ASSUME NEW g \in Threads, ThreadHandles(g) PROVE Locked'
  BY <1>17 DEF ThreadHandles, Dropped
<1>18. ASSUME NEW g \in Threads, ThreadUnlocks(g) PROVE Locked'
  BY <1>18 DEF ThreadUnlocks
<1>19. ASSUME NEW g \in Threads, ThreadStops(g) PROVE Locked'
  BY <1>19 DEF ThreadStops, Stops
<1>20. ASSUME NEW w \in Watchers, DerivedDestructor(w) PROVE Locked'
  BY <1>20 DEF DerivedDestructor
<1>21. ASSUME NEW g \in Threads, ThreadAborts(g) PROVE Locked'
  BY <1>21 DEF ThreadAborts
<1>22. CASE UNCHANGED watch_vars
  BY <1>22 DEF watch_vars
<1>. QED
  BY <1>1, <1>2, <1>3, <1>4, <1>5, <1>6, <1>7, <1>8, <1>9, <1>10,
     <1>11, <1>12, <1>13, <1>14, <1>15, <1>16, <1>17, <1>18, <1>19, <1>20,
     <1>21, <1>22
  DEF WatchNext, ThreadNext

(* The count covers the owner's pointer and the one of the handling thread.*)
LEMMA CountedStep ==
    ASSUME WatchTypes, Locked, Counted, RegisteredAlive, [WatchNext]_watch_vars
    PROVE  Counted'
<1>. USE DEF Counted, Locked, WatchTypes, ThreadsTyped, ThreadRecords, Places, Step, Move,
          NoThread, There, Stages
<1>1. CASE fileWatcherThreadStart
  BY <1>1 DEF fileWatcherThreadStart, NewThread
<1>2. CASE fileWatcherThreadStartThrows
  BY <1>2 DEF fileWatcherThreadStartThrows
<1>3. CASE fileWatcherThreadStop
  BY <1>3 DEF fileWatcherThreadStop, Stops
<1>4. ASSUME NEW w \in Watchers, NewFileWatcher(w) PROVE Counted'
  BY <1>4 DEF NewFileWatcher
<1>5. ASSUME NEW w \in Watchers, initialize(w) PROVE Counted'
  BY <1>5 DEF initialize
<1>6. ASSUME NEW w \in Watchers, initializeThrows(w) PROVE Counted'
  BY <1>6 DEF initializeThrows
<1>7. ASSUME NEW w \in Watchers, OwnerDrops(w) PROVE Counted'
  BY <1>7 DEF OwnerDrops, Dropped
<1>8. ASSUME NEW w \in Watchers, Destructor(w) PROVE Counted'
  <2>1. /\ life' = [life EXCEPT ![w] = "freed"] /\ life[w] = "base"
        /\ UNCHANGED <<refs, owned, thread>>
    BY <1>8 DEF Destructor
  <2>2. \A g \in Threads : thread[g].cur = 0
    BY <1>8, NoneHandles DEF Destructor
  <2>. QED
    BY <2>1, <2>2
<1>9. ASSUME NEW p \in WatchPaths, FileChanges(p) PROVE Counted'
  BY <1>9 DEF FileChanges
<1>10. ASSUME NEW g \in Threads, ThreadEnds(g) PROVE Counted'
  BY <1>10 DEF ThreadEnds
<1>11. ASSUME NEW g \in Threads, ThreadEnters(g) PROVE Counted'
  BY <1>11 DEF ThreadEnters
<1>12. ASSUME NEW g \in Threads, ThreadPolls(g) PROVE Counted'
  <2>1. /\ \E at \in {"loop", "read"} : Move(g, at)
        /\ UNCHANGED <<refs, life, owned, late>>
    BY <1>12 DEF ThreadPolls
  <2>2. \A h \in Threads : thread'[h].cur = thread[h].cur
    BY <2>1, MoveFrame
  <2>. QED
    BY <2>1, <2>2
<1>13. ASSUME NEW g \in Threads, ThreadReads(g) PROVE Counted'
  BY <1>13 DEF ThreadReads
<1>14. ASSUME NEW g \in Threads, ThreadContinues(g) PROVE Counted'
  BY <1>14 DEF ThreadContinues
<1>15. ASSUME NEW g \in Threads, ThreadFails(g) PROVE Counted'
  BY <1>15 DEF ThreadFails
<1>16. ASSUME NEW g \in Threads, ThreadLocksWeak(g) PROVE Counted'
  <2>. DEFINE w == registeredWatchers[Head(thread[g].batch)]
  <2>1. w \in {0} \union Watchers /\ (w # 0 => life[w] \in There)
    <3>1. Head(thread[g].batch) \in WatchPaths
      BY <1>16, HeadTailProperties DEF ThreadLocksWeak
    <3>. QED
      BY <3>1 DEF RegisteredAlive
  <2>2. /\ thread' = [thread EXCEPT ![g].batch = Tail(@), ![g].cur = w,
                       ![g].at = IF w = 0 THEN "events" ELSE "handle"]
        /\ refs' = IF w = 0 THEN refs ELSE [refs EXCEPT ![w] = @ + 1]
        /\ late' = IF w = 0 \/ life[w] = "alive" THEN late ELSE late \union {w}
        /\ life' = life /\ owned' = owned
    BY <1>16 DEF ThreadLocksWeak
  <2>. HIDE DEF w
  <2>3. thread'[g].cur = w /\ \A h \in Threads : h # g => thread'[h] = thread[h]
    BY <2>2
  <2>4. \A h \in Threads : h # g => thread[h].cur = 0
    BY <1>16 DEF ThreadLocksWeak
  <2>5. \A v \in owned : life'[v] = "alive" /\ refs'[v] >= 1
    BY <2>1, <2>2
  <2>6. w # 0 => refs'[w] >= 1 /\ (w \in owned => refs'[w] >= 2)
    BY <2>1, <2>2
  <2>7. w # 0 => life'[w] \in There /\ (life'[w] = "alive" \/ w \in late')
    BY <2>1, <2>2
  <2>. QED
    BY <2>2, <2>3, <2>4, <2>5, <2>6, <2>7
<1>17. ASSUME NEW g \in Threads, ThreadHandles(g) PROVE Counted'
  <2>1. /\ thread[g].at = "handle" /\ watch_mutex = g
        /\ Dropped(thread[g].cur) /\ UNCHANGED <<owned, late>>
        /\ thread'[g].cur = 0 /\ \A h \in Threads : h # g => thread'[h] = thread[h]
    BY <1>17 DEF ThreadHandles
  <2>2. \A h \in Threads : thread'[h].cur = 0
    BY ONLY <2>1, Locked DEF Locked
  <2>3. ASSUME NEW w \in owned PROVE life'[w] = "alive" /\ refs'[w] >= 1
    <3>1. /\ life[w] = "alive" /\ refs[w] >= 1 /\ refs[w] \in Nat
          /\ w \in Watchers /\ w # 0
      BY <2>3, WatchAssumption
    <3>2. w = thread[g].cur => refs[w] >= 2
      BY <2>3, <3>1
    <3>3. refs \in [Watchers -> Nat] /\ DOMAIN life = Watchers
      OBVIOUS
    <3>. QED
      BY ONLY <2>1, <3>1, <3>2, <3>3 DEF Dropped
  <2>. QED
    BY <2>1, <2>2, <2>3
<1>18. ASSUME NEW g \in Threads, ThreadUnlocks(g) PROVE Counted'
  BY <1>18 DEF ThreadUnlocks
<1>19. ASSUME NEW g \in Threads, ThreadStops(g) PROVE Counted'
  BY <1>19 DEF ThreadStops, Stops
<1>20. ASSUME NEW w \in Watchers, DerivedDestructor(w) PROVE Counted'
  BY <1>20 DEF DerivedDestructor
<1>21. ASSUME NEW g \in Threads, ThreadAborts(g) PROVE Counted'
  BY <1>21, MoveFrame DEF ThreadAborts
<1>22. CASE UNCHANGED watch_vars
  BY <1>22 DEF watch_vars
<1>. QED
  BY <1>1, <1>2, <1>3, <1>4, <1>5, <1>6, <1>7, <1>8, <1>9, <1>10,
     <1>11, <1>12, <1>13, <1>14, <1>15, <1>16, <1>17, <1>18, <1>19, <1>20,
     <1>21, <1>22
  DEF WatchNext, ThreadNext

(* Registrations stay findable for the destructor.                         *)
LEMMA RegisteredStep ==
    ASSUME WatchTypes, Locked, Counted, RegisteredAlive, [WatchNext]_watch_vars
    PROVE  RegisteredAlive'
<1>. USE WatchAssumption
     DEF RegisteredAlive, MutexInUse, WatchTypes, ThreadsTyped, ThreadRecords,
         Step, Move, Main, Owner, Threads, NoThread, There, Stages
<1>1. CASE fileWatcherThreadStart
  BY <1>1 DEF fileWatcherThreadStart
<1>2. CASE fileWatcherThreadStartThrows
  BY <1>2 DEF fileWatcherThreadStartThrows
<1>3. CASE fileWatcherThreadStop
  BY <1>3 DEF fileWatcherThreadStop, Stops
<1>4. ASSUME NEW w \in Watchers, NewFileWatcher(w) PROVE RegisteredAlive'
  BY <1>4 DEF NewFileWatcher
<1>5. ASSUME NEW w \in Watchers, initialize(w) PROVE RegisteredAlive'
  <2>1. ASSUME NEW p \in WatchPaths, registeredWatchers'[p] # 0
        PROVE  LET v == registeredWatchers'[p]
               IN  p \in paths_wd_map'[v] /\ life[v] \in There
    <3>1. MutexInUse /\ life[w] = "alive"
      BY <1>5 DEF initialize, Counted
    <3>2. CASE p \in watch_paths[w]
      BY <1>5, <2>1, <3>1, <3>2 DEF initialize
    <3>3. CASE p \notin watch_paths[w]
      BY <1>5, <2>1, <3>1, <3>3 DEF initialize
    <3>. QED
      BY <3>2, <3>3
  <2>. QED
    BY <1>5, <2>1 DEF initialize
<1>6. ASSUME NEW w \in Watchers, initializeThrows(w) PROVE RegisteredAlive'
  <2>1. PICK done \in SUBSET watch_paths[w] :
           /\ paths_wd_map' = [paths_wd_map EXCEPT ![w] = @ \union done]
           /\ registeredWatchers' = [p \in WatchPaths |->
                 IF p \in done THEN w ELSE registeredWatchers[p]]
    BY <1>6 DEF initializeThrows
  <2>2. /\ life[w] = "alive" /\ life' = life /\ watch_mutex' = Owner
        /\ ~MutexInUse' /\ watch_paths' = watch_paths
    BY <1>6 DEF initializeThrows, Counted
  <2>. QED
    BY <2>1, <2>2
<1>7. ASSUME NEW w \in Watchers, OwnerDrops(w) PROVE RegisteredAlive'
  BY <1>7 DEF OwnerDrops, Dropped
<1>8. ASSUME NEW w \in Watchers, Destructor(w) PROVE RegisteredAlive'
  BY <1>8 DEF Destructor
<1>9. ASSUME NEW p \in WatchPaths, FileChanges(p) PROVE RegisteredAlive'
  BY <1>9 DEF FileChanges
<1>10. ASSUME NEW g \in Threads, ThreadEnds(g) PROVE RegisteredAlive'
  BY <1>10 DEF ThreadEnds
<1>11. ASSUME NEW g \in Threads, ThreadEnters(g) PROVE RegisteredAlive'
  BY <1>11 DEF ThreadEnters
<1>12. ASSUME NEW g \in Threads, ThreadPolls(g) PROVE RegisteredAlive'
  BY <1>12 DEF ThreadPolls
<1>13. ASSUME NEW g \in Threads, ThreadReads(g) PROVE RegisteredAlive'
  BY <1>13 DEF ThreadReads
<1>14. ASSUME NEW g \in Threads, ThreadContinues(g) PROVE RegisteredAlive'
  BY <1>14 DEF ThreadContinues
<1>15. ASSUME NEW g \in Threads, ThreadFails(g) PROVE RegisteredAlive'
  <2>1. MutexInUse
    BY <1>15 DEF ThreadFails, Locked
  <2>. QED
    BY <1>15, <2>1 DEF ThreadFails
<1>16. ASSUME NEW g \in Threads, ThreadLocksWeak(g) PROVE RegisteredAlive'
  BY <1>16 DEF ThreadLocksWeak
<1>17. ASSUME NEW g \in Threads, ThreadHandles(g) PROVE RegisteredAlive'
  <2>. DEFINE w == thread[g].cur
              last == refs[w] = 1
  <2>1. /\ thread[g].at = "handle" /\ watch_mutex = g
        /\ UNCHANGED <<registeredWatchers, paths_wd_map, watch_paths>>
    BY <1>17 DEF ThreadHandles, Locked
  <2>2. \A v \in Watchers : life'[v] = life[v] \/ life'[v] = "dying"
    BY <1>17 DEF ThreadHandles, Dropped
  <2>3. MutexInUse
    BY <2>1
  <2>. QED
    BY <2>1, <2>2, <2>3
<1>18. ASSUME NEW g \in Threads, ThreadUnlocks(g) PROVE RegisteredAlive'
  <2>1. MutexInUse
    BY <1>18 DEF ThreadUnlocks, Locked
  <2>. QED
    BY <1>18, <2>1 DEF ThreadUnlocks
<1>19. ASSUME NEW g \in Threads, ThreadStops(g) PROVE RegisteredAlive'
  BY <1>19 DEF ThreadStops, Stops
<1>20. ASSUME NEW w \in Watchers, DerivedDestructor(w) PROVE RegisteredAlive'
  BY <1>20 DEF DerivedDestructor
<1>21. ASSUME NEW g \in Threads, ThreadAborts(g) PROVE RegisteredAlive'
  BY <1>21 DEF ThreadAborts
<1>22. CASE UNCHANGED watch_vars
  BY <1>22 DEF watch_vars
<1>. QED
  BY <1>1, <1>2, <1>3, <1>4, <1>5, <1>6, <1>7, <1>8, <1>9, <1>10,
     <1>11, <1>12, <1>13, <1>14, <1>15, <1>16, <1>17, <1>18, <1>19, <1>20,
     <1>21, <1>22
  DEF WatchNext, ThreadNext

(* One thread changes its place, its events or the watcher it handles.     *)
Moved(g, at, batch, cur) ==
    \/ Move(g, at)
    \/ thread' = [thread EXCEPT ![g].at = at, ![g].batch = batch]
    \/ thread' = [thread EXCEPT ![g].cur = cur, ![g].at = at]
    \/ thread' = [thread EXCEPT ![g].batch = batch, ![g].cur = cur, ![g].at = at]

(* It stays a thread.                                                      *)
LEMMA ThreadTyped ==
    ASSUME ThreadsTyped, NEW g \in Threads, NEW at \in Places,
           NEW batch \in Seq(WatchPaths), NEW cur \in {0} \union Watchers,
           Moved(g, at, batch, cur)
    PROVE  ThreadsTyped'
<1>. DEFINE Batches == Seq(WatchPaths)
            Handled == {0} \union Watchers
<1>1. thread \in [Threads -> [at : Places, batch : Batches, cur : Handled, fd : Nat]]
  BY DEF ThreadsTyped, ThreadRecords
<1>2. batch \in Batches /\ cur \in Handled
  OBVIOUS
<1>. HIDE DEF Batches, Handled, Places
<1>3. thread' \in [Threads -> [at : Places, batch : Batches, cur : Handled, fd : Nat]]
  <2>1. CASE Move(g, at)
    BY ONLY <1>1, <2>1, at \in Places, g \in Threads DEF Move
  <2>2. CASE thread' = [thread EXCEPT ![g].at = at, ![g].batch = batch]
    BY ONLY <1>1, <1>2, <2>2, at \in Places, g \in Threads
  <2>3. CASE thread' = [thread EXCEPT ![g].cur = cur, ![g].at = at]
    BY ONLY <1>1, <1>2, <2>3, at \in Places, g \in Threads
  <2>4. CASE thread' = [thread EXCEPT ![g].batch = batch, ![g].cur = cur, ![g].at = at]
    BY ONLY <1>1, <1>2, <2>4, at \in Places, g \in Threads
  <2>. QED
    BY <2>1, <2>2, <2>3, <2>4 DEF Moved
<1>. QED
  BY <1>3 DEF ThreadsTyped, ThreadRecords, Batches, Handled

(* ... and most steps only move it.                                        *)
LEMMA MoveTyped ==
    ASSUME ThreadsTyped, NEW g \in Threads, NEW at \in Places, Move(g, at)
    PROVE  ThreadsTyped'
<1>1. Moved(g, at, <<>>, 0)
  BY DEF Moved
<1>2. <<>> \in Seq(WatchPaths) /\ 0 \in {0} \union Watchers
  BY EmptySeq
<1>. QED
  BY <1>1, <1>2, ThreadTyped

(* Whether the stop goes through or waits for itself, the types hold.      *)
LEMMA StopsTyped ==
    ASSUME WatchTypes, NEW by, by \in {Main, Owner, 0} \union Threads, Stops(by)
    PROVE  /\ watch_mutex' \in {Main, Owner, 0} \union Threads
           /\ registeredWatchers' \in [WatchPaths -> {0} \union Watchers]
           /\ paths_wd_map' \in [Watchers -> SUBSET WatchPaths]
           /\ watch_paths' \in [Watchers -> SUBSET WatchPaths]
           /\ kernel' \in Seq(WatchPaths) /\ Len(kernel') <= MaxEvents
<1>1. /\ paths_wd_map' = [w \in Watchers |->
            IF w \in Registered THEN {} ELSE paths_wd_map[w]]
      /\ watch_paths' = [w \in Watchers |->
            IF w \in Registered THEN {} ELSE watch_paths[w]]
      /\ \/ watch_mutex' = by /\ UNCHANGED <<registeredWatchers, kernel>>
         \/ /\ watch_mutex' = 0 /\ kernel' = <<>>
            /\ registeredWatchers' = [p \in WatchPaths |-> 0]
  BY DEF Stops
<1>2. registeredWatchers' \in [WatchPaths -> {0} \union Watchers]
  BY <1>1 DEF WatchTypes
<1>3. /\ paths_wd_map' \in [Watchers -> SUBSET WatchPaths]
      /\ watch_paths' \in [Watchers -> SUBSET WatchPaths]
  <2>. HIDE DEF Registered
  <2>. QED
    BY <1>1 DEF WatchTypes
<1>4. kernel' \in Seq(WatchPaths) /\ Len(kernel') <= MaxEvents
  <2>1. <<>> \in Seq(WatchPaths) /\ Len(<<>>) <= MaxEvents
    BY EmptySeq, WatchAssumption
  <2>. QED
    BY <1>1, <2>1 DEF WatchTypes
<1>. QED
  BY <1>1, <1>2, <1>3, <1>4 DEF WatchTypes

(* Every value stays of its type; a count is only lowered by a holder.     *)
LEMMA TypesStep ==
    ASSUME WatchInv, [WatchNext]_watch_vars
    PROVE  WatchTypes'
<1>. USE WatchAssumption DEF WatchInv, WatchTypes, Step, Main, Owner, Threads
<1>1. CASE fileWatcherThreadStart
  <2>1. PICK n \in 1..(started + 1) :
           thread' = [thread EXCEPT ![started + 1] = NewThread(n)]
    BY ONLY <1>1 DEF fileWatcherThreadStart
  <2>2. NewThread(n) \in ThreadRecords
    BY EmptySeq DEF NewThread, ThreadRecords, Places
  <2>3. ThreadsTyped'
    BY <2>1, <2>2 DEF ThreadsTyped
  <2>4. kernel' \in Seq(WatchPaths) /\ Len(kernel') <= MaxEvents
    BY <1>1, EmptySeq DEF fileWatcherThreadStart
  <2>. QED
    BY <1>1, <2>3, <2>4 DEF fileWatcherThreadStart
<1>2. CASE fileWatcherThreadStartThrows
  BY <1>2 DEF fileWatcherThreadStartThrows, ThreadsTyped
<1>3. CASE fileWatcherThreadStop
  <2>. QED
    BY <1>3, StopsTyped DEF fileWatcherThreadStop, ThreadsTyped
<1>4. ASSUME NEW w \in Watchers, NewFileWatcher(w) PROVE WatchTypes'
  BY <1>4 DEF NewFileWatcher, Stages, ThreadsTyped
<1>5. ASSUME NEW w \in Watchers, initialize(w) PROVE WatchTypes'
  BY <1>5 DEF initialize, ThreadsTyped
<1>6. ASSUME NEW w \in Watchers, initializeThrows(w) PROVE WatchTypes'
  BY <1>6, SMTT(60) DEF initializeThrows, ThreadsTyped
<1>7. ASSUME NEW w \in Watchers, OwnerDrops(w) PROVE WatchTypes'
  BY <1>7, SMTT(60) DEF OwnerDrops, Dropped, Counted, Stages, ThreadsTyped
<1>8. ASSUME NEW w \in Watchers, Destructor(w) PROVE WatchTypes'
  BY <1>8 DEF Destructor, Stages, ThreadsTyped
<1>9. ASSUME NEW p \in WatchPaths, FileChanges(p) PROVE WatchTypes'
  BY <1>9, AppendProperties, SMTT(60) DEF FileChanges, ThreadsTyped
<1>10. ASSUME NEW g \in Threads, ThreadEnds(g) PROVE WatchTypes'
  <2>1. ThreadsTyped'
    BY <1>10, MoveTyped DEF ThreadEnds, Places
  <2>. QED
    BY <1>10, <2>1 DEF ThreadEnds
<1>11. ASSUME NEW g \in Threads, ThreadEnters(g) PROVE WatchTypes'
  <2>1. ThreadsTyped'
    BY <1>11, MoveTyped DEF ThreadEnters, Places
  <2>. QED
    BY <1>11, <2>1 DEF ThreadEnters
<1>12. ASSUME NEW g \in Threads, ThreadPolls(g) PROVE WatchTypes'
  <2>1. \/ watch_mutex' = watch_mutex /\ Move(g, "loop")
        \/ watch_mutex' = g /\ Move(g, "read")
    BY <1>12 DEF ThreadPolls
  <2>2. ThreadsTyped'
    BY <2>1, MoveTyped DEF Places
  <2>. QED
    BY <1>12, <2>1, <2>2 DEF ThreadPolls
<1>13. ASSUME NEW g \in Threads, ThreadReads(g) PROVE WatchTypes'
  <2>1. ThreadsTyped'
    <3>1. /\ Moved(g, "events", kernel, 0)
          /\ kernel \in Seq(WatchPaths) /\ "events" \in Places /\ 0 \in {0} \union Watchers
      BY <1>13 DEF ThreadReads, Places, Moved
    <3>. QED
      BY <3>1, ThreadTyped
  <2>2. kernel' \in Seq(WatchPaths) /\ Len(kernel') <= MaxEvents
    BY <1>13, EmptySeq DEF ThreadReads
  <2>. QED
    BY <1>13, <2>1, <2>2 DEF ThreadReads
<1>14. ASSUME NEW g \in Threads, ThreadContinues(g) PROVE WatchTypes'
  <2>1. ThreadsTyped'
    BY <1>14, MoveTyped DEF ThreadContinues, Places
  <2>. QED
    BY <1>14, <2>1 DEF ThreadContinues
<1>15. ASSUME NEW g \in Threads, ThreadFails(g) PROVE WatchTypes'
  <2>1. ThreadsTyped'
    BY <1>15, MoveTyped DEF ThreadFails, Places
  <2>. QED
    BY <1>15, <2>1 DEF ThreadFails
<1>16. ASSUME NEW g \in Threads, ThreadLocksWeak(g) PROVE WatchTypes'
  <2>. DEFINE w == registeredWatchers[Head(thread[g].batch)]
  <2>1. w \in {0} \union Watchers /\ Tail(thread[g].batch) \in Seq(WatchPaths)
    BY <1>16, HeadTailProperties DEF ThreadLocksWeak, ThreadsTyped, ThreadRecords
  <2>2. /\ thread' = [thread EXCEPT ![g].batch = Tail(@), ![g].cur = w,
                       ![g].at = IF w = 0 THEN "events" ELSE "handle"]
        /\ refs' = IF w = 0 THEN refs ELSE [refs EXCEPT ![w] = @ + 1]
    BY <1>16 DEF ThreadLocksWeak
  <2>. HIDE DEF w
  <2>3. ThreadsTyped'
    <3>. DEFINE at == IF w = 0 THEN "events" ELSE "handle"
                batch == Tail(thread[g].batch)
    <3>1. at \in Places
      BY DEF Places
    <3>2. Moved(g, at, batch, w)
      BY <2>2 DEF Moved
    <3>3. batch \in Seq(WatchPaths)
      BY <2>1
    <3>. HIDE DEF at, batch
    <3>. QED
      BY <2>1, <3>1, <3>2, <3>3, ThreadTyped
  <2>4. refs' \in [Watchers -> Nat]
    BY <2>1, <2>2
  <2>. QED
    BY <1>16, <2>3, <2>4 DEF ThreadLocksWeak
<1>17. ASSUME NEW g \in Threads, ThreadHandles(g) PROVE WatchTypes'
  <2>. DEFINE w == thread[g].cur
              last == refs[w] = 1
  <2>1. PICK throws \in BOOLEAN :
           /\ thread' = [thread EXCEPT ![g].cur = 0,
                            ![g].at = IF last THEN "stuck"
                                      ELSE IF throws THEN "stop" ELSE "events"]
           /\ Dropped(w)
           /\ watch_mutex' = IF throws /\ ~last THEN 0 ELSE watch_mutex
    BY ONLY <1>17 DEF ThreadHandles
  <2>2. w \in {0} \union Watchers /\ (w # 0 => refs[w] >= 1)
    BY DEF Counted, ThreadsTyped, ThreadRecords
  <2>. HIDE DEF w, last
  <2>3. ThreadsTyped'
    <3>. DEFINE at == IF last THEN "stuck" ELSE IF throws THEN "stop" ELSE "events"
    <3>1. at \in Places
      BY DEF Places
    <3>2. Moved(g, at, <<>>, 0)
      BY <2>1 DEF Moved
    <3>3. <<>> \in Seq(WatchPaths) /\ 0 \in {0} \union Watchers
      BY EmptySeq
    <3>. HIDE DEF at
    <3>. QED
      BY <3>1, <3>2, <3>3, ThreadTyped
  <2>4. refs' \in [Watchers -> Nat]
    <3>1. /\ refs \in [Watchers -> Nat] /\ refs' = [refs EXCEPT ![w] = @ - 1]
          /\ 0 \notin Watchers
      BY <2>1 DEF Dropped
    <3>2. CASE w = 0
      BY ONLY <3>1, <3>2
    <3>3. CASE w \in Watchers
      BY ONLY <2>2, <3>1, <3>3
    <3>. QED
      BY <2>2, <3>2, <3>3
  <2>5. life' \in [Watchers -> Stages]
    BY <2>1, <2>2 DEF Dropped, Stages
  <2>. QED
    BY <1>17, <2>1, <2>3, <2>4, <2>5 DEF ThreadHandles
<1>18. ASSUME NEW g \in Threads, ThreadUnlocks(g) PROVE WatchTypes'
  <2>1. ThreadsTyped'
    BY <1>18, MoveTyped DEF ThreadUnlocks, Places
  <2>. QED
    BY <1>18, <2>1 DEF ThreadUnlocks
<1>19. ASSUME NEW g \in Threads, ThreadStops(g) PROVE WatchTypes'
  <2>1. ThreadsTyped'
    BY <1>19, MoveTyped DEF ThreadStops, Places
  <2>. QED
    BY <1>19, <2>1, StopsTyped DEF ThreadStops
<1>20. ASSUME NEW w \in Watchers, DerivedDestructor(w) PROVE WatchTypes'
  BY <1>20 DEF DerivedDestructor, Stages, ThreadsTyped
<1>21. ASSUME NEW g \in Threads, ThreadAborts(g) PROVE WatchTypes'
  <2>1. ThreadsTyped'
    BY <1>21, MoveTyped DEF ThreadAborts, Places
  <2>. QED
    BY <1>21, <2>1 DEF ThreadAborts
<1>22. CASE UNCHANGED watch_vars
  BY <1>22 DEF watch_vars, ThreadsTyped
<1>. QED
  BY <1>1, <1>2, <1>3, <1>4, <1>5, <1>6, <1>7, <1>8, <1>9, <1>10,
     <1>11, <1>12, <1>13, <1>14, <1>15, <1>16, <1>17, <1>18, <1>19, <1>20,
     <1>21, <1>22
  DEF WatchNext, ThreadNext

(* No watcher exists and no thread runs at first.                          *)
LEMMA WatchInitially == WatchInit => WatchInv
<1>. SUFFICES ASSUME WatchInit PROVE WatchInv
  OBVIOUS
<1>1. NoThread \in ThreadRecords
  BY EmptySeq DEF NoThread, ThreadRecords, Places
<1>2. kernel \in Seq(WatchPaths) /\ Len(kernel) <= MaxEvents
  BY EmptySeq, WatchAssumption DEF WatchInit
<1>3. WatchTypes
  BY <1>1, <1>2 DEF WatchInit, WatchTypes, ThreadsTyped, Main, Owner, Stages
<1>4. Locked /\ Counted /\ RegisteredAlive
  BY DEF WatchInit, Locked, Counted, RegisteredAlive, NoThread
<1>. QED
  BY <1>3, <1>4 DEF WatchInv

-----------------------------------------------------------------------------
(* The file watcher: the theorems. *)

(* Whatever the threads, the owner and the file system do, the parts of    *)
(* the invariant hold.                                                     *)
THEOREM WatchInvariant == WatchSpec => []WatchInv
<1>1. ASSUME WatchInv, [WatchNext]_watch_vars PROVE WatchInv'
  BY <1>1, TypesStep, LockedStep, CountedStep, RegisteredStep DEF WatchInv
<1>. QED
  BY <1>1, WatchInitially, PTL DEF WatchSpec

(* The state of the file watcher is always of its type.                    *)
THEOREM WatchTypesHold == WatchSpec => []WatchTypeOK
<1>1. WatchInv => WatchTypeOK
  BY DEF WatchInv, WatchTypes, WatchTypeOK
<1>. QED
  BY <1>1, WatchInvariant, PTL

(* handle() never runs on freed memory, nor on a watcher that is being     *)
(* destroyed unless it was locked that late, nor is freed memory           *)
(* registered, for any number of watchers, paths, threads and events.      *)
THEOREM NeverHandledFreed == WatchSpec => []HandledBeforeFreed
<1>1. ASSUME WatchInv PROVE HandledBeforeFreed
  BY <1>1 DEF WatchInv, WatchTypes, Counted, RegisteredAlive,
      HandledBeforeFreed, Registered, There
<1>. QED
  BY <1>1, WatchInvariant, PTL

-----------------------------------------------------------------------------
(* The connection timer: the inductive invariant. *)

(* The types.                                                              *)
NodeRecords == [live : BOOLEAN, fd : TimerFds \union {0}, start_s : Nat,
                timeout_s : TimerTimeouts \union {0},
                next : 0..MaxConnections, prev : 0..MaxConnections]
NodeLists == [start : 0..MaxConnections, end : 0..MaxConnections,
              node : [Nodes -> NodeRecords]]

TimerTypes ==
    /\ connections \in NodeLists
    /\ timer_mutex \in {"none"} \union TimerCallers
    /\ timer_now \in 0..TimerHorizon /\ raced \in BOOLEAN
    /\ timer_pc \in [TimerCallers ->
          [at : {"idle", "first", "end", "append", "set", "get"},
           node : 0..MaxConnections, fd : TimerFds \union {0},
           timeout_s : TimerTimeouts \union {0}]]

(* The list l is the sequence s: start and the links of both directions    *)
(* spell it, and so does end, unless an addition to the empty list has set *)
(* start only.  A connection that is not in the list has no links.         *)
In(s) == {s[i] : i \in 1..Len(s)}
Tip(s) == IF s = <<>> THEN 0 ELSE s[Len(s)]
Spells(l, s, adding) ==
    /\ s \in Seq(Nodes) /\ \A i, j \in 1..Len(s) : s[i] = s[j] => i = j
    /\ l.start = IF s = <<>> THEN 0 ELSE s[1]
    /\ l.end = Tip(s) \/ (adding /\ l.end = 0 /\ Len(s) = 1)
    /\ \A i \in 1..Len(s) :
          /\ l.node[s[i]].next = IF i < Len(s) THEN s[i + 1] ELSE 0
          /\ l.node[s[i]].prev = IF i > 1 THEN s[i - 1] ELSE 0
    /\ \A n \in Nodes \ In(s) : l.node[n].next = 0 /\ l.node[n].prev = 0

(* The additions that have a connection not linked yet, and those that     *)
(* have not set end yet.                                                   *)
Adders == {c \in TimerCallers : timer_pc[c].at \in {"first", "append"}}
Adding == \E c \in TimerCallers : timer_pc[c].at = "end"

(* The connections that are live are those of the list and those that are  *)
(* about to be linked, each by one addition.                               *)
Lives(l, s) ==
    /\ \A n \in Nodes : l.node[n].live <=>
          n \in In(s) \/ \E c \in Adders : timer_pc[c].node = n
    /\ \A c \in Adders : timer_pc[c].node \in Nodes \ In(s)
    /\ \A c, d \in Adders : timer_pc[c].node = timer_pc[d].node => c = d

TimerInv ==
    /\ TimerTypes
    /\ ~raced => \E s : Spells(connections, s, Adding) /\ Lives(connections, s)

-----------------------------------------------------------------------------
(* The connection timer: chains. *)

(* A sequence of different connections is not longer than there are any.   *)
LEMMA NotTooLong ==
    ASSUME NEW s \in Seq(Nodes), \A i, j \in 1..Len(s) : s[i] = s[j] => i = j
    PROVE  Len(s) \in 0..MaxConnections
<1>1. Len(s) \in Nat /\ MaxConnections \in Nat
  BY TimerAssumption
<1>2. SUFFICES ASSUME Len(s) > MaxConnections PROVE FALSE
  BY <1>1
<1>3. /\ IsFiniteSet(1..Len(s)) /\ Cardinality(1..Len(s)) = Len(s)
      /\ IsFiniteSet(Nodes) /\ Cardinality(Nodes) = MaxConnections
  BY <1>1, CountUpto DEF Nodes
<1>4. [i \in 1..Len(s) |-> s[i]] \in [1..Len(s) -> Nodes]
  BY ElementOfSeq
<1>5. \E i, j \in 1..Len(s) : i # j /\ [k \in 1..Len(s) |-> s[k]][i] = [k \in 1..Len(s) |-> s[k]][j]
  BY <1>2, <1>3, <1>4, FS_PigeonHole
<1>. QED
  BY <1>5

(* A walk along the links that spell t meets t.                            *)
LEMMA ChainIs ==
    ASSUME NEW l, NEW t \in Seq(Nodes), Len(t) \in 0..MaxConnections,
           NEW forward \in BOOLEAN, NEW n, n = IF t = <<>> THEN 0 ELSE t[1],
           \A i \in 1..Len(t) :
              (IF i < Len(t) THEN t[i + 1] ELSE 0)
                 = IF forward THEN l.node[t[i]].next ELSE l.node[t[i]].prev
    PROVE  Chain(l, n, forward) = t
<1>. DEFINE Follows(f) ==
        [i \in Nodes |-> IF i = 1 THEN n ELSE IF f[i - 1] = 0 THEN 0
                         ELSE IF forward THEN l.node[f[i - 1]].next
                         ELSE l.node[f[i - 1]].prev]
            w == [i \in Nodes |-> IF i <= Len(t) THEN t[i] ELSE 0]
            nth == CHOOSE f : f = Follows(f)
<1>1. /\ MaxConnections \in Nat \ {0} /\ Len(t) \in Nat
      /\ \A i \in Nodes : i \in Nat /\ i >= 1
      /\ \A i \in Nodes : i # 1 => i - 1 \in Nodes
  BY TimerAssumption DEF Nodes
<1>2. \A i \in 1..Len(t) : t[i] \in Nodes /\ t[i] # 0
  BY <1>1, ElementOfSeq
<1>3. w = Follows(w)
  <2>1. ASSUME NEW i \in Nodes PROVE w[i] = Follows(w)[i]
    <3>1. CASE i = 1
      BY <1>1, <3>1
    <3>2. CASE i # 1 /\ i - 1 > Len(t)
      BY <1>1, <3>2
    <3>3. CASE i # 1 /\ i - 1 <= Len(t)
      <4>1. i - 1 \in 1..Len(t) /\ w[i - 1] = t[i - 1] /\ t[i - 1] # 0
        BY <1>1, <1>2, <3>3
      <4>2. w[i] = IF i - 1 < Len(t) THEN t[(i - 1) + 1] ELSE 0
        BY <1>1, <3>3
      <4>. QED
        BY <3>3, <4>1, <4>2
    <3>. QED
      BY <1>1, <3>1, <3>2, <3>3
  <2>. QED
    BY <2>1
<1>4. nth = Follows(nth)
  <2>. HIDE DEF Follows, w
  <2>. QED
    BY <1>3
<1>5. \A i \in Nodes : nth[i] = w[i]
  <2>. HIDE DEF nth
  <2>. DEFINE T == {k \in Nat : k + 1 \in Nodes => nth[k + 1] = w[k + 1]}
  <2>1. 0 \in T
    <3>1. 1 \in Nodes => nth[1] = n
      BY <1>4
    <3>2. 1 \in Nodes => w[1] = n
      BY <1>1
    <3>. QED
      BY <3>1, <3>2
  <2>2. ASSUME NEW k \in T PROVE k + 1 \in T
    <3>. SUFFICES ASSUME (k + 1) + 1 \in Nodes PROVE nth[(k + 1) + 1] = w[(k + 1) + 1]
      OBVIOUS
    <3>. DEFINE i == (k + 1) + 1
    <3>1. i \in Nodes /\ i # 1 /\ i - 1 = k + 1 /\ k + 1 \in Nodes
      <4>1. k \in Nat /\ i \in Nodes /\ i # 1 /\ i - 1 = k + 1
        OBVIOUS
      <4>. HIDE DEF i
      <4>. QED
        BY <1>1, <4>1
    <3>2. nth[i - 1] = w[i - 1]
      BY <3>1
    <3>3. nth[i] = Follows(nth)[i] /\ w[i] = Follows(w)[i]
      BY <1>3, <1>4
    <3>. HIDE DEF i, w
    <3>4. Follows(nth)[i] = Follows(w)[i]
      BY <3>1, <3>2
    <3>. QED
      BY <3>3, <3>4 DEF i
  <2>3. T = Nat
    <3>1. T \in SUBSET Nat
      OBVIOUS
    <3>. HIDE DEF T
    <3>. QED
      BY <2>1, <2>2, <3>1, SetInduction
  <2>4. ASSUME NEW i \in Nodes PROVE nth[i] = w[i]
    <3>. DEFINE k == i - 1
    <3>1. k \in Nat /\ k + 1 = i
      BY <1>1
    <3>2. k \in T
      BY <2>3, <3>1
    <3>. QED
      BY <3>1, <3>2
  <2>. QED
    BY <2>4
<1>6. {k \in Nodes : nth[k] # 0} = 1..Len(t)
  <2>1. \A k \in Nodes : w[k] # 0 <=> k <= Len(t)
    BY <1>1, <1>2
  <2>2. 1..Len(t) \subseteq Nodes
    BY <1>1 DEF Nodes
  <2>. HIDE DEF w, nth
  <2>. QED
    BY <1>1, <1>5, <2>1, <2>2, SMTT(60)
<1>7. Chain(l, n, forward) = [i \in 1..Cardinality({k \in Nodes : nth[k] # 0}) |-> nth[i]]
  BY DEF Chain
<1>8. Chain(l, n, forward) = [i \in 1..Len(t) |-> nth[i]]
  <2>1. Cardinality(1..Len(t)) = Len(t)
    BY <1>1, CountUpto
  <2>. HIDE DEF nth
  <2>. QED
    BY <1>6, <1>7, <2>1
<1>9. [i \in 1..Len(t) |-> nth[i]] = [i \in 1..Len(t) |-> t[i]]
  <2>1. 1..Len(t) \subseteq Nodes
    BY <1>1 DEF Nodes
  <2>2. \A i \in 1..Len(t) : w[i] = t[i]
    BY <1>1, <2>1
  <2>. HIDE DEF nth, w
  <2>. QED
    BY <1>5, <2>1, <2>2
<1>10. [i \in 1..Len(t) |-> t[i]] = t
  BY LenProperties
<1>. QED
  BY ONLY <1>8, <1>9, <1>10

(* Facts about the two links and the ends of a list that spells s.         *)
LEMMA SpelledLinks ==
    ASSUME NEW l, NEW s, NEW adding, Spells(l, s, adding)
    PROVE  /\ s \in Seq(Nodes) /\ Len(s) \in 0..MaxConnections
           /\ (s = <<>>) <=> (Len(s) = 0)
           /\ \A i \in 1..Len(s) : s[i] \in Nodes /\ s[i] # 0
<1>1. s \in Seq(Nodes) /\ \A i, j \in 1..Len(s) : s[i] = s[j] => i = j
  BY DEF Spells
<1>2. Len(s) \in 0..MaxConnections
  BY <1>1, NotTooLong
<1>3. \A i \in 1..Len(s) : s[i] \in Nodes
  BY <1>1, ElementOfSeq
<1>4. (s = <<>>) <=> (Len(s) = 0)
  BY <1>1, EmptySeq
<1>. QED
  BY <1>1, <1>2, <1>3, <1>4, TimerAssumption DEF Nodes

(* The walk from start meets s.                                            *)
LEMMA ForwardChain ==
    ASSUME NEW l, NEW s, NEW adding, Spells(l, s, adding)
    PROVE  Chain(l, l.start, TRUE) = s
<1>1. s \in Seq(Nodes) /\ Len(s) \in 0..MaxConnections
  BY SpelledLinks
<1>2. \A i \in 1..Len(s) :
        (IF i < Len(s) THEN s[i + 1] ELSE 0)
           = IF TRUE THEN l.node[s[i]].next ELSE l.node[s[i]].prev
  BY DEF Spells
<1>3. l.start = IF s = <<>> THEN 0 ELSE s[1]
  BY DEF Spells
<1>. QED
  BY ONLY <1>1, <1>2, <1>3, ChainIs

(* The walk back from end meets s in the opposite order.                   *)
LEMMA BackwardChain ==
    ASSUME NEW l, NEW s, NEW adding, Spells(l, s, adding), l.end = Tip(s)
    PROVE  Chain(l, l.end, FALSE) = Reverse(s)
<1>. DEFINE t == Reverse(s)
<1>1. /\ s \in Seq(Nodes) /\ Len(s) \in 0..MaxConnections
      /\ \A i \in 1..Len(s) : s[i] \in Nodes
      /\ (s = <<>>) <=> (Len(s) = 0)
  BY SpelledLinks
<1>2. t = [i \in 1..Len(s) |-> s[(Len(s) - i) + 1]]
  BY DEF Reverse
<1>3. t \in Seq(Nodes) /\ Len(t) = Len(s) /\ \A i \in 1..Len(s) : t[i] = s[(Len(s) - i) + 1]
  <2>1. Len(s) \in Nat
    BY <1>1
  <2>2. \A i \in 1..Len(s) : (Len(s) - i) + 1 \in 1..Len(s)
    BY <2>1
  <2>. HIDE DEF t
  <2>3. \A i \in 1..Len(s) : s[(Len(s) - i) + 1] \in Nodes
    BY <1>1, <2>2
  <2>4. t \in Seq(Nodes) /\ Len(t) = Len(s)
    BY <1>2, <2>1, <2>3
  <2>. QED
    BY <1>2, <2>4
<1>. HIDE DEF t
<1>4. l.end = IF t = <<>> THEN 0 ELSE t[1]
  <2>1. CASE Len(s) = 0
    BY <1>1, <1>3, <2>1, EmptySeq DEF Tip
  <2>2. CASE Len(s) # 0
    <3>1. t[1] = s[Len(s)] /\ t # <<>>
      <4>1. 1 \in 1..Len(s) /\ (Len(s) - 1) + 1 = Len(s)
        BY <1>1, <2>2
      <4>. QED
        BY <1>3, <2>2, <4>1, EmptySeq
    <3>. QED
      BY <1>1, <2>2, <3>1 DEF Tip
  <2>. QED
    BY <2>1, <2>2
<1>5. ASSUME NEW i \in 1..Len(t)
      PROVE  (IF i < Len(t) THEN t[i + 1] ELSE 0)
                = IF FALSE THEN l.node[t[i]].next ELSE l.node[t[i]].prev
  <2>. DEFINE j == (Len(s) - i) + 1
  <2>1. j \in 1..Len(s) /\ t[i] = s[j] /\ (j > 1 <=> i < Len(t))
    BY <1>1, <1>3
  <2>2. l.node[s[j]].prev = IF j > 1 THEN s[j - 1] ELSE 0
    BY <2>1 DEF Spells
  <2>3. i < Len(t) => t[i + 1] = s[j - 1]
    <3>. SUFFICES ASSUME i < Len(t) PROVE t[i + 1] = s[j - 1]
      OBVIOUS
    <3>1. i + 1 \in 1..Len(s) /\ (Len(s) - (i + 1)) + 1 = j - 1
      BY <1>1, <1>3
    <3>. QED
      BY <1>3, <3>1
  <2>. QED
    BY <2>1, <2>2, <2>3
<1>6. Chain(l, l.end, FALSE) = t
  <2>1. Len(t) \in 0..MaxConnections /\ FALSE \in BOOLEAN
    BY <1>1, <1>3
  <2>2. t \in Seq(Nodes)
    BY <1>3
  <2>. QED
    BY ONLY <1>4, <1>5, <2>1, <2>2, ChainIs
<1>. QED
  BY <1>6 DEF t

(* The sequence s without its element i.                                   *)
Without(s, i) == [k \in 1..(Len(s) - 1) |-> IF k < i THEN s[k] ELSE s[k + 1]]

(* Without one of its elements, a list of distinct nodes still lists distinct
   nodes, and exactly the others. *)
LEMMA WithoutOne ==
    ASSUME NEW s \in Seq(Nodes), Len(s) \in Nat, NEW i \in 1..Len(s),
           \A j, k \in 1..Len(s) : s[j] = s[k] => j = k
    PROVE  LET q == Without(s, i)
           IN  /\ q \in Seq(Nodes) /\ Len(q) = Len(s) - 1
               /\ \A j, k \in 1..Len(q) : q[j] = q[k] => j = k
               /\ \A k \in 1..Len(q) : q[k] = IF k < i THEN s[k] ELSE s[k + 1]
               /\ In(q) = In(s) \ {s[i]}
<1>. DEFINE q == Without(s, i)
<1>1. \A k \in 1..Len(s) : s[k] \in Nodes
  BY ElementOfSeq
<1>2. /\ Len(s) - 1 \in Nat
      /\ \A k \in 1..(Len(s) - 1) : k \in 1..Len(s) /\ k + 1 \in 1..Len(s)
  OBVIOUS
<1>3. /\ q \in Seq(Nodes) /\ Len(q) = Len(s) - 1
      /\ \A k \in 1..Len(q) : q[k] = IF k < i THEN s[k] ELSE s[k + 1]
  <2>1. \A k \in 1..(Len(s) - 1) : (IF k < i THEN s[k] ELSE s[k + 1]) \in Nodes
    BY <1>1, <1>2
  <2>2. q = [k \in 1..(Len(s) - 1) |-> IF k < i THEN s[k] ELSE s[k + 1]]
    BY DEF Without
  <2>. HIDE DEF q
  <2>. QED
    BY <1>2, <2>1, <2>2
<1>. HIDE DEF q
<1>4. ASSUME NEW j \in 1..Len(q), NEW k \in 1..Len(q), q[j] = q[k] PROVE j = k
  <2>. DEFINE at(x) == IF x < i THEN x ELSE x + 1
  <2>1. at(j) \in 1..Len(s) /\ at(k) \in 1..Len(s)
    BY <1>3
  <2>2. q[j] = s[at(j)] /\ q[k] = s[at(k)]
    BY <1>3
  <2>3. at(j) = at(k)
    <3>. HIDE DEF at
    <3>. QED
      BY <1>4, <2>1, <2>2
  <2>. QED
    BY <2>3
<1>5. ASSUME NEW n \in In(q) PROVE n \in In(s) \ {s[i]}
  <2>1. PICK k \in 1..Len(q) : n = q[k]
    BY <1>5 DEF In
  <2>2. CASE k < i
    BY <1>2, <1>3, <2>1, <2>2 DEF In
  <2>3. CASE k >= i
    <3>1. k + 1 \in 1..Len(s) /\ n = s[k + 1] /\ k + 1 # i
      BY <1>2, <1>3, <2>1, <2>3
    <3>. QED
      BY <3>1 DEF In
  <2>. QED
    BY <1>3, <2>1, <2>2, <2>3
<1>6. ASSUME NEW n \in In(s) \ {s[i]} PROVE n \in In(q)
  <2>1. PICK k \in 1..Len(s) : n = s[k] /\ k # i
    BY <1>6 DEF In
  <2>2. CASE k < i
    <3>1. k \in 1..Len(q) /\ q[k] = n
      BY <1>3, <2>1, <2>2
    <3>. QED
      BY <3>1 DEF In
  <2>3. CASE k > i
    <3>1. k - 1 \in 1..Len(q) /\ (k - 1) + 1 = k /\ ~(k - 1 < i)
      BY <1>3, <2>1, <2>3
    <3>2. q[k - 1] = n
      BY <1>3, <2>1, <3>1
    <3>. QED
      BY <3>1, <3>2 DEF In
  <2>. QED
    BY <2>1, <2>2, <2>3
<1>. QED
  BY <1>3, <1>4, <1>5, <1>6 DEF q

(* removeConnection gives a list of connections again.                     *)
LEMMA RemovalType ==
    ASSUME NEW l \in NodeLists, NEW n \in Nodes
    PROVE  removeConnection(l, n) \in NodeLists
<1>1. /\ l.start \in 0..MaxConnections /\ l.end \in 0..MaxConnections
      /\ \A m \in Nodes : l.node[m] \in NodeRecords
  BY DEF NodeLists
<1>2. l.node[n].next \in 0..MaxConnections /\ l.node[n].prev \in 0..MaxConnections
  BY <1>1 DEF NodeRecords
<1>3. Freed \in NodeRecords
  BY TimerAssumption DEF Freed, NodeRecords
<1>4. \A m \in Nodes :
        /\ [l.node[m] EXCEPT !.next = l.node[n].next] \in NodeRecords
        /\ [l.node[m] EXCEPT !.prev = l.node[n].prev] \in NodeRecords
  BY <1>1, <1>2 DEF NodeRecords
<1>. DEFINE r == removeConnection(l, n)
<1>5. r = [start |-> r.start, end |-> r.end, node |-> r.node]
  BY DEF removeConnection
<1>6. r.start \in 0..MaxConnections /\ r.end \in 0..MaxConnections
  BY <1>1, <1>2 DEF removeConnection
<1>7. r.node \in [Nodes -> NodeRecords]
  BY <1>1, <1>3, <1>4 DEF removeConnection
<1>. HIDE DEF r
<1>8. r \in NodeLists
  BY <1>5, <1>6, <1>7 DEF NodeLists
<1>. QED
  BY <1>8 DEF r

(* removeConnection takes one connection out of the list and frees it.     *)
LEMMA RemovalSpells ==
    ASSUME NEW l \in NodeLists, NEW s, NEW adding, Spells(l, s, adding),
           NEW i \in 1..Len(s)
    PROVE  LET r == removeConnection(l, s[i])
           IN  /\ Spells(r, Without(s, i), adding)
               /\ In(Without(s, i)) = In(s) \ {s[i]}
               /\ \A m \in Nodes : r.node[m].live <=> (l.node[m].live /\ m # s[i])
<1>. DEFINE n == s[i]
            r == removeConnection(l, n)
            q == Without(s, i)
            L == Len(s)
<1>1. /\ s \in Seq(Nodes) /\ L \in 0..MaxConnections
      /\ (s = <<>>) <=> (L = 0)
      /\ \A k \in 1..L : s[k] \in Nodes /\ s[k] # 0
      /\ L \in Nat /\ L # 0 /\ i \in Nat /\ i >= 1 /\ i <= L
  BY SpelledLinks
<1>2. \A j, k \in 1..L : s[j] = s[k] => j = k
  BY DEF Spells
<1>3. /\ q \in Seq(Nodes) /\ Len(q) = L - 1
      /\ \A j, k \in 1..Len(q) : q[j] = q[k] => j = k
      /\ \A k \in 1..Len(q) : q[k] = IF k < i THEN s[k] ELSE s[k + 1]
      /\ In(q) = In(s) \ {n}
  BY <1>1, <1>2, WithoutOne
<1>. DEFINE nx == l.node[n].next
            pv == l.node[n].prev
<1>4. /\ nx = IF i < L THEN s[i + 1] ELSE 0
      /\ pv = IF i > 1 THEN s[i - 1] ELSE 0
  BY DEF Spells
<1>5. n \in Nodes /\ n # 0
  BY <1>1
<1>6. /\ r.start = IF pv = 0 THEN nx ELSE l.start
      /\ r.end = IF nx = 0 THEN pv ELSE l.end
      /\ \A m \in Nodes : r.node[m] =
            IF m = n THEN Freed
            ELSE IF m = pv THEN [l.node[m] EXCEPT !.next = nx]
            ELSE IF m = nx THEN [l.node[m] EXCEPT !.prev = pv] ELSE l.node[m]
  BY DEF removeConnection
<1>7. \A m \in Nodes : l.node[m] \in NodeRecords
  BY DEF NodeLists
<1>8. \A m \in Nodes :
        /\ r.node[m].live = IF m = n THEN FALSE ELSE l.node[m].live
        /\ r.node[m].next = IF m = n THEN 0 ELSE IF m = pv THEN nx
                            ELSE l.node[m].next
        /\ r.node[m].prev = IF m = n THEN 0 ELSE IF m # pv /\ m = nx THEN pv
                            ELSE l.node[m].prev
  <2>. SUFFICES ASSUME NEW m \in Nodes
                PROVE  /\ r.node[m].live = IF m = n THEN FALSE ELSE l.node[m].live
                       /\ r.node[m].next = IF m = n THEN 0 ELSE IF m = pv THEN nx
                                           ELSE l.node[m].next
                       /\ r.node[m].prev = IF m = n THEN 0
                                           ELSE IF m # pv /\ m = nx THEN pv
                                           ELSE l.node[m].prev
    OBVIOUS
  <2>1. PICK x : x = l.node[m]
    OBVIOUS
  <2>2. x \in NodeRecords
    BY <1>7, <2>1
  <2>3. r.node[m] = IF m = n THEN Freed
                    ELSE IF m = pv THEN [x EXCEPT !.next = nx]
                    ELSE IF m = nx THEN [x EXCEPT !.prev = pv] ELSE x
    BY <1>6, <2>1
  <2>. HIDE DEF r, n, nx, pv
  <2>. QED
    BY <2>1, <2>2, <2>3 DEF Freed, NodeRecords
<1>9. pv = nx => pv = 0
  BY <1>1, <1>2, <1>4
<1>. HIDE DEF r, q, n, nx, pv, L
<1>10. q = <<>> <=> L = 1
  BY <1>1, <1>3, EmptySeq
<1>11. r.start = IF q = <<>> THEN 0 ELSE q[1]
  <2>1. l.start = s[1]
    BY <1>1 DEF Spells
  <2>2. CASE i = 1 /\ L = 1
    BY <1>4, <1>6, <1>10, <2>2
  <2>3. CASE i = 1 /\ L # 1
    <3>1. 1 \in 1..Len(q) /\ ~(1 < i) /\ pv = 0 /\ nx = s[2]
      BY <1>1, <1>3, <1>4, <2>3
    <3>. QED
      BY <1>3, <1>6, <1>10, <2>3, <3>1
  <2>4. CASE i # 1
    <3>1. 1 \in 1..Len(q) /\ 1 < i /\ pv # 0 /\ L # 1
      BY <1>1, <1>3, <1>4, <2>4 DEF L
    <3>. QED
      BY <1>3, <1>6, <1>10, <2>1, <3>1
  <2>. QED
    BY <2>2, <2>3, <2>4
<1>12. r.end = Tip(q) \/ (adding /\ r.end = 0 /\ Len(q) = 1)
  <2>1. l.end = s[L] \/ (adding /\ l.end = 0 /\ L = 1)
    BY <1>1 DEF Spells, Tip, L
  <2>2. CASE i = L /\ L = 1
    BY <1>4, <1>6, <1>10, <2>2 DEF Tip
  <2>3. CASE i = L /\ L # 1
    <3>1. Len(q) \in 1..Len(q) /\ Len(q) < i /\ nx = 0 /\ pv = s[Len(q)]
      BY <1>1, <1>3, <1>4, <2>3
    <3>. QED
      BY <1>3, <1>6, <1>10, <2>3, <3>1 DEF Tip
  <2>4. CASE i # L
    <3>1. i < L /\ L # 1 /\ i + 1 \in 1..L
      BY <1>1, <2>4
    <3>2. nx # 0
      BY <1>1, <1>4, <3>1 DEF L
    <3>3. Len(q) \in 1..Len(q) /\ ~(Len(q) < i) /\ Len(q) + 1 = L
      BY <1>1, <1>3, <3>1
    <3>4. q[Len(q)] = s[L]
      BY <1>3, <3>3
    <3>. QED
      BY <1>6, <1>10, <2>1, <3>1, <3>2, <3>4 DEF Tip
  <2>. QED
    BY <2>2, <2>3, <2>4
<1>13. ASSUME NEW k \in 1..Len(q)
       PROVE  /\ r.node[q[k]].next = IF k < Len(q) THEN q[k + 1] ELSE 0
              /\ r.node[q[k]].prev = IF k > 1 THEN q[k - 1] ELSE 0
  <2>. DEFINE j == IF k < i THEN k ELSE k + 1
  <2>1. j \in 1..L /\ q[k] = s[j] /\ j # i /\ k \in Nat
    BY <1>1, <1>3
  <2>2. /\ l.node[s[j]].next = IF j < L THEN s[j + 1] ELSE 0
        /\ l.node[s[j]].prev = IF j > 1 THEN s[j - 1] ELSE 0
    BY <2>1 DEF Spells, L
  <2>3. s[j] # n /\ s[j] \in Nodes /\ s[j] # 0
    BY <1>1, <1>2, <2>1 DEF n, L
  <2>4. s[j] = pv <=> j = i - 1
    <3>1. i > 1 => i - 1 \in 1..L
      BY <1>1
    <3>. QED
      BY <1>1, <1>2, <1>4, <2>1, <2>3, <3>1
  <2>5. s[j] = nx <=> j = i + 1
    <3>1. i < L => i + 1 \in 1..L
      BY <1>1
    <3>. QED
      BY <1>1, <1>2, <1>4, <2>1, <2>3, <3>1
  <2>6. r.node[s[j]].next = IF j = i - 1 THEN nx ELSE l.node[s[j]].next
    BY <1>8, <2>3, <2>4
  <2>7. r.node[s[j]].prev = IF j = i + 1 THEN pv ELSE l.node[s[j]].prev
    <3>1. (s[j] # pv /\ s[j] = nx) <=> j = i + 1
      BY <1>1, <2>1, <2>4, <2>5
    <3>. HIDE DEF j
    <3>. QED
      BY <1>8, <2>3, <3>1
  <2>8. /\ k < Len(q) => q[k + 1] = IF k + 1 < i THEN s[k + 1] ELSE s[k + 2]
        /\ k > 1 => q[k - 1] = IF k - 1 < i THEN s[k - 1] ELSE s[k]
    <3>1. k < Len(q) => k + 1 \in 1..Len(q) /\ (k + 1) + 1 = k + 2
      BY <1>1, <1>3
    <3>2. k > 1 => k - 1 \in 1..Len(q) /\ (k - 1) + 1 = k
      BY <1>1, <1>3
    <3>. QED
      BY <1>3, <3>1, <3>2
  <2>9. r.node[s[j]].next = IF k < Len(q) THEN q[k + 1] ELSE 0
    <3>1. CASE k + 1 < i
      BY <1>1, <1>3, <2>1, <2>2, <2>6, <2>8, <3>1
    <3>2. CASE k + 1 = i
      <4>1. j = k /\ k = i - 1 /\ i + 1 = k + 2
        BY <1>1, <2>1, <3>2
      <4>. QED
        BY <1>1, <1>3, <1>4, <2>1, <2>6, <2>8, <3>2, <4>1
    <3>3. CASE k >= i
      <4>1. j = k + 1 /\ j # i - 1 /\ j + 1 = k + 2 /\ (j < L <=> k < Len(q)) /\ ~(k + 1 < i)
        BY <1>1, <1>3, <2>1, <3>3
      <4>. QED
        BY <2>2, <2>6, <2>8, <4>1
    <3>. QED
      BY <1>1, <2>1, <3>1, <3>2, <3>3
  <2>10. r.node[s[j]].prev = IF k > 1 THEN q[k - 1] ELSE 0
    <3>1. CASE k < i
      <4>1. j = k /\ j # i + 1 /\ k - 1 < i
        BY <1>1, <2>1, <3>1
      <4>. QED
        BY <2>2, <2>7, <2>8, <4>1
    <3>2. CASE k = i
      <4>1. j = k + 1 /\ j = i + 1 /\ k - 1 < i /\ k - 1 = i - 1
        BY <1>1, <2>1, <3>2
      <4>. QED
        BY <1>4, <2>7, <2>8, <3>2, <4>1
    <3>3. CASE k > i
      <4>1. j = k + 1 /\ j # i + 1 /\ j - 1 = k /\ ~(k - 1 < i) /\ j > 1 /\ k > 1
        BY <1>1, <2>1, <3>3
      <4>. QED
        BY <2>2, <2>7, <2>8, <4>1
    <3>. QED
      BY <1>1, <2>1, <3>1, <3>2, <3>3
  <2>. HIDE DEF j
  <2>. QED
    BY <2>1, <2>9, <2>10
<1>14. ASSUME NEW m \in Nodes \ In(q)
       PROVE  r.node[m].next = 0 /\ r.node[m].prev = 0
  <2>1. CASE m = n
    BY <1>8, <2>1
  <2>2. CASE m # n
    <3>1. m \notin In(s)
      BY <1>3, <1>14, <2>2
    <3>2. l.node[m].next = 0 /\ l.node[m].prev = 0
      BY <1>14, <3>1 DEF Spells
    <3>3. m # pv /\ m # nx
      <4>1. i > 1 => i - 1 \in 1..Len(s)
        BY <1>1 DEF L
      <4>2. i < L => i + 1 \in 1..Len(s)
        BY <1>1 DEF L
      <4>3. m # 0
        BY <1>14, TimerAssumption DEF Nodes
      <4>. QED
        BY <1>4, <3>1, <4>1, <4>2, <4>3 DEF In
    <3>. QED
      BY <1>8, <2>2, <3>2, <3>3
  <2>. QED
    BY <2>1, <2>2
<1>15. Spells(r, q, adding)
  BY <1>3, <1>11, <1>12, <1>13, <1>14 DEF Spells
<1>16. \A m \in Nodes : r.node[m].live <=> (l.node[m].live /\ m # n)
  BY <1>8
<1>. QED
  BY <1>3, <1>15, <1>16 DEF r, q, n

(* The connection that a search in a chain finds is one of the chain.      *)
LEMMA FirstMetIn ==
    ASSUME NEW s \in Seq(Nodes), Len(s) \in Nat, NEW fd, FirstMet(s, fd) # 0
    PROVE  \E i \in 1..Len(s) : FirstMet(s, fd) = s[i]
<1>. DEFINE I == {i \in 1..Len(s) : connections.node[s[i]].fd = fd}
            i == IF I # {} THEN Min(I) ELSE 0
<1>1. FirstMet(s, fd) = IF i = 0 THEN 0 ELSE s[i]
  BY DEF FirstMet, SelectInSeq
<1>2. I # {}
  BY <1>1
<1>3. Min(I) \in I
  <2>1. I \in SUBSET (1..Len(s))
    OBVIOUS
  <2>. HIDE DEF I
  <2>. QED
    BY <1>2, <2>1, MinIsIn
<1>. QED
  BY <1>1, <1>2, <1>3

(* What the pass of the timer leaves when it walks along s.                *)
AfterPass(s) == FoldLeft(
    LAMBDA l, m : IF Due(l.node[m], timer_now) THEN removeConnection(l, m) ELSE l,
    connections, s)

(* One pass: the connections that are due leave one by one, and the rest   *)
(* of the pass still meets connections of the list.                        *)
LEMMA PassFold ==
    ASSUME TimerTypes, NEW s, NEW adding, Spells(connections, s, adding),
           NEW n, n = Len(s),
           NEW last, last = AfterPass(s)
    PROVE  \E g : /\ g[0] = connections /\ last = g[n]
                  /\ \A k \in 1..n : g[k] = IF Due(g[k - 1].node[s[k]], timer_now)
                                            THEN removeConnection(g[k - 1], s[k])
                                            ELSE g[k - 1]
<1>1. PICK base : base = connections
  OBVIOUS
<1>2. PICK now : now = timer_now
  OBVIOUS
<1>3. n \in Nat /\ DOMAIN s = 1..n /\ \A k \in 1..n : s[k] \in Nodes
  BY SpelledLinks
<1>4. base \in NodeLists
  BY <1>1 DEF TimerTypes
<1>. DEFINE S(l, m) == IF Due(l.node[m], now) THEN removeConnection(l, m) ELSE l
            op == [z \in NodeLists \X (1..n) |-> S(z[1], s[z[2]])]
            Body(f) == [t \in SUBSET DOMAIN s |->
                          IF t = {} THEN base ELSE S(f[t \ {Max(t)}], s[Max(t)])]
<1>5. last = (CHOOSE it : it = Body(it))[DOMAIN s]
  BY <1>1, <1>2 DEF AfterPass, FoldLeft, MapThenFoldSet
<1>6. op \in [NodeLists \X (1..n) -> NodeLists]
  <2>1. ASSUME NEW l \in NodeLists, NEW k \in 1..n PROVE S(l, s[k]) \in NodeLists
    BY <1>3, RemovalType
  <2>. HIDE DEF S
  <2>. QED
    BY <2>1
<1>7. PICK it : IsFold(it, n, NodeLists, base, op)
  <2>. HIDE DEF op
  <2>. QED
    BY <1>3, <1>4, <1>6, FoldExists
<1>. HIDE DEF S
<1>8. it = Body(it)
  <2>1. it \in [SUBSET (1..n) -> NodeLists]
    BY <1>7 DEF IsFold
  <2>2. ASSUME NEW t \in SUBSET (1..n)
        PROVE  it[t] = IF t = {} THEN base ELSE S(it[t \ {Max(t)}], s[Max(t)])
    <3>1. CASE t = {}
      BY <1>7, <3>1 DEF IsFold
    <3>2. CASE t # {}
      <4>1. Max(t) \in 1..n /\ it[t \ {Max(t)}] \in NodeLists
        BY <1>3, <2>1, <3>2, MaxIsIn
      <4>2. it[t] = op[<<it[t \ {Max(t)}], Max(t)>>]
        BY <1>7, <3>2 DEF IsFold
      <4>. QED
        BY <3>2, <4>1, <4>2
    <3>. QED
      BY <3>1, <3>2
  <2>. QED
    BY <1>3, <2>1, <2>2
<1>9. PICK f : f = Body(f) /\ last = f[1..n]
  <2>. HIDE DEF Body
  <2>. QED
    BY <1>3, <1>5, <1>8
<1>10. f[1..0] = base
  <2>1. 1..0 = {}
    OBVIOUS
  <2>. QED
    BY <1>3, <1>9, <2>1
<1>11. ASSUME NEW k \in 1..n PROVE f[1..k] = S(f[1..(k - 1)], s[k])
  <2>0. k \in Nat \ {0} /\ k <= n /\ n \in Nat
    BY <1>3
  <2>1. 1..k \in SUBSET (1..n) /\ 1..k # {} /\ k \in Nat \ {0}
    <3>1. k \in 1..k /\ \A x \in 1..k : x \in 1..n
      BY <2>0
    <3>. QED
      BY <2>0, <3>1
  <2>2. Max(1..k) = k /\ (1..k) \ {k} = 1..(k - 1)
    BY <2>1, MaxOfUpto
  <2>3. f[1..k] = Body(f)[1..k]
    BY <1>9
  <2>. QED
    BY <1>3, <2>1, <2>2, <2>3
<1>. DEFINE g == [k \in 0..n |-> f[1..k]]
<1>12. /\ g[0] = base /\ last = g[n]
       /\ \A k \in 1..n : g[k] = S(g[k - 1], s[k])
  <2>. HIDE DEF Body
  <2>. QED
    BY <1>3, <1>9, <1>10, <1>11
<1>. HIDE DEF g
<1>. QED
  BY <1>1, <1>2, <1>12 DEF S

(* The lives that no removal of a listed connection takes from the others. *)
LEMMA LivesWithout ==
    ASSUME NEW l \in NodeLists, NEW s, NEW adding, Spells(l, s, adding), Lives(l, s),
           NEW i \in 1..Len(s)
    PROVE  LET r == removeConnection(l, s[i])
           IN  /\ r \in NodeLists
               /\ Spells(r, Without(s, i), adding) /\ Lives(r, Without(s, i))
               /\ In(Without(s, i)) = In(s) \ {s[i]}
<1>. DEFINE r == removeConnection(l, s[i])
            q == Without(s, i)
<1>1. s[i] \in Nodes /\ s[i] \in In(s)
  BY SpelledLinks DEF In
<1>2. r \in NodeLists
  BY <1>1, RemovalType
<1>3. /\ Spells(r, q, adding) /\ In(q) = In(s) \ {s[i]}
      /\ \A m \in Nodes : r.node[m].live <=> (l.node[m].live /\ m # s[i])
  BY RemovalSpells
<1>. HIDE DEF r, q
<1>4. Lives(r, q)
  <2>1. \A c \in Adders : timer_pc[c].node \in Nodes \ In(s)
    BY DEF Lives
  <2>2. \A c, d \in Adders : timer_pc[c].node = timer_pc[d].node => c = d
    BY DEF Lives
  <2>3. ASSUME NEW m \in Nodes
        PROVE  r.node[m].live <=> m \in In(q) \/ \E c \in Adders : timer_pc[c].node = m
    <3>1. l.node[m].live <=> m \in In(s) \/ \E c \in Adders : timer_pc[c].node = m
      BY DEF Lives
    <3>. QED
      BY <1>1, <1>3, <2>1, <3>1
  <2>. QED
    BY <1>3, <2>1, <2>2, <2>3 DEF Lives
<1>. QED
  BY <1>2, <1>3, <1>4 DEF r, q

(* A pass of the timer over the list (timeout_s passed or not, node by node)
   leaves a list that spells the nodes it kept. *)
LEMMA PassKeeps ==
    ASSUME TimerTypes, NEW s, NEW adding, Spells(connections, s, adding),
           Lives(connections, s),
           NEW last, last = AfterPass(s)
    PROVE  last \in NodeLists /\ \E q : Spells(last, q, adding) /\ Lives(last, q)
<1>1. PICK n : n = Len(s)
  OBVIOUS
<1>2. PICK g : /\ g[0] = connections /\ last = g[n]
               /\ \A k \in 1..n : g[k] = IF Due(g[k - 1].node[s[k]], timer_now)
                                         THEN removeConnection(g[k - 1], s[k])
                                         ELSE g[k - 1]
  BY <1>1, PassFold
<1>3. /\ n \in Nat /\ \A j, k \in 1..n : s[j] = s[k] => j = k
  BY <1>1, SpelledLinks DEF Spells
<1>. DEFINE Kept(l, k) == /\ l \in NodeLists
                          /\ \E q : /\ Spells(l, q, adding) /\ Lives(l, q)
                                    /\ \A j \in (k + 1)..n : s[j] \in In(q)
            T == {k \in Nat : k <= n => Kept(g[k], k)}
<1>4. 0 \in T
  <2>1. \A j \in 1..n : s[j] \in In(s)
    BY <1>1 DEF In
  <2>2. Kept(g[0], 0)
    BY <1>2, <2>1 DEF TimerTypes
  <2>. QED
    BY <2>2
<1>5. ASSUME NEW k \in T PROVE k + 1 \in T
  <2>. SUFFICES ASSUME k + 1 <= n PROVE Kept(g[k + 1], k + 1)
    OBVIOUS
  <2>1. k \in Nat /\ k + 1 \in 1..n /\ (k + 1) - 1 = k /\ k <= n
    BY <1>3
  <2>2. PICK l : l = g[k]
    OBVIOUS
  <2>3. Kept(l, k)
    BY <2>1, <2>2
  <2>4. PICK q : /\ Spells(l, q, adding) /\ Lives(l, q)
                 /\ \A j \in (k + 1)..n : s[j] \in In(q)
    BY <2>3
  <2>5. g[k + 1] = IF Due(l.node[s[k + 1]], timer_now)
                   THEN removeConnection(l, s[k + 1]) ELSE l
    BY <1>2, <2>1, <2>2
  <2>6. CASE g[k + 1] = l
    BY <1>3, <2>1, <2>3, <2>4, <2>6
  <2>7. CASE g[k + 1] = removeConnection(l, s[k + 1])
    <3>1. s[k + 1] \in In(q)
      BY <1>3, <2>1, <2>4
    <3>2. PICK i \in 1..Len(q) : s[k + 1] = q[i]
      BY <3>1 DEF In
    <3>3. /\ g[k + 1] \in NodeLists
          /\ Spells(g[k + 1], Without(q, i), adding) /\ Lives(g[k + 1], Without(q, i))
          /\ In(Without(q, i)) = In(q) \ {s[k + 1]}
      BY <2>3, <2>4, <2>7, <3>2, LivesWithout
    <3>4. \A j \in ((k + 1) + 1)..n : j \in (k + 1)..n /\ j \in 1..n /\ j # k + 1
      BY <1>3, <2>1
    <3>5. \A j \in ((k + 1) + 1)..n : s[j] \in In(Without(q, i))
      BY <1>3, <2>1, <2>4, <3>3, <3>4
    <3>. QED
      BY <3>3, <3>5
  <2>. QED
    BY <2>5, <2>6, <2>7
<1>6. T = Nat
  <2>1. T \in SUBSET Nat
    OBVIOUS
  <2>. HIDE DEF T
  <2>. QED
    BY <1>4, <1>5, <2>1, SetInduction
<1>7. Kept(g[n], n)
  BY <1>3, <1>6
<1>. QED
  BY <1>2, <1>7

-----------------------------------------------------------------------------
(* The connection timer: the steps. *)

(* Every step of a list that is not broken keeps the types.                *)
LEMMA TimerTypesStep ==
    ASSUME TimerTypes, ~raced => \E s : Spells(connections, s, Adding) /\ Lives(connections, s),
           [TimerNext]_timer_vars
    PROVE  TimerTypes'
<1>. USE DEF TimerTypes
<1>1. CASE UNCHANGED timer_vars
  BY <1>1 DEF timer_vars
<1>2. CASE TimerPass
  <2>1. ~raced
    BY <1>2 DEF TimerPass, TimerRuns
  <2>2. PICK s : Spells(connections, s, Adding) /\ Lives(connections, s)
    BY <2>1
  <2>3. PICK a : a = Adding
    OBVIOUS
  <2>4. Chain(connections, connections.start, TRUE) = s
    BY <2>2, ForwardChain
  <2>5. connections' = AfterPass(s)
    BY <1>2, <2>4 DEF TimerPass, AfterPass
  <2>6. connections' \in NodeLists
    BY <2>2, <2>3, <2>5, PassKeeps
  <2>. QED
    BY <1>2, <2>6 DEF TimerPass
<1>3. CASE TimerStop \/ TimerTick
  BY <1>3, TimerAssumption DEF TimerStop, TimerTick
<1>4. ASSUME NEW c \in TimerCallers, TimerCall(c) PROVE TimerTypes'
  <2>. USE <1>4
  <2>. DEFINE Calling == [at : {"idle", "first", "end", "append", "set", "get"},
                          node : 0..MaxConnections, fd : TimerFds \union {0},
                          timeout_s : TimerTimeouts \union {0}]
  <2>1. TimerReturns(c) => timer_pc' \in [TimerCallers -> Calling]
    <3>1. TimerIdle \in Calling
      BY TimerAssumption DEF TimerIdle
    <3>2. timer_pc \in [TimerCallers -> Calling]
      OBVIOUS
    <3>. HIDE DEF Calling
    <3>. QED
      BY <3>1, <3>2 DEF TimerReturns
  <2>2. /\ timer_pc[c].node \in 0..MaxConnections /\ timer_pc[c].timeout_s \in TimerTimeouts \union {0}
        /\ connections.start \in 0..MaxConnections /\ connections.end \in 0..MaxConnections
        /\ connections.node \in [Nodes -> NodeRecords]
    BY DEF NodeLists
  <2>3. \A m \in Nodes : connections.node[m] \in NodeRecords
    BY <2>2
  <2>4. ASSUME NEW fd \in TimerFds, NEW t \in TimerTimeouts, AddAllocates(c, fd, t)
        PROVE  TimerTypes'
    <3>1. PICK n \in Nodes :
             /\ connections' = [connections EXCEPT !.node[n] =
                  [live |-> TRUE, fd |-> fd, start_s |-> timer_now,
                   timeout_s |-> t, next |-> 0, prev |-> 0]]
             /\ timer_pc' = [timer_pc EXCEPT ![c] =
                  [TimerIdle EXCEPT !.node = n,
                     !.at = IF connections.start = 0 THEN "first" ELSE "append"]]
      BY <2>4 DEF AddAllocates
    <3>2. [live |-> TRUE, fd |-> fd, start_s |-> timer_now,
           timeout_s |-> t, next |-> 0, prev |-> 0] \in NodeRecords
      BY TimerAssumption DEF NodeRecords
    <3>3. connections' \in NodeLists
      BY <3>1, <3>2 DEF NodeLists
    <3>4. n \in 0..MaxConnections
      BY TimerAssumption DEF Nodes
    <3>. QED
      BY <2>4, <3>1, <3>3, <3>4 DEF AddAllocates, TimerIdle
  <2>5. CASE AddSetsStart(c)
    <3>1. connections' \in NodeLists
      BY <2>2, <2>5 DEF AddSetsStart, NodeLists
    <3>. QED
      BY <2>5, <3>1 DEF AddSetsStart
  <2>6. CASE AddSetsEnd(c)
    <3>1. connections' \in NodeLists
      BY <2>2, <2>6 DEF AddSetsEnd, NodeLists
    <3>. QED
      BY <2>1, <2>6, <3>1 DEF AddSetsEnd
  <2>7. CASE AddAppends(c)
    <3>. DEFINE n == timer_pc[c].node
                e == connections.end
                mid == [connections.node EXCEPT ![e].next = n]
    <3>1. \/ UNCHANGED connections
          \/ connections' = [connections EXCEPT !.node[e].next = n, !.node[n].prev = e, !.end = n]
      BY <2>7 DEF AddAppends
    <3>2. CASE UNCHANGED connections
      BY <2>1, <2>7, <3>2 DEF AddAppends
    <3>3. CASE connections' = [connections EXCEPT !.node[e].next = n, !.node[n].prev = e, !.end = n]
      <4>1. mid \in [Nodes -> NodeRecords]
        <5>1. \A m \in Nodes : [connections.node[m] EXCEPT !.next = n] \in NodeRecords
          BY <2>2, <2>3 DEF NodeRecords
        <5>. QED
          BY <2>2, <5>1
      <4>2. [mid EXCEPT ![n].prev = e] \in [Nodes -> NodeRecords]
        <5>1. \A m \in Nodes : [mid[m] EXCEPT !.prev = e] \in NodeRecords
          <6>1. \A m \in Nodes : mid[m] \in NodeRecords
            BY <4>1
          <6>2. e \in 0..MaxConnections
            BY <2>2
          <6>. HIDE DEF mid, e
          <6>. QED
            BY <6>1, <6>2 DEF NodeRecords
        <5>. HIDE DEF mid
        <5>. QED
          BY <4>1, <5>1
      <4>3. connections' = [start |-> connections.start, end |-> n,
                            node |-> [mid EXCEPT ![n].prev = e]]
        BY <3>3 DEF NodeLists
      <4>4. connections' \in NodeLists
        <5>. HIDE DEF mid
        <5>. QED
          BY <2>2, <4>2, <4>3 DEF NodeLists
      <4>. QED
        BY <2>1, <2>7, <4>4 DEF AddAppends
    <3>. QED
      BY <3>1, <3>2, <3>3
  <2>8. ASSUME NEW at \in {"set", "get"}, NEW fd \in TimerFds, NEW t \in TimerTimeouts \union {0},
               LookAtEnd(c, at, fd, t)
        PROVE  TimerTypes'
    BY <2>2, <2>8 DEF LookAtEnd
  <2>9. CASE timerSetTimeout(c)
    <3>1. PICK f : f = Found(c)
      OBVIOUS
    <3>2. \/ UNCHANGED connections
          \/ connections' = [connections EXCEPT !.node[f].timeout_s = timer_pc[c].timeout_s]
      BY <2>9, <3>1 DEF timerSetTimeout
    <3>3. [connections.node EXCEPT ![f].timeout_s = timer_pc[c].timeout_s]
             \in [Nodes -> NodeRecords]
      BY <2>2, <2>3 DEF NodeRecords
    <3>4. connections' \in NodeLists
      BY <3>2, <3>3 DEF NodeLists
    <3>. QED
      BY <2>1, <2>9, <3>4 DEF timerSetTimeout
  <2>10. CASE timerGetTimeout(c)
    BY <2>1, <2>10 DEF timerGetTimeout
  <2>11. ASSUME NEW fd \in TimerFds, NEW close \in BOOLEAN, timerRemoveConnection(c, fd, close)
         PROVE  TimerTypes'
    <3>1. ~raced
      BY <2>11 DEF timerRemoveConnection, Calls, TimerRuns
    <3>2. PICK s : Spells(connections, s, Adding) /\ Lives(connections, s)
      BY <3>1
    <3>3. Chain(connections, connections.start, TRUE) = s
      BY <3>2, ForwardChain
    <3>4. connections' \in NodeLists
      <4>1. PICK n : n = FirstMet(s, fd)
        OBVIOUS
      <4>2. CASE UNCHANGED connections
        BY <4>2
      <4>3. CASE n # 0 /\ connections' = removeConnection(connections, n)
        <5>1. /\ s \in Seq(Nodes) /\ Len(s) \in Nat
              /\ \A i \in 1..Len(s) : s[i] \in Nodes
          BY <3>2, SpelledLinks
        <5>2. n \in Nodes
          BY <4>1, <4>3, <5>1, FirstMetIn
        <5>. QED
          BY <4>3, <5>2, RemovalType
      <4>. QED
        BY <2>11, <3>3, <4>1, <4>2, <4>3 DEF timerRemoveConnection
    <3>. QED
      BY <2>11, <3>4 DEF timerRemoveConnection
  <2>. QED
    <3>. HIDE DEF TimerTypes
    <3>. QED
      BY <2>4, <2>5, <2>6, <2>7, <2>8, <2>9, <2>10, <2>11 DEF TimerCall
<1>. QED
  BY <1>1, <1>2, <1>3, <1>4 DEF TimerNext

(* The additions are the same, and so are the lives.                       *)
LEMMA LivesFrame ==
    ASSUME NEW l, NEW m, NEW s, Lives(l, s),
           \A n \in Nodes : m.node[n].live <=> l.node[n].live,
           Adders' = Adders, \A c \in Adders : timer_pc'[c].node = timer_pc[c].node
    PROVE  Lives(m, s)'
  BY DEF Lives

(* What a call does to the additions when it changes only its own state.   *)
LEMMA OwnStep ==
    ASSUME TimerTypes, NEW c \in TimerCallers, NEW rec,
           timer_pc' = [timer_pc EXCEPT ![c] = rec]
    PROVE  /\ Adders' = IF rec.at \in {"first", "append"} THEN Adders \union {c}
                        ELSE Adders \ {c}
           /\ \A d \in TimerCallers : timer_pc'[d] = IF d = c THEN rec ELSE timer_pc[d]
           /\ (timer_pc[c].at # "end" /\ Adding) => Adding'
           /\ rec.at = "end" => Adding'
<1>1. \A d \in TimerCallers : timer_pc'[d] = IF d = c THEN rec ELSE timer_pc[d]
  BY DEF TimerTypes
<1>. QED
  BY <1>1 DEF Adders, Adding

(* A call that returns is not an addition any more.                        *)
LEMMA ReturnStep ==
    ASSUME TimerTypes, NEW c \in TimerCallers,
           timer_pc' = [timer_pc EXCEPT ![c] = TimerIdle]
    PROVE  /\ Adders' = Adders \ {c}
           /\ \A d \in TimerCallers : timer_pc'[d] = IF d = c THEN TimerIdle ELSE timer_pc[d]
<1>1. \A d \in TimerCallers : timer_pc'[d] = IF d = c THEN TimerIdle ELSE timer_pc[d]
  BY DEF TimerTypes
<1>2. TimerIdle.at = "idle"
  BY DEF TimerIdle
<1>. QED
  BY <1>1, <1>2 DEF Adders

(* What the list is told by being TRUE or FALSE of an addition matters     *)
(* only for its end.                                                       *)
LEMMA SpellsFrame ==
    ASSUME NEW l, NEW s, NEW a, NEW m, NEW b, Spells(l, s, a),
           m.start = l.start, m.end = l.end,
           \A n \in Nodes : m.node[n].next = l.node[n].next /\ m.node[n].prev = l.node[n].prev,
           a => b
    PROVE  Spells(m, s, b)
<1>1. \A i \in 1..Len(s) : s[i] \in Nodes
  BY SpelledLinks
<1>. QED
  BY <1>1 DEF Spells

(* An addition takes a connection that is not in use.                      *)
LEMMA AllocationKeeps ==
    ASSUME TimerTypes, NEW s, Spells(connections, s, Adding), Lives(connections, s),
           NEW c \in TimerCallers, NEW fd, NEW t, AddAllocates(c, fd, t)
    PROVE  Spells(connections', s, Adding') /\ Lives(connections, s)'
<1>1. PICK n \in Nodes :
         /\ ~connections.node[n].live
         /\ connections' = [connections EXCEPT !.node[n] =
               [live |-> TRUE, fd |-> fd, start_s |-> timer_now,
                timeout_s |-> t, next |-> 0, prev |-> 0]]
         /\ timer_pc' = [timer_pc EXCEPT ![c] =
               [TimerIdle EXCEPT !.node = n,
                  !.at = IF connections.start = 0 THEN "first" ELSE "append"]]
  BY DEF AddAllocates
<1>2. PICK rec : rec = [TimerIdle EXCEPT !.node = n,
                          !.at = IF connections.start = 0 THEN "first" ELSE "append"]
  OBVIOUS
<1>0. rec.node = n /\ rec.at \in {"first", "append"}
  BY <1>2 DEF TimerIdle
<1>3. timer_pc[c].at = "idle"
  BY DEF AddAllocates, Calls
<1>4. /\ Adders' = Adders \union {c}
      /\ \A d \in TimerCallers : timer_pc'[d] = IF d = c THEN rec ELSE timer_pc[d]
      /\ Adding => Adding'
  <2>1. timer_pc' = [timer_pc EXCEPT ![c] = rec]
    BY <1>1, <1>2
  <2>2. timer_pc[c].at # "end"
    BY <1>3
  <2>3. \/ rec.at = "first" \/ rec.at = "append"
    BY <1>0
  <2>4. /\ Adders' = IF rec.at \in {"first", "append"} THEN Adders \union {c} ELSE Adders \ {c}
        /\ \A d \in TimerCallers : timer_pc'[d] = IF d = c THEN rec ELSE timer_pc[d]
        /\ (timer_pc[c].at # "end" /\ Adding) => Adding'
    BY <2>1, OwnStep
  <2>. QED
    BY <1>0, <2>2, <2>4
<1>5. c \notin Adders /\ Adders \subseteq TimerCallers
  BY <1>3 DEF Adders
<1>6. PICK l : l = connections'
  OBVIOUS
<1>7. /\ l.start = connections.start /\ l.end = connections.end
      /\ l.node[n].live /\ l.node[n].next = 0 /\ l.node[n].prev = 0
      /\ \A m \in Nodes : m # n => l.node[m] = connections.node[m]
  BY <1>1, <1>6 DEF TimerTypes, NodeLists
<1>8. n \notin In(s) /\ \A d \in Adders : timer_pc[d].node # n
  BY <1>1 DEF Lives
<1>9. connections.node[n].next = 0 /\ connections.node[n].prev = 0
  BY <1>8 DEF Spells
<1>10. Spells(l, s, Adding)
  BY <1>7, <1>9, SpellsFrame
<1>11. Lives(l, s)'
  <2>1. \A m \in Nodes : l.node[m].live <=>
           m \in In(s) \/ \E d \in Adders' : timer_pc'[d].node = m
    <3>1. \A m \in Nodes : connections.node[m].live <=>
             m \in In(s) \/ \E d \in Adders : timer_pc[d].node = m
      BY DEF Lives
    <3>2. \A m \in Nodes : (\E d \in Adders' : timer_pc'[d].node = m)
             <=> (m = n \/ \E d \in Adders : timer_pc[d].node = m)
      BY <1>0, <1>4, <1>5
    <3>. QED
      BY <1>7, <3>1, <3>2
  <2>2. \A d \in Adders' : timer_pc'[d].node \in Nodes \ In(s)
    <3>1. \A d \in Adders : timer_pc[d].node \in Nodes \ In(s)
      BY DEF Lives
    <3>. QED
      BY <1>0, <1>4, <1>5, <1>8, <3>1
  <2>3. \A d, e \in Adders' : timer_pc'[d].node = timer_pc'[e].node => d = e
    <3>1. \A d, e \in Adders : timer_pc[d].node = timer_pc[e].node => d = e
      BY DEF Lives
    <3>2. ASSUME NEW d \in Adders', NEW e \in Adders', timer_pc'[d].node = timer_pc'[e].node
          PROVE  d = e
      <4>1. \A x \in Adders : x # c /\ timer_pc'[x] = timer_pc[x] /\ timer_pc[x].node # n
        BY <1>4, <1>5, <1>8
      <4>2. timer_pc'[c].node = n
        BY <1>0, <1>4
      <4>. QED
        BY <1>4, <3>1, <3>2, <4>1, <4>2
    <3>. QED
      BY <3>2
  <2>. QED
    BY <2>1, <2>2, <2>3 DEF Lives
<1>. QED
  BY <1>4, <1>6, <1>10, <1>11 DEF Lives, Spells

(* The addition that finds the list empty makes it a list of one.          *)
LEMMA FirstKeeps ==
    ASSUME TimerTypes, NEW s, Spells(connections, s, Adding), Lives(connections, s),
           NEW c \in TimerCallers, AddSetsStart(c), ~raced'
    PROVE  \E q : Spells(connections', q, Adding') /\ Lives(connections, q)'
<1>. DEFINE n == timer_pc[c].node
<1>1. connections.start = 0 /\ timer_pc[c].at = "first"
  BY DEF AddSetsStart, Calls
<1>2. c \in Adders
  BY <1>1 DEF Adders
<1>3. n \in Nodes \ In(s)
  BY <1>2 DEF Lives
<1>4. s = <<>> /\ connections.end = 0
  <2>1. s # <<>> => s[1] # 0
    <3>1. s # <<>> => 1 \in 1..Len(s)
      BY SpelledLinks
    <3>. QED
      BY <3>1, SpelledLinks
  <2>2. s = <<>>
    BY <1>1, <2>1 DEF Spells
  <2>3. ~(Len(s) = 1)
    BY <2>2, SpelledLinks
  <2>. QED
    BY <2>2, <2>3 DEF Spells, Tip
<1>5. PICK q : q = <<n>>
  OBVIOUS
<1>6. /\ q \in Seq(Nodes) /\ Len(q) = 1 /\ q # <<>> /\ q[1] = n /\ In(q) = {n}
  BY <1>3, <1>5 DEF In
<1>7. PICK rec : rec = [timer_pc[c] EXCEPT !.at = "end"]
  OBVIOUS
<1>0. rec.at = "end"
  BY <1>7 DEF TimerTypes
<1>8. timer_pc' = [timer_pc EXCEPT ![c] = rec]
  BY <1>7 DEF AddSetsStart
<1>9. /\ Adders' = Adders \ {c} /\ Adding'
      /\ \A d \in TimerCallers : timer_pc'[d] = IF d = c THEN rec ELSE timer_pc[d]
  <2>1. /\ Adders' = IF rec.at \in {"first", "append"} THEN Adders \union {c} ELSE Adders \ {c}
        /\ \A d \in TimerCallers : timer_pc'[d] = IF d = c THEN rec ELSE timer_pc[d]
        /\ rec.at = "end" => Adding'
    BY <1>8, OwnStep
  <2>. QED
    BY <1>0, <2>1
<1>10. PICK l : l = connections'
  OBVIOUS
<1>11. l.start = n /\ l.end = 0 /\ l.node = connections.node
  BY <1>4, <1>10 DEF AddSetsStart, TimerTypes, NodeLists
<1>12. Spells(l, q, TRUE)
  <2>1. \A m \in Nodes : connections.node[m].next = 0 /\ connections.node[m].prev = 0
    <3>1. In(s) = {}
      BY <1>4 DEF In
    <3>. QED
      BY <3>1 DEF Spells
  <2>. QED
    BY <1>3, <1>6, <1>11, <2>1 DEF Spells
<1>13. Lives(l, q)'
  <2>1. Adders' \subseteq TimerCallers /\ \A d \in Adders' : d \in Adders /\ timer_pc'[d] = timer_pc[d]
    BY <1>9 DEF Adders
  <2>2. In(s) = {}
    BY <1>4 DEF In
  <2>3. \A m \in Nodes : connections.node[m].live <=> \E d \in Adders : timer_pc[d].node = m
    BY <2>2 DEF Lives
  <2>4. \A d \in Adders : timer_pc[d].node \in Nodes
    BY DEF Lives
  <2>5. \A d, e \in Adders : timer_pc[d].node = timer_pc[e].node => d = e
    BY DEF Lives
  <2>6. \A m \in Nodes : (\E d \in Adders' : timer_pc'[d].node = m)
           <=> \E d \in Adders \ {c} : timer_pc[d].node = m
    BY <1>9, <2>1
  <2>7. \A m \in Nodes : l.node[m].live <=> m \in In(q) \/ \E d \in Adders' : timer_pc'[d].node = m
    BY <1>2, <1>6, <1>11, <2>3, <2>6
  <2>8. \A d \in Adders' : timer_pc'[d].node \in Nodes \ In(q)
    BY <1>2, <1>6, <1>9, <2>1, <2>4, <2>5
  <2>9. \A d, e \in Adders' : timer_pc'[d].node = timer_pc'[e].node => d = e
    BY <2>1, <2>5
  <2>. QED
    BY <2>7, <2>8, <2>9 DEF Lives
<1>14. Spells(l, q, Adding')
  BY <1>9, <1>12 DEF Spells
<1>. QED
  BY <1>10, <1>13, <1>14 DEF Lives

(* Setting end completes a list of one.                                    *)
LEMMA EndKeeps ==
    ASSUME TimerTypes, NEW s, Spells(connections, s, Adding), Lives(connections, s),
           NEW c \in TimerCallers, AddSetsEnd(c), ~raced'
    PROVE  Spells(connections', s, Adding') /\ Lives(connections, s)'
<1>. DEFINE n == timer_pc[c].node
<1>1. connections.start = n /\ connections.end = 0 /\ timer_pc[c].at = "end"
  BY DEF AddSetsEnd, Calls
<1>2. PICK l : l = connections'
  OBVIOUS
<1>3. l.start = connections.start /\ l.end = n /\ l.node = connections.node
  BY <1>2 DEF AddSetsEnd, TimerTypes, NodeLists
<1>4. n = Tip(s)
  <2>1. CASE s = <<>>
    BY <1>1, <2>1 DEF Spells, Tip
  <2>2. CASE s # <<>>
    <3>1. Len(s) \in 1..Len(s) /\ s[Len(s)] # 0
      BY <2>2, SpelledLinks
    <3>2. Len(s) = 1
      BY <1>1, <2>2, <3>1 DEF Spells, Tip
    <3>. QED
      BY <1>1, <2>2, <3>2 DEF Spells, Tip
  <2>. QED
    BY <2>1, <2>2
<1>5. Spells(l, s, Adding')
  BY <1>3, <1>4 DEF Spells
<1>6. timer_pc' = [timer_pc EXCEPT ![c] = TimerIdle]
  BY DEF AddSetsEnd, TimerReturns
<1>7. /\ Adders' = Adders \ {c}
      /\ \A d \in TimerCallers : timer_pc'[d] = IF d = c THEN TimerIdle ELSE timer_pc[d]
  BY <1>6, ReturnStep
<1>8. Adders' = Adders /\ c \notin Adders /\ Adders \subseteq TimerCallers
  BY <1>1, <1>7 DEF Adders
<1>9. Lives(l, s)'
  BY <1>3, <1>7, <1>8, LivesFrame
<1>. QED
  BY <1>2, <1>5, <1>9 DEF Lives

(* The addition that finds a list appends to it.                           *)
LEMMA AppendKeeps ==
    ASSUME TimerTypes, NEW s, Spells(connections, s, Adding), Lives(connections, s),
           NEW c \in TimerCallers, AddAppends(c), ~raced'
    PROVE  \E q : Spells(connections', q, Adding') /\ Lives(connections, q)'
<1>. DEFINE L == Len(s)
<1>1. PICK n : n = timer_pc[c].node
  OBVIOUS
<1>2. PICK e : e = connections.end
  OBVIOUS
<1>3. c \in Adders /\ timer_pc[c].at = "append"
  BY DEF AddAppends, Calls, Adders
<1>4. n \in Nodes \ In(s)
  BY <1>1, <1>3 DEF Lives
<1>5. /\ connections' = [connections EXCEPT !.node[e].next = n, !.node[n].prev = e, !.end = n]
      /\ e # 0 /\ e \in Linked(connections)
  BY <1>1, <1>2 DEF AddAppends
<1>6. /\ s \in Seq(Nodes) /\ L \in Nat /\ \A i \in 1..L : s[i] \in Nodes
      /\ (s = <<>>) <=> (L = 0)
  BY SpelledLinks
<1>7. L \in 1..L /\ e = s[L] /\ e \in Nodes /\ n # e
  <2>1. e = Tip(s)
    BY <1>2, <1>5 DEF Spells
  <2>2. L \in 1..L /\ e = s[L]
    BY <1>5, <1>6, <2>1 DEF Tip
  <2>. QED
    BY <1>4, <1>6, <2>2 DEF In
<1>8. PICK l : l = connections'
  OBVIOUS
<1>9. /\ l.start = connections.start /\ l.end = n
      /\ \A m \in Nodes :
            /\ l.node[m].live = connections.node[m].live
            /\ l.node[m].next = IF m = e THEN n ELSE connections.node[m].next
            /\ l.node[m].prev = IF m = n THEN e ELSE connections.node[m].prev
  <2>. DEFINE mid == [connections.node EXCEPT ![e].next = n]
  <2>1. l = [start |-> connections.start, end |-> n, node |-> [mid EXCEPT ![n].prev = e]]
    BY <1>5, <1>8 DEF TimerTypes, NodeLists
  <2>2. connections.node \in [Nodes -> NodeRecords]
    BY DEF TimerTypes, NodeLists
  <2>3. \A m \in Nodes : mid[m] = IF m = e THEN [connections.node[m] EXCEPT !.next = n]
                                  ELSE connections.node[m]
    BY <2>2
  <2>4. DOMAIN mid = Nodes
    BY <2>2
  <2>5. \A m \in Nodes : connections.node[m] \in NodeRecords
    BY <2>2
  <2>. HIDE DEF mid
  <2>6. \A m \in Nodes : l.node[m] = IF m = n THEN [mid[m] EXCEPT !.prev = e] ELSE mid[m]
    BY <2>1, <2>4
  <2>7. l.start = connections.start /\ l.end = n
    BY <2>1
  <2>8. ASSUME NEW m \in Nodes
        PROVE  /\ l.node[m].live = connections.node[m].live
               /\ l.node[m].next = IF m = e THEN n ELSE connections.node[m].next
               /\ l.node[m].prev = IF m = n THEN e ELSE connections.node[m].prev
    <3>1. PICK x : x = connections.node[m] /\ x \in NodeRecords
      BY <2>5
    <3>2. mid[m] = IF m = e THEN [x EXCEPT !.next = n] ELSE x
      BY <2>3, <3>1
    <3>. HIDE DEF NodeRecords
    <3>3. CASE m = n
      <4>1. l.node[m] = [x EXCEPT !.prev = e]
        BY <1>7, <2>6, <3>2, <3>3
      <4>. QED
        BY <1>7, <3>1, <3>3, <4>1 DEF NodeRecords
    <3>4. CASE m = e
      <4>1. l.node[m] = [x EXCEPT !.next = n]
        BY <1>7, <2>6, <3>2, <3>4
      <4>. QED
        BY <1>7, <3>1, <3>4, <4>1 DEF NodeRecords
    <3>. QED
      BY <2>6, <3>1, <3>2, <3>3, <3>4
  <2>. QED
    BY <2>7, <2>8
<1>10. PICK q : q = Append(s, n)
  OBVIOUS
<1>11. /\ q \in Seq(Nodes) /\ Len(q) = L + 1 /\ q[L + 1] = n
       /\ \A i \in 1..L : q[i] = s[i]
  <2>1. n \in Nodes
    BY <1>4
  <2>. QED
    BY <1>6, <1>10, <2>1, AppendProperties
<1>. HIDE DEF L
<1>12. In(q) = In(s) \union {n} /\ q # <<>>
  <2>1. 1..(L + 1) = 1..L \union {L + 1}
    BY <1>6
  <2>2. In(q) = {q[i] : i \in 1..L} \union {q[L + 1]}
    BY <1>11, <2>1 DEF In
  <2>3. {q[i] : i \in 1..L} = {s[i] : i \in 1..L}
    BY <1>11
  <2>4. Len(q) # 0
    BY <1>6, <1>11
  <2>. QED
    BY <1>11, <2>2, <2>3, <2>4, EmptySeq DEF In, L
<1>13. \A i, j \in 1..Len(q) : q[i] = q[j] => i = j
  <2>1. \A i, j \in 1..L : s[i] = s[j] => i = j
    BY DEF Spells, L
  <2>2. \A i \in 1..L : s[i] # n
    BY <1>4 DEF In, L
  <2>3. \A i \in 1..Len(q) : i \in 1..L \/ i = L + 1
    BY <1>6, <1>11
  <2>. QED
    BY <1>11, <2>1, <2>2, <2>3
<1>14. l.start = q[1] /\ l.end = Tip(q)
  <2>1. 1 \in 1..L /\ q[1] = s[1]
    BY <1>6, <1>7, <1>11
  <2>2. connections.start = s[1]
    BY <1>6, <1>7 DEF Spells, L
  <2>. QED
    BY <1>9, <1>11, <1>12, <2>1, <2>2 DEF Tip
<1>15. ASSUME NEW i \in 1..Len(q)
       PROVE  /\ l.node[q[i]].next = IF i < Len(q) THEN q[i + 1] ELSE 0
              /\ l.node[q[i]].prev = IF i > 1 THEN q[i - 1] ELSE 0
  <2>1. CASE i = L + 1
    <3>1. connections.node[n].next = 0 /\ connections.node[n].prev = 0
      BY <1>4 DEF Spells
    <3>2. (L + 1) - 1 = L /\ L + 1 > 1 /\ q[i] = n /\ q[L] = e /\ ~(i < Len(q))
      BY <1>6, <1>7, <1>11, <2>1
    <3>. QED
      BY <1>4, <1>7, <1>9, <2>1, <3>1, <3>2
  <2>2. CASE i # L + 1
    <3>1. i \in 1..L /\ i < Len(q) /\ i \in Nat
      BY <1>6, <1>11, <2>2
    <3>2. q[i] = s[i] /\ s[i] \in Nodes /\ s[i] # n
      BY <1>4, <1>6, <1>11, <3>1 DEF In, L
    <3>3. /\ connections.node[s[i]].next = IF i < L THEN s[i + 1] ELSE 0
          /\ connections.node[s[i]].prev = IF i > 1 THEN s[i - 1] ELSE 0
      BY <3>1 DEF Spells, L
    <3>4. s[i] = e <=> i = L
      BY <1>7, <3>1 DEF Spells, L
    <3>5. i < L => q[i + 1] = s[i + 1]
      BY <1>6, <1>11, <3>1
    <3>6. i > 1 => q[i - 1] = s[i - 1]
      BY <1>6, <1>11, <3>1
    <3>7. l.node[q[i]].prev = IF i > 1 THEN q[i - 1] ELSE 0
      BY <1>9, <3>2, <3>3, <3>6
    <3>8. l.node[q[i]].next = q[i + 1]
      <4>1. CASE i = L
        BY <1>9, <1>11, <3>2, <3>4, <4>1
      <4>2. CASE i # L
        <5>1. i < L
          BY <1>6, <3>1, <4>2
        <5>. QED
          BY <1>9, <3>2, <3>3, <3>4, <3>5, <5>1
      <4>. QED
        BY <4>1, <4>2
    <3>. QED
      BY <3>1, <3>7, <3>8
  <2>. QED
    BY <2>1, <2>2
<1>16. ASSUME NEW m \in Nodes \ In(q) PROVE l.node[m].next = 0 /\ l.node[m].prev = 0
  <2>1. m \notin In(s) /\ m # n
    BY <1>12, <1>16
  <2>2. m # e
    BY <1>7, <2>1 DEF In, L
  <2>. QED
    BY <1>9, <1>16, <2>1, <2>2 DEF Spells
<1>17. Spells(l, q, Adding')
  BY <1>11, <1>12, <1>13, <1>14, <1>15, <1>16 DEF Spells
<1>18. timer_pc' = [timer_pc EXCEPT ![c] = TimerIdle]
  BY DEF AddAppends, TimerReturns
<1>19. /\ Adders' = Adders \ {c}
       /\ \A d \in TimerCallers : timer_pc'[d] = IF d = c THEN TimerIdle ELSE timer_pc[d]
  BY <1>18, ReturnStep
<1>20. Lives(l, q)'
  <2>1. Adders' \subseteq TimerCallers /\ \A d \in Adders' : d \in Adders /\ timer_pc'[d] = timer_pc[d]
    BY <1>19 DEF Adders
  <2>2. \A m \in Nodes : connections.node[m].live <=> m \in In(s) \/ \E d \in Adders : timer_pc[d].node = m
    BY DEF Lives
  <2>3. \A d \in Adders : timer_pc[d].node \in Nodes \ In(s)
    BY DEF Lives
  <2>4. \A d, f \in Adders : timer_pc[d].node = timer_pc[f].node => d = f
    BY DEF Lives
  <2>5. \A m \in Nodes : (\E d \in Adders' : timer_pc'[d].node = m)
           <=> \E d \in Adders \ {c} : timer_pc[d].node = m
    BY <1>19, <2>1
  <2>6. \A m \in Nodes : l.node[m].live <=> m \in In(q) \/ \E d \in Adders' : timer_pc'[d].node = m
    BY <1>1, <1>3, <1>9, <1>12, <2>2, <2>5
  <2>7. \A d \in Adders' : timer_pc'[d].node \in Nodes \ In(q)
    BY <1>1, <1>3, <1>12, <1>19, <2>1, <2>3, <2>4
  <2>8. \A d, f \in Adders' : timer_pc'[d].node = timer_pc'[f].node => d = f
    BY <2>1, <2>4
  <2>. QED
    BY <2>6, <2>7, <2>8 DEF Lives
<1>. QED
  BY <1>8, <1>17, <1>20 DEF Lives

(* A step that changes neither the links nor the additions.                *)
LEMMA QuietKeeps ==
    ASSUME TimerTypes, NEW s, Spells(connections, s, Adding), Lives(connections, s),
           connections'.start = connections.start, connections'.end = connections.end,
           \A n \in Nodes : /\ connections'.node[n].live = connections.node[n].live
                            /\ connections'.node[n].next = connections.node[n].next
                            /\ connections'.node[n].prev = connections.node[n].prev,
           \A d \in TimerCallers :
              \/ timer_pc'[d] = timer_pc[d]
              \/ /\ timer_pc[d].at \in {"idle", "set", "get"}
                 /\ timer_pc'[d].at \in {"idle", "set", "get"}
    PROVE  Spells(connections', s, Adding') /\ Lives(connections, s)'
<1>1. PICK l : l = connections'
  OBVIOUS
<1>2. Adders' = Adders /\ (Adding => Adding')
  BY DEF Adders, Adding
<1>3. \A d \in Adders : timer_pc'[d].node = timer_pc[d].node
  BY DEF Adders
<1>4. Spells(l, s, Adding')
  BY <1>1, <1>2, SpellsFrame
<1>5. \A n \in Nodes : l.node[n].live = connections.node[n].live
  BY <1>1
<1>6. Lives(l, s)'
  BY <1>2, <1>3, <1>5, LivesFrame
<1>. QED
  BY <1>1, <1>4, <1>6 DEF Lives

(* Every step leaves a list, as long as no addition finds another list     *)
(* than the one it tested.                                                 *)
LEMMA ListStep ==
    ASSUME TimerTypes, ~raced', TimerNext,
           ~raced => \E s : Spells(connections, s, Adding) /\ Lives(connections, s)
    PROVE  \E q : Spells(connections', q, Adding') /\ Lives(connections, q)'
<1>1. ~raced
  BY DEF TimerNext, TimerPass, TimerStop, TimerTick, TimerCall, AddAllocates, LookAtEnd,
         timerRemoveConnection, AddSetsStart, AddSetsEnd, AddAppends, timerSetTimeout,
         timerGetTimeout, Calls, TimerRuns
<1>2. PICK s : Spells(connections, s, Adding) /\ Lives(connections, s)
  BY <1>1
<1>3. /\ Chain(connections, connections.start, TRUE) = s
      /\ s \in Seq(Nodes) /\ Len(s) \in Nat
  <2>1. Chain(connections, connections.start, TRUE) = s
    BY <1>2, ForwardChain
  <2>2. s \in Seq(Nodes) /\ Len(s) \in 0..MaxConnections
    BY <1>2, SpelledLinks
  <2>3. Len(s) \in Nat
    BY ONLY <2>2
  <2>. QED
    BY ONLY <2>1, <2>2, <2>3
<1>4. CASE TimerPass
  <2>1. PICK l : l = connections'
    OBVIOUS
  <2>2. PICK a : a = Adding
    OBVIOUS
  <2>3. l = AfterPass(s) /\ UNCHANGED timer_pc
    BY <1>3, <1>4, <2>1 DEF TimerPass, AfterPass
  <2>4. PICK q : Spells(l, q, a) /\ Lives(l, q)
    BY <1>2, <2>2, <2>3, PassKeeps
  <2>5. Adding' = Adding /\ Adders' = Adders
    BY <2>3 DEF Adding, Adders
  <2>6. Lives(l, q)'
    BY <2>3, <2>4, <2>5, LivesFrame
  <2>7. Spells(l, q, Adding')
    BY <2>2, <2>4, <2>5
  <2>. QED
    BY <2>1, <2>6, <2>7 DEF Lives
<1>5. CASE TimerStop \/ TimerTick
  BY <1>2, <1>5, QuietKeeps DEF TimerStop, TimerTick
<1>6. ASSUME NEW c \in TimerCallers, TimerCall(c)
      PROVE  \E q : Spells(connections', q, Adding') /\ Lives(connections, q)'
  <2>1. \A rec : timer_pc' = [timer_pc EXCEPT ![c] = rec] =>
           \A d \in TimerCallers : timer_pc'[d] = IF d = c THEN rec ELSE timer_pc[d]
    BY DEF TimerTypes
  <2>2. ASSUME NEW fd \in TimerFds, NEW t \in TimerTimeouts, AddAllocates(c, fd, t)
        PROVE  \E q : Spells(connections', q, Adding') /\ Lives(connections, q)'
    BY <1>2, <1>6, <2>2, AllocationKeeps
  <2>3. CASE AddSetsStart(c)
    BY <1>2, <1>6, <2>3, FirstKeeps
  <2>4. CASE AddSetsEnd(c)
    BY <1>2, <1>6, <2>4, EndKeeps
  <2>5. CASE AddAppends(c)
    BY <1>2, <1>6, <2>5, AppendKeeps
  <2>6. ASSUME NEW at \in {"set", "get"}, NEW fd, NEW t, LookAtEnd(c, at, fd, t)
        PROVE  \E q : Spells(connections', q, Adding') /\ Lives(connections, q)'
    <3>1. PICK rec : rec = [at |-> at, node |-> connections.end, fd |-> fd, timeout_s |-> t]
      OBVIOUS
    <3>2. timer_pc' = [timer_pc EXCEPT ![c] = rec] /\ UNCHANGED connections
      BY <2>6, <3>1 DEF LookAtEnd
    <3>3. timer_pc[c].at = "idle" /\ rec.at = at
      BY <2>6, <3>1 DEF LookAtEnd, Calls
    <3>4. \A d \in TimerCallers : timer_pc'[d] = IF d = c THEN rec ELSE timer_pc[d]
      BY <2>1, <3>2
    <3>5. Spells(connections', s, Adding') /\ Lives(connections, s)'
      BY <1>2, <2>6, <3>2, <3>3, <3>4, QuietKeeps
    <3>. QED
      BY <3>5
  <2>7. CASE timerGetTimeout(c)
    <3>1. timer_pc' = [timer_pc EXCEPT ![c] = TimerIdle] /\ UNCHANGED connections
      BY <2>7 DEF timerGetTimeout, TimerReturns
    <3>2. timer_pc[c].at = "get" /\ TimerIdle.at = "idle"
      BY <2>7 DEF timerGetTimeout, Calls, TimerIdle
    <3>3. \A d \in TimerCallers : timer_pc'[d] = IF d = c THEN TimerIdle ELSE timer_pc[d]
      BY <2>1, <3>1
    <3>4. Spells(connections', s, Adding') /\ Lives(connections, s)'
      BY <1>2, <3>1, <3>2, <3>3, QuietKeeps
    <3>. QED
      BY <3>4
  <2>8. CASE timerSetTimeout(c)
    <3>1. timer_pc' = [timer_pc EXCEPT ![c] = TimerIdle]
      BY <2>8 DEF timerSetTimeout, TimerReturns
    <3>2. timer_pc[c].at = "set" /\ TimerIdle.at = "idle"
      BY <2>8 DEF timerSetTimeout, Calls, TimerIdle
    <3>3. \A d \in TimerCallers : timer_pc'[d] = IF d = c THEN TimerIdle ELSE timer_pc[d]
      BY <2>1, <3>1
    <3>4. PICK f : f = Found(c)
      OBVIOUS
    <3>5. \/ UNCHANGED connections
          \/ connections' = [connections EXCEPT !.node[f].timeout_s = timer_pc[c].timeout_s]
      BY <2>8, <3>4 DEF timerSetTimeout
    <3>6. /\ connections'.start = connections.start /\ connections'.end = connections.end
          /\ \A n \in Nodes : /\ connections'.node[n].live = connections.node[n].live
                              /\ connections'.node[n].next = connections.node[n].next
                              /\ connections'.node[n].prev = connections.node[n].prev
      <4>1. CASE UNCHANGED connections
        BY <4>1
      <4>2. CASE connections' = [connections EXCEPT !.node[f].timeout_s = timer_pc[c].timeout_s]
        BY <4>2 DEF TimerTypes, NodeLists, NodeRecords
      <4>. QED
        BY <3>5, <4>1, <4>2
    <3>7. Spells(connections', s, Adding') /\ Lives(connections, s)'
      BY <1>2, <3>2, <3>3, <3>6, QuietKeeps
    <3>. QED
      BY <3>7
  <2>9. ASSUME NEW fd, NEW close, timerRemoveConnection(c, fd, close)
        PROVE  \E q : Spells(connections', q, Adding') /\ Lives(connections, q)'
    <3>1. PICK n : n = FirstMet(s, fd)
      OBVIOUS
    <3>2. UNCHANGED timer_pc
      BY <2>9 DEF timerRemoveConnection
    <3>3. \/ UNCHANGED connections
          \/ n # 0 /\ connections' = removeConnection(connections, n)
      BY <1>3, <2>9, <3>1 DEF timerRemoveConnection
    <3>4. CASE UNCHANGED connections
      BY <1>2, <3>2, <3>4, QuietKeeps
    <3>5. CASE n # 0 /\ connections' = removeConnection(connections, n)
      <4>1. PICK i \in 1..Len(s) : n = s[i]
        BY <1>3, <3>1, <3>5, FirstMetIn
      <4>2. PICK a : a = Adding
        OBVIOUS
      <4>3. PICK l : l = connections'
        OBVIOUS
      <4>4. PICK q : Spells(l, q, a) /\ Lives(l, q)
        BY <1>2, <3>5, <4>1, <4>2, <4>3, LivesWithout DEF TimerTypes
      <4>5. Adding' = Adding /\ Adders' = Adders
        BY <3>2 DEF Adding, Adders
      <4>6. Lives(l, q)'
        BY <3>2, <4>4, <4>5, LivesFrame
      <4>7. Spells(l, q, Adding')
        BY <4>2, <4>4, <4>5
      <4>. QED
        BY <4>3, <4>6, <4>7 DEF Lives
    <3>. QED
      BY <3>3, <3>4, <3>5
  <2>. QED
    BY <1>6, <2>2, <2>3, <2>4, <2>5, <2>6, <2>7, <2>8, <2>9 DEF TimerCall
<1>. QED
  BY <1>4, <1>5, <1>6 DEF TimerNext

(* The empty list of a new ConnectionTimer satisfies the invariant. *)
LEMMA TimerInitially == TimerInit => TimerInv
<1>. SUFFICES ASSUME TimerInit PROVE TimerInv
  OBVIOUS
<1>1. Freed \in NodeRecords /\ Freed.next = 0 /\ Freed.prev = 0 /\ ~Freed.live
  BY TimerAssumption DEF Freed, NodeRecords
<1>2. TimerIdle.at = "idle"
  BY DEF TimerIdle
<1>3. TimerTypes
  <2>1. connections \in NodeLists
    BY <1>1, TimerAssumption DEF TimerInit, NodeLists
  <2>2. TimerIdle \in [at : {"idle", "first", "end", "append", "set", "get"},
           node : 0..MaxConnections, fd : TimerFds \union {0},
           timeout_s : TimerTimeouts \union {0}]
    BY TimerAssumption DEF TimerIdle
  <2>. QED
    <3>1. timer_now \in 0..TimerHorizon
      BY TimerAssumption DEF TimerInit
    <3>. QED
      BY <2>1, <2>2, <3>1 DEF TimerInit, TimerTypes
<1>4. Adders = {}
  BY <1>2 DEF TimerInit, Adders
<1>5. PICK s : s = <<>>
  OBVIOUS
<1>6. s \in Seq(Nodes) /\ Len(s) = 0 /\ In(s) = {}
  BY <1>5 DEF In
<1>7. \A n \in Nodes : connections.node[n] = Freed
  BY DEF TimerInit
<1>8. Spells(connections, s, Adding)
  BY <1>1, <1>5, <1>6, <1>7 DEF TimerInit, Spells, Tip
<1>9. Lives(connections, s)
  BY <1>1, <1>4, <1>6, <1>7 DEF Lives
<1>. QED
  BY <1>3, <1>8, <1>9 DEF TimerInv

(* The types hold, and the connections form a list, in every state that    *)
(* timerAddConnection, timerProcess and the other functions reach, as long *)
(* as no addition was raced.                                               *)
THEOREM TimerInvariant == TimerSpec => []TimerInv
<1>1. TimerInv /\ [TimerNext]_timer_vars => TimerInv'
  <2>. SUFFICES ASSUME TimerInv, [TimerNext]_timer_vars PROVE TimerInv'
    OBVIOUS
  <2>1. /\ TimerTypes
        /\ ~raced => \E s : Spells(connections, s, Adding) /\ Lives(connections, s)
    BY DEF TimerInv
  <2>2. TimerTypes'
    BY <2>1, TimerTypesStep
  <2>3. CASE UNCHANGED timer_vars
    <3>1. UNCHANGED <<connections, timer_pc, raced>>
      BY <2>3 DEF timer_vars
    <3>2. ASSUME NEW s, Spells(connections, s, Adding), Lives(connections, s)
          PROVE  Spells(connections', s, Adding') /\ Lives(connections, s)'
      BY <2>1, <3>1, <3>2, QuietKeeps
    <3>. QED
      BY <2>1, <2>2, <3>1, <3>2 DEF TimerInv
  <2>4. CASE TimerNext
    <3>1. ~raced' => \E q : Spells(connections', q, Adding') /\ Lives(connections, q)'
      BY <2>1, <2>4, ListStep
    <3>. QED
      BY <2>2, <3>1 DEF TimerInv
  <2>. QED
    BY <2>3, <2>4
<1>. QED
  BY <1>1, TimerInitially, PTL DEF TimerSpec

(* The types of TimerTypeOK, for every number of callers and connections.  *)
THEOREM TimerTypesHold == TimerSpec => []TimerTypeOK
<1>1. TimerInv => TimerTypeOK
  BY DEF TimerInv, TimerTypes, TimerTypeOK, NodeLists, NodeRecords
<1>. QED
  BY <1>1, TimerInvariant, PTL

(* The list stays a list: the connections met from start are those met     *)
(* back from end, and they are all that are live, except those that an     *)
(* addition has allocated and not linked yet (timerAddConnection,          *)
(* removeConnection of server_connection_timer.h).                         *)
THEOREM ListStaysAList == TimerSpec => []EveryConnectionListed
<1>1. TimerInv => EveryConnectionListed
  <2>. SUFFICES ASSUME TimerInv, ~raced, \A c \in TimerCallers : timer_pc[c].at # "end"
                PROVE  LET chain == Chain(connections, connections.start, TRUE)
                       IN  /\ Chain(connections, connections.end, FALSE) = Reverse(chain)
                           /\ ToSet(chain) = {n \in Nodes : connections.node[n].live} \ Pending
    BY DEF EveryConnectionListed
  <2>1. PICK s : Spells(connections, s, Adding) /\ Lives(connections, s)
    BY DEF TimerInv
  <2>2. connections.end = Tip(s)
    BY <2>1 DEF Spells, Adding
  <2>3. Chain(connections, connections.start, TRUE) = s
    BY <2>1, ForwardChain
  <2>4. Chain(connections, connections.end, FALSE) = Reverse(s)
    BY <2>1, <2>2, BackwardChain
  <2>5. ToSet(s) = In(s) /\ In(s) \subseteq Nodes
    BY <2>1, SpelledLinks DEF ToSet, In
  <2>6. Pending = {timer_pc[c].node : c \in Adders}
    BY DEF Pending, Adders
  <2>7. /\ \A n \in Nodes : connections.node[n].live <=>
              n \in In(s) \/ \E c \in Adders : timer_pc[c].node = n
        /\ \A c \in Adders : timer_pc[c].node \in Nodes \ In(s)
    BY <2>1 DEF Lives
  <2>8. In(s) = {n \in Nodes : connections.node[n].live} \ Pending
    BY <2>5, <2>6, <2>7
  <2>. QED
    BY <2>3, <2>4, <2>5, <2>8
<1>. QED
  BY <1>1, TimerInvariant, PTL
=============================================================================
