----------------------------- MODULE FileWatcher -----------------------------
(***************************************************************************)
(* The file watcher of lib/file/file_watcher.cpp: watchers register weak   *)
(* pointers under the watch descriptors of their paths, a thread reads     *)
(* inotify events and calls the watcher registered for each, and one mutex *)
(* guards the registrations.                                               *)
(*                                                                         *)
(* Watchers are held the way lib/test/file_watcher_test.cpp holds them:    *)
(* the owner has a shared pointer, and the weak pointers come from a cast, *)
(* whose control block outlives it: lock() always returns the object, as   *)
(* lib/memory/pointers.h has it.  inotify gives one descriptor per path,   *)
(* so a path stands for its descriptor.                                    *)
(***************************************************************************)
EXTENDS Integers, Sequences, FiniteSets

CONSTANTS
    WatchPaths, \* paths in the file system
    Watchers,   \* FileWatcher objects, a positive number each
    PathsOf,    \* watcher -> the paths it is constructed with
    MaxStarts,  \* bound on calls of fileWatcherThreadStart
    MaxEvents   \* bound on the events in the queue of the kernel

ASSUME WatchAssumption == /\ PathsOf \in [Watchers -> SUBSET WatchPaths]
                          /\ MaxStarts \in Nat /\ MaxEvents \in Nat
                          /\ Watchers \subseteq Nat \ {0}

VARIABLES
    watch_mutex,       \* 0, or the thread that owns it
    thread_run,
    watch_fd,          \* the inotify instance, 0 for -1
    started,           \* calls of fileWatcherThreadStart so far
    registeredWatchers,\* path -> watcher, 0 where there is none
    paths_wd_map,      \* watcher -> the paths it has a descriptor for
    watch_paths,       \* watcher -> all paths in its paths_wd_map
    refs,              \* watcher -> e_instance_count
    life,              \* watcher -> "new", "alive", "dying" (derived
                       \* destructor), "base" (~FileWatcher), "freed"
    owned,             \* watchers whose owner still has its pointer
    kernel,            \* events not read yet, a sequence of paths
    thread,            \* watcher thread -> [at, batch, cur, fd]
    late               \* watchers that were locked when no longer alive

watch_vars ==
    <<watch_mutex, thread_run, watch_fd, started, registeredWatchers,
      paths_wd_map, watch_paths, refs, life, owned, kernel, thread, late>>

Main == -1
Owner == -2
Threads == 1..MaxStarts
NoThread == [at |-> "none", batch |-> <<>>, cur |-> 0, fd |-> 0]
NewThread(n) == [at |-> "loop", batch |-> <<>>, cur |-> 0, fd |-> n]

WatchInit ==
    /\ watch_mutex = 0 /\ thread_run = FALSE /\ watch_fd = 0 /\ started = 0
    /\ registeredWatchers = [p \in WatchPaths |-> 0]
    /\ paths_wd_map = [w \in Watchers |-> {}]
    /\ watch_paths = [w \in Watchers |-> {}] /\ late = {}
    /\ refs = [w \in Watchers |-> 0]
    /\ life = [w \in Watchers |-> "new"]
    /\ owned = {} /\ kernel = <<>>
    /\ thread = [g \in Threads |-> NoThread]

(* The object of a dropped reference: the destructor starts with the last. *)
Dropped(w) == /\ refs' = [refs EXCEPT ![w] = @ - 1]
              /\ life' = IF refs[w] = 1 THEN [life EXCEPT ![w] = "dying"]
                         ELSE life

-----------------------------------------------------------------------------
(* The main thread *)

(* Started while it is stopped; the number of a closed descriptor may be   *)
(* given again.  The thread is created; inotify may have no instance left, *)
(* and the exception leaves the mutex locked.                              *)
fileWatcherThreadStart ==
    /\ watch_mutex = 0 /\ watch_fd = 0 /\ started < MaxStarts
    /\ started' = started + 1
    /\ \E n \in 1..(started + 1) :
          /\ watch_fd' = n
          /\ thread' = [thread EXCEPT ![started + 1] = NewThread(n)]
    /\ thread_run' = TRUE /\ kernel' = <<>>
    /\ UNCHANGED <<watch_mutex, registeredWatchers, paths_wd_map, watch_paths,
                   refs, life, owned, late>>

fileWatcherThreadStartThrows ==
    /\ watch_mutex = 0 /\ watch_fd = 0 /\ started < MaxStarts
    /\ watch_mutex' = Main
    /\ UNCHANGED <<thread_run, watch_fd, started, registeredWatchers,
                   paths_wd_map, watch_paths, refs, life, owned, kernel,
                   thread, late>>

(* Watchers whose last pointer would be the one the stop takes: their      *)
(* destructor waits for the mutex its own thread owns.                     *)
Registered == {registeredWatchers[p] : p \in WatchPaths} \ {0}

(* fileWatcherThreadStop after its lock.  The paths of every registered    *)
(* watcher are forgotten, so initialize() will not register it again.      *)
Stops(by) ==
    /\ paths_wd_map' = [w \in Watchers |->
          IF w \in Registered THEN {} ELSE paths_wd_map[w]]
    /\ watch_paths' = [w \in Watchers |->
          IF w \in Registered THEN {} ELSE watch_paths[w]]
    /\ IF \E w \in Registered : refs[w] = 0
       THEN /\ watch_mutex' = by
            /\ UNCHANGED <<registeredWatchers, watch_fd, thread_run, kernel>>
       ELSE /\ watch_mutex' = 0
            /\ registeredWatchers' = [p \in WatchPaths |-> 0]
            /\ watch_fd' = 0 /\ thread_run' = FALSE /\ kernel' = <<>>

fileWatcherThreadStop ==
    /\ watch_mutex = 0 /\ watch_fd # 0
    /\ Stops(Main)
    /\ UNCHANGED <<started, refs, life, owned, thread, late>>

-----------------------------------------------------------------------------
(* The owner of the watchers *)

NewFileWatcher(w) ==
    /\ life[w] = "new"
    /\ life' = [life EXCEPT ![w] = "alive"]
    /\ refs' = [refs EXCEPT ![w] = 1]
    /\ owned' = owned \union {w}
    /\ paths_wd_map' = [paths_wd_map EXCEPT ![w] = {}]
    /\ watch_paths' = [watch_paths EXCEPT ![w] = PathsOf[w]]
    /\ UNCHANGED <<watch_mutex, thread_run, watch_fd, started,
                   registeredWatchers, kernel, thread, late>>

initialize(w) ==
    /\ w \in owned /\ watch_mutex = 0
    /\ watch_fd # 0 \/ watch_paths[w] = {}
    /\ paths_wd_map' = [paths_wd_map EXCEPT ![w] = watch_paths[w]]
    /\ registeredWatchers' = [p \in WatchPaths |->
          IF p \in watch_paths[w] THEN w ELSE registeredWatchers[p]]
    /\ UNCHANGED <<watch_mutex, thread_run, watch_fd, started, watch_paths,
                   refs, life, owned, kernel, thread, late>>

(* A path cannot be watched, or there is no inotify instance: the paths    *)
(* before it stay registered, and the exception leaves the mutex locked.   *)
initializeThrows(w) ==
    /\ w \in owned /\ watch_mutex = 0 /\ watch_paths[w] # {}
    /\ \E done \in SUBSET watch_paths[w] :
          /\ done # watch_paths[w] /\ (watch_fd = 0 => done = {})
          /\ paths_wd_map' = [paths_wd_map EXCEPT ![w] = @ \union done]
          /\ registeredWatchers' = [p \in WatchPaths |->
                IF p \in done THEN w ELSE registeredWatchers[p]]
    /\ watch_mutex' = Owner
    /\ UNCHANGED <<thread_run, watch_fd, started, watch_paths, refs, life,
                   owned, kernel, thread, late>>

OwnerDrops(w) ==
    /\ w \in owned
    /\ owned' = owned \ {w}
    /\ Dropped(w)
    /\ UNCHANGED <<watch_mutex, thread_run, watch_fd, started,
                   registeredWatchers, paths_wd_map, watch_paths, kernel,
                   thread, late>>

(* The derived destructor has no lock: its members go, and handle() is     *)
(* pure virtual in what is left.                                           *)
DerivedDestructor(w) ==
    /\ life[w] = "dying"
    /\ life' = [life EXCEPT ![w] = "base"]
    /\ UNCHANGED <<watch_mutex, thread_run, watch_fd, started,
                   registeredWatchers, paths_wd_map, watch_paths, refs, owned,
                   kernel, thread, late>>

(* Mutation: the destructor leaves the registrations.                      *)
DestructorKeeps(w) ==
    /\ life[w] = "base" /\ watch_mutex = 0
    /\ paths_wd_map' = [paths_wd_map EXCEPT ![w] = {}]
    /\ watch_paths' = [watch_paths EXCEPT ![w] = {}]
    /\ life' = [life EXCEPT ![w] = "freed"]
    /\ UNCHANGED <<watch_mutex, thread_run, watch_fd, started,
                   registeredWatchers, refs, owned, kernel, thread, late>>

(* ~FileWatcher erases whatever is registered under its descriptors; the   *)
(* thread that dropped the last pointer runs it, and waits for the mutex.  *)
Destructor(w) ==
    /\ life[w] = "base" /\ watch_mutex = 0
    /\ registeredWatchers' = [p \in WatchPaths |->
          IF p \in paths_wd_map[w] THEN 0 ELSE registeredWatchers[p]]
    /\ paths_wd_map' = [paths_wd_map EXCEPT ![w] = {}]
    /\ watch_paths' = [watch_paths EXCEPT ![w] = {}]
    /\ life' = [life EXCEPT ![w] = "freed"]
    /\ UNCHANGED <<watch_mutex, thread_run, watch_fd, started, refs, owned,
                   kernel, thread, late>>

-----------------------------------------------------------------------------
(* watcherRun, thread g *)

Step(g, at) == thread[g].at = at
Move(g, at) == thread' = [thread EXCEPT ![g].at = at]

(* Mutation: the thread ends without looking at the flag.                  *)
ThreadEndsEarly(g) ==
    /\ Step(g, "loop")
    /\ Move(g, "end")
    /\ UNCHANGED <<watch_mutex, thread_run, watch_fd, started,
                   registeredWatchers, paths_wd_map, watch_paths, refs, life,
                   owned, kernel, late>>

ThreadEnds(g) ==
    /\ Step(g, "loop") /\ ~thread_run
    /\ Move(g, "end")
    /\ UNCHANGED <<watch_mutex, thread_run, watch_fd, started,
                   registeredWatchers, paths_wd_map, watch_paths, refs, life,
                   owned, kernel, late>>

ThreadEnters(g) ==
    /\ Step(g, "loop") /\ thread_run
    /\ Move(g, "lock")
    /\ UNCHANGED <<watch_mutex, thread_run, watch_fd, started,
                   registeredWatchers, paths_wd_map, watch_paths, refs, life,
                   owned, kernel, late>>

(* lock and poll with no timeout.  A thread of an earlier start polls its  *)
(* closed descriptor, which is always ready, and reads from the new one.   *)
ThreadPolls(g) ==
    /\ Step(g, "lock") /\ watch_mutex = 0 /\ watch_fd # 0
    /\ IF thread[g].fd = watch_fd /\ kernel = <<>>
       THEN Move(g, "loop") /\ UNCHANGED watch_mutex
       ELSE watch_mutex' = g /\ Move(g, "read")
    /\ UNCHANGED <<thread_run, watch_fd, started, registeredWatchers,
                   paths_wd_map, watch_paths, refs, life, owned, kernel, late>>

(* read() waits for an event, with the mutex.                              *)
ThreadReads(g) ==
    /\ Step(g, "read") /\ kernel # <<>>
    /\ kernel' = <<>>
    /\ thread' = [thread EXCEPT ![g].at = "events", ![g].batch = kernel]
    /\ UNCHANGED <<watch_mutex, thread_run, watch_fd, started,
                   registeredWatchers, paths_wd_map, watch_paths, refs, life,
                   owned, late>>

(* EAGAIN: continue goes past the unlock.                                  *)
ThreadContinues(g) ==
    /\ Step(g, "read")
    /\ Move(g, "loop")
    /\ UNCHANGED <<watch_mutex, thread_run, watch_fd, started,
                   registeredWatchers, paths_wd_map, watch_paths, refs, life,
                   owned, kernel, late>>

(* poll or read fails, as it does when the watch was stopped: the catch    *)
(* unlocks and stops whatever watch there is now.                          *)
ThreadFails(g) ==
    /\ \/ Step(g, "lock") /\ watch_mutex = 0
       \/ Step(g, "read")
    /\ watch_mutex' = 0
    /\ Move(g, "stop")
    /\ UNCHANGED <<thread_run, watch_fd, started, registeredWatchers,
                   paths_wd_map, watch_paths, refs, life, owned, kernel, late>>

(* operator[] and lock(): the temporary pointer counts, also on a watcher  *)
(* whose destructor is running.                                            *)
ThreadLocksWeak(g) ==
    /\ Step(g, "events") /\ thread[g].batch # <<>>
    /\ LET w == registeredWatchers[Head(thread[g].batch)]
       IN  /\ thread' = [thread EXCEPT ![g].batch = Tail(@), ![g].cur = w,
                             ![g].at = IF w = 0 THEN "events" ELSE "handle"]
           /\ refs' = IF w = 0 THEN refs ELSE [refs EXCEPT ![w] = @ + 1]
           /\ late' = IF w = 0 \/ life[w] = "alive" THEN late
                      ELSE late \union {w}
    /\ UNCHANGED <<watch_mutex, thread_run, watch_fd, started,
                   registeredWatchers, paths_wd_map, watch_paths, life, owned,
                   kernel>>

(* handle() returns or throws, and the temporary pointer is destroyed.     *)
(* Where it was the last, ~FileWatcher waits for the mutex of its thread.  *)
ThreadHandles(g) ==
    /\ Step(g, "handle") /\ life[thread[g].cur] # "base"
    /\ \E throws \in BOOLEAN :
          LET w == thread[g].cur
              last == refs[w] = 1
          IN  /\ Dropped(w)
              /\ thread' = [thread EXCEPT ![g].cur = 0,
                    ![g].at = IF last THEN "stuck"
                              ELSE IF throws THEN "stop" ELSE "events"]
              /\ watch_mutex' = IF throws /\ ~last THEN 0 ELSE watch_mutex
    /\ UNCHANGED <<thread_run, watch_fd, started, registeredWatchers,
                   paths_wd_map, watch_paths, owned, kernel, late>>

(* handle() of a watcher that is being destroyed: while the members go it  *)
(* is undefined, and may also return; after that it is the call of a pure  *)
(* virtual function, which ends the process.                               *)
ThreadAborts(g) ==
    /\ Step(g, "handle") /\ life[thread[g].cur] # "alive"
    /\ Move(g, "aborted")
    /\ UNCHANGED <<watch_mutex, thread_run, watch_fd, started,
                   registeredWatchers, paths_wd_map, watch_paths, refs, life,
                   owned, kernel, late>>

Aborted == \E g \in Threads : Step(g, "aborted")

ThreadUnlocks(g) ==
    /\ Step(g, "events") /\ thread[g].batch = <<>>
    /\ watch_mutex' = 0
    /\ Move(g, "loop")
    /\ UNCHANGED <<thread_run, watch_fd, started, registeredWatchers,
                   paths_wd_map, watch_paths, refs, life, owned, kernel, late>>

ThreadStops(g) ==
    /\ Step(g, "stop") /\ watch_mutex = 0
    /\ Stops(g)
    /\ Move(g, "end")
    /\ UNCHANGED <<started, refs, life, owned, late>>

(* The file system: something happens to a watched path.                   *)
FileChanges(p) ==
    /\ watch_fd # 0 /\ registeredWatchers[p] # 0 /\ Len(kernel) < MaxEvents
    /\ kernel' = Append(kernel, p)
    /\ UNCHANGED <<watch_mutex, thread_run, watch_fd, started,
                   registeredWatchers, paths_wd_map, watch_paths, refs, life,
                   owned, thread, late>>

ThreadNext(g) ==
    /\ ~Aborted
    /\ \/ ThreadEnds(g) \/ ThreadEnters(g) \/ ThreadPolls(g) \/ ThreadReads(g)
       \/ ThreadLocksWeak(g) \/ ThreadHandles(g) \/ ThreadAborts(g)
       \/ ThreadUnlocks(g) \/ ThreadStops(g)

WatchNext ==
    /\ ~Aborted
    /\ \/ fileWatcherThreadStart \/ fileWatcherThreadStartThrows
       \/ fileWatcherThreadStop
       \/ \E w \in Watchers : \/ NewFileWatcher(w) \/ initialize(w)
                              \/ initializeThrows(w) \/ OwnerDrops(w)
                              \/ DerivedDestructor(w) \/ Destructor(w)
       \/ \E p \in WatchPaths : FileChanges(p)
       \/ \E g \in Threads : \/ ThreadNext(g) \/ ThreadContinues(g)
                             \/ ThreadFails(g)

(* The watcher thread runs, and gets the mutex although others want it.    *)
WatchFairness == \A g \in Threads : SF_watch_vars(ThreadNext(g))

WatchSpec == WatchInit /\ [][WatchNext]_watch_vars /\ WatchFairness

-----------------------------------------------------------------------------
WatchTypeOK ==
    /\ watch_mutex \in {Main, Owner, 0} \union Threads
    /\ registeredWatchers \in [WatchPaths -> {0} \union Watchers]
    /\ paths_wd_map \in [Watchers -> SUBSET WatchPaths]
    /\ watch_paths \in [Watchers -> SUBSET WatchPaths]
    /\ refs \in [Watchers -> Nat]
    /\ Len(kernel) <= MaxEvents

(* handle() is never called on freed memory, although the weak pointers    *)
(* can be locked after the last shared pointer is gone: ~FileWatcher takes *)
(* the registration out before the memory goes, and waits while an event   *)
(* is handled.  Nor is it called on a watcher that is being destroyed,     *)
(* except where its weak pointer was locked when the destructor had begun: *)
(* the temporary pointer keeps a watcher that was locked alive.            *)
HandledBeforeFreed ==
    /\ \A g \in Threads : thread[g].cur # 0 =>
          /\ life[thread[g].cur] # "freed"
          /\ life[thread[g].cur] = "alive" \/ thread[g].cur \in late
    /\ \A w \in Registered : life[w] # "freed"

(* The mutex is owned by a thread that will never unlock it.               *)
MutexLost == \/ watch_mutex \in {Main, Owner}
             \/ watch_mutex \in Threads
                   /\ thread[watch_mutex].at \notin {"read", "events", "handle"}

(* An event of a registered path does not wait for ever: watcherRun reads  *)
(* it, unless the watch is stopped or the mutex is lost.                   *)
EventsAreRead == kernel # <<>> ~> (kernel = <<>> \/ MutexLost \/ ~thread_run)
=============================================================================
