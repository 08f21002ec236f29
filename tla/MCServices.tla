----------------------------- MODULE MCServices -----------------------------
(***************************************************************************)
(* The services of the library that do not call one another, checked in    *)
(* one run.  subject is chosen once: a behaviour is one of that service,   *)
(* so that their state spaces add up and do not multiply.                  *)
(***************************************************************************)
EXTENDS ConnectionTimer, SharedPointer, FileWatcher, FileManager, ETimeout

VARIABLE subject

MCPathsOf == <<{1, 2}, {2}>>
MCBuffers == {<<1>>, <<2, 2>>}

Only(s) ==
    /\ subject = s /\ subject' = s
    /\ s # "timer"    => UNCHANGED timer_vars
    /\ s # "pointer"  => UNCHANGED ptr_vars
    /\ s # "watcher"  => UNCHANGED watch_vars
    /\ s # "files"    => UNCHANGED file_vars
    /\ s # "etimeout" => UNCHANGED et_vars

Services == {"timer", "pointer", "watcher", "files", "etimeout"}

MCInit == /\ subject \in Services
          /\ TimerInit /\ PtrInit /\ WatchInit /\ FileInit /\ ETimeoutInit

MCNext == \/ Only("timer") /\ TimerNext
          \/ Only("pointer") /\ PtrNext
          \/ Only("watcher") /\ WatchNext
          \/ Only("files") /\ FileNext
          \/ Only("etimeout") /\ ETimeoutNext

mc_vars == <<timer_vars, ptr_vars, watch_vars, file_vars, et_vars, subject>>

(* The fairness of each service, for the behaviours that are its own.      *)
MCFairness ==
    /\ WF_mc_vars(Only("timer") /\ TimerPass)
    /\ WF_mc_vars(Only("timer") /\ TimerTick)
    /\ \A g \in Threads : SF_mc_vars(Only("watcher") /\ ThreadNext(g))
    /\ \A t \in FileWriters : SF_mc_vars(Only("files") /\ FileStep(t))
    /\ WF_mc_vars(Only("etimeout") /\ ParentStep)
    /\ WF_mc_vars(Only("etimeout") /\ sig_handler)

MCSpec == MCInit /\ [][MCNext]_mc_vars /\ MCFairness
=============================================================================
