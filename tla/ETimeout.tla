------------------------------ MODULE ETimeout ------------------------------
(***************************************************************************)
(* etimeout (etimeout/main.cpp): starts a command, polls once a second     *)
(* whether a SIGCHLD was handled, and kills it when the time is up.        *)
(* The child is its own process: it may be stopped, continue and end.      *)
(* Each sends a SIGCHLD, since the handler is installed without            *)
(* SA_NOCLDSTOP.  One that finds no handler is lost, one that finds        *)
(* another still pending is merged into it, and a pending one may be       *)
(* handled between any two steps.                                          *)
(***************************************************************************)
EXTENDS Integers

CONSTANTS
    Limit,      \* the timeout on the command line, an integer
    ChildCodes, \* exit codes of the command, none of them KilledCode
    ClockBound  \* bound on the seconds that pass

ASSUME ETimeoutAssumption == /\ Limit \in Int /\ ClockBound \in Nat
                             /\ Limit < ClockBound

VARIABLES
    parent,     \* where main() is
    child,      \* "none", "runs", "stopped", "ended": the process started
    status,     \* the code the child ended with
    sigchld,    \* the pending SIGCHLD: "none", or what it is about
    taken,      \* what the SIGCHLDs were about that the handler has taken
    available,  \* child_process_available
    code,       \* child_process_code
    exit_code,
    elapsed,    \* seconds since ts_start
    ended_at    \* what the parent was doing when the child ended

et_vars == <<parent, child, status, sigchld, taken, available, code, exit_code,
             elapsed, ended_at>>

TimedOut == 177
KilledCode == 9

(* si_status: the exit code or signal that ended the child, or the signal  *)
(* that stopped (SIGSTOP) or continued it (SIGCONT).                       *)
SiStatus(kind) ==
    CASE kind = "end" -> status [] kind = "stop" -> 19 [] kind = "continue" -> 18

ETimeoutInit ==
    /\ parent = "start" /\ child = "none" /\ status = -1 /\ sigchld = "none"
    /\ taken = {}
    /\ available = -1 /\ code = -1 /\ exit_code = 0 /\ elapsed = 0
    /\ ended_at = "none"

(* posix_spawn, and its error return, an errno that is not -1: main() goes *)
(* on if the child's pid, which was not set, happens to be positive.       *)
Spawns ==
    /\ parent = "start"
    /\ \/ parent' = "spawned" /\ child' = "runs"
       \/ parent' = "spawned" /\ child' = "none"
       \/ parent' = "exited" /\ child' = "none"
    /\ exit_code' = IF parent' = "exited" THEN 1 ELSE 0
    /\ UNCHANGED <<status, sigchld, taken, available, code, elapsed, ended_at>>

InstallsHandler ==
    /\ parent = "spawned"
    /\ parent' = "installed"
    /\ UNCHANGED <<child, status, sigchld, taken, available, code, exit_code,
                   elapsed, ended_at>>

(* The flag is set last: a SIGCHLD handled before it is forgotten.         *)
ArmsFlag ==
    /\ parent = "installed"
    /\ available' = 1
    /\ parent' = "polls"
    /\ UNCHANGED <<child, status, sigchld, taken, code, exit_code, elapsed,
                   ended_at>>

HandlerInstalled == parent \notin {"start", "spawned", "exited"}

(* What a SIGCHLD about kind leaves pending.                               *)
Sends(kind) ==
    sigchld' = IF HandlerInstalled /\ sigchld = "none" THEN kind ELSE sigchld

ChildEnds ==
    /\ child \in {"runs", "stopped"}
    /\ child' = "ended"
    /\ status' \in ChildCodes
    /\ ended_at' = parent
    /\ Sends("end")
    /\ UNCHANGED <<parent, taken, available, code, exit_code, elapsed>>

ChildStops ==
    /\ child = "runs" /\ child' = "stopped"
    /\ Sends("stop")
    /\ UNCHANGED <<parent, status, taken, available, code, exit_code, elapsed,
                   ended_at>>

ChildContinues ==
    /\ child = "stopped" /\ child' = "runs"
    /\ Sends("continue")
    /\ UNCHANGED <<parent, status, taken, available, code, exit_code, elapsed,
                   ended_at>>

(* Whatever the SIGCHLD is about, it is taken for the end of the child.    *)
sig_handler ==
    /\ sigchld # "none" /\ parent # "exited"
    /\ sigchld' = "none"
    /\ taken' = taken \union {sigchld}
    /\ code' = SiStatus(sigchld)
    /\ available' = 0
    /\ parent' = IF parent = "asleep" THEN "slept" ELSE parent
    /\ UNCHANGED <<child, status, exit_code, elapsed, ended_at>>

(* The loop leaves when the flag is down.  A sleep(1) lasts a second, or   *)
(* until the handler has run.                                              *)
Sleeps ==
    /\ parent = "polls" /\ available # 0
    /\ parent' = "asleep"
    /\ UNCHANGED <<child, status, sigchld, taken, available, code, exit_code,
                   elapsed, ended_at>>

Wakes ==
    /\ parent = "asleep" /\ elapsed < ClockBound
    /\ parent' = "slept"
    /\ elapsed' = elapsed + 1
    /\ UNCHANGED <<child, status, sigchld, taken, available, code, exit_code,
                   ended_at>>

(* Mutation: a command whose time is up is reported as one that timed out  *)
(* whatever it ended with.                                                 *)
ExitsTimedOut ==
    /\ parent \in {"polls", "killed"}
    /\ parent = "polls" => available = 0
    /\ parent' = "exited"
    /\ exit_code' = IF parent = "polls" /\ elapsed < Limit THEN code ELSE TimedOut
    /\ UNCHANGED <<child, status, sigchld, taken, available, code, elapsed,
                   ended_at>>

(* Mutation: only a command that still runs is timed out.                  *)
ChecksClockRunning ==
    /\ parent = "slept"
    /\ IF elapsed >= Limit /\ child # "ended"
       THEN /\ parent' = "killed" /\ exit_code' = TimedOut
            /\ child' = "ended" /\ status' = KilledCode
            /\ Sends("end") /\ ended_at' = "killed"
       ELSE /\ parent' = "polls"
            /\ UNCHANGED <<exit_code, child, status, sigchld, ended_at>>
    /\ UNCHANGED <<taken, available, code, elapsed>>

(* Time is up: SIGKILL to the pid, whichever process that is.              *)
ChecksClock ==
    /\ parent = "slept"
    /\ IF elapsed >= Limit
       THEN /\ parent' = "killed"
            /\ exit_code' = TimedOut
            /\ IF child \in {"runs", "stopped"}
               THEN /\ child' = "ended" /\ status' = KilledCode
                    /\ Sends("end") /\ ended_at' = "killed"
               ELSE UNCHANGED <<child, status, sigchld, ended_at>>
       ELSE /\ parent' = "polls"
            /\ UNCHANGED <<exit_code, child, status, sigchld, ended_at>>
    /\ UNCHANGED <<taken, available, code, elapsed>>

Exits ==
    /\ parent \in {"polls", "killed"}
    /\ parent = "polls" => available = 0
    /\ parent' = "exited"
    /\ exit_code' = IF available = 0 THEN code ELSE exit_code
    /\ UNCHANGED <<child, status, sigchld, taken, available, code, elapsed,
                   ended_at>>

ParentStep ==
    Spawns \/ InstallsHandler \/ ArmsFlag \/ Sleeps \/ Wakes \/ ChecksClock
           \/ Exits

ETimeoutNext ==
    ParentStep \/ ChildEnds \/ ChildStops \/ ChildContinues \/ sig_handler

(* main() runs on, a pending signal is delivered; the child may never end. *)
ETimeoutFairness == WF_et_vars(ParentStep) /\ WF_et_vars(sig_handler)

ETimeoutSpec == ETimeoutInit /\ [][ETimeoutNext]_et_vars /\ ETimeoutFairness

-----------------------------------------------------------------------------
ETimeoutTypeOK ==
    /\ parent \in {"start", "spawned", "installed", "polls", "asleep", "slept", "killed",
                   "exited"}
    /\ available \in {-1, 0, 1}
    /\ exit_code \in ChildCodes \union {-1, 0, 1, 18, 19, KilledCode, TimedOut}

(* main(): the code etimeout exits with tells what happened.  A code of a  *)
(* command is the command's own, TimedOut is only reported after the       *)
(* timeout or for a command that ended with that code itself, and a child  *)
(* that ended while etimeout polled for it is not reported as timed out    *)
(* unless its signal is still on the way.  Nothing is claimed once the     *)
(* handler has taken a stop or a continuation for the end.                 *)
ExitCodeIsTrue ==
    parent = "exited" /\ child # "none" /\ taken \subseteq {"end"} =>
       /\ exit_code = TimedOut => elapsed >= Limit \/ status = TimedOut
       /\ exit_code # TimedOut => child = "ended" /\ exit_code = status
       /\ ended_at \in {"polls", "asleep", "slept"} /\ taken = {"end"} =>
             exit_code = status

(* main(): once the command was to be started etimeout ends, even if the   *)
(* command does not, its end was missed, or it never was started.          *)
ETimeoutEnds == parent = "spawned" ~> parent = "exited"
=============================================================================
