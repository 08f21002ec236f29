--------------------------- MODULE ConnectionTimer ---------------------------
(***************************************************************************)
(* The connection timer of lib/web/server_connection_timer.h: a doubly     *)
(* linked list of connections, one thread that closes those whose time is  *)
(* up, and functions that any thread may call.                             *)
(*                                                                         *)
(* What happens between a lock and its unlock is one step.  What the code  *)
(* does outside of the mutex is a step of its own: the test of start in    *)
(* timerAddConnection, its two assignments to an empty list, and the look  *)
(* at end that the getter and the setter take before they lock.            *)
(***************************************************************************)
EXTENDS Integers, Sequences, FiniteSets, SequencesExt

CONSTANTS
    TimerCallers,   \* the threads that call the functions of the timer
    TimerFds,       \* file descriptors
    TimerTimeouts,  \* timeouts in seconds
    MaxConnections, \* bound on the connections that are allocated at once
    TimerHorizon    \* bound on the clock

ASSUME TimerAssumption ==
    /\ TimerTimeouts \subseteq Nat /\ MaxConnections \in Nat \ {0}
    /\ TimerHorizon \in Nat /\ "none" \notin TimerCallers

VARIABLES
    connections,  \* [start, end, node]: the list, 0 is NULL
    timer_mutex,  \* "none", or the caller that returned with it
    timer_run,    \* the flag run
    timer_now,    \* the monotonic clock
    timer_pc,     \* what each caller is about to do
    raced,        \* an addition found another list than the one it tested
    timer_fault   \* NULL or a freed connection was dereferenced

timer_vars == <<connections, timer_mutex, timer_run, timer_now, timer_pc,
                raced, timer_fault>>

Nodes == 1..MaxConnections
Freed == [live |-> FALSE, fd |-> 0, start_s |-> 0, timeout_s |-> 0,
          next |-> 0, prev |-> 0]
TimerIdle == [at |-> "idle", node |-> 0, fd |-> 0, timeout_s |-> 0]

TimerInit ==
    /\ connections = [start |-> 0, end |-> 0, node |-> [n \in Nodes |-> Freed]]
    /\ timer_mutex = "none" /\ timer_run = TRUE /\ timer_now = 0
    /\ timer_pc = [c \in TimerCallers |-> TimerIdle]
    /\ raced = FALSE /\ timer_fault = FALSE

(* The connections met from n on, following next or prev.                  *)
Chain(l, n, forward) ==
    LET nth[i \in Nodes] ==
            IF i = 1 THEN n
            ELSE IF nth[i - 1] = 0 THEN 0
            ELSE IF forward THEN l.node[nth[i - 1]].next
                            ELSE l.node[nth[i - 1]].prev
    IN  [i \in 1..Cardinality({k \in Nodes : nth[k] # 0}) |-> nth[i]]

Linked(l) == ToSet(Chain(l, l.start, TRUE))

(* The first connection of chain that has the descriptor, 0 if none has.   *)
FirstMet(chain, fd) ==
    LET i == SelectInSeq(chain, LAMBDA n : connections.node[n].fd = fd)
    IN  IF i = 0 THEN 0 ELSE chain[i]

(* Mutation: the last connection is removed without moving end.            *)
removeConnectionKeepsEnd(l, n) ==
    LET prev == l.node[n].prev
        next == l.node[n].next
    IN  [start |-> IF prev = 0 THEN next ELSE l.start,
         end   |-> IF next = 0 /\ prev = 0 THEN 0 ELSE l.end,
         node  |-> [m \in Nodes |->
                      IF m = n THEN Freed
                      ELSE IF m = prev THEN [l.node[m] EXCEPT !.next = next]
                      ELSE IF m = next THEN [l.node[m] EXCEPT !.prev = prev]
                      ELSE l.node[m]]]

removeConnection(l, n) ==
    LET prev == l.node[n].prev
        next == l.node[n].next
    IN  [start |-> IF prev = 0 THEN next ELSE l.start,
         end   |-> IF next = 0 THEN prev ELSE l.end,
         node  |-> [m \in Nodes |->
                      IF m = n THEN Freed
                      ELSE IF m = prev THEN [l.node[m] EXCEPT !.next = next]
                      ELSE IF m = next THEN [l.node[m] EXCEPT !.prev = prev]
                      ELSE l.node[m]]]

Due(c, now) == c.start_s + c.timeout_s <= now

(* Nothing is claimed of a list that was broken: the model stops there.    *)
TimerRuns == ~timer_fault /\ ~raced
Calls(c, at) == TimerRuns /\ timer_pc[c].at = at
TimerFree == timer_mutex = "none"
TimerReturns(c) == timer_pc' = [timer_pc EXCEPT ![c] = TimerIdle]

-----------------------------------------------------------------------------
(* The thread of the timer: one pass over the list per second.             *)

(* Mutation: the pass stops at the first connection that is not due.       *)
TimerPassStops ==
    /\ TimerRuns /\ timer_run /\ TimerFree
    /\ connections' =
          LET chain == Chain(connections, connections.start, TRUE)
          IN  IF chain # <<>> /\ Due(connections.node[chain[1]], timer_now)
              THEN removeConnection(connections, chain[1]) ELSE connections
    /\ UNCHANGED <<timer_mutex, timer_run, timer_now, timer_pc, raced,
                   timer_fault>>

TimerPass ==
    /\ TimerRuns /\ timer_run /\ TimerFree
    /\ connections' = FoldLeft(
          LAMBDA l, n : IF Due(l.node[n], timer_now)
                        THEN removeConnection(l, n) ELSE l,
          connections, Chain(connections, connections.start, TRUE))
    /\ UNCHANGED <<timer_mutex, timer_run, timer_now, timer_pc, raced,
                   timer_fault>>

TimerStop ==
    /\ TimerRuns /\ timer_run
    /\ timer_run' = FALSE
    /\ UNCHANGED <<connections, timer_mutex, timer_now, timer_pc, raced,
                   timer_fault>>

TimerTick ==
    /\ TimerRuns /\ timer_now < TimerHorizon
    /\ timer_now' = timer_now + 1
    /\ UNCHANGED <<connections, timer_mutex, timer_run, timer_pc, raced,
                   timer_fault>>

-----------------------------------------------------------------------------
(* timerAddConnection *)

AddAllocates(c, fd, timeout_s) ==
    /\ Calls(c, "idle")
    /\ \E n \in Nodes :
          /\ ~connections.node[n].live
          /\ \A m \in 1..(n - 1) : connections.node[m].live
          /\ connections' = [connections EXCEPT !.node[n] =
                [live |-> TRUE, fd |-> fd, start_s |-> timer_now,
                 timeout_s |-> timeout_s, next |-> 0, prev |-> 0]]
          /\ timer_pc' = [timer_pc EXCEPT ![c] =
                [TimerIdle EXCEPT !.node = n,
                   !.at = IF connections.start = 0 THEN "first" ELSE "append"]]
    /\ UNCHANGED <<timer_mutex, timer_run, timer_now, raced, timer_fault>>

AddSetsStart(c) ==
    /\ Calls(c, "first")
    /\ connections' = [connections EXCEPT !.start = timer_pc[c].node]
    /\ raced' = (raced \/ connections.start # 0)
    /\ timer_pc' = [timer_pc EXCEPT ![c].at = "end"]
    /\ UNCHANGED <<timer_mutex, timer_run, timer_now, timer_fault>>

AddSetsEnd(c) ==
    /\ Calls(c, "end")
    /\ connections' = [connections EXCEPT !.end = timer_pc[c].node]
    /\ raced' = (raced \/ connections.start # timer_pc[c].node
                       \/ connections.end # 0)
    /\ TimerReturns(c)
    /\ UNCHANGED <<timer_mutex, timer_run, timer_now, timer_fault>>

AddAppends(c) ==
    /\ Calls(c, "append") /\ TimerFree
    /\ LET n == timer_pc[c].node
           e == connections.end
       IN  IF e # 0 /\ connections.node[e].live
           THEN /\ connections' = [connections EXCEPT
                      !.node[e].next = n, !.node[n].prev = e, !.end = n]
                /\ raced' = (raced \/ e \notin Linked(connections))
                /\ UNCHANGED timer_fault
           ELSE timer_fault' = TRUE /\ raced' = TRUE /\ UNCHANGED connections
    /\ TimerReturns(c)
    /\ UNCHANGED <<timer_mutex, timer_run, timer_now>>

-----------------------------------------------------------------------------
(* timerSetTimeout, timerGetTimeout: current is read before the lock.      *)

LookAtEnd(c, at, fd, timeout_s) ==
    /\ Calls(c, "idle")
    /\ timer_pc' = [timer_pc EXCEPT ![c] =
          [at |-> at, node |-> connections.end, fd |-> fd,
           timeout_s |-> timeout_s]]
    /\ UNCHANGED <<connections, timer_mutex, timer_run, timer_now, raced,
                   timer_fault>>

(* The connection of the caller's fd that it finds on the way back from    *)
(* the one it looked at.                                                   *)
Found(c) == FirstMet(Chain(connections, timer_pc[c].node, FALSE), timer_pc[c].fd)

LooksAtFreed(c) == /\ timer_pc[c].node # 0
                   /\ ~connections.node[timer_pc[c].node].live

timerSetTimeout(c) ==
    /\ Calls(c, "set") /\ TimerFree
    /\ timer_fault' = LooksAtFreed(c)
    /\ connections' =
          IF LooksAtFreed(c) \/ Found(c) = 0 THEN connections
          ELSE [connections EXCEPT !.node[Found(c)].timeout_s =
                                      timer_pc[c].timeout_s]
    /\ TimerReturns(c)
    /\ UNCHANGED <<timer_mutex, timer_run, timer_now, raced>>

(* The return inside the loop skips the unlock.                            *)
timerGetTimeout(c) ==
    /\ Calls(c, "get") /\ TimerFree
    /\ timer_fault' = LooksAtFreed(c)
    /\ timer_mutex' = IF ~LooksAtFreed(c) /\ Found(c) # 0
                      THEN c ELSE "none"
    /\ TimerReturns(c)
    /\ UNCHANGED <<connections, timer_run, timer_now, raced>>

(* timerRemoveConnection takes a connection out only to close it.          *)
timerRemoveConnection(c, fd, close) ==
    /\ Calls(c, "idle") /\ TimerFree
    /\ LET n == FirstMet(Chain(connections, connections.start, TRUE), fd)
       IN  connections' = IF n # 0 /\ close
                          THEN removeConnection(connections, n)
                          ELSE connections
    /\ UNCHANGED <<timer_mutex, timer_run, timer_now, timer_pc, raced,
                   timer_fault>>

-----------------------------------------------------------------------------
TimerCall(c) ==
    \/ \E fd \in TimerFds, t \in TimerTimeouts :
          AddAllocates(c, fd, t) \/ LookAtEnd(c, "set", fd, t)
    \/ \E fd \in TimerFds : LookAtEnd(c, "get", fd, 0)
    \/ \E fd \in TimerFds, close \in BOOLEAN :
          timerRemoveConnection(c, fd, close)
    \/ AddSetsStart(c) \/ AddSetsEnd(c) \/ AddAppends(c)
    \/ timerSetTimeout(c) \/ timerGetTimeout(c)

TimerNext ==
    \/ TimerPass \/ TimerStop \/ TimerTick
    \/ \E c \in TimerCallers : TimerCall(c)

(* The timer thread runs, time passes; callers may never call again.       *)
TimerFairness == WF_timer_vars(TimerPass) /\ WF_timer_vars(TimerTick)

TimerSpec == TimerInit /\ [][TimerNext]_timer_vars /\ TimerFairness

-----------------------------------------------------------------------------
TimerTypeOK ==
    /\ connections.start \in 0..MaxConnections
    /\ connections.end \in 0..MaxConnections
    /\ \A n \in Nodes :
          /\ connections.node[n].next \in 0..MaxConnections
          /\ connections.node[n].prev \in 0..MaxConnections
          /\ connections.node[n].timeout_s \in TimerTimeouts \union {0}
    /\ timer_mutex \in {"none"} \union TimerCallers
    /\ timer_now \in 0..TimerHorizon

(* A connection some addition has allocated and not linked yet.            *)
Pending == {timer_pc[c].node : c \in {d \in TimerCallers :
                timer_pc[d].at \in {"first", "end", "append"}}}

(* The list stays a list, and no connection escapes the timer: as long as  *)
(* every addition found the list it had tested for, start, end and the     *)
(* links of both directions agree and every connection is in the list.     *)
(* The unlocked path of timerAddConnection is the only way to lose one.    *)
EveryConnectionListed ==
    (~raced /\ \A c \in TimerCallers : timer_pc[c].at # "end") =>
       LET chain == Chain(connections, connections.start, TRUE)
       IN  /\ Chain(connections, connections.end, FALSE) = Reverse(chain)
           /\ ToSet(chain) = {n \in Nodes : connections.node[n].live} \ Pending

(* A connection whose time is up is closed (timerProcess), unless the timer *)
(* was stopped, the getter kept the mutex, the list was broken by two      *)
(* additions, or its timeout was raised.                                   *)
Overdue(n) ==
    /\ n \in Linked(connections)
    /\ Due(connections.node[n], TimerHorizon)

DueConnectionsClosed ==
    \A n \in Nodes :
       Overdue(n) ~> (~Overdue(n) \/ ~timer_run \/ ~TimerFree \/ raced
                                  \/ timer_fault)
=============================================================================
