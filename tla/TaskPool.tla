------------------------------ MODULE TaskPool ------------------------------
(***************************************************************************)
(* What ETasker promises its users, without threads, locks or signals: a   *)
(* task is offered once; it becomes active at once, waits in a first-in    *)
(* first-out queue, or is refused; at most Limit tasks are active; an      *)
(* active task is given up once and never comes back.                      *)
(***************************************************************************)
EXTENDS Naturals, Sequences, FiniteSets

CONSTANTS Tasks, Limited, Limit

VARIABLES fresh,    \* tasks not offered yet
          queue,    \* tasks waiting, oldest first
          active    \* tasks a thread holds

poolSpecVars == <<fresh, queue, active>>

Room == Limited => Cardinality(active) < Limit

PoolInit == fresh = Tasks /\ queue = <<>> /\ active = {}

Accept(k) ==
    /\ k \in fresh /\ Room
    /\ fresh' = fresh \ {k}
    /\ active' = active \union {k}
    /\ UNCHANGED queue

Enqueue(k) ==
    /\ k \in fresh /\ Limited
    /\ fresh' = fresh \ {k}
    /\ queue' = Append(queue, k)
    /\ UNCHANGED active

Refuse(k) ==
    /\ k \in fresh
    /\ fresh' = fresh \ {k}
    /\ UNCHANGED <<queue, active>>

Dispatch ==
    /\ queue # <<>> /\ Room
    /\ Head(queue) \notin active
    /\ active' = active \union {Head(queue)}
    /\ queue' = Tail(queue)
    /\ UNCHANGED fresh

GiveUp(k) ==
    /\ k \in active
    /\ active' = active \ {k}
    /\ UNCHANGED <<fresh, queue>>

PoolNext ==
    \/ Dispatch
    \/ \E k \in Tasks : Accept(k) \/ Enqueue(k) \/ Refuse(k) \/ GiveUp(k)

PoolSpec == PoolInit /\ [][PoolNext]_poolSpecVars
=============================================================================
