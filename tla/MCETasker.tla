------------------------------ MODULE MCETasker ------------------------------
(* Instances of ETasker for TLC: threads are interchangeable, and so are   *)
(* the tasks that may throw and those that never do.                       *)
EXTENDS ETasker, TLC

Interchangeable ==
    Permutations(Threads) \union Permutations(ThrowingTasks)
                         \union Permutations(Tasks \ ThrowingTasks)
=============================================================================
