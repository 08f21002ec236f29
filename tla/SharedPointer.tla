---------------------------- MODULE SharedPointer ----------------------------
(***************************************************************************)
(* ESharedPtr and EWeakPtr of lib/memory/pointers.h: pointers share a      *)
(* control block, control blocks made by a cast share a count, and the     *)
(* destructor that takes the count to zero deletes the object.             *)
(*                                                                         *)
(* The count is a plain size_t.  An increment is one step; the destructor  *)
(* reads the count, writes it and tests it in three, so that two threads   *)
(* may destroy pointers to one object at once.                             *)
(***************************************************************************)
EXTENDS Integers, FiniteSets

CONSTANTS
    PtrThreads,   \* threads that own pointers
    Slots,        \* the places an ESharedPtr may be constructed at
    MaxControls,  \* bound on the control blocks ever allocated
    MaxObjects,   \* bound on the objects ever allocated
    MaxCount      \* bound on an instance count

(* No control block, no object, no slot. *)
None == 0

ASSUME PtrAssumption ==
    /\ MaxControls \in Nat \ {0} /\ MaxObjects \in Nat \ {0}
    /\ MaxCount \in Nat \ {0}
    /\ IsFiniteSet(Slots) /\ None \notin Slots

VARIABLES
    slot,        \* slot -> control block, None, or Garbage
    control,     \* control block -> [live, ptr, count]: count names a counter
    instances,   \* counter -> e_instance_count; one counter per control block
    object,      \* object -> "unused", "live", "deleted"
    weak,        \* the control block an EWeakPtr was made from, or None
    destroying,  \* thread -> the destructor it is in: [at, slot, read]
    misuse,      \* what was done that the reference count does not cover
    ptr_fault    \* freed memory was used, or freed again

ptr_vars ==
    <<slot, control, instances, object, weak, destroying, misuse, ptr_fault>>

Garbage == -1
Controls == 1..MaxControls
PtrObjects == 1..MaxObjects

Unallocated == [live |-> FALSE, used |-> FALSE, ptr |-> None, count |-> None]
NotDestroying == [at |-> "out", slot |-> None, read |-> 0]

PtrInit ==
    /\ slot = [s \in Slots |-> None]
    /\ control = [c \in Controls |-> Unallocated]
    /\ instances = [c \in Controls |-> 0]
    /\ object = [o \in PtrObjects |-> "unused"]
    /\ weak = None
    /\ destroying = [t \in PtrThreads |-> NotDestroying]
    /\ misuse = {} /\ ptr_fault = FALSE

Leaving(s) == \E t \in PtrThreads : destroying[t].slot = s
(* A slot that holds a pointer a thread may use. *)
Held(s) == slot[s] \in Controls /\ ~Leaving(s)
Constructible(s) == slot[s] = None
Fresh(f, unused) ==
    {x \in DOMAIN f : f[x] = unused /\ \A y \in 1..(x - 1) : f[y] # unused}

CounterOf(s) == control[slot[s]].count
(* Another thread is in a destructor that works on this counter. *)
Raced(k, t) ==
    \E u \in PtrThreads \ {t} : destroying[u].slot # None
                                   /\ CounterOf(destroying[u].slot) = k
Racing(k, t) == IF Raced(k, t) THEN {"race"} ELSE {}

Increment(k) == /\ instances[k] < MaxCount
                /\ instances' = [instances EXCEPT ![k] = @ + 1]

(* A pointer is only read through a control block that still exists. *)
Usable(s) == Held(s) /\ control[slot[s]].live
(* Nothing is claimed of what follows a misuse that may free too early:    *)
(* the model stops there.                                                  *)
PtrRuns == ~ptr_fault /\ misuse \subseteq {"assign"}
Runs(t) == PtrRuns /\ destroying[t].at = "out"

-----------------------------------------------------------------------------
(* ESharedPtr(T * ptr), and ESharedPtr() where o is None *)
PtrConstruct(s, o) ==
    /\ PtrRuns /\ Constructible(s)
    /\ o \in {None} \union Fresh(object, "unused")
    /\ \E c \in Fresh(control, Unallocated) :
          /\ control' = [control EXCEPT ![c] =
                [live |-> TRUE, used |-> TRUE, ptr |-> o, count |-> c]]
          /\ instances' = [instances EXCEPT ![c] = 1]
          /\ slot' = [slot EXCEPT ![s] = c]
    /\ object' = IF o = None THEN object ELSE [object EXCEPT ![o] = "live"]
    /\ UNCHANGED <<weak, destroying, misuse, ptr_fault>>

PtrCopyConstruct(t, s, x) ==
    /\ Runs(t) /\ Constructible(s) /\ Usable(x)
    /\ slot' = [slot EXCEPT ![s] = slot[x]]
    /\ Increment(CounterOf(x))
    /\ misuse' = misuse \union Racing(CounterOf(x), t)
    /\ UNCHANGED <<control, object, weak, destroying, ptr_fault>>

(* The pointer that is assigned to is not released first. *)
PtrCopyAssign(t, s, x) ==
    /\ Runs(t) /\ Usable(s) /\ Usable(x)
    /\ slot' = [slot EXCEPT ![s] = slot[x]]
    /\ Increment(CounterOf(x))
    /\ misuse' = misuse \union {"assign"} \union Racing(CounterOf(x), t)
    /\ UNCHANGED <<control, object, weak, destroying, ptr_fault>>

(* The constructor swaps with a member that has no value yet; what the     *)
(* moved-from pointer is left with may be nullptr.                         *)
PtrMoveConstruct(s, x) ==
    /\ PtrRuns /\ Constructible(s) /\ Usable(x)
    /\ \E g \in {None, Garbage} :
          /\ slot' = [slot EXCEPT ![s] = slot[x], ![x] = g]
          /\ misuse' = IF g = None THEN misuse ELSE misuse \union {"move"}
    /\ UNCHANGED <<control, instances, object, weak, destroying, ptr_fault>>

PtrMoveAssign(s, x) ==
    /\ PtrRuns /\ Usable(s) /\ Usable(x) /\ s # x
    /\ slot' = [slot EXCEPT ![s] = slot[x], ![x] = slot[s]]
    /\ UNCHANGED <<control, instances, object, weak, destroying, misuse,
                   ptr_fault>>

(* operator=(T * ptr): every sharer of the control block sees the object.  *)
PtrAssignRaw(s, o) ==
    /\ PtrRuns /\ Usable(s) /\ o \in Fresh(object, "unused")
    /\ control' = [control EXCEPT ![slot[s]].ptr = o]
    /\ object' = [object EXCEPT ![o] = "live"]
    /\ misuse' = misuse \union {"assign"}
    /\ UNCHANGED <<slot, instances, weak, destroying, ptr_fault>>

(* The implicit and the explicit cast: a control block of its own, and the *)
(* counter of the original.                                                *)
PtrCast(t, s, x) ==
    /\ Runs(t) /\ Constructible(s) /\ Usable(x)
    /\ \E c \in Fresh(control, Unallocated) :
          /\ control' = [control EXCEPT ![c] = control[slot[x]]]
          /\ slot' = [slot EXCEPT ![s] = c]
    /\ Increment(CounterOf(x))
    /\ misuse' = misuse \union Racing(CounterOf(x), t)
    /\ UNCHANGED <<object, weak, destroying, ptr_fault>>

(* operator=(ESharedPtr<C>&): the control block changes its counter, also  *)
(* for the pointers it was copied to.                                      *)
PtrCastAssign(t, s, x) ==
    /\ Runs(t) /\ Usable(s) /\ Usable(x)
    /\ control' = [control EXCEPT ![slot[s]].ptr = control[slot[x]].ptr,
                                  ![slot[s]].count = CounterOf(x)]
    /\ Increment(CounterOf(x))
    /\ misuse' = misuse \union {"assign", "recount"}
    /\ UNCHANGED <<slot, object, weak, destroying, ptr_fault>>

-----------------------------------------------------------------------------
(* ~ESharedPtr *)

DestroyReads(t, s) ==
    /\ Runs(t) /\ ~Leaving(s)
    /\ slot[s] # None
    /\ IF slot[s] = Garbage \/ ~control[slot[s]].live
       THEN ptr_fault' = TRUE /\ UNCHANGED <<destroying, misuse>>
       ELSE /\ destroying' = [destroying EXCEPT ![t] =
                  [at |-> "write", slot |-> s, read |-> instances[CounterOf(s)]]]
            /\ misuse' = misuse \union Racing(CounterOf(s), t)
            /\ UNCHANGED ptr_fault
    /\ UNCHANGED <<slot, control, instances, object, weak>>

DestroyWrites(t) ==
    /\ PtrRuns /\ destroying[t].at = "write"
    /\ instances' = [instances EXCEPT
          ![CounterOf(destroying[t].slot)] = destroying[t].read - 1]
    /\ destroying' = [destroying EXCEPT ![t].at = "test"]
    /\ UNCHANGED <<slot, control, object, weak, misuse, ptr_fault>>

(* Mutation: the last pointer keeps the object.                            *)
DestroyTestsOne(t) ==
    LET s == destroying[t].slot
        c == slot[s]
    IN  /\ PtrRuns /\ destroying[t].at = "test"
        /\ IF instances[CounterOf(s)] = 1
           THEN /\ control' = [control EXCEPT ![c].live = FALSE]
                /\ object' = IF control[c].ptr = None THEN object
                             ELSE [object EXCEPT ![control[c].ptr] = "deleted"]
           ELSE UNCHANGED <<control, object>>
        /\ slot' = [slot EXCEPT ![s] = None]
        /\ destroying' = [destroying EXCEPT ![t] = NotDestroying]
        /\ UNCHANGED <<instances, weak, misuse, ptr_fault>>

DestroyTests(t) ==
    LET s == destroying[t].slot
        c == slot[s]
        o == control[c].ptr
        last == instances[CounterOf(s)] = 0
    IN  /\ PtrRuns /\ destroying[t].at = "test"
        /\ ptr_fault' = \/ ~control[c].live
                        \/ last /\ o # None /\ object[o] = "deleted"
        /\ IF last
           THEN /\ control' = [control EXCEPT ![c].live = FALSE]
                /\ object' = IF o = None THEN object
                             ELSE [object EXCEPT ![o] = "deleted"]
           ELSE UNCHANGED <<control, object>>
        /\ slot' = [slot EXCEPT ![s] = None]
        /\ destroying' = [destroying EXCEPT ![t] = NotDestroying]
        /\ UNCHANGED <<instances, weak, misuse>>

-----------------------------------------------------------------------------
(* EWeakPtr *)

WeakFrom(x) ==
    /\ PtrRuns /\ Usable(x)
    /\ weak' = slot[x]
    /\ UNCHANGED <<slot, control, instances, object, destroying, misuse,
                   ptr_fault>>

(* lock() of a weak pointer reads the control block of the pointer it was  *)
(* made from.  Where that is freed, its memory may read as a nullptr, and  *)
(* an empty pointer is returned, or as anything else.  The control block   *)
(* of a cast outlives its object when another pointer was the last.        *)
WeakLock(t, s) ==
    /\ Runs(t) /\ Constructible(s) /\ weak # None
    /\ IF control[weak].live
       THEN /\ Increment(control[weak].count)
            /\ slot' = [slot EXCEPT ![s] = weak]
            /\ misuse' = misuse \union Racing(control[weak].count, t)
                  \union (IF instances[control[weak].count] = 0
                          THEN {"expired"} ELSE {})
            /\ UNCHANGED ptr_fault
       ELSE /\ ptr_fault' \in BOOLEAN
            /\ misuse' = misuse \union {"expired"}
            /\ UNCHANGED <<slot, instances>>
    /\ UNCHANGED <<control, object, weak, destroying>>

PtrNext ==
    \/ \E s \in Slots, o \in PtrObjects :
          PtrConstruct(s, o) \/ PtrAssignRaw(s, o)
    \/ \E s \in Slots : PtrConstruct(s, None) \/ WeakFrom(s)
    \/ \E s, x \in Slots : PtrMoveConstruct(s, x) \/ PtrMoveAssign(s, x)
    \/ \E t \in PtrThreads : \E s, x \in Slots :
          \/ PtrCopyConstruct(t, s, x) \/ PtrCopyAssign(t, s, x)
          \/ PtrCast(t, s, x) \/ PtrCastAssign(t, s, x)
    \/ \E t \in PtrThreads, s \in Slots : DestroyReads(t, s) \/ WeakLock(t, s)
    \/ \E t \in PtrThreads : DestroyWrites(t) \/ DestroyTests(t)

PtrSpec == PtrInit /\ [][PtrNext]_ptr_vars

-----------------------------------------------------------------------------
PtrTypeOK ==
    /\ \A s \in Slots : slot[s] \in {Garbage} \union 0..MaxControls
    /\ \A c \in Controls : control[c].ptr \in 0..MaxObjects
    /\ instances \in [Controls -> 0..MaxCount]
    /\ misuse \subseteq {"assign", "move", "recount", "race", "expired"}

Holders(o) == {s \in Slots : slot[s] \in Controls /\ control[slot[s]].ptr = o}

(* ~ESharedPtr: pointers that are only constructed, copied, cast, moved to *)
(* a fresh place and destroyed, by threads that take turns, own their      *)
(* object exactly: it is live as long as one holds it and deleted when the *)
(* last is gone.  Assigning over a pointer (operator=) may leak what it    *)
(* held and nothing worse: what a pointer holds is never deleted.  It      *)
(* takes an assignment with a cast, two destructors at once, a garbage     *)
(* pointer or the lock of an expired weak pointer to use freed memory.     *)
OwnedExactly ==
    misuse \subseteq {"assign"} =>
       /\ ~ptr_fault
       /\ \A o \in PtrObjects :
             /\ object[o] = "deleted" => Holders(o) = {}
             /\ misuse = {} /\ object[o] = "live" => Holders(o) # {}
=============================================================================
