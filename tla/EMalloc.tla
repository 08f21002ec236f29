------------------------------- MODULE EMalloc -------------------------------
(***************************************************************************)
(* The allocator of lib/memory/emalloc.c over the size-ordered lists of    *)
(* lib/memory/heap.c: a fixed array is cut into blocks, each described by  *)
(* a node of the freed or of the used list.  emalloc takes the first freed *)
(* block that is large enough and splits it; efree gives a block back and  *)
(* joins it to the freed block that ends where it begins.                  *)
(*                                                                         *)
(* A list is the sequence of its nodes from the root on.  The program is   *)
(* sequential here: neither function takes a lock.                         *)
(***************************************************************************)
EXTENDS Integers, Sequences, FiniteSets, SequencesExt

CONSTANTS
    MemorySize,   \* DYNAMIC_MEMORY_SIZE
    BlockWord,    \* 2^16: MemoryHeapNode.index and .block_size are uint16_t
    ArgWord,      \* 2^32: sizeHeapPopCondition reads its size as uint32_t
    Sizes         \* the sizes callers ask for (size_t)

ASSUME EMallocAssumption ==
    /\ MemorySize \in Nat \ {0} /\ BlockWord \in Nat \ {0}
    /\ ArgWord \in Nat \ {0}
    /\ Sizes \subseteq Nat

VARIABLES
    freed,   \* the list of freed_root_node
    used,    \* the list of used_root_node
    held,    \* the blocks callers were given and have not freed
    lost     \* bytes that are in no list any more

emalloc_vars == <<freed, used, held, lost>>

Block == [index : 0..(BlockWord - 1), size : 0..(BlockWord - 1)]

Bytes(b) == b.index..(b.index + b.size - 1)

(* nodes[i], with both fields cut to 16 bits. *)
Node(i, s) == [index |-> i % BlockWord, size |-> s % BlockWord]

(* How many bytes the first node describes.  The shipped memory of 65536    *)
(* bytes is cut to none.                                                   *)
Top == MemorySize % BlockWord

EMallocInit == freed = <<>> /\ used = <<>> /\ held = {} /\ lost = {}

-----------------------------------------------------------------------------
(* heap.c *)

(* Mutation: the new node is always appended. *)
memoryHeapPushUnsorted(list, n) == Append(list, n)

(* Before the first larger block, else at the end. *)
memoryHeapPush(list, n) ==
    LET i == SelectInSeq(list, LAMBDA m : m.size > n.size)
    IN  IF i = 0 THEN Append(list, n) ELSE InsertAt(list, i, n)

(* Positions memoryHeapPop stops at, 0 for none; popping removes it. *)
sizePosition(list, size) ==
    SelectInSeq(list, LAMBDA m : size % ArgWord <= m.size)
ptrPosition(list, i) == SelectInSeq(list, LAMBDA m : m.index = i)
mergePosition(list, i) == SelectInSeq(list, LAMBDA m : m.index + m.size = i)

-----------------------------------------------------------------------------
(* emalloc.c *)

(* Mutation: the lists are built again when no block is free. *)
initializeDataEager(f, u) == IF f = <<>> THEN <<Node(0, MemorySize)>> ELSE f

(* The freed list after initializeData. *)
initializeData(f, u) ==
    IF f = <<>> /\ u = <<>> THEN <<Node(0, MemorySize)>> ELSE f

(* Building the lists again recovers the lost bytes. *)
LostNow == IF freed = <<>> /\ used = <<>> THEN {} ELSE lost

Fits(n, size) == n.size >= size /\ n.index < MemorySize

Refused(size) ==
    \/ size < 1
    \/ sizePosition(initializeData(freed, used), size) = 0

(* NULL: the lists are initialised and nothing else changes. *)
emallocRefuses(size) ==
    /\ Refused(size)
    /\ freed' = initializeData(freed, used)
    /\ lost' = LostNow
    /\ UNCHANGED <<used, held>>

(* NULL after the pop: the low 32 bits of size fit, size does not (or the  *)
(* node's index is out of range).  The popped block is in neither list any *)
(* more.                                                                   *)
emallocDrops(size) ==
    LET list == initializeData(freed, used)
        i    == sizePosition(list, size)
    IN  /\ ~Refused(size) /\ ~Fits(list[i], size)
        /\ freed' = RemoveAt(list, i)
        /\ lost' = LostNow \union Bytes(list[i])
        /\ UNCHANGED <<used, held>>

(* What is left of block n behind the first size bytes. *)
SplitRest(n, size) == Node(n.index + size, n.size - size)

emallocGives(size) ==
    LET list == initializeData(freed, used)
        i    == sizePosition(list, size)
        rest == RemoveAt(list, i)
        b    == Node(list[i].index, size)
    IN  /\ ~Refused(size) /\ Fits(list[i], size)
        /\ freed' = IF list[i].size = size THEN rest
                    ELSE memoryHeapPush(rest, SplitRest(list[i], size))
        /\ used' = memoryHeapPush(used, b)
        /\ held' = held \union {b}
        /\ lost' = LostNow

emalloc(size) == emallocRefuses(size) \/ emallocDrops(size) \/ emallocGives(size)

(* Mutation: the joined block keeps its size. *)
JoinedLoses(a, b) == a

Joined(a, b) == Node(a.index, a.size + b.size)

(* efree of the address of byte p; nothing happens when no used block      *)
(* starts there.                                                           *)
efree(p) ==
    LET u == ptrPosition(used, p)
        f == mergePosition(freed, p)
    IN  /\ u # 0
        /\ used' = RemoveAt(used, u)
        /\ freed' = IF f = 0 THEN memoryHeapPush(freed, used[u])
                    ELSE memoryHeapPush(RemoveAt(freed, f),
                                        Joined(freed[f], used[u]))
        /\ held' = {b \in held : b.index # p}
        /\ UNCHANGED lost

(* enew.cpp: new asks for at least one byte (NULL becomes bad_alloc).      *)
operatorNew(size) == emalloc(IF size = 0 THEN 1 ELSE size)

EMallocNext ==
    \/ \E size \in Sizes : emalloc(size) \/ operatorNew(size)
    \/ \E p \in 0..(MemorySize - 1) : efree(p)

EMallocSpec == EMallocInit /\ [][EMallocNext]_emalloc_vars

-----------------------------------------------------------------------------
(* Properties. *)

(* The positions of both lists whose block contains byte a. *)
Covering(a) == ({"f"} \X {i \in DOMAIN freed : a \in Bytes(freed[i])})
               \union ({"u"} \X {i \in DOMAIN used : a \in Bytes(used[i])})

(* Nodes have the fields heap.h gives them. *)
EMallocTypeOK ==
    /\ freed \in Seq(Block) /\ used \in Seq(Block)
    /\ \A b \in held : b.index \in 0..(MemorySize - 1) /\ b.size >= 1

(* Once the lists exist, every byte of dynamic_memories that the first     *)
(* node describes belongs to one node of one list, through any sequence of *)
(* splits and joins, unless its block was dropped, and then to none.  What *)
(* the cut size leaves out is never handed out.                            *)
MemoryPartitioned ==
    freed # <<>> \/ used # <<>> =>
        \A a \in 0..(MemorySize - 1) :
            Cardinality(Covering(a)) = IF a \in lost \/ a >= Top THEN 0 ELSE 1

(* No two callers hold the same byte, and no held byte can be handed out,  *)
(* also when blocks were dropped and the lists were built again.           *)
HeldDisjoint ==
    /\ \A b, c \in held : b # c => Bytes(b) \intersect Bytes(c) = {}
    /\ \A b \in held, i \in DOMAIN freed :
          Bytes(b) \intersect Bytes(freed[i]) = {}

(* emalloc takes the smallest free block that is large enough, whatever    *)
(* the order of the earlier calls: the lists stay ordered by size.         *)
BestFit ==
    [][\A b \in held' \ held : \A m \in ToSet(freed) :
          m.size >= b.size =>
             \E n \in ToSet(freed) : n.index = b.index /\ n.size <= m.size]_emalloc_vars
=============================================================================
