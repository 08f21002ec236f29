-------------------------------- MODULE Array --------------------------------
(***************************************************************************)
(* Array<T> of lib/datastructures/array.h: elements in a buffer that grows *)
(* and shrinks by reallocation, insertion in place through a ring of       *)
(* displaced elements, and a bottom-up merge sort with one swap space.     *)
(*                                                                         *)
(* Buffers are functions from 0, so that positions are those of the code.  *)
(* What a cell holds that no element was written to is Junk; the cells     *)
(* behind the last element are set to Junk after every operation: nothing  *)
(* may depend on what an operation left there.                             *)
(***************************************************************************)
EXTENDS Integers, Sequences, FiniteSets, SequencesExt

CONSTANTS
    Elements,     \* a set of integers
    Junk,         \* the value of an uninitialised cell
    InitialCaps,  \* capacities arrays are constructed with
    SwapSlack,    \* usable cells that happen to follow the swap space
    MaxAdded,     \* bound on the elements of one call
    MaxSize       \* bound on the size of the array

ASSUME ArrayAssumption ==
    /\ Elements \subseteq Int /\ Junk \notin Elements
    /\ InitialCaps \subseteq Nat
    /\ SwapSlack \in Nat /\ MaxAdded \in Nat \ {0} /\ MaxSize \in Nat

VARIABLES
    e_buf,      \* a function from 0..(e_cap - 1)
    e_size,
    e_sorted,   \* "unsorted", "ascending" or "descending"
    assigned,   \* an element was assigned while e_sorted was not "unsorted"
    overrun     \* the buffers some write went past the end of

array_vars == <<e_buf, e_size, e_sorted, assigned, overrun>>

Orders == {"ascending", "descending"}

newCArray(n) == [i \in 0..(n - 1) |-> Junk]
e_cap == Cardinality(DOMAIN e_buf)

(* UPSIZE_FACTOR and DOWNSIZE_FACTOR, truncated to size_t. *)
Upsized(n) == (7 * n) \div 4
Downsized(n) == n \div 2

(* A write to one cell; past the end it does not reach the buffer. *)
Put(f, i, v) == IF i \in DOMAIN f THEN [f EXCEPT ![i] = v] ELSE f

(* A read of one cell; past the end it finds no element. *)
Get(f, i) == IF i \in DOMAIN f THEN f[i] ELSE Junk

(* The positions from..to as a sequence, for the loops of the code.        *)
Positions(from, to) == [k \in 1..(to - from + 1) |-> from + k - 1]

Kept(f, n) == [i \in DOMAIN f |-> IF i < n THEN f[i] ELSE Junk]

-----------------------------------------------------------------------------
(* insert *)

(* One iteration: i is the cell to write; bucket is the ring of displaced  *)
(* elements.  In place when f, the buffer written to, is also read from.   *)
Displace(s, i, pos, els, inPlace) ==
    LET n     == Len(els)
        fresh == i < pos + n
        value == IF fresh THEN els[i - pos + 1] ELSE s.bucket[s.pop]
        old   == IF inPlace THEN s.f ELSE e_buf
        saves == i < e_size
    IN  [f      |-> Put(s.f, i, value),
         bucket |-> IF saves THEN Put(s.bucket, s.push, old[i]) ELSE s.bucket,
         push   |-> IF saves THEN (s.push + 1) % n ELSE s.push,
         pop    |-> IF fresh THEN s.pop ELSE (s.pop + 1) % n,
         past   |-> s.past \union (IF i \in DOMAIN s.f THEN {} ELSE {"buf"})]

insertLoop(f, pos, els, inPlace) ==
    FoldLeft(LAMBDA s, i : Displace(s, i, pos, els, inPlace),
             [f |-> f, bucket |-> newCArray(Len(els)), push |-> 0, pop |-> 0,
              past |-> {}],
             Positions(pos, e_size + Len(els) - 1))

(* Mutation: the growth factor is too small. *)
NewCapShort(n) == Upsized(n) - n \div 2 - 1

(* The capacity of the new buffer for n elements. *)
NewCap(n) == Upsized(n)

(* With no element to put before another, which no caller asks for, the    *)
(* loop would read a ring without cells.                                   *)
insert(pos, els) ==
    LET n         == Len(els)
        recapped  == n + e_size > e_cap
        start     == IF recapped
                     THEN [i \in 0..(NewCap(n + e_size) - 1) |->
                              IF i < pos THEN e_buf[i] ELSE Junk]
                     ELSE e_buf
        done      == insertLoop(start, pos, els, ~recapped)
    IN  /\ pos <= e_size /\ (n > 0 \/ pos = e_size)
        /\ e_size + n <= MaxSize
        /\ e_buf' = done.f
        /\ e_size' = e_size + n
        /\ e_sorted' = "unsorted"
        /\ assigned' = FALSE
        /\ overrun' = overrun \union done.past

append(els) == insert(e_size, els)

find(el) == \E i \in 0..(e_size - 1) : e_buf[i] = el

(* uniqueAppend, and operator[] on an element. *)
uniqueAppend(el) == ~find(el) /\ append(<<el>>)

(* operator[] behind the last element appends a T, whatever it holds. *)
indexBehind == \E el \in Elements : append(<<el>>)

-----------------------------------------------------------------------------
(* remove *)

(* Mutation: the cells are copied one position too far down. *)
ShiftedTooFar(f, old, pos, n) ==
    [i \in DOMAIN f |-> IF i >= pos /\ i + n + 1 < e_size THEN old[i + n + 1] ELSE f[i]]

(* The cells from pos on, moved down by n. *)
Shifted(f, old, pos, n) ==
    [i \in DOMAIN f |-> IF i >= pos /\ i + n < e_size THEN old[i + n] ELSE f[i]]

remove(pos, n) ==
    LET newCap   == Upsized(e_size - n)
        recapped == newCap < Downsized(e_cap)
        start    == IF recapped
                    THEN [i \in 0..(newCap - 1) |-> IF i < pos THEN e_buf[i] ELSE Junk]
                    ELSE e_buf
    IN  /\ pos + n <= e_size
        /\ e_buf' = Kept(Shifted(start, e_buf, pos, n), e_size - n)
        /\ e_size' = e_size - n
        /\ overrun' = IF \A i \in 0..(e_size - n - 1) : i \in DOMAIN start
                      THEN overrun ELSE overrun \union {"buf"}
        /\ UNCHANGED <<e_sorted, assigned>>

(* The first equal element, if any. *)
removeEl(el) ==
    \E pos \in 0..(e_size - 1) :
        /\ e_buf[pos] = el /\ \A i \in 0..(pos - 1) : e_buf[i] # el
        /\ remove(pos, 1)

-----------------------------------------------------------------------------
(* sort *)

(* nlognsortCompare(order, a, b) > 0 *)
After(order, a, b) == IF order = "descending" THEN a < b ELSE a > b

(***************************************************************************)
(* nlognsortMerge of the na cells from lo and the nb cells behind them.    *)
(* Cell i of the left half receives the smaller of the head of the swap    *)
(* space (itself, when that is empty) and the head of the right half;      *)
(* what it held goes to the end of the swap space.                         *)
(***************************************************************************)
MergeLeft(s, i, order, lo, na, nb) ==
    LET held  == s.push > s.pop
        left  == IF held THEN Get(s.swap, s.pop) ELSE s.f[lo + i]
        right == s.j < nb /\ After(order, left, s.f[lo + na + s.j])
    IN  IF ~held /\ ~right THEN s
        ELSE [f    |-> [s.f EXCEPT ![lo + i] = IF right THEN s.f[lo + na + s.j] ELSE left],
              swap |-> Put(s.swap, s.push, s.f[lo + i]),
              push |-> s.push + 1,
              pop  |-> IF right THEN s.pop ELSE s.pop + 1,
              j    |-> IF right THEN s.j + 1 ELSE s.j]

(* Mutation: an element of the right half wins only against nothing. *)
MergeRestRightLoses(s, i, order, lo, na, nb) ==
    IF s.push = s.pop THEN s
    ELSE [s EXCEPT !.f[lo + i] = s.swap[s.pop], !.pop = @ + 1]

(* The rest of the swap space against the rest of the right half. *)
MergeRest(s, i, order, lo, na, nb) ==
    LET left  == Get(s.swap, s.pop)
        right == s.j < nb /\ After(order, left, s.f[lo + na + s.j])
    IN  IF s.push = s.pop THEN s
        ELSE [f    |-> [s.f EXCEPT ![lo + i] = IF right THEN s.f[lo + na + s.j] ELSE left],
              swap |-> s.swap,
              push |-> s.push,
              pop  |-> IF right THEN s.pop ELSE s.pop + 1,
              j    |-> IF right THEN s.j + 1 ELSE s.j]

MergeStep(s, i, order, lo, na, nb) ==
    IF i < na THEN MergeLeft(s, i, order, lo, na, nb)
              ELSE MergeRest(s, i, order, lo, na, nb)

mergeLoop(f, order, lo, na, nb, room) ==
    FoldLeft(LAMBDA s, i : MergeStep(s, i, order, lo, na, nb),
             [f |-> f, swap |-> newCArray(room), push |-> 0, pop |-> 0, j |-> 0],
             Positions(0, na + nb - 1))

(* t: the buffer, and the most cells of the swap space any merge used.     *)
Merge(t, order, lo, na, nb, room) ==
    LET done == mergeLoop(t.f, order, lo, na, nb, room)
    IN  [f |-> done.f, used |-> IF done.push > t.used THEN done.push ELSE t.used]

(* The runs of length span from 2 * span * k on, if there are two.         *)
MergeRuns(t, k, order, span, size, room) ==
    LET i == 2 * span * k
    IN  IF i + span >= size THEN t
        ELSE Merge(t, order, i, span,
                   IF i + 2 * span > size THEN size - (i + span) ELSE span, room)

(* All merges of neighbouring runs of length span. *)
SortPass(t, order, span, size, room) ==
    FoldLeft(LAMBDA u, k : MergeRuns(u, k, order, span, size, room),
             t, Positions(0, size \div (2 * span)))

swapSpaceSize(size) == size \div 2

(* The lengths of the runs. *)
Span[k \in Nat] == IF k = 0 THEN 1 ELSE 2 * Span[k - 1]

SortSpan(t, k, order, size) ==
    IF Span[k] < size
    THEN SortPass(t, order, Span[k], size, swapSpaceSize(size) + SwapSlack) ELSE t

nlognSort(f, order, size) ==
    FoldLeft(LAMBDA t, k : SortSpan(t, k, order, size),
             [f |-> f, used |-> 0], Positions(0, size))

(* Nothing happens when e_sorted says that the array is in this order. *)
sort(order) ==
    LET done == nlognSort(e_buf, order, e_size)
    IN  IF e_sorted = order THEN UNCHANGED array_vars
        ELSE /\ e_buf' = done.f
             /\ e_sorted' = order
             /\ assigned' = FALSE
             /\ overrun' = IF done.used > swapSpaceSize(e_size)
                           THEN overrun \union {"swap"} ELSE overrun
             /\ UNCHANGED e_size

-----------------------------------------------------------------------------
(* An element is assigned through at(), front(), back(), data() or []. *)
assign(pos, el) ==
    /\ pos < e_size
    /\ e_buf' = [e_buf EXCEPT ![pos] = el]
    /\ assigned' = (assigned \/ e_sorted # "unsorted")
    /\ UNCHANGED <<e_size, e_sorted, overrun>>

(* Empty with some capacity, or from an initializer list. *)
ArrayInit ==
    /\ \/ \E cap \in InitialCaps : e_buf = newCArray(cap) /\ e_size = 0
       \/ \E list \in BoundedSeq(Elements, MaxAdded) :
             /\ e_buf = [i \in 0..(Upsized(Len(list)) - 1) |->
                            IF i < Len(list) THEN list[i + 1] ELSE Junk]
             /\ e_size = Len(list)
    /\ e_sorted = "unsorted"
    /\ assigned = FALSE
    /\ overrun = {}

ArrayNext ==
    \/ \E pos \in 0..MaxSize, els \in BoundedSeq(Elements, MaxAdded) : insert(pos, els)
    \/ \E els \in BoundedSeq(Elements, MaxAdded) : append(els)
    \/ \E el \in Elements : uniqueAppend(el) \/ removeEl(el)
    \/ indexBehind
    \/ \E pos \in 0..MaxSize, n \in 0..MaxSize : remove(pos, n)
    \/ \E order \in Orders : sort(order)
    \/ \E pos \in 0..MaxSize, el \in Elements : assign(pos, el)

ArraySpec == ArrayInit /\ [][ArrayNext]_array_vars

-----------------------------------------------------------------------------
(* Properties. *)

(* The elements are elements, never cells nothing was written to. *)
ArrayTypeOK ==
    /\ e_size \in 0..e_cap
    /\ \A i \in 0..(e_size - 1) : e_buf[i] \in Elements
    /\ \A i \in e_size..(e_cap - 1) : e_buf[i] = Junk
    /\ e_sorted \in Orders \union {"unsorted"}
    /\ assigned \in BOOLEAN
    /\ overrun \subseteq {"buf", "swap"}

(* Growing and shrinking by truncated factors always leaves room for the   *)
(* elements that are then written (array.h:296, 385).                      *)
BufferSuffices == "buf" \notin overrun

Content == [i \in 1..e_size |-> e_buf[i - 1]]

Contents == INSTANCE List WITH content <- Content

(* The array behaves as a sequence, whatever was reallocated or moved.     *)
ImplementsList == Contents!ListSpec

InOrder(order) ==
    \A i \in 0..(e_size - 2) : ~After(order, e_buf[i], e_buf[i + 1])

(* e_sorted, which makes sort() return at once, is right unless an element *)
(* was assigned since; insertion resets it and removal may keep it.        *)
SortedIsInOrder ==
    e_sorted \in Orders /\ ~assigned => InOrder(e_sorted)

(* "floor(half) is (at least) more than the maximum size of the right      *)
(* buffer" (array.h:196): the merges stay inside the swap space.           *)
SwapSpaceSuffices == "swap" \notin overrun
=============================================================================
