---------------------------- MODULE EStreamProofs ----------------------------
(***************************************************************************)
(* Proofs about EStream, for any inputs, buffer size, limits and calls.    *)
(***************************************************************************)
EXTENDS EStream, SequenceTheorems, TLAPS

-----------------------------------------------------------------------------
(* The inductive invariant. *)

(* Whatever an input is made of. *)
Els == UNION {{i[k] : k \in DOMAIN i} : i \in Inputs}

Buffers == Seq(Els)
Streams == [buffer : Buffers, cursor : Nat, ungot : BOOLEAN, ungot_el : Els \union {0},
            bad : BOOLEAN, taken : Nat]

(* How much of the input is not in the buffer any more.                    *)
Passed(s) == s.taken - Len(s.buffer)

(* The buffer holds the elements of the input taken last.                  *)
Buffered(s) ==
    /\ s \in Streams
    /\ s.cursor <= Len(s.buffer) /\ Len(s.buffer) <= s.taken /\ s.taken <= arrived
    /\ memory => s.taken = arrived
    /\ \A i \in 1..Len(s.buffer) : s.buffer[i] = input[Passed(s) + i]

(* The element before the buffer is kept.  An empty buffer stays empty.    *)
Kept(s) == /\ Passed(s) >= 1 /\ s.ungot_el = input[Passed(s)]
           /\ s.buffer = <<>> => ended /\ s.taken = arrived

Sound(s) == Buffered(s) /\ (s.ungot => s.cursor = 0 /\ Kept(s))
CanUnget(s) == ~s.ungot /\ (s.cursor > 0 \/ Kept(s))

Calls == [kind : {"none", "els", "until", "size"}, n : Nat, until : Untils \union {{}},
          inclusive : BOOLEAN, pc : {"idle", "els_first", "els", "peek", "good"},
          criteria : {"good", "at_last"}, start : Nat]

PeerTypes == /\ input \in Inputs /\ arrived \in 0..Len(input)
             /\ ended \in BOOLEAN /\ memory \in BOOLEAN /\ (memory => ended)

(* What each point of a call knows of the stream.                          *)
Progress ==
    /\ call.pc \in {"idle", "els_first"} => data = <<>>
    /\ call.pc \in {"els_first", "els"} => call.kind = "els" /\ call.n >= 1
    /\ call.pc \in {"peek", "good"} => call.kind \in {"until", "size"}
    /\ call.pc = "els" => /\ ~stream.ungot /\ Len(data) <= call.n
                          /\ Len(data) < call.n \/ CanUnget(stream)
    /\ may_unget /\ call.pc # "els" => CanUnget(stream)
    /\ call.pc \in {"peek", "good"} /\ data # <<>> => CanUnget(stream)

StreamInv == /\ PeerTypes /\ Sound(stream) /\ call \in Calls /\ data \in Seq(Els)
             /\ may_unget \in BOOLEAN /\ Progress

(* A call in progress has collected what is behind its start, and its      *)
(* criteria have counted it and seen every match in it.                    *)
Collected ==
    ~Idle =>
       /\ Position(stream) = call.start + Len(data)
       /\ \A i \in 1..Len(data) : data[i] = input[call.start + i]
Judged ==
    call.pc \in {"peek", "good"} =>
       /\ call.kind = "size" => /\ Len(data) <= call.n
                                /\ call.criteria = "at_last" => Len(data) = call.n
                                /\ call.criteria = "good" => call.n = 0 \/ Len(data) < call.n
       /\ call.kind = "until" =>
             /\ call.criteria = "good" => \A i \in 1..Len(data) : data[i] \notin call.until
             /\ call.criteria = "at_last" =>
                   /\ call.inclusive /\ data # <<>> /\ data[Len(data)] \in call.until
                   /\ \A i \in 1..(Len(data) - 1) : data[i] \notin call.until

Reads == Collected /\ Judged /\ ReadsUpToMatch
ReadInv == StreamInv /\ Reads

-----------------------------------------------------------------------------
(* The operations of a stream. *)

(* The smaller of two numbers is the least of them.                        *)
LEMMA MinOfTwo ==
    ASSUME NEW a \in Int, NEW b \in Int
    PROVE  Min({a, b}) = IF a <= b THEN a ELSE b
<1>. DEFINE m == IF a <= b THEN a ELSE b
<1>1. m \in {a, b} /\ \A y \in {a, b} : m =< y
  OBVIOUS
<1>2. /\ Min({a, b}) \in {a, b}
      /\ \A y \in {a, b} : Min({a, b}) =< y
  BY <1>1 DEF Min
<1>. QED
  BY <1>1, <1>2

(* An input is a sequence.                                                 *)
LEMMA InputIsSeq ==
    ASSUME PeerTypes
    PROVE  /\ input \in Seq(Els) /\ Len(input) \in Nat /\ arrived \in Nat
           /\ \A k \in 1..Len(input) : input[k] \in Els
<1>1. input \in Inputs /\ input \in Seq({input[k] : k \in DOMAIN input})
  BY EStreamAssumption DEF PeerTypes
<1>2. {input[k] : k \in DOMAIN input} \subseteq Els
  BY <1>1 DEF Els
<1>3. input \in Seq(Els)
  BY <1>1, <1>2, SeqMonotonic
<1>. QED
  BY <1>3, ElementOfSeq, LenProperties DEF PeerTypes

(* fillBuffer() takes what has arrived, or empties the buffer for good.    *)
LEMMA Fills ==
    ASSUME PeerTypes, NEW s, Buffered(s)
    PROVE  LET f == fillBuffer(s)
           IN  /\ Buffered(f) /\ f.cursor = 0
               /\ f.ungot = s.ungot /\ f.ungot_el = s.ungot_el
               /\ IF ~memory /\ arrived > s.taken
                  THEN f.buffer # <<>> /\ Passed(f) = s.taken /\ f.bad = s.bad
                  ELSE f.buffer = <<>> /\ f.taken = s.taken /\ f.bad
<1>. DEFINE n == Min({BufferSize, arrived - s.taken})
            els == SubSeq(input, s.taken + 1, s.taken + n)
<1>1. s \in Streams /\ s.taken \in Nat /\ s.taken <= arrived
  BY DEF Buffered, Streams
<1>2. n \in Nat /\ n <= arrived - s.taken /\ (n > 0 <=> arrived > s.taken)
  BY <1>1, MinOfTwo, InputIsSeq, EStreamAssumption
<1>3. /\ els \in Seq(Els) /\ Len(els) = n
      /\ \A i \in 1..n : els[i] = input[s.taken + i]
  <2>1. \A i \in (s.taken + 1)..(s.taken + n) : input[i] \in Els
    BY <1>1, <1>2, InputIsSeq DEF PeerTypes
  <2>. HIDE DEF n
  <2>2. /\ SubSeq(input, s.taken + 1, s.taken + n) \in Seq(Els)
        /\ Len(SubSeq(input, s.taken + 1, s.taken + n))
              = IF s.taken + 1 <= s.taken + n THEN s.taken + n - (s.taken + 1) + 1 ELSE 0
        /\ \A i \in 1..(s.taken + n - (s.taken + 1) + 1) :
              SubSeq(input, s.taken + 1, s.taken + n)[i] = input[s.taken + 1 + i - 1]
    BY <1>1, <1>2, <2>1, SubSeqProperties
  <2>3. s.taken + n - (s.taken + 1) + 1 = n
    BY <1>1, <1>2
  <2>4. ASSUME NEW i \in 1..n
        PROVE  SubSeq(input, s.taken + 1, s.taken + n)[i] = input[s.taken + i]
    <3>1. i \in 1..(s.taken + n - (s.taken + 1) + 1) /\ s.taken + 1 + i - 1 = s.taken + i
      BY <1>1, <1>2, <2>3
    <3>. QED
      BY <2>2, <3>1
  <2>5. Len(SubSeq(input, s.taken + 1, s.taken + n)) = n
    BY <1>1, <1>2, <2>2, <2>3
  <2>. QED
    BY <2>2, <2>4, <2>5
<1>4. fillBuffer(s) = IF ~memory /\ n > 0
                      THEN [s EXCEPT !.cursor = 0, !.taken = s.taken + n, !.buffer = els]
                      ELSE [s EXCEPT !.cursor = 0, !.buffer = <<>>, !.bad = TRUE]
  BY DEF fillBuffer
<1>5. <<>> \in Seq(Els) /\ Len(<<>>) = 0 /\ \A q \in Seq(Els) : Len(q) > 0 <=> q # <<>>
  BY EmptySeq
<1>. HIDE DEF n, els
<1>6. CASE ~memory /\ n > 0
  <2>. DEFINE f == [s EXCEPT !.cursor = 0, !.taken = s.taken + n, !.buffer = els]
  <2>1. f \in Streams
    <3>1. els \in Buffers /\ s.taken + n \in Nat
      BY <1>1, <1>2, <1>3 DEF Buffers
    <3>. QED
      BY <1>1, <3>1 DEF Streams
  <2>2. /\ f.cursor = 0 /\ f.taken = s.taken + n /\ f.buffer = els
        /\ f.ungot = s.ungot /\ f.ungot_el = s.ungot_el /\ f.bad = s.bad
    BY <1>1 DEF Streams
  <2>3. fillBuffer(s) = f
    BY <1>4, <1>6
  <2>. HIDE DEF f
  <2>4. Buffered(f) /\ Passed(f) = s.taken
    BY <1>1, <1>2, <1>3, <1>6, <2>1, <2>2, InputIsSeq DEF Buffered, Passed
  <2>. QED
    BY <1>2, <1>3, <1>5, <1>6, <2>2, <2>3, <2>4
<1>7. CASE ~(~memory /\ n > 0)
  <2>. DEFINE f == [s EXCEPT !.cursor = 0, !.buffer = <<>>, !.bad = TRUE]
  <2>1. f \in Streams
    <3>1. <<>> \in Buffers
      BY <1>5 DEF Buffers
    <3>. QED
      BY <1>1, <3>1 DEF Streams
  <2>2. /\ f.cursor = 0 /\ f.taken = s.taken /\ f.buffer = <<>>
        /\ f.ungot = s.ungot /\ f.ungot_el = s.ungot_el /\ f.bad
    BY <1>1 DEF Streams
  <2>3. fillBuffer(s) = f
    BY <1>4, <1>7
  <2>. HIDE DEF f
  <2>4. Buffered(f)
    BY <1>1, <1>5, <2>1, <2>2 DEF Buffered, Passed
  <2>. QED
    BY <1>2, <1>7, <2>2, <2>3, <2>4
<1>. QED
  BY <1>6, <1>7

(* What the operations of a stream need of its type.                       *)
LEMMA Fields ==
    ASSUME NEW s, Buffered(s)
    PROVE  /\ s \in Streams /\ s.buffer \in Seq(Els) /\ Len(s.buffer) \in Nat
           /\ s.cursor \in Nat /\ s.taken \in Nat /\ s.ungot \in BOOLEAN
           /\ s.bad \in BOOLEAN /\ Passed(s) \in Nat
           /\ s.buffer = <<>> <=> Len(s.buffer) = 0
           /\ \A k \in 1..Len(s.buffer) : s.buffer[k] \in Els
           /\ readPastBuffer(s) <=> s.cursor = Len(s.buffer)
<1>1. s \in Streams /\ s.buffer \in Seq(Els)
  BY DEF Buffered, Streams, Buffers
<1>2. Len(s.buffer) \in Nat /\ \A k \in 1..Len(s.buffer) : s.buffer[k] \in Els
  BY <1>1, LenProperties, ElementOfSeq
<1>3. s.buffer = <<>> <=> Len(s.buffer) = 0
  BY <1>1, EmptySeq
<1>. QED
  BY <1>1, <1>2, <1>3 DEF Buffered, Streams, Passed, readPastBuffer

(* good() only marks the stream.                                           *)
LEMMA Marks ==
    ASSUME PeerTypes, NEW s, Sound(s)
    PROVE  LET g == good(s)
           IN  /\ Sound(g) /\ Position(g) = Position(s)
               /\ g.buffer = s.buffer /\ g.cursor = s.cursor /\ g.taken = s.taken
               /\ g.ungot = s.ungot /\ g.ungot_el = s.ungot_el
               /\ CanUnget(s) => CanUnget(g)
               /\ ~g.bad /\ readPastBuffer(g) => ~memory /\ (arrived > s.taken \/ ended)
<1>. DEFINE g == good(s)
<1>1. s \in Streams
  BY DEF Sound, Buffered
<1>2. g \in Streams
  BY <1>1 DEF Streams, good
<1>3. /\ g.buffer = s.buffer /\ g.cursor = s.cursor /\ g.taken = s.taken
      /\ g.ungot = s.ungot /\ g.ungot_el = s.ungot_el
      /\ g.bad = (s.bad \/ (readPastBuffer(s) /\ ~Readable(s)))
  BY <1>1 DEF Streams, good
<1>. HIDE DEF g
<1>4. Buffered(g) /\ Passed(g) = Passed(s)
  BY <1>2, <1>3 DEF Sound, Buffered, Passed
<1>5. Kept(g) <=> Kept(s)
  BY <1>3, <1>4 DEF Kept
<1>6. Sound(g) /\ Position(g) = Position(s) /\ (CanUnget(s) => CanUnget(g))
  BY <1>3, <1>4, <1>5 DEF Sound, CanUnget, Position, AtUngot
<1>7. ~g.bad /\ readPastBuffer(g) => ~memory /\ (arrived > s.taken \/ ended)
  BY <1>3 DEF readPastBuffer, Readable
<1>. QED
  BY <1>3, <1>6, <1>7 DEF g

(* Before a refill the last element is kept.                               *)
LEMMA Saves ==
    ASSUME PeerTypes, NEW s, Sound(s), readPastBuffer(s), ~memory
    PROVE  LET v == Saved(s)
           IN  /\ Buffered(v)
               /\ v.buffer = s.buffer /\ v.cursor = s.cursor /\ v.taken = s.taken
               /\ v.ungot = s.ungot /\ v.bad = s.bad
               /\ s.cursor > 0 => v.ungot_el = input[s.taken]
               /\ s.cursor = 0 => v.ungot_el = s.ungot_el
<1>1. s \in Streams /\ s.cursor = Len(s.buffer) /\ s.buffer \in Seq(Els)
  BY Fields DEF Sound
<1>2. CASE s.cursor = 0
  BY <1>2 DEF Saved, Sound
<1>3. CASE s.cursor > 0
  <2>. DEFINE v == [s EXCEPT !.ungot_el = s.buffer[s.cursor]]
  <2>1. s.cursor \in 1..Len(s.buffer) /\ s.buffer[s.cursor] \in Els
    BY <1>1, <1>3, Fields DEF Sound
  <2>2. v \in Streams
    BY <1>1, <2>1 DEF Streams
  <2>3. /\ v.buffer = s.buffer /\ v.cursor = s.cursor /\ v.taken = s.taken
        /\ v.ungot = s.ungot /\ v.bad = s.bad /\ v.ungot_el = s.buffer[s.cursor]
    BY <1>1 DEF Streams
  <2>4. s.buffer[s.cursor] = input[s.taken]
    BY <1>1, <2>1, Fields DEF Sound, Buffered, Passed
  <2>5. Saved(s) = v
    BY <1>1, <1>3, Fields DEF Saved, Sound
  <2>. HIDE DEF v
  <2>6. Buffered(v)
    BY <2>2, <2>3 DEF Sound, Buffered, Passed
  <2>. QED
    BY <1>3, <2>3, <2>4, <2>5, <2>6
<1>4. s.cursor = 0 \/ s.cursor > 0
  BY Fields DEF Sound
<1>. QED
  BY <1>2, <1>3, <1>4

(* peek() goes nowhere; where it does not throw, the next element is there.*)
LEMMA Peeks ==
    ASSUME PeerTypes, NEW s, Sound(s)
    PROVE  LET p == peek(s)
           IN  /\ Sound(p) /\ Position(p) = Position(s) /\ p.ungot = s.ungot
               /\ CanUnget(s) => CanUnget(p)
               /\ ~p.bad => ~readPastBuffer(p)
<1>. DEFINE g == good(s)
            v == Saved(g)
            f == fillBuffer(v)
<1>1. /\ Sound(g) /\ Position(g) = Position(s) /\ g.ungot = s.ungot
      /\ CanUnget(s) => CanUnget(g)
      /\ ~g.bad /\ readPastBuffer(g) => ~memory /\ (arrived > g.taken \/ ended)
  BY Marks
<1>2. peek(s) = IF ~g.bad /\ readPastBuffer(g) THEN f ELSE g
  BY DEF peek
<1>. HIDE DEF g
<1>3. CASE ~g.bad /\ readPastBuffer(g)
  <2>1. /\ ~memory /\ (arrived > g.taken \/ ended)
        /\ g.cursor = Len(g.buffer) /\ g.cursor \in Nat /\ Len(g.buffer) \in Nat
        /\ g.taken \in Nat /\ g.ungot \in BOOLEAN
        /\ g.taken <= arrived /\ Len(g.buffer) <= g.taken
        /\ g.buffer = <<>> <=> Len(g.buffer) = 0
    BY <1>1, <1>3, Fields DEF Sound, Buffered
  <2>2. /\ Buffered(v) /\ v.buffer = g.buffer /\ v.taken = g.taken
        /\ v.ungot = g.ungot /\ v.bad = g.bad
        /\ g.cursor > 0 => v.ungot_el = input[g.taken]
        /\ g.cursor = 0 => v.ungot_el = g.ungot_el
    BY <1>1, <1>3, <2>1, Saves
  <2>. HIDE DEF v
  <2>3. /\ Buffered(f) /\ f.cursor = 0
        /\ f.ungot = v.ungot /\ f.ungot_el = v.ungot_el
        /\ IF ~memory /\ arrived > v.taken
           THEN f.buffer # <<>> /\ Passed(f) = v.taken /\ f.bad = v.bad
           ELSE f.buffer = <<>> /\ f.taken = v.taken /\ f.bad
    BY <2>2, Fills
  <2>4. Len(f.buffer) \in Nat /\ (f.buffer = <<>> <=> Len(f.buffer) = 0) /\ f.taken \in Nat
    BY <2>3, Fields
  <2>. HIDE DEF f
  <2>5. Passed(f) = g.taken /\ arrived \in Int
    BY <2>1, <2>2, <2>3, <2>4, InputIsSeq DEF Passed
  <2>6. g.ungot \/ CanUnget(g) => Kept(f)
    <3>1. CASE g.cursor = 0
      BY <1>1, <2>1, <2>2, <2>3, <2>5, <3>1 DEF Sound, CanUnget, Kept, Passed
    <3>2. CASE g.cursor > 0
      BY <1>1, <2>1, <2>2, <2>3, <2>5, <3>2 DEF Sound, CanUnget, Kept, Passed
    <3>. QED
      BY <2>1, <3>1, <3>2
  <2>7. Sound(f) /\ (CanUnget(g) => CanUnget(f))
    BY <2>2, <2>3, <2>6 DEF Sound, CanUnget
  <2>8. Position(f) = Position(g)
    BY <1>1, <2>1, <2>2, <2>3, <2>4, <2>5 DEF Position, AtUngot, Passed, Sound, Kept
  <2>9. ~f.bad => ~readPastBuffer(f)
    BY <2>2, <2>3, <2>4 DEF readPastBuffer
  <2>. QED
    BY <1>1, <1>2, <1>3, <2>2, <2>3, <2>7, <2>8, <2>9
<1>4. CASE ~(~g.bad /\ readPastBuffer(g))
  BY <1>1, <1>2, <1>4
<1>. QED
  BY <1>3, <1>4

(* get() passes the next element of the input.                             *)
LEMMA Gets ==
    ASSUME PeerTypes, NEW s, Sound(s), ~readPastBuffer(s)
    PROVE  LET g == get(s)
           IN  /\ Sound(g) /\ CanUnget(g) /\ Position(g) = Position(s) + 1 /\ g.bad = s.bad
               /\ Position(s) \in 0..(Len(input) - 1)
               /\ Element(s) = input[Position(s) + 1]
<1>. DEFINE g == get(s)
<1>1. /\ s \in Streams /\ Buffered(s) /\ s.cursor \in Nat /\ Len(s.buffer) \in Nat
      /\ s.taken \in Nat /\ s.cursor < Len(s.buffer) /\ Passed(s) \in Nat
      /\ s.buffer # <<>> /\ s.ungot \in BOOLEAN
  BY Fields DEF Sound, Buffered
<1>2. s.taken <= Len(input) /\ Len(input) \in Nat
  BY <1>1, InputIsSeq DEF Buffered, PeerTypes
<1>3. CASE AtUngot(s)
  <2>1. g \in Streams
    BY <1>1, <1>3 DEF Streams, get
  <2>2. /\ g.buffer = s.buffer /\ g.cursor = s.cursor /\ g.taken = s.taken
        /\ ~g.ungot /\ g.ungot_el = s.ungot_el /\ g.bad = s.bad
    BY <1>1, <1>3 DEF Streams, get
  <2>. HIDE DEF g
  <2>3. Buffered(g) /\ Passed(g) = Passed(s)
    BY <1>1, <2>1, <2>2 DEF Buffered, Passed
  <2>4. Kept(s) /\ Kept(g) /\ s.cursor = 0
    BY <1>3, <2>2, <2>3 DEF Sound, AtUngot, Kept
  <2>5. Sound(g) /\ CanUnget(g)
    BY <2>2, <2>3, <2>4 DEF Sound, CanUnget
  <2>6. Position(s) = Passed(s) - 1 /\ Position(g) = Passed(s)
    BY <1>1, <1>3, <2>2, <2>4 DEF Position, AtUngot, Passed
  <2>7. Element(s) = input[Passed(s)]
    BY <1>3, <2>4 DEF Element, Kept
  <2>8. Passed(s) \in 1..(Len(input) - 1)
    BY <1>1, <1>2, <2>4 DEF Passed, Kept
  <2>. QED
    BY <2>2, <2>5, <2>6, <2>7, <2>8 DEF g
<1>4. CASE ~AtUngot(s)
  <2>1. g \in Streams
    BY <1>1, <1>4 DEF Streams, get
  <2>2. /\ g.buffer = s.buffer /\ g.cursor = s.cursor + 1 /\ g.taken = s.taken
        /\ ~g.ungot /\ g.ungot_el = s.ungot_el /\ ~s.ungot /\ g.bad = s.bad
    BY <1>1, <1>4 DEF Streams, get, AtUngot, Sound
  <2>. HIDE DEF g
  <2>3. Buffered(g) /\ Passed(g) = Passed(s)
    BY <1>1, <2>1, <2>2 DEF Buffered, Passed
  <2>4. Sound(g) /\ CanUnget(g)
    BY <1>1, <2>2, <2>3 DEF Sound, CanUnget
  <2>5. Position(s) = Passed(s) + s.cursor /\ Position(g) = Position(s) + 1
    <3>1. Position(s) = s.taken - (Len(s.buffer) - s.cursor)
      BY <1>1, <1>4 DEF Position
    <3>2. Position(g) = s.taken - (Len(s.buffer) - (s.cursor + 1))
      BY <1>1, <2>2 DEF Position, AtUngot
    <3>. QED
      BY <1>1, <3>1, <3>2, SMTT(60) DEF Passed
  <2>6. Element(s) = input[Position(s) + 1]
    <3>1. s.buffer[s.cursor + 1] = input[Passed(s) + (s.cursor + 1)]
      <4>1. s.cursor + 1 \in 1..Len(s.buffer)
        BY ONLY <1>1
      <4>2. \A i \in 1..Len(s.buffer) : s.buffer[i] = input[Passed(s) + i]
        BY <1>1 DEF Buffered
      <4>. QED
        BY ONLY <4>1, <4>2
    <3>2. Passed(s) + (s.cursor + 1) = Position(s) + 1
      BY <1>1, <2>5
    <3>. QED
      BY <1>4, <3>1, <3>2 DEF Element
  <2>7. Position(s) \in 0..(Len(input) - 1)
    BY <1>1, <1>2, <2>5, SMTT(60) DEF Passed
  <2>. QED
    BY <2>2, <2>4, <2>5, <2>6, <2>7 DEF g
<1>. QED
  BY <1>3, <1>4

(* unget() goes back over one.                                             *)
LEMMA Ungets ==
    ASSUME PeerTypes, NEW s, Sound(s), CanUnget(s)
    PROVE  LET u == unget(s)
           IN  Sound(u) /\ Position(u) = Position(s) - 1 /\ Position(s) > 0
<1>. DEFINE u == unget(s)
<1>1. /\ s \in Streams /\ Buffered(s) /\ s.cursor \in Nat /\ Len(s.buffer) \in Nat
      /\ s.taken \in Nat /\ s.cursor <= Len(s.buffer) /\ Passed(s) \in Nat /\ ~s.ungot
  BY Fields DEF Sound, Buffered, CanUnget
<1>2. Position(s) = Passed(s) + s.cursor
  BY <1>1 DEF Position, AtUngot, Passed
<1>3. CASE s.cursor = 0
  <2>1. u \in Streams
    BY <1>1, <1>3 DEF Streams, unget
  <2>2. /\ u.buffer = s.buffer /\ u.cursor = 0 /\ u.taken = s.taken
        /\ u.ungot /\ u.ungot_el = s.ungot_el
    BY <1>1, <1>3 DEF Streams, unget
  <2>. HIDE DEF u
  <2>3. Buffered(u) /\ Passed(u) = Passed(s) /\ Kept(s)
    BY <1>1, <1>3, <2>1, <2>2 DEF Buffered, Passed, CanUnget
  <2>4. Sound(u) /\ Position(s) > 0
    BY <1>1, <1>2, <1>3, <2>2, <2>3 DEF Sound, Kept
  <2>5. Position(u) = Position(s) - 1
    BY <1>1, <1>2, <1>3, <2>2 DEF Position, AtUngot, Passed
  <2>. QED
    BY <2>4, <2>5 DEF u
<1>4. CASE s.cursor > 0
  <2>1. u \in Streams
    BY <1>1, <1>4 DEF Streams, unget
  <2>2. /\ u.buffer = s.buffer /\ u.cursor = s.cursor - 1 /\ u.taken = s.taken
        /\ ~u.ungot /\ u.ungot_el = s.ungot_el
    BY <1>1, <1>4 DEF Streams, unget
  <2>. HIDE DEF u
  <2>3. Buffered(u) /\ Passed(u) = Passed(s)
    BY <1>1, <1>4, <2>1, <2>2 DEF Buffered, Passed
  <2>4. Sound(u)
    BY <2>2, <2>3 DEF Sound
  <2>5. Position(u) = Position(s) - 1 /\ Position(s) > 0
    BY <1>1, <1>2, <1>4, <2>2, SMTT(60) DEF Position, AtUngot, Passed
  <2>. QED
    BY <2>4, <2>5 DEF u
<1>5. s.cursor = 0 \/ s.cursor > 0
  BY <1>1
<1>. QED
  BY <1>3, <1>4, <1>5

(* fillBuffer() without peek(): behind the buffer it goes nowhere, before  *)
(* its end it drops what is left.                                          *)
LEMMA Refills ==
    ASSUME PeerTypes, NEW s, Sound(s), s.ungot => readPastBuffer(s)
    PROVE  LET f == fillBuffer(s)
           IN  /\ Sound(f) /\ (f.buffer = <<>> <=> Len(f.buffer) = 0)
               /\ f.buffer # <<>> => ~f.ungot
               /\ readPastBuffer(s) => Position(f) = Position(s)
               /\ ~s.ungot => Position(f) = s.taken /\ ~f.ungot
<1>. DEFINE f == fillBuffer(s)
<1>1. /\ Buffered(f) /\ f.cursor = 0
      /\ f.ungot = s.ungot /\ f.ungot_el = s.ungot_el
      /\ IF ~memory /\ arrived > s.taken
         THEN f.buffer # <<>> /\ Passed(f) = s.taken /\ f.bad = s.bad
         ELSE f.buffer = <<>> /\ f.taken = s.taken /\ f.bad
  BY Fills DEF Sound
<1>2. /\ s.cursor \in Nat /\ Len(s.buffer) \in Nat /\ s.taken \in Nat
      /\ s.ungot \in BOOLEAN /\ s.cursor <= Len(s.buffer)
      /\ s.buffer = <<>> <=> Len(s.buffer) = 0
      /\ readPastBuffer(s) <=> s.cursor = Len(s.buffer)
  BY Fields DEF Sound, Buffered
<1>. HIDE DEF f
<1>3. /\ Len(f.buffer) \in Nat /\ (f.buffer = <<>> <=> Len(f.buffer) = 0)
      /\ f.taken \in Nat /\ arrived \in Nat
  BY <1>1, Fields, InputIsSeq
<1>4. Passed(f) = s.taken
  BY <1>1, <1>2, <1>3 DEF Passed
<1>5. s.ungot => /\ s.cursor = 0 /\ s.buffer = <<>> /\ ended /\ s.taken = arrived
                 /\ Passed(s) = s.taken /\ Kept(s)
  BY <1>2 DEF Sound, Kept, Passed
<1>6. Sound(f) /\ (f.buffer # <<>> => ~f.ungot)
  BY <1>1, <1>2, <1>3, <1>4, <1>5 DEF Sound, Kept
<1>7. readPastBuffer(s) => Position(f) = Position(s)
  BY <1>1, <1>2, <1>3, <1>4, <1>5 DEF Position, AtUngot, Passed
<1>8. ~s.ungot => Position(f) = s.taken /\ ~f.ungot
  BY <1>1, <1>3, <1>4 DEF Position, AtUngot, Passed
<1>. QED
  BY <1>3, <1>6, <1>7, <1>8 DEF f

(* A reader stands somewhere in the input.                                 *)
LEMMA Positions ==
    ASSUME PeerTypes, NEW s, Sound(s)
    PROVE  Position(s) \in 0..Len(input) /\ Len(input) \in Nat
<1>1. /\ s.cursor \in Nat /\ Len(s.buffer) \in Nat /\ s.taken \in Nat
      /\ s.cursor <= Len(s.buffer) /\ Len(s.buffer) <= s.taken /\ s.taken <= Len(input)
      /\ Len(input) \in Nat
  BY Fields, InputIsSeq DEF Sound, Buffered, PeerTypes
<1>2. AtUngot(s) => s.cursor = 0 /\ s.taken - Len(s.buffer) >= 1
  BY DEF AtUngot, Sound, Kept, Passed
<1>. QED
  BY <1>1, <1>2 DEF Position

(* A stretch of the input.                                                 *)
LEMMA Stretch ==
    ASSUME PeerTypes, NEW p \in Nat, NEW n \in Nat, p + n <= Len(input)
    PROVE  /\ SubSeq(input, p + 1, p + n) \in Seq(Els)
           /\ Len(SubSeq(input, p + 1, p + n)) = n
           /\ \A i \in 1..n : SubSeq(input, p + 1, p + n)[i] = input[p + i]
<1>1. \A i \in (p + 1)..(p + n) : input[i] \in Els
  BY InputIsSeq
<1>2. /\ SubSeq(input, p + 1, p + n) \in Seq(Els)
      /\ Len(SubSeq(input, p + 1, p + n)) = IF p + 1 <= p + n THEN p + n - (p + 1) + 1 ELSE 0
      /\ \A i \in 1..(p + n - (p + 1) + 1) :
            SubSeq(input, p + 1, p + n)[i] = input[p + 1 + i - 1]
  BY <1>1, SubSeqProperties
<1>3. p + n - (p + 1) + 1 = n
  OBVIOUS
<1>4. ASSUME NEW i \in 1..n PROVE SubSeq(input, p + 1, p + n)[i] = input[p + i]
  <2>1. i \in 1..(p + n - (p + 1) + 1) /\ p + 1 + i - 1 = p + i
    BY <1>3
  <2>. QED
    BY <1>2, <2>1
<1>. QED
  BY <1>2, <1>3, <1>4

(* ... and how it is recognised.                                           *)
LEMMA IsStretch ==
    ASSUME PeerTypes, NEW p \in Nat, NEW n \in Nat, p + n <= Len(input),
           NEW q \in Seq(Els), Len(q) = n, \A i \in 1..n : q[i] = input[p + i]
    PROVE  q = SubSeq(input, p + 1, p + n)
  BY Stretch, SeqEqual

(* The next element alone.                                                 *)
LEMMA NextOne ==
    ASSUME PeerTypes, NEW p \in Nat, p + 1 <= Len(input)
    PROVE  /\ input[p + 1] \in Els /\ <<input[p + 1]>> \in Seq(Els)
           /\ <<input[p + 1]>> = SubSeq(input, p + 1, p + 1)
<1>. DEFINE e == input[p + 1]
<1>1. e \in Els
  BY InputIsSeq
<1>2. <<e>> = [k \in 1..1 |-> e]
  OBVIOUS
<1>3. <<e>> \in [1..1 -> Els]
  BY <1>1, <1>2
<1>4. <<e>> \in Seq(Els) /\ Len(<<e>>) = 1
  BY <1>3, SeqDef
<1>5. \A i \in 1..1 : <<e>>[i] = input[p + i]
  OBVIOUS
<1>. HIDE DEF e
<1>6. <<e>> = SubSeq(input, p + 1, p + 1)
  BY <1>4, <1>5, IsStretch
<1>. QED
  BY <1>1, <1>4, <1>6 DEF e

(* A step that leaves the peer alone takes over what holds of its stream.  *)
LEMMA Carried ==
    ASSUME NEW x, stream' = x, UNCHANGED Peer
    PROVE  /\ Sound(x) <=> Sound(stream)'
           /\ CanUnget(x) <=> CanUnget(stream)'
           /\ Position(stream)' = Position(x)
           /\ PeerTypes <=> PeerTypes'
<1>. USE DEF Peer
<1>1. Buffered(x) <=> Buffered(stream)'
  BY DEF Buffered, Passed
<1>2. Kept(x) <=> Kept(stream)'
  BY DEF Kept, Passed
<1>. QED
  BY <1>1, <1>2 DEF Sound, CanUnget, Position, AtUngot, PeerTypes

(* What arrives and the end of it change nothing of the stream.            *)
LEMMA PeerMoves ==
    ASSUME PeerTypes, Sound(stream), Arrive \/ Close
    PROVE  /\ PeerTypes' /\ Sound(stream)' /\ UNCHANGED input
           /\ UNCHANGED <<call, data, result, may_unget>>
           /\ CanUnget(stream) => CanUnget(stream)'
           /\ Position(stream)' = Position(stream)
           /\ stream'.ungot = stream.ungot
<1>1. CASE Arrive
  <2>1. /\ stream' = stream /\ input' = input /\ ended' = ended /\ memory' = memory
        /\ ~ended /\ arrived' \in (arrived + 1)..Len(input)
        /\ UNCHANGED <<call, data, result, may_unget>>
    BY <1>1 DEF Arrive
  <2>2. PeerTypes' /\ ~memory
    BY <2>1, InputIsSeq DEF PeerTypes
  <2>3. Buffered(stream)'
    BY <2>1, <2>2, InputIsSeq, Fields DEF Sound, Buffered, Passed
  <2>4. Kept(stream) => Kept(stream)'
    BY <2>1 DEF Kept, Passed
  <2>. QED
    BY <2>1, <2>2, <2>3, <2>4 DEF Sound, CanUnget, Position, AtUngot
<1>2. CASE Close
  <2>1. /\ stream' = stream /\ input' = input /\ ended' = TRUE /\ memory' = memory
        /\ arrived' = arrived
        /\ UNCHANGED <<call, data, result, may_unget>>
    BY <1>2 DEF Close
  <2>2. PeerTypes' /\ Buffered(stream)'
    BY <2>1 DEF Sound, Buffered, Passed, PeerTypes
  <2>3. Kept(stream) => Kept(stream)'
    BY <2>1 DEF Kept, Passed
  <2>. QED
    BY <2>1, <2>2, <2>3 DEF Sound, CanUnget, Position, AtUngot
<1>. QED
  BY <1>1, <1>2

(* What is left in the buffer.                                             *)
Remaining(s) == SubSeq(s.buffer, s.cursor + 1, Len(s.buffer))

(* It is what comes next in the input.                                     *)
LEMMA Remains ==
    ASSUME PeerTypes, NEW s, Sound(s), ~s.ungot
    PROVE  /\ Remaining(s) \in Seq(Els) /\ Len(Remaining(s)) = Len(s.buffer) - s.cursor
           /\ Len(Remaining(s)) \in Nat
           /\ \A i \in 1..Len(Remaining(s)) : Remaining(s)[i] = input[Position(s) + i]
           /\ Position(s) + Len(Remaining(s)) = s.taken /\ s.taken <= Len(input)
<1>. DEFINE c == s.cursor
            l == Len(s.buffer)
<1>1. /\ c \in Nat /\ l \in Nat /\ s.taken \in Nat /\ c <= l
      /\ Passed(s) \in Nat /\ s.taken <= Len(input) /\ Len(input) \in Nat
      /\ \A k \in 1..l : s.buffer[k] \in Els
  BY Fields, InputIsSeq DEF Sound, Buffered, PeerTypes
<1>2. Position(s) = Passed(s) + c
  BY <1>1 DEF Position, AtUngot, Passed
<1>3. \A k \in (c + 1)..l : s.buffer[k] \in Els
  BY <1>1
<1>4. \A k \in 1..l : s.buffer[k] = input[Passed(s) + k]
  BY DEF Sound, Buffered
<1>. HIDE DEF c, l
<1>5. /\ SubSeq(s.buffer, c + 1, l) \in Seq(Els)
      /\ Len(SubSeq(s.buffer, c + 1, l)) = IF c + 1 <= l THEN l - (c + 1) + 1 ELSE 0
      /\ \A i \in 1..(l - (c + 1) + 1) : SubSeq(s.buffer, c + 1, l)[i] = s.buffer[c + 1 + i - 1]
  BY <1>1, <1>3, SubSeqProperties
<1>6. l - (c + 1) + 1 = l - c /\ Len(SubSeq(s.buffer, c + 1, l)) = l - c
  BY <1>1, <1>5
<1>7. ASSUME NEW i \in 1..(l - c)
      PROVE  SubSeq(s.buffer, c + 1, l)[i] = input[Position(s) + i]
  <2>1. /\ i \in 1..(l - (c + 1) + 1) /\ c + 1 + i - 1 = c + i /\ c + i \in 1..l
        /\ Passed(s) + (c + i) = Position(s) + i
    BY <1>1, <1>2, <1>6
  <2>2. SubSeq(s.buffer, c + 1, l)[i] = s.buffer[c + i]
    BY <1>5, <2>1
  <2>3. s.buffer[c + i] = input[Passed(s) + (c + i)]
    BY <1>4, <2>1
  <2>. QED
    BY <2>1, <2>2, <2>3
<1>8. Position(s) + (l - c) = s.taken /\ l - c \in Nat
  BY <1>1, <1>2 DEF Passed, l
<1>. QED
  BY <1>1, <1>5, <1>6, <1>7, <1>8 DEF Remaining, c, l

(* The first n of them are passed at once.                                *)
LEMMA PassesSome ==
    ASSUME PeerTypes, NEW s, Sound(s), ~s.ungot, NEW n \in 0..Len(Remaining(s))
    PROVE  LET x == [s EXCEPT !.cursor = @ + n]
           IN  /\ Sound(x) /\ Position(x) = Position(s) + n
               /\ n > 0 => CanUnget(x)
               /\ CanUnget(s) => CanUnget(x)
               /\ SubSeq(Remaining(s), 1, n) \in Seq(Els)
               /\ Len(SubSeq(Remaining(s), 1, n)) = n
               /\ \A i \in 1..n : SubSeq(Remaining(s), 1, n)[i] = input[Position(s) + i]
<1>. DEFINE x == [s EXCEPT !.cursor = s.cursor + n]
            r == Remaining(s)
<1>1. /\ s \in Streams /\ s.cursor \in Nat /\ Len(s.buffer) \in Nat /\ s.taken \in Nat
      /\ s.cursor <= Len(s.buffer)
  BY Fields DEF Sound, Buffered
<1>2. /\ r \in Seq(Els) /\ Len(r) = Len(s.buffer) - s.cursor /\ Len(r) \in Nat
      /\ \A i \in 1..Len(r) : r[i] = input[Position(s) + i]
  BY Remains
<1>3. /\ n \in Nat /\ s.cursor + n \in Nat /\ s.cursor + n <= Len(s.buffer)
      /\ n <= Len(r)
  BY <1>1, <1>2
<1>4. x \in Streams
  BY <1>1, <1>3 DEF Streams
<1>5. /\ x.buffer = s.buffer /\ x.cursor = s.cursor + n /\ x.taken = s.taken
      /\ x.ungot = s.ungot /\ x.ungot_el = s.ungot_el
  BY <1>1 DEF Streams
<1>. HIDE DEF x, r
<1>6. Sound(x)
  BY <1>3, <1>4, <1>5 DEF Sound, Buffered, Passed
<1>7. /\ n > 0 => CanUnget(x)
      /\ CanUnget(s) => CanUnget(x)
  BY <1>1, <1>3, <1>5 DEF CanUnget, Kept, Passed
<1>8. Position(x) = Position(s) + n
  <2>1. Position(s) = s.taken - (Len(s.buffer) - s.cursor)
    BY <1>1 DEF Position, AtUngot
  <2>2. Position(x) = s.taken - (Len(s.buffer) - (s.cursor + n))
    BY <1>1, <1>5 DEF Position, AtUngot
  <2>3. s.taken \in Int /\ Len(s.buffer) \in Int /\ s.cursor \in Int /\ n \in Int
    BY <1>1, <1>3
  <2>4. s.taken - (Len(s.buffer) - (s.cursor + n))
          = (s.taken - (Len(s.buffer) - s.cursor)) + n
    BY ONLY <2>3
  <2>. QED
    BY ONLY <2>1, <2>2, <2>4
<1>9. /\ SubSeq(r, 1, n) \in Seq(Els) /\ Len(SubSeq(r, 1, n)) = n
      /\ \A i \in 1..n : SubSeq(r, 1, n)[i] = input[Position(s) + i]
  <2>1. ASSUME NEW i \in 1..n PROVE r[i] \in Els
    <3>1. i \in 1..Len(r)
      BY <1>2, <1>3
    <3>. QED
      BY <1>2, <3>1, ElementOfSeq
  <2>2. /\ SubSeq(r, 1, n) \in Seq(Els)
        /\ Len(SubSeq(r, 1, n)) = IF 1 <= n THEN n - 1 + 1 ELSE 0
        /\ \A i \in 1..(n - 1 + 1) : SubSeq(r, 1, n)[i] = r[1 + i - 1]
    BY <1>3, <2>1, SubSeqProperties
  <2>3. ASSUME NEW i \in 1..n PROVE SubSeq(r, 1, n)[i] = input[Position(s) + i]
    <3>1. i \in 1..(n - 1 + 1) /\ 1 + i - 1 = i /\ i \in 1..Len(r)
      BY <1>2, <1>3
    <3>. QED
      BY <1>2, <2>2, <3>1
  <2>. QED
    BY <1>3, <2>2, <2>3
<1>. QED
  BY <1>6, <1>7, <1>8, <1>9 DEF x, r

-----------------------------------------------------------------------------
(* The shapes of a step: what it needs to keep the invariant, ...          *)

(* A call that ends at once.                                               *)
LEMMA EndsAtOnce ==
    ASSUME StreamInv, Idle, NEW x, Sound(x), stream' = x, UNCHANGED <<Peer, data>>,
           call' = NoCall, may_unget' \in BOOLEAN, may_unget' => CanUnget(x)
    PROVE  StreamInv'
<1>1. NoCall \in Calls
  BY DEF NoCall, Calls
<1>2. PeerTypes' /\ Sound(stream)' /\ (may_unget' => CanUnget(stream)')
  BY Carried DEF StreamInv, Peer
<1>3. Progress'
  BY <1>2 DEF StreamInv, Progress, NoCall, Idle
<1>. QED
  BY <1>1, <1>2, <1>3 DEF StreamInv

(* A call that goes on.                                                    *)
LEMMA GoesOn ==
    ASSUME StreamInv, NEW x, Sound(x), NEW els \in Seq(Els), NEW pc \in {"els", "peek", "good"},
           stream' = x, data' = els, UNCHANGED <<Peer, may_unget>>,
           call' \in Calls, call'.pc = pc, call'.kind = call.kind, call'.n = call.n,
           IF pc = "els"
           THEN /\ call.pc \in {"els_first", "els"} /\ ~x.ungot /\ Len(els) <= call.n
                /\ Len(els) < call.n \/ CanUnget(x)
           ELSE /\ call.pc \in {"peek", "good"}
                /\ may_unget \/ els # <<>> => CanUnget(x)
    PROVE  StreamInv'
<1>1. PeerTypes' /\ Sound(stream)' /\ (CanUnget(x) => CanUnget(stream)')
  BY Carried DEF StreamInv, Peer
<1>2. Progress'
  BY <1>1 DEF StreamInv, Progress
<1>. QED
  BY <1>1, <1>2 DEF StreamInv

(* A call that returns or throws.                                          *)
LEMMA Ends ==
    ASSUME StreamInv, NEW x, Sound(x), stream' = x, data' = <<>>, UNCHANGED Peer,
           call' = [call EXCEPT !.pc = "idle"],
           may_unget' \in BOOLEAN, may_unget' => CanUnget(x)
    PROVE  StreamInv'
<1>1. PeerTypes' /\ Sound(stream)' /\ (may_unget' => CanUnget(stream)')
  BY Carried DEF StreamInv
<1>2. call' \in Calls /\ call'.pc = "idle"
  BY DEF StreamInv, Calls
<1>3. Progress'
  BY <1>1, <1>2 DEF Progress
<1>. QED
  BY <1>1, <1>2, <1>3, EmptySeq DEF StreamInv

(* ... and what it is to a reader of the abstract cursor.                  *)
LEMMA CursorFrame ==
    ASSUME StreamInv, NEW x, Sound(x), NEW n \in Nat, Position(x) = Position(stream) + n,
           stream' = x, UNCHANGED Peer
    PROVE  /\ Position(stream)' = Position(stream) + n /\ UNCHANGED input
           /\ Position(stream) + n <= Len(input)
           /\ n \in 0..(Len(input) - Position(stream)) /\ Position(stream) \in Nat
<1>1. Position(x) \in 0..Len(input) /\ Position(stream) \in 0..Len(input) /\ Len(input) \in Nat
  BY Positions DEF StreamInv
<1>2. Position(stream)' = Position(x) /\ UNCHANGED input
  BY Carried DEF Peer
<1>. QED
  BY <1>1, <1>2

(* It collects the next n elements,                                        *)
LEMMA IsCollect ==
    ASSUME StreamInv, NEW x, Sound(x), NEW n \in Nat, Position(x) = Position(stream) + n,
           stream' = x, UNCHANGED Peer, result' = result,
           data' = data \o SubSeq(input, Position(stream) + 1, Position(stream) + n)
    PROVE  AsCursor!Collect(n) /\ AsCursor!CursorNext
<1>1. AsCursor!Collect(n)
  BY CursorFrame DEF AsCursor!Collect, AsCursor!NextEls
<1>. QED
  BY <1>1, CursorFrame DEF AsCursor!CursorNext

(* returns what it has and the next n elements,                            *)
LEMMA IsDeliver ==
    ASSUME StreamInv, NEW x, Sound(x), NEW n \in Nat, Position(x) = Position(stream) + n,
           stream' = x, UNCHANGED Peer, data' = <<>>,
           result' = data \o SubSeq(input, Position(stream) + 1, Position(stream) + n)
    PROVE  AsCursor!Deliver(n) /\ AsCursor!CursorNext
<1>1. AsCursor!Deliver(n)
  BY CursorFrame DEF AsCursor!Deliver, AsCursor!NextEls
<1>. QED
  BY <1>1, CursorFrame DEF AsCursor!CursorNext

(* or throws and loses n elements.                                         *)
LEMMA IsThrow ==
    ASSUME StreamInv, NEW x, Sound(x), NEW n \in Nat, Position(x) = Position(stream) + n,
           stream' = x, UNCHANGED Peer, data' = <<>>, result' = Thrown
    PROVE  AsCursor!CursorNext
<1>1. AsCursor!Throw(n)
  BY CursorFrame DEF AsCursor!Throw
<1>. QED
  BY <1>1, CursorFrame DEF AsCursor!CursorNext

(* To collect or return nothing more is the case of no element.            *)
LEMMA NoneMore ==
    ASSUME StreamInv
    PROVE  /\ data \o SubSeq(input, Position(stream) + 1, Position(stream) + 0) = data
           /\ Position(stream) \in Nat /\ Position(stream) + 0 = Position(stream)
           /\ <<>> \o SubSeq(input, Position(stream) + 1, Position(stream) + 0) = <<>>
<1>1. Position(stream) \in Nat
  BY Positions DEF StreamInv
<1>2. SubSeq(input, Position(stream) + 1, Position(stream) + 0) = <<>>
  BY <1>1, SubSeqEmpty
<1>. QED
  BY <1>1, <1>2, ConcatEmptySeq, EmptySeq DEF StreamInv

-----------------------------------------------------------------------------
(* The steps: each keeps the invariant and is one of the cursor's, or none.*)

CursorStep == [AsCursor!CursorNext]_(AsCursor!cursor_vars)

(* How a step of a call ends: it throws, it returns behind n more elements,*)
(* or it goes on behind them.                                              *)
Failed == call'.pc = "idle" /\ result' = Thrown
ReturnsBehind(n) == AsCursor!Deliver(n) /\ call' = [call EXCEPT !.pc = "idle"]
GoesBehind(n, pc) == AsCursor!Collect(n) /\ call' = [call EXCEPT !.pc = pc]

(* The criteria about the next element of the input.                       *)
Following == input[Position(stream) + 1]
Verdict == nextState(Following)

(* get(): the next element, or it throws.                                  *)
LEMMA GetStep ==
    ASSUME StreamInv, CallGet
    PROVE  StreamInv' /\ CursorStep
<1>. DEFINE p == peek(stream)
            P == Position(stream)
<1>1. PeerTypes /\ Sound(stream) /\ data = <<>> /\ Idle
  BY DEF CallGet, StreamInv, Progress, Idle
<1>2. Sound(p) /\ Position(p) = P /\ (~p.bad => ~readPastBuffer(p))
  BY <1>1, Peeks
<1>3. P \in Nat /\ Position(p) = P + 0
  BY <1>2, NoneMore
<1>4. IF p.bad THEN Simple(p, Thrown, FALSE) ELSE Simple(get(p), <<Element(p)>>, TRUE)
  BY DEF CallGet
<1>. HIDE DEF p
<1>5. CASE p.bad
  <2>1. /\ stream' = p /\ result' = Thrown /\ may_unget' = FALSE /\ call' = NoCall
        /\ UNCHANGED <<Peer, data>>
    BY <1>4, <1>5 DEF Simple
  <2>2. StreamInv'
    BY <1>1, <1>2, <2>1, EndsAtOnce
  <2>3. AsCursor!CursorNext
    BY <1>1, <1>2, <1>3, <2>1, IsThrow
  <2>. QED
    BY <2>2, <2>3 DEF CursorStep
<1>6. CASE ~p.bad
  <2>. DEFINE g == get(p)
  <2>1. /\ Sound(g) /\ CanUnget(g) /\ Position(g) = P + 1 /\ g.bad = p.bad
        /\ Element(p) = input[P + 1] /\ P + 1 <= Len(input)
    BY <1>1, <1>2, <1>3, <1>6, Gets, Positions
  <2>. HIDE DEF g
  <2>2. /\ stream' = g /\ result' = <<Element(p)>> /\ may_unget' = TRUE /\ call' = NoCall
        /\ UNCHANGED <<Peer, data>>
    BY <1>4, <1>6, <2>1 DEF Simple, g
  <2>3. StreamInv'
    BY <1>1, <2>1, <2>2, EndsAtOnce
  <2>4. result' = data \o SubSeq(input, P + 1, P + 1)
    <3>1. <<Element(p)>> = SubSeq(input, P + 1, P + 1)
      BY <1>1, <1>3, <2>1, NextOne
    <3>2. SubSeq(input, P + 1, P + 1) \in Seq(Els)
      BY <1>1, <1>3, <2>1, Stretch
    <3>. QED
      BY <1>1, <2>2, <3>1, <3>2, ConcatEmptySeq
  <2>5. AsCursor!CursorNext
    BY <1>1, <1>3, <2>1, <2>2, <2>4, IsDeliver
  <2>. QED
    BY <2>3, <2>5 DEF CursorStep
<1>. QED
  BY <1>5, <1>6

(* peek(): looks at the next element, or throws.                           *)
LEMMA PeekStep ==
    ASSUME StreamInv, CallPeek
    PROVE  StreamInv' /\ CursorStep
<1>. DEFINE p == peek(stream)
            P == Position(stream)
<1>1. /\ PeerTypes /\ Sound(stream) /\ data = <<>> /\ Idle
      /\ may_unget \in BOOLEAN /\ (may_unget => CanUnget(stream))
  BY DEF CallPeek, StreamInv, Progress, Idle
<1>2. /\ Sound(p) /\ Position(p) = P /\ (~p.bad => ~readPastBuffer(p))
      /\ CanUnget(stream) => CanUnget(p)
  BY <1>1, Peeks
<1>3. P \in Nat /\ Position(p) = P + 0
  BY <1>2, NoneMore
<1>4. /\ stream' = p /\ result' = IF p.bad THEN Thrown ELSE <<Element(p)>>
      /\ call' = NoCall /\ UNCHANGED <<Peer, data, may_unget>>
  BY DEF CallPeek
<1>. HIDE DEF p
<1>5. StreamInv'
  BY <1>1, <1>2, <1>4, EndsAtOnce
<1>6. CASE p.bad
  <2>1. AsCursor!CursorNext
    BY <1>1, <1>2, <1>3, <1>4, <1>6, IsThrow
  <2>. QED
    BY <1>5, <2>1 DEF CursorStep
<1>7. CASE ~p.bad
  <2>1. P \in 0..(Len(input) - 1) /\ Element(p) = input[P + 1] /\ Len(input) \in Nat
    <3>1. /\ Position(p) \in 0..(Len(input) - 1)
          /\ Element(p) = input[Position(p) + 1]
      BY <1>1, <1>2, <1>7, Gets
    <3>2. Len(input) \in Nat
      BY <1>1, Positions
    <3>. QED
      BY ONLY <1>2, <3>1, <3>2
  <2>2. result' = SubSeq(input, P + 1, P + 1)
    <3>1. P \in Nat /\ P + 1 <= Len(input)
      BY ONLY <2>1
    <3>2. <<input[P + 1]>> = SubSeq(input, P + 1, P + 1)
      BY <1>1, <3>1, NextOne
    <3>. QED
      BY <1>4, <1>7, <2>1, <3>2
  <2>3. Position(stream)' = P /\ UNCHANGED <<input, data>>
    BY <1>2, <1>4, Carried DEF Peer
  <2>4. AsCursor!Look
    BY <1>1, <2>1, <2>2, <2>3 DEF AsCursor!Look, AsCursor!NextEls
  <2>. QED
    BY <1>5, <2>4 DEF CursorStep, AsCursor!CursorNext
<1>. QED
  BY <1>6, <1>7

(* good(): nothing to the cursor.                                          *)
LEMMA GoodStep ==
    ASSUME StreamInv, CallGood
    PROVE  StreamInv' /\ CursorStep
<1>1. /\ PeerTypes /\ Sound(stream) /\ Idle /\ (may_unget => CanUnget(stream))
  BY DEF CallGood, StreamInv, Progress, Idle
<1>2. stream' = good(stream) /\ UNCHANGED <<Peer, call, data, result, may_unget>>
  BY DEF CallGood
<1>3. /\ Sound(good(stream)) /\ Position(good(stream)) = Position(stream)
      /\ CanUnget(stream) => CanUnget(good(stream))
  BY <1>1, Marks
<1>4. /\ PeerTypes' /\ Sound(stream)' /\ Position(stream)' = Position(stream)
      /\ may_unget' => CanUnget(stream)'
  BY <1>1, <1>2, <1>3, Carried DEF Peer
<1>5. StreamInv'
  BY <1>1, <1>2, <1>4 DEF StreamInv, Progress, Idle
<1>6. UNCHANGED AsCursor!cursor_vars
  BY <1>2, <1>4 DEF AsCursor!cursor_vars, Peer
<1>. QED
  BY <1>5, <1>6 DEF CursorStep

(* unget(): one back.                                                      *)
LEMMA UngetStep ==
    ASSUME StreamInv, CallUnget
    PROVE  StreamInv' /\ CursorStep
<1>. DEFINE u == unget(stream)
<1>1. /\ PeerTypes /\ Sound(stream) /\ Idle /\ CanUnget(stream) /\ data = <<>>
  BY DEF CallUnget, StreamInv, Progress, Idle
<1>2. /\ stream' = u /\ may_unget' = FALSE /\ call' = NoCall /\ result' = <<>>
      /\ UNCHANGED <<Peer, data>>
  BY DEF CallUnget
<1>3. Sound(u) /\ Position(u) = Position(stream) - 1 /\ Position(stream) > 0
  BY <1>1, Ungets
<1>. HIDE DEF u
<1>4. StreamInv'
  BY <1>1, <1>2, <1>3, EndsAtOnce
<1>5. Position(stream)' = Position(stream) - 1 /\ UNCHANGED input
  BY <1>2, <1>3, Carried DEF Peer
<1>6. AsCursor!StepBack
  BY <1>1, <1>2, <1>3, <1>5 DEF AsCursor!StepBack
<1>. QED
  BY <1>4, <1>6 DEF CursorStep, AsCursor!CursorNext

(* A call that begins returns nothing yet.                                 *)
LEMMA BeginStep ==
    ASSUME StreamInv, NEW kind, NEW n \in Nat, NEW until \in Untils \union {{}},
           NEW inclusive \in BOOLEAN, NEW pc, Begin(kind, n, until, inclusive, pc),
           \/ kind = "els" /\ n >= 1 /\ pc = "els_first"
           \/ kind \in {"until", "size"} /\ pc = "peek"
    PROVE  StreamInv' /\ CursorStep
<1>. DEFINE P == Position(stream)
<1>1. /\ PeerTypes /\ Sound(stream) /\ Idle /\ data = <<>> /\ (may_unget => CanUnget(stream))
  BY DEF Begin, StreamInv, Progress, Idle
<1>2. /\ call' = [kind |-> kind, n |-> n, until |-> until, inclusive |-> inclusive,
                  pc |-> pc, criteria |-> "good", start |-> P]
      /\ stream' = stream /\ result' = <<>> /\ UNCHANGED <<Peer, data, may_unget>>
  BY DEF Begin
<1>3. P \in Nat /\ P = P + 0
  BY NoneMore
<1>4. call' \in Calls /\ call'.pc = pc /\ call'.kind = kind /\ call'.n = n
  BY <1>2, <1>3 DEF Calls
<1>5. /\ PeerTypes' /\ Sound(stream)' /\ (may_unget' => CanUnget(stream)')
  BY <1>1, <1>2, Carried
<1>6. Progress'
  BY <1>1, <1>2, <1>4, <1>5 DEF Progress
<1>7. StreamInv'
  BY <1>2, <1>4, <1>5, <1>6 DEF StreamInv
<1>8. data' = <<>> /\ result' = data \o SubSeq(input, P + 1, P + 0)
  BY <1>1, <1>2, NoneMore
<1>9. AsCursor!CursorNext
  BY <1>1, <1>2, <1>3, <1>8, IsDeliver
<1>. QED
  BY <1>7, <1>9 DEF CursorStep

(* read(until), readEls(n) with an operation and without one.              *)
LEMMA CallStep ==
    ASSUME StreamInv,
           \/ \E n \in Counts : CallReadEls(n) \/ CallReadSize(n)
           \/ \E until \in Untils, inclusive \in BOOLEAN : CallReadUntil(until, inclusive)
    PROVE  StreamInv' /\ CursorStep
<1>1. ASSUME NEW n \in Counts, CallReadEls(n) PROVE StreamInv' /\ CursorStep
  <2>1. n \in Nat /\ ElsLimit \in Nat
    BY EStreamAssumption
  <2>2. CASE n \in 1..ElsLimit
    <3>1. Begin("els", n, {}, TRUE, "els_first")
      BY <1>1, <2>2 DEF CallReadEls
    <3>2. n >= 1
      BY ONLY <2>1, <2>2
    <3>. QED
      BY <2>1, <3>1, <3>2, BeginStep
  <2>3. CASE n \notin 1..ElsLimit
    <3>1. /\ Idle /\ result' = Thrown /\ call' = NoCall /\ stream' = stream
          /\ UNCHANGED <<Peer, data, may_unget>>
      BY <1>1, <2>3 DEF CallReadEls
    <3>2. /\ Sound(stream) /\ data = <<>> /\ may_unget \in BOOLEAN
          /\ may_unget => CanUnget(stream)
      BY <3>1 DEF StreamInv, Progress, Idle
    <3>3. StreamInv'
      BY <3>1, <3>2, EndsAtOnce
    <3>4. Position(stream) = Position(stream) + 0 /\ data' = <<>>
      BY <3>1, <3>2, NoneMore
    <3>5. AsCursor!CursorNext
      BY <3>1, <3>2, <3>4, IsThrow
    <3>. QED
      BY <3>3, <3>5 DEF CursorStep
  <2>. QED
    BY <2>2, <2>3
<1>2. ASSUME NEW n \in Counts, CallReadSize(n) PROVE StreamInv' /\ CursorStep
  <2>1. n \in Nat /\ Begin("size", n, {}, TRUE, "peek")
    BY <1>2, EStreamAssumption DEF CallReadSize
  <2>. QED
    BY <2>1, BeginStep
<1>3. ASSUME NEW until \in Untils, NEW inclusive \in BOOLEAN, CallReadUntil(until, inclusive)
      PROVE  StreamInv' /\ CursorStep
  BY <1>3, BeginStep DEF CallReadUntil
<1>. QED
  BY <1>1, <1>2, <1>3

(* A call that throws after it lost n elements.                            *)
LEMMA ThrowStep ==
    ASSUME StreamInv, NEW x, Sound(x), NEW n \in Nat, Position(x) = Position(stream) + n,
           Throws(x)
    PROVE  StreamInv' /\ AsCursor!CursorNext /\ Failed
<1>1. /\ stream' = x /\ result' = Thrown /\ data' = <<>>
      /\ call' = [call EXCEPT !.pc = "idle"] /\ may_unget' = FALSE /\ UNCHANGED Peer
  BY DEF Throws
<1>2. StreamInv'
  BY <1>1, Ends
<1>3. Failed
  BY <1>1 DEF Failed, StreamInv, Calls
<1>. QED
  BY <1>1, <1>2, <1>3, IsThrow

(* A call that goes on after it has read nothing.                          *)
LEMMA StaysStep ==
    ASSUME StreamInv, NEW x, Sound(x), Position(x) = Position(stream),
           NEW pc \in {"els", "peek", "good"}, Goes(x, data, pc),
           IF pc = "els"
           THEN /\ call.pc \in {"els_first", "els"} /\ ~x.ungot /\ Len(data) <= call.n
                /\ Len(data) < call.n \/ CanUnget(x)
           ELSE /\ call.pc \in {"peek", "good"}
                /\ may_unget \/ data # <<>> => CanUnget(x)
    PROVE  StreamInv' /\ AsCursor!CursorNext /\ GoesBehind(0, pc)
<1>1. /\ stream' = x /\ data' = data /\ call' = [call EXCEPT !.pc = pc]
      /\ UNCHANGED <<Peer, result, may_unget>>
  BY DEF Goes
<1>2. /\ call' \in Calls /\ call'.pc = pc /\ call'.kind = call.kind /\ call'.n = call.n
      /\ data \in Seq(Els)
  BY <1>1 DEF StreamInv, Calls
<1>3. StreamInv'
  BY <1>1, <1>2, GoesOn
<1>4. /\ Position(x) = Position(stream) + 0
      /\ data' = data \o SubSeq(input, Position(stream) + 1, Position(stream) + 0)
  BY <1>1, NoneMore
<1>5. AsCursor!CursorNext /\ AsCursor!Collect(0)
  BY <1>1, <1>4, IsCollect
<1>. QED
  BY <1>1, <1>3, <1>5 DEF GoesBehind

(* readEls fills an empty buffer, or takes the element that was put back.  *)
LEMMA ReadElsFirstStep ==
    ASSUME StreamInv, ReadElsFirst
    PROVE  /\ StreamInv' /\ CursorStep
           /\ Failed \/ \E n \in Nat : GoesBehind(n, "els")
<1>1. /\ PeerTypes /\ Sound(stream) /\ data = <<>> /\ call.pc = "els_first" /\ call.n >= 1
      /\ Len(data) = 0 /\ call \in Calls /\ call.n \in Nat
  BY EmptySeq DEF ReadElsFirst, StreamInv, Progress, Calls
<1>2. CASE readPastBuffer(stream)
  <2>. DEFINE f == fillBuffer(stream)
  <2>1. /\ Sound(f) /\ Position(f) = Position(stream)
        /\ f.buffer = <<>> <=> Len(f.buffer) = 0
        /\ f.buffer # <<>> => ~f.ungot
    BY <1>1, <1>2, Refills
  <2>2. IF Len(f.buffer) = 0 THEN Throws(f) ELSE Goes(f, data, "els")
    BY <1>2 DEF ReadElsFirst
  <2>. HIDE DEF f
  <2>3. Position(f) = Position(stream) + 0
    BY <2>1, NoneMore
  <2>4. CASE Len(f.buffer) = 0
    BY <2>1, <2>2, <2>3, <2>4, ThrowStep DEF CursorStep
  <2>5. CASE Len(f.buffer) # 0
    <3>1. Goes(f, data, "els") /\ ~f.ungot /\ Len(data) < call.n /\ Len(data) <= call.n
      BY <1>1, <2>1, <2>2, <2>5
    <3>. QED
      BY <1>1, <2>1, <3>1, StaysStep DEF CursorStep
  <2>. QED
    BY <2>4, <2>5
<1>3. CASE ~readPastBuffer(stream) /\ AtUngot(stream)
  <2>. DEFINE g == get(stream)
              P == Position(stream)
  <2>1. /\ Sound(g) /\ CanUnget(g) /\ Position(g) = P + 1
        /\ Element(stream) = input[P + 1] /\ P \in 0..(Len(input) - 1)
    BY <1>1, <1>3, Gets
  <2>2. Element(stream) = stream.ungot_el
    BY <1>3 DEF Element
  <2>3. Goes(g, <<stream.ungot_el>>, "els")
    BY <1>3 DEF ReadElsFirst
  <2>4. P \in Nat /\ P + 1 <= Len(input)
    <3>1. Len(input) \in Nat
      BY <1>1, Positions
    <3>. QED
      BY ONLY <2>1, <3>1
  <2>. HIDE DEF g
  <2>5. /\ stream' = g /\ data' = <<input[P + 1]>> /\ call' = [call EXCEPT !.pc = "els"]
        /\ UNCHANGED <<Peer, result, may_unget>>
    BY <2>1, <2>2, <2>3 DEF Goes
  <2>6. /\ <<input[P + 1]>> \in Seq(Els) /\ Len(<<input[P + 1]>>) = 1
        /\ <<input[P + 1]>> = SubSeq(input, P + 1, P + 1)
    BY <1>1, <2>4, NextOne
  <2>7. /\ call' \in Calls /\ call'.pc = "els" /\ call'.kind = call.kind /\ call'.n = call.n
    BY <1>1, <2>5 DEF Calls
  <2>8. ~g.ungot /\ Len(<<input[P + 1]>>) <= call.n
    BY <1>1, <2>1, <2>6 DEF CanUnget
  <2>9. StreamInv'
    BY <1>1, <2>1, <2>5, <2>6, <2>7, <2>8, GoesOn
  <2>10. data' = data \o SubSeq(input, P + 1, P + 1)
    BY <1>1, <2>5, <2>6, ConcatEmptySeq
  <2>11. AsCursor!CursorNext /\ AsCursor!Collect(1)
    BY <2>1, <2>5, <2>10, IsCollect
  <2>12. GoesBehind(1, "els")
    BY <2>5, <2>11 DEF GoesBehind
  <2>. QED
    BY <2>9, <2>11, <2>12 DEF CursorStep
<1>4. CASE ~readPastBuffer(stream) /\ ~AtUngot(stream)
  <2>1. Goes(stream, data, "els")
    BY <1>4 DEF ReadElsFirst
  <2>2. ~stream.ungot /\ Len(data) < call.n /\ Len(data) <= call.n
    BY <1>1, <1>4 DEF AtUngot, Sound
  <2>. QED
    BY <1>1, <2>1, <2>2, StaysStep DEF CursorStep
<1>. QED
  BY <1>2, <1>3, <1>4

(* Elements collected behind what there is.                                *)
LEMMA Collects ==
    ASSUME StreamInv, NEW n \in Nat, Position(stream) + n <= Len(input),
           NEW els \in Seq(Els), Len(els) = n,
           \A i \in 1..n : els[i] = input[Position(stream) + i]
    PROVE  /\ data \o els = data \o SubSeq(input, Position(stream) + 1, Position(stream) + n)
           /\ data \o els \in Seq(Els) /\ Len(data \o els) = Len(data) + n
           /\ Len(data) \in Nat
<1>1. PeerTypes /\ data \in Seq(Els) /\ Position(stream) \in Nat
  BY NoneMore DEF StreamInv
<1>2. els = SubSeq(input, Position(stream) + 1, Position(stream) + n)
  BY <1>1, IsStretch
<1>. QED
  BY <1>1, <1>2, ConcatProperties, LenProperties

(* readEls takes what is asked for, or everything and fills again.         *)
LEMMA ReadElsMoreStep ==
    ASSUME StreamInv, ReadElsMore
    PROVE  /\ StreamInv' /\ CursorStep
           /\ \/ Failed
              \/ \E n \in Nat : GoesBehind(n, "els")
              \/ \E n \in Nat : ReturnsBehind(n) /\ Len(data) + n = call.n
<1>. DEFINE left == call.n - Len(data)
            r == Remaining(stream)
            P == Position(stream)
<1>1. /\ PeerTypes /\ Sound(stream) /\ data \in Seq(Els) /\ call.pc = "els"
      /\ call \in Calls /\ call.n \in Nat /\ ~stream.ungot /\ Len(data) <= call.n
      /\ Len(data) < call.n \/ CanUnget(stream)
      /\ may_unget \in BOOLEAN /\ call.n >= 1
  BY DEF ReadElsMore, StreamInv, Progress, Calls
<1>2. /\ r \in Seq(Els) /\ Len(r) \in Nat /\ P + Len(r) = stream.taken
      /\ stream.taken <= Len(input)
      /\ \A i \in 1..Len(r) : r[i] = input[P + i]
  BY <1>1, Remains
<1>3. P \in Nat /\ Len(data) \in Nat /\ left \in Nat
  BY <1>1, NoneMore, LenProperties
<1>4. IF left <= Len(r)
      THEN Returns([stream EXCEPT !.cursor = @ + left], data \o SubSeq(r, 1, left))
      ELSE IF Len(fillBuffer(stream).buffer) = 0 THEN Throws(fillBuffer(stream))
           ELSE Goes(fillBuffer(stream), data \o r, "els")
  BY DEF ReadElsMore, Remaining
<1>5. CASE left <= Len(r)
  <2>. DEFINE x == [stream EXCEPT !.cursor = @ + left]
              els == SubSeq(r, 1, left)
  <2>1. left \in 0..Len(r)
    BY ONLY <1>2, <1>3, <1>5
  <2>2. /\ Sound(x) /\ Position(x) = P + left
        /\ left > 0 => CanUnget(x)
        /\ CanUnget(stream) => CanUnget(x)
        /\ els \in Seq(Els) /\ Len(els) = left
        /\ \A i \in 1..left : els[i] = input[P + i]
    BY <1>1, <2>1, PassesSome
  <2>3. Returns(x, data \o els)
    BY <1>4, <1>5
  <2>. HIDE DEF x, els
  <2>4. CanUnget(x)
    <3>1. left > 0 \/ CanUnget(stream)
      BY <1>1, <1>3
    <3>. QED
      BY <2>2, <3>1
  <2>5. P + left <= Len(input)
    BY <1>1, <2>2, Positions
  <2>. HIDE DEF left
  <2>6. data \o els = data \o SubSeq(input, P + 1, P + left)
    BY <1>3, <2>2, <2>5, Collects
  <2>7. /\ stream' = x /\ result' = data \o els /\ data' = <<>>
        /\ call' = [call EXCEPT !.pc = "idle"] /\ may_unget' \in BOOLEAN /\ UNCHANGED Peer
    BY <1>1, <2>3 DEF Returns
  <2>8. StreamInv'
    BY <2>2, <2>4, <2>7, Ends
  <2>9. AsCursor!CursorNext /\ AsCursor!Deliver(left)
    BY <1>3, <2>2, <2>6, <2>7, IsDeliver
  <2>10. ReturnsBehind(left)
    BY <2>7, <2>9 DEF ReturnsBehind
  <2>11. Len(data) + left = call.n
    BY ONLY <1>1, <1>3 DEF left
  <2>. QED
    BY <1>3, <2>8, <2>9, <2>10, <2>11 DEF CursorStep
<1>6. CASE ~(left <= Len(r))
  <2>. DEFINE f == fillBuffer(stream)
  <2>1. /\ Sound(f) /\ Position(f) = stream.taken /\ ~f.ungot
    BY <1>1, Refills
  <2>2. IF Len(f.buffer) = 0 THEN Throws(f) ELSE Goes(f, data \o r, "els")
    BY <1>4, <1>6
  <2>. HIDE DEF f
  <2>3. Position(f) = P + Len(r)
    BY <1>2, <2>1
  <2>4. CASE Len(f.buffer) = 0
    BY <1>2, <2>1, <2>2, <2>3, <2>4, ThrowStep DEF CursorStep
  <2>5. CASE Len(f.buffer) # 0
    <3>. DEFINE els == data \o r
    <3>1. /\ els = data \o SubSeq(input, P + 1, P + Len(r))
          /\ els \in Seq(Els) /\ Len(els) = Len(data) + Len(r)
      BY <1>2, Collects
    <3>2. /\ stream' = f /\ data' = els /\ call' = [call EXCEPT !.pc = "els"]
          /\ UNCHANGED <<Peer, result, may_unget>>
      BY <2>2, <2>5 DEF Goes
    <3>. HIDE DEF els
    <3>3. Len(els) < call.n /\ Len(els) <= call.n
      BY <1>1, <1>2, <1>3, <1>6, <3>1, SMTT(60)
    <3>4. /\ call' \in Calls /\ call'.pc = "els" /\ call'.kind = call.kind /\ call'.n = call.n
      BY <1>1, <3>2 DEF Calls
    <3>5. StreamInv'
      BY <1>1, <2>1, <3>1, <3>2, <3>3, <3>4, GoesOn
    <3>6. AsCursor!CursorNext /\ AsCursor!Collect(Len(r))
      BY <1>2, <2>1, <2>3, <3>1, <3>2, IsCollect
    <3>7. GoesBehind(Len(r), "els")
      BY <3>2, <3>6 DEF GoesBehind
    <3>. QED
      BY <1>2, <3>5, <3>6, <3>7 DEF CursorStep
  <2>. QED
    BY <2>4, <2>5
<1>. QED
  BY <1>5, <1>6

(* streamCollect looks at the next element and takes it, returns or throws.*)
LEMMA CollectTakesStep ==
    ASSUME StreamInv, CollectTakes
    PROVE  /\ StreamInv' /\ CursorStep
           /\ \/ Failed
              \/ /\ Position(stream) + 1 <= Len(input)
                 /\ IF Verdict = "not_good" THEN ReturnsBehind(0)
                    ELSE /\ AsCursor!Collect(1)
                         /\ call' = [call EXCEPT !.pc = "good", !.criteria = Verdict]
<1>. DEFINE p == peek(stream)
            P == Position(stream)
            state == nextState(Element(p))
<1>1. /\ PeerTypes /\ Sound(stream) /\ data \in Seq(Els) /\ call.pc = "peek"
      /\ call \in Calls /\ call.kind \in {"until", "size"} /\ may_unget \in BOOLEAN
      /\ may_unget \/ data # <<>> => CanUnget(stream)
  BY DEF CollectTakes, StreamInv, Progress, Calls
<1>2. /\ Sound(p) /\ Position(p) = P /\ (~p.bad => ~readPastBuffer(p))
      /\ CanUnget(stream) => CanUnget(p)
  BY <1>1, Peeks
<1>3. P \in Nat /\ Position(p) = P + 0
  BY <1>2, NoneMore
<1>4. IF p.bad \/ LimitPassed THEN Throws(p)
      ELSE IF state = "not_good" THEN Returns(p, data)
      ELSE /\ stream' = get(p)
           /\ data' = Append(data, Element(p))
           /\ call' = [call EXCEPT !.pc = "good", !.criteria = state]
           /\ UNCHANGED <<Peer, result, may_unget>>
  BY DEF CollectTakes
<1>5. state \in {"good", "at_last", "not_good"}
  <2>1. call.criteria \in {"good", "at_last"}
    BY <1>1 DEF Calls
  <2>. QED
    BY <2>1 DEF nextState, untilMatchNext, untilSizeNext
<1>. HIDE DEF p, state
<1>6. CASE p.bad \/ LimitPassed
  BY <1>2, <1>3, <1>4, <1>6, ThrowStep DEF CursorStep
<1>7. ASSUME ~p.bad
      PROVE  /\ Sound(get(p)) /\ CanUnget(get(p)) /\ Position(get(p)) = P + 1
             /\ Element(p) = input[P + 1] /\ P \in 0..(Len(input) - 1)
             /\ P + 1 <= Len(input) /\ state = Verdict
  <2>1. /\ Sound(get(p)) /\ CanUnget(get(p)) /\ Position(get(p)) = Position(p) + 1
        /\ Element(p) = input[Position(p) + 1] /\ Position(p) \in 0..(Len(input) - 1)
    BY <1>1, <1>2, <1>7, Gets
  <2>2. Len(input) \in Nat
    BY <1>1, Positions
  <2>3. P + 1 <= Len(input)
    BY ONLY <1>2, <2>1, <2>2
  <2>4. state = Verdict
    BY <1>2, <2>1 DEF state, Verdict, Following
  <2>. QED
    BY <1>2, <2>1, <2>3, <2>4
<1>8. CASE ~(p.bad \/ LimitPassed) /\ state = "not_good"
  <2>1. /\ stream' = p /\ result' = data /\ data' = <<>> /\ UNCHANGED Peer
        /\ call' = [call EXCEPT !.pc = "idle"] /\ may_unget' = (may_unget \/ data # <<>>)
    BY <1>4, <1>8 DEF Returns
  <2>2. StreamInv'
    BY <1>1, <1>2, <2>1, Ends
  <2>3. result' = data \o SubSeq(input, P + 1, P + 0)
    BY <2>1, NoneMore
  <2>4. AsCursor!CursorNext /\ AsCursor!Deliver(0)
    BY <1>2, <1>3, <2>1, <2>3, IsDeliver
  <2>5. ReturnsBehind(0)
    BY <2>1, <2>4 DEF ReturnsBehind
  <2>. QED
    BY <1>8, <1>7, <2>2, <2>4, <2>5 DEF CursorStep
<1>9. CASE ~(p.bad \/ LimitPassed) /\ state # "not_good"
  <2>. DEFINE g == get(p)
  <2>1. /\ Sound(g) /\ CanUnget(g) /\ Position(g) = P + 1
        /\ Element(p) = input[P + 1] /\ P \in 0..(Len(input) - 1)
    BY <1>9, <1>7
  <2>2. P \in Nat /\ P + 1 <= Len(input)
    BY <1>3, <1>9, <1>7
  <2>3. /\ stream' = g /\ data' = Append(data, input[P + 1])
        /\ call' = [call EXCEPT !.pc = "good", !.criteria = state]
        /\ UNCHANGED <<Peer, result, may_unget>>
    BY <1>4, <1>9, <2>1
  <2>. HIDE DEF g
  <2>4. /\ <<input[P + 1]>> \in Seq(Els) /\ Len(<<input[P + 1]>>) = 1
        /\ <<input[P + 1]>> = SubSeq(input, P + 1, P + 1)
        /\ input[P + 1] \in Els
    BY <1>1, <2>2, NextOne
  <2>5. /\ data' = data \o SubSeq(input, P + 1, P + 1)
        /\ data' \in Seq(Els) /\ data' # <<>>
    <3>. DEFINE e == input[P + 1]
    <3>1. e \in Els /\ data \in Seq(Els) /\ data' = Append(data, e)
          /\ <<e>> = SubSeq(input, P + 1, P + 1)
      BY <1>1, <2>3, <2>4
    <3>. HIDE DEF e, P
    <3>2. /\ Append(data, e) \in Seq(Els) /\ Append(data, e) # <<>>
      BY ONLY <3>1, AppendProperties
    <3>3. Append(data, e) = data \o <<e>>
      BY ONLY <3>1, AppendIsConcat
    <3>. QED
      BY ONLY <3>1, <3>2, <3>3
  <2>6. /\ call' \in Calls /\ call'.pc = "good" /\ call'.kind = call.kind /\ call'.n = call.n
    BY <1>1, <1>5, <1>9, <2>3 DEF Calls
  <2>7. StreamInv'
    BY <1>1, <2>1, <2>3, <2>5, <2>6, GoesOn
  <2>8. AsCursor!CursorNext /\ AsCursor!Collect(1)
    BY <2>1, <2>3, <2>5, IsCollect
  <2>. QED
    BY <1>9, <1>7, <2>2, <2>3, <2>7, <2>8 DEF CursorStep
<1>. QED
  BY <1>6, <1>8, <1>9

(* Between two elements it asks whether there is more.                     *)
LEMMA CollectLooksStep ==
    ASSUME StreamInv, CollectLooks
    PROVE  /\ StreamInv' /\ CursorStep
           /\ \/ GoesBehind(0, "peek")
              \/ ReturnsBehind(0) /\ call.criteria = "at_last"
<1>. DEFINE g == good(stream)
            P == Position(stream)
<1>1. /\ PeerTypes /\ Sound(stream) /\ call.pc = "good" /\ may_unget \in BOOLEAN
      /\ may_unget \/ data # <<>> => CanUnget(stream)
  BY DEF CollectLooks, StreamInv, Progress
<1>2. Sound(g) /\ Position(g) = P /\ (CanUnget(stream) => CanUnget(g))
  BY <1>1, Marks
<1>3. Position(g) = P + 0
  BY <1>2, NoneMore
<1>4. \/ Returns(g, data) /\ call.criteria = "at_last"
      \/ Goes(g, data, "peek")
  BY DEF CollectLooks
<1>. HIDE DEF g
<1>5. CASE Returns(g, data) /\ call.criteria = "at_last"
  <2>1. /\ stream' = g /\ result' = data /\ data' = <<>> /\ UNCHANGED Peer
        /\ call' = [call EXCEPT !.pc = "idle"] /\ may_unget' = (may_unget \/ data # <<>>)
    BY <1>5 DEF Returns
  <2>2. StreamInv'
    BY <1>1, <1>2, <2>1, Ends
  <2>3. result' = data \o SubSeq(input, P + 1, P + 0)
    BY <2>1, NoneMore
  <2>4. AsCursor!CursorNext /\ AsCursor!Deliver(0)
    BY <1>2, <1>3, <2>1, <2>3, IsDeliver
  <2>5. ReturnsBehind(0)
    BY <2>1, <2>4 DEF ReturnsBehind
  <2>. QED
    BY <1>5, <2>2, <2>4, <2>5 DEF CursorStep
<1>6. CASE Goes(g, data, "peek")
  <2>1. StreamInv' /\ AsCursor!CursorNext /\ GoesBehind(0, "peek")
    BY <1>1, <1>2, <1>6, StaysStep
  <2>. QED
    BY <2>1 DEF CursorStep
<1>. QED
  BY <1>4, <1>5, <1>6

(* Nothing of the peer's doing changes what a reader has.                  *)
LEMMA PeerStep ==
    ASSUME StreamInv, Arrive \/ Close
    PROVE  StreamInv' /\ CursorStep
<1>1. /\ PeerTypes' /\ Sound(stream)' /\ UNCHANGED <<input, call, data, result, may_unget>>
      /\ CanUnget(stream) => CanUnget(stream)'
      /\ Position(stream)' = Position(stream) /\ stream'.ungot = stream.ungot
  BY PeerMoves DEF StreamInv
<1>2. StreamInv'
  BY <1>1 DEF StreamInv, Progress
<1>3. UNCHANGED AsCursor!cursor_vars
  BY <1>1 DEF AsCursor!cursor_vars
<1>. QED
  BY <1>2, <1>3 DEF CursorStep

(* Every step at once.                                                     *)
LEMMA StreamStep ==
    ASSUME StreamInv, [EStreamNext]_estream_vars
    PROVE  StreamInv' /\ CursorStep
<1>1. CASE UNCHANGED estream_vars
  <2>1. UNCHANGED Peer /\ stream' = stream /\ UNCHANGED <<call, data, result, may_unget>>
    BY <1>1 DEF estream_vars, Peer
  <2>2. /\ PeerTypes' /\ Sound(stream)' /\ (CanUnget(stream) => CanUnget(stream)')
        /\ Position(stream)' = Position(stream)
    BY <2>1, Carried DEF StreamInv
  <2>3. StreamInv'
    BY <2>1, <2>2 DEF StreamInv, Progress
  <2>4. UNCHANGED AsCursor!cursor_vars
    BY <2>1, <2>2 DEF AsCursor!cursor_vars, Peer
  <2>. QED
    BY <2>3, <2>4 DEF CursorStep
<1>. QED
  BY <1>1, PeerStep, GetStep, PeekStep, GoodStep, UngetStep, CallStep,
     ReadElsFirstStep, ReadElsMoreStep, CollectTakesStep, CollectLooksStep
  DEF EStreamNext, ReaderCalls, ReaderSteps

(* Nothing is read at first, and the buffer in memory is the whole input.  *)
LEMMA StreamInitially ==
    ASSUME EStreamInit
    PROVE  StreamInv /\ AsCursor!CursorInit
<1>1. /\ input \in Inputs /\ memory \in BOOLEAN /\ ended = memory
      /\ arrived = IF memory THEN Len(input) ELSE 0
      /\ call = NoCall /\ data = <<>> /\ result = <<>> /\ may_unget = FALSE
      /\ stream = [buffer |-> IF memory THEN input ELSE <<>>, cursor |-> 0,
                   ungot |-> FALSE, ungot_el |-> 0, bad |-> FALSE, taken |-> arrived]
  BY DEF EStreamInit
<1>2. input \in Seq(Els) /\ Len(input) \in Nat /\ \A k \in 1..Len(input) : input[k] \in Els
  <2>1. input \in Seq({input[k] : k \in DOMAIN input})
    BY <1>1, EStreamAssumption
  <2>2. {input[k] : k \in DOMAIN input} \subseteq Els
    BY <1>1 DEF Els
  <2>3. input \in Seq(Els)
    BY <2>1, <2>2, SeqMonotonic
  <2>. QED
    BY <2>3, LenProperties, ElementOfSeq
<1>3. arrived \in 0..Len(input) /\ PeerTypes
  BY <1>1, <1>2 DEF PeerTypes
<1>. DEFINE b == IF memory THEN input ELSE <<>>
<1>4. b \in Seq(Els) /\ Len(b) = arrived /\ (\A k \in 1..Len(b) : b[k] = input[k])
  BY <1>1, <1>2, EmptySeq
<1>5. /\ stream.buffer = b /\ stream.cursor = 0 /\ ~stream.ungot /\ stream.taken = arrived
  BY <1>1
<1>6. stream \in Streams
  <2>1. b \in Buffers /\ arrived \in Nat
    BY <1>3, <1>4 DEF Buffers
  <2>. HIDE DEF b
  <2>. QED
    BY <1>1, <2>1 DEF Streams, b
<1>. HIDE DEF b
<1>7. Passed(stream) = 0 /\ Position(stream) = 0
  BY <1>3, <1>4, <1>5 DEF Passed, Position, AtUngot
<1>8. Sound(stream)
  <2>1. \A k \in 1..Len(b) : b[k] = input[0 + k]
    BY <1>4
  <2>. QED
    BY <1>3, <1>4, <1>5, <1>6, <1>7, <2>1 DEF Sound, Buffered
<1>9. call \in Calls /\ Progress
  BY <1>1 DEF NoCall, Calls, Progress
<1>10. StreamInv
  BY <1>1, <1>3, <1>8, <1>9, EmptySeq DEF StreamInv
<1>. QED
  BY <1>1, <1>7, <1>10 DEF AsCursor!CursorInit

-----------------------------------------------------------------------------
(* What a call reads. *)

(* The least element of a set, when it is known.                           *)
LEMMA LeastIs ==
    ASSUME NEW S \in SUBSET Int, NEW m \in S, \A y \in S : m <= y
    PROVE  Min(S) = m
<1>1. /\ Min(S) \in S
      /\ \A y \in S : Min(S) <= y
  BY DEF Min
<1>2. Min(S) \in Int /\ m \in Int /\ Min(S) <= m /\ m <= Min(S)
  BY <1>1
<1>. QED
  BY ONLY <1>2

(* What a call in progress has, by index.                                  *)
LEMMA CollectedTypes ==
    ASSUME StreamInv, Collected, ~Idle
    PROVE  /\ PeerTypes /\ data \in Seq(Els) /\ Len(data) \in Nat /\ call \in Calls
           /\ call.start \in Nat /\ call.n \in Nat /\ Len(input) \in Nat
           /\ Position(stream) = call.start + Len(data)
           /\ Position(stream) \in Nat /\ Position(stream) <= Len(input)
           /\ \A i \in 1..Len(data) : data[i] = input[call.start + i]
<1>1. PeerTypes /\ data \in Seq(Els) /\ call \in Calls /\ Sound(stream)
  BY DEF StreamInv
<1>2. call.start \in Nat /\ call.n \in Nat
  BY <1>1 DEF Calls
<1>3. Position(stream) \in 0..Len(input) /\ Len(input) \in Nat
  BY <1>1, Positions
<1>. QED
  BY <1>1, <1>2, <1>3, LenProperties DEF Collected

(* The next n elements behind them are the next n behind the start.        *)
LEMMA Behind ==
    ASSUME StreamInv, Collected, ~Idle, NEW n \in Nat, Position(stream) + n <= Len(input),
           NEW els, els = data \o SubSeq(input, Position(stream) + 1, Position(stream) + n)
    PROVE  /\ els \in Seq(Els) /\ Len(els) = Len(data) + n
           /\ \A i \in 1..Len(data) : els[i] = data[i]
           /\ \A i \in 1..Len(els) : els[i] = input[call.start + i]
           /\ els = SubSeq(input, call.start + 1, call.start + Len(els))
<1>. DEFINE P == Position(stream)
            q == SubSeq(input, P + 1, P + n)
<1>1. /\ PeerTypes /\ data \in Seq(Els) /\ Len(data) \in Nat
      /\ call.start \in Nat /\ Len(input) \in Nat
      /\ P = call.start + Len(data) /\ P \in Nat
      /\ \A i \in 1..Len(data) : data[i] = input[call.start + i]
  BY CollectedTypes
<1>2. q \in Seq(Els) /\ Len(q) = n /\ \A i \in 1..n : q[i] = input[P + i]
  BY <1>1, Stretch
<1>3. els = data \o q
  OBVIOUS
<1>. HIDE DEF q, P
<1>4. /\ els \in Seq(Els) /\ Len(els) = Len(data) + n
      /\ \A i \in 1..(Len(data) + n) :
            els[i] = IF i <= Len(data) THEN data[i] ELSE q[i - Len(data)]
  <2>1. data \in Seq(Els) /\ q \in Seq(Els) /\ Len(q) = n
    BY <1>1, <1>2
  <2>2. /\ data \o q \in Seq(Els) /\ Len(data \o q) = Len(data) + Len(q)
        /\ \A i \in 1..(Len(data) + Len(q)) :
              (data \o q)[i] = IF i <= Len(data) THEN data[i] ELSE q[i - Len(data)]
    BY ONLY <2>1, ConcatProperties
  <2>. QED
    BY ONLY <1>3, <2>1, <2>2
<1>5. ASSUME NEW i \in 1..Len(els) PROVE els[i] = input[call.start + i]
  <2>1. i \in 1..(Len(data) + n)
    BY <1>4
  <2>2. CASE i <= Len(data)
    <3>1. i \in 1..Len(data)
      BY ONLY <1>1, <2>1, <2>2
    <3>. QED
      BY <1>1, <1>4, <2>1, <2>2, <3>1
  <2>3. CASE ~(i <= Len(data))
    <3>1. i - Len(data) \in 1..n /\ P + (i - Len(data)) = call.start + i
      BY ONLY <1>1, <2>1, <2>3
    <3>. QED
      BY <1>2, <1>4, <2>1, <2>3, <3>1
  <2>. QED
    BY <2>2, <2>3
<1>6. ASSUME NEW i \in 1..Len(data) PROVE els[i] = data[i]
  <2>1. i \in 1..(Len(data) + n) /\ i <= Len(data)
    BY ONLY <1>1, <1>6
  <2>. QED
    BY <1>4, <2>1
<1>7. Len(els) \in Nat /\ call.start + Len(els) <= Len(input)
  <2>1. Len(els) = Len(data) + n /\ P + n <= Len(input)
    BY <1>4 DEF P
  <2>. QED
    BY ONLY <1>1, <2>1
<1>8. els = SubSeq(input, call.start + 1, call.start + Len(els))
  BY <1>1, <1>4, <1>5, <1>7, IsStretch
<1>. QED
  BY <1>4, <1>5, <1>6, <1>8

(* A call that goes on has collected what is behind its start.             *)
LEMMA StaysCollected ==
    ASSUME StreamInv, Collected, ~Idle, NEW n \in Nat, AsCursor!Collect(n),
           call'.start = call.start
    PROVE  /\ Collected' /\ UNCHANGED input
           /\ data' \in Seq(Els) /\ Len(data') = Len(data) + n
           /\ \A i \in 1..Len(data) : data'[i] = data[i]
           /\ \A i \in 1..Len(data') : data'[i] = input[call.start + i]
<1>1. /\ Position(stream) + n <= Len(input) /\ Position(stream)' = Position(stream) + n
      /\ data' = data \o SubSeq(input, Position(stream) + 1, Position(stream) + n)
      /\ UNCHANGED input
  BY DEF AsCursor!Collect, AsCursor!NextEls
<1>2. /\ data' \in Seq(Els) /\ Len(data') = Len(data) + n
      /\ \A i \in 1..Len(data) : data'[i] = data[i]
      /\ \A i \in 1..Len(data') : data'[i] = input[call.start + i]
  BY <1>1, Behind
<1>3. Position(stream)' = call'.start + Len(data')
  <2>1. /\ Position(stream) = call.start + Len(data)
        /\ call.start \in Nat /\ Len(data) \in Nat
    BY CollectedTypes
  <2>. QED
    BY <1>1, <1>2, <2>1
<1>. QED
  BY <1>1, <1>2, <1>3 DEF Collected

(* A call that returns returns what is behind its start.                   *)
LEMMA ReturnsCollected ==
    ASSUME StreamInv, Collected, ~Idle, NEW n \in Nat, AsCursor!Deliver(n)
    PROVE  /\ result' \in Seq(Els) /\ Len(result') = Len(data) + n
           /\ result' = SubSeq(input, call.start + 1, call.start + Len(result'))
           /\ Position(stream)' = call.start + Len(result')
           /\ UNCHANGED input
<1>1. /\ Position(stream) + n <= Len(input) /\ Position(stream)' = Position(stream) + n
      /\ result' = data \o SubSeq(input, Position(stream) + 1, Position(stream) + n)
      /\ UNCHANGED input
  BY DEF AsCursor!Deliver, AsCursor!NextEls
<1>2. /\ result' \in Seq(Els) /\ Len(result') = Len(data) + n
      /\ result' = SubSeq(input, call.start + 1, call.start + Len(result'))
  BY <1>1, Behind
<1>3. /\ Position(stream) = call.start + Len(data)
      /\ call.start \in Nat /\ Len(data) \in Nat
  BY CollectedTypes
<1>4. Position(stream)' = call.start + Len(result')
  <2>1. /\ Position(stream)' = Position(stream) + n /\ Len(result') = Len(data) + n
    BY <1>1, <1>2
  <2>. QED
    BY ONLY <1>3, <2>1
<1>. QED
  BY <1>1, <1>2, <1>4

(* The first match behind the start of a call.                             *)
LEMMA Matches ==
    ASSUME PeerTypes, NEW c, c.start \in Nat, NEW m \in Nat, m >= 1,
           c.start + m <= Len(input), input[c.start + m] \in c.until,
           \A i \in 1..(m - 1) : input[c.start + i] \notin c.until
    PROVE  FirstMatch(c) # {} /\ Min(FirstMatch(c)) = c.start + m
<1>. DEFINE f == c.start + m
            M == FirstMatch(c)
<1>1. Len(input) \in Nat
  BY InputIsSeq
<1>2. f \in (c.start + 1)..Len(input)
  BY <1>1
<1>3. f \in M /\ M \in SUBSET Int
  BY <1>2 DEF FirstMatch
<1>4. ASSUME NEW y \in M PROVE f <= y
  <2>1. y \in (c.start + 1)..Len(input) /\ input[y] \in c.until
    BY <1>4 DEF FirstMatch
  <2>2. y < f => y - c.start \in 1..(m - 1) /\ c.start + (y - c.start) = y
    BY <1>1, <2>1
  <2>3. ~(y < f)
    BY <2>1, <2>2
  <2>. QED
    BY ONLY <1>1, <1>2, <2>1, <2>3
<1>. HIDE DEF M
<1>5. Min(M) = f
  BY <1>3, <1>4, LeastIs
<1>. QED
  BY <1>3, <1>5 DEF M

(* A call that throws has nothing to say.                                  *)
LEMMA FailedReads ==
    ASSUME Failed
    PROVE  Reads'
  BY DEF Failed, Reads, Collected, Judged, ReadsUpToMatch, Idle

(* A call that returns what it was asked for.                              *)
LEMMA ReturnsRead ==
    ASSUME StreamInv, Collected, ~Idle, NEW n \in Nat, ReturnsBehind(n), NEW m \in Nat,
           IF call.kind = "until"
           THEN /\ m = Len(data) + n + (IF call.inclusive THEN 0 ELSE 1) /\ m >= 1
                /\ call.start + m <= Len(input) /\ input[call.start + m] \in call.until
                /\ \A i \in 1..(m - 1) : input[call.start + i] \notin call.until
           ELSE Len(data) + n = call.n
    PROVE  Reads'
<1>1. /\ PeerTypes /\ call \in Calls /\ call.start \in Nat /\ call.n \in Nat
      /\ Len(data) \in Nat /\ call.inclusive \in BOOLEAN
  BY CollectedTypes DEF Calls
<1>2. /\ call'.pc = "idle" /\ call'.kind = call.kind /\ call'.start = call.start
      /\ call'.n = call.n /\ call'.until = call.until /\ call'.inclusive = call.inclusive
  BY <1>1 DEF ReturnsBehind, Calls
<1>3. /\ Len(result') = Len(data) + n /\ UNCHANGED input
      /\ result' = SubSeq(input, call.start + 1, call.start + Len(result'))
      /\ Position(stream)' = call'.start + Len(result')
  BY <1>2, ReturnsCollected DEF ReturnsBehind
<1>4. /\ (call.kind = "until" => FirstMatch(call) # {})'
      /\ (result = Wanted(call))'
  <2>1. CASE call.kind = "until"
    <3>1. FirstMatch(call) # {} /\ Min(FirstMatch(call)) = call.start + m
      BY <1>1, <2>1, Matches
    <3>2. FirstMatch(call)' = FirstMatch(call)
      BY <1>2, <1>3 DEF FirstMatch
    <3>. DEFINE last == Min(FirstMatch(call)) - (IF call.inclusive THEN 0 ELSE 1)
    <3>3. last = call.start + Len(result')
      <4>1. m = Len(data) + n + (IF call.inclusive THEN 0 ELSE 1) /\ Len(result') = Len(data) + n
        BY <1>3, <2>1
      <4>2. Min(FirstMatch(call)) = call.start + m /\ Min(FirstMatch(call)) \in Nat
        BY <1>1, <3>1
      <4>. QED
        BY ONLY <1>1, <4>1, <4>2 DEF last
    <3>4. Wanted(call)' = SubSeq(input, call.start + 1, last)
      <4>1. Wanted(call)' = SubSeq(input', call'.start + 1, last')
        BY <1>2, <2>1 DEF Wanted
      <4>2. last' = last
        BY <1>2, <3>2
      <4>. HIDE DEF last
      <4>. QED
        BY <1>2, <1>3, <4>1, <4>2
    <3>5. FirstMatch(call)' # {}
      BY <3>1, <3>2
    <3>. HIDE DEF last
    <3>. QED
      BY <1>3, <3>3, <3>4, <3>5
  <2>2. CASE call.kind # "until"
    BY <1>2, <1>3, <2>2 DEF Wanted
  <2>. QED
    BY <2>1, <2>2
<1>. QED
  BY <1>2, <1>3, <1>4 DEF Reads, Collected, Judged, ReadsUpToMatch, Idle

(* A call that goes on in readEls, or that looks for the next element.     *)
LEMMA GoesReads ==
    ASSUME ReadInv, ~Idle, NEW n \in Nat, NEW pc \in {"els", "peek"}, GoesBehind(n, pc),
           pc = "peek" => n = 0 /\ call.pc = "good"
    PROVE  Reads'
<1>1. StreamInv /\ Collected /\ Judged /\ AsCursor!Collect(n) /\ call \in Calls
  BY DEF ReadInv, Reads, GoesBehind, StreamInv
<1>2. /\ call'.pc = pc /\ call'.kind = call.kind /\ call'.start = call.start
      /\ call'.n = call.n /\ call'.until = call.until /\ call'.inclusive = call.inclusive
      /\ call'.criteria = call.criteria
  BY <1>1 DEF GoesBehind, Calls
<1>3. Collected'
  BY <1>1, <1>2, StaysCollected
<1>4. CASE pc = "els"
  BY <1>2, <1>3, <1>4 DEF Reads, Judged, ReadsUpToMatch, Idle
<1>5. CASE pc = "peek"
  <2>1. data' = data
    BY <1>1, <1>5, NoneMore DEF AsCursor!Collect, AsCursor!NextEls
  <2>2. Judged'
    BY <1>1, <1>2, <1>5, <2>1 DEF Judged
  <2>. QED
    BY <1>2, <1>3, <1>5, <2>2 DEF Reads, ReadsUpToMatch, Idle
<1>. QED
  BY <1>4, <1>5

(* A call whose criteria are met by what it has collected returns it.      *)
LEMMA AtLastReads ==
    ASSUME ReadInv, call.pc \in {"peek", "good"}, call.criteria = "at_last",
           ReturnsBehind(0)
    PROVE  Reads'
<1>1. StreamInv /\ Collected /\ Judged /\ ~Idle /\ call.kind \in {"until", "size"}
  BY DEF ReadInv, Reads, StreamInv, Progress, Idle
<1>2. /\ Len(data) \in Nat /\ Position(stream) = call.start + Len(data)
      /\ Position(stream) <= Len(input)
      /\ \A i \in 1..Len(data) : data[i] = input[call.start + i]
      /\ data = <<>> <=> Len(data) = 0
  BY <1>1, CollectedTypes, EmptySeq
<1>3. CASE call.kind = "until"
  <2>1. /\ call.inclusive /\ data # <<>> /\ data[Len(data)] \in call.until
        /\ \A i \in 1..(Len(data) - 1) : data[i] \notin call.until
    BY <1>1, <1>3 DEF Judged
  <2>2. Len(data) >= 1 /\ input[call.start + Len(data)] \in call.until
    BY <1>2, <2>1
  <2>3. \A i \in 1..(Len(data) - 1) : input[call.start + i] \notin call.until
    BY <1>2, <2>1
  <2>4. Len(data) = Len(data) + 0 + (IF call.inclusive THEN 0 ELSE 1)
    BY <1>2, <2>1
  <2>. QED
    BY <1>1, <1>2, <1>3, <2>2, <2>3, <2>4, ReturnsRead
<1>4. CASE call.kind = "size"
  <2>1. Len(data) + 0 = call.n
    BY <1>1, <1>2, <1>4 DEF Judged
  <2>. QED
    BY <1>1, <1>2, <1>4, <2>1, ReturnsRead
<1>. QED
  BY <1>1, <1>3, <1>4

(* A call whose criteria do not want the next element returns.             *)
LEMMA NotGoodReads ==
    ASSUME ReadInv, call.pc = "peek", Position(stream) + 1 <= Len(input),
           Verdict = "not_good", ReturnsBehind(0)
    PROVE  Reads'
<1>1. /\ StreamInv /\ Collected /\ Judged /\ ~Idle /\ call.kind \in {"until", "size"}
      /\ call.criteria \in {"good", "at_last"} /\ call.inclusive \in BOOLEAN
  BY DEF ReadInv, Reads, StreamInv, Progress, Idle, Calls
<1>2. /\ Len(data) \in Nat /\ Position(stream) = call.start + Len(data)
      /\ call.start \in Nat /\ call.n \in Nat
      /\ \A i \in 1..Len(data) : data[i] = input[call.start + i]
  BY <1>1, CollectedTypes
<1>3. CASE call.criteria = "at_last"
  BY <1>3, AtLastReads
<1>4. CASE call.criteria = "good" /\ call.kind = "until"
  <2>1. Following \in call.until /\ ~call.inclusive
    BY <1>1, <1>4 DEF Verdict, nextState, untilMatchNext
  <2>2. \A i \in 1..Len(data) : data[i] \notin call.until
    BY <1>1, <1>4 DEF Judged
  <2>. DEFINE m == Len(data) + 1
  <2>3. /\ m \in Nat /\ m >= 1 /\ m - 1 = Len(data) /\ call.start + m = Position(stream) + 1
        /\ m = Len(data) + 0 + (IF call.inclusive THEN 0 ELSE 1)
    BY <1>2, <2>1
  <2>4. input[call.start + m] \in call.until
    BY <2>1, <2>3 DEF Following
  <2>5. \A i \in 1..(m - 1) : input[call.start + i] \notin call.until
    BY <1>2, <2>2, <2>3
  <2>. HIDE DEF m
  <2>. QED
    BY <1>1, <1>4, <2>3, <2>4, <2>5, ReturnsRead
<1>5. CASE call.criteria = "good" /\ call.kind = "size"
  <2>1. call.n - Len(data) <= 0
    BY <1>2, <1>5 DEF Verdict, nextState, untilSizeNext
  <2>2. Len(data) <= call.n
    BY <1>1, <1>5 DEF Judged
  <2>3. Len(data) + 0 = call.n
    BY ONLY <1>2, <2>1, <2>2
  <2>. QED
    BY <1>1, <1>2, <1>5, <2>3, ReturnsRead
<1>. QED
  BY <1>1, <1>3, <1>4, <1>5

(* A call takes the next element when its criteria want it, and they have  *)
(* judged it.                                                              *)
LEMMA TakenReads ==
    ASSUME ReadInv, call.pc = "peek", Verdict # "not_good", AsCursor!Collect(1),
           call' = [call EXCEPT !.pc = "good", !.criteria = Verdict]
    PROVE  Reads'
<1>1. /\ StreamInv /\ Collected /\ Judged /\ ~Idle /\ call.kind \in {"until", "size"}
      /\ call \in Calls /\ call.criteria \in {"good", "at_last"} /\ call.inclusive \in BOOLEAN
  BY DEF ReadInv, Reads, StreamInv, Progress, Idle, Calls
<1>2. /\ call'.pc = "good" /\ call'.kind = call.kind /\ call'.start = call.start
      /\ call'.n = call.n /\ call'.until = call.until /\ call'.inclusive = call.inclusive
      /\ call'.criteria = Verdict
  BY <1>1 DEF Calls
<1>3. /\ Len(data) \in Nat /\ Position(stream) = call.start + Len(data)
      /\ call.start \in Nat /\ call.n \in Nat
  BY <1>1, CollectedTypes
<1>4. /\ Collected' /\ data' \in Seq(Els) /\ Len(data') = Len(data) + 1
      /\ \A i \in 1..Len(data) : data'[i] = data[i]
      /\ \A i \in 1..Len(data') : data'[i] = input[call.start + i]
  BY <1>1, <1>2, StaysCollected
<1>5. /\ data'[Len(data')] = Following /\ Len(data') - 1 = Len(data)
      /\ data' # <<>> /\ Len(data') \in Nat
  <2>1. /\ Len(data') \in 1..Len(data') /\ call.start + Len(data') = Position(stream) + 1
        /\ Len(data') - 1 = Len(data) /\ Len(data') # 0 /\ Len(data') \in Nat
    <3>1. Len(data') = Len(data) + 1
      BY <1>4
    <3>. QED
      BY ONLY <1>3, <3>1
  <2>2. data' # <<>>
    BY <2>1, EmptySeq
  <2>. QED
    BY <1>4, <2>1, <2>2 DEF Following
<1>6. ASSUME call.kind = "until"
      PROVE  /\ Verdict = "good" => \A i \in 1..Len(data') : data'[i] \notin call.until
             /\ Verdict = "at_last" =>
                   /\ call.inclusive /\ data' # <<>> /\ data'[Len(data')] \in call.until
                   /\ \A i \in 1..(Len(data') - 1) : data'[i] \notin call.until
  <2>1. /\ call.criteria = "good"
        /\ Verdict = "good" => Following \notin call.until
        /\ Verdict = "at_last" => Following \in call.until /\ call.inclusive
    BY <1>1, <1>6 DEF Verdict, nextState, untilMatchNext
  <2>2. \A i \in 1..Len(data) : data[i] \notin call.until
    BY <1>1, <1>6, <2>1 DEF Judged
  <2>3. \A i \in 1..Len(data) : data'[i] \notin call.until
    BY <1>4, <2>2
  <2>4. \A i \in 1..Len(data') : i \in 1..Len(data) \/ i = Len(data')
    BY ONLY <1>3, <1>4
  <2>. QED
    BY <1>5, <2>1, <2>3, <2>4
<1>7. ASSUME call.kind = "size"
      PROVE  /\ Len(data') <= call.n
             /\ Verdict = "at_last" => Len(data') = call.n
             /\ Verdict = "good" => call.n = 0 \/ Len(data') < call.n
  <2>1. /\ Len(data) <= call.n
        /\ call.criteria = "at_last" => Len(data) = call.n
    BY <1>1, <1>7 DEF Judged
  <2>2. Verdict = untilSizeNext(call.criteria, call.n - Len(data))
    BY <1>7 DEF Verdict, nextState
  <2>3. /\ call.n - Len(data) > 0
        /\ Verdict = "at_last" => call.n - Len(data) = 1
        /\ Verdict = "good" => call.n - Len(data) # 1
    <3>. DEFINE left == call.n - Len(data)
    <3>1. left \in Int /\ (call.criteria = "at_last" => left = 0)
      BY <1>3, <2>1
    <3>. HIDE DEF left
    <3>2. CASE call.criteria = "at_last"
      <4>1. left = 0
        BY <3>1, <3>2
      <4>2. untilSizeNext(call.criteria, left) = "not_good"
        BY ONLY <3>2, <4>1 DEF untilSizeNext
      <4>. QED
        BY <2>2, <4>2 DEF left
    <3>3. CASE call.criteria = "good"
      <4>1. /\ left = 1 => untilSizeNext(call.criteria, left) = "at_last"
            /\ left > 1 => untilSizeNext(call.criteria, left) = "good"
            /\ left <= 0 => untilSizeNext(call.criteria, left) = "not_good"
        BY ONLY <3>1, <3>3 DEF untilSizeNext
      <4>2. Verdict = untilSizeNext(call.criteria, left)
        BY <2>2 DEF left
      <4>3. left > 0 /\ (Verdict = "at_last" => left = 1) /\ (Verdict = "good" => left # 1)
        BY <3>1, <4>1, <4>2
      <4>. QED
        BY <4>3 DEF left
    <3>. QED
      BY <1>1, <3>2, <3>3
  <2>. QED
    BY ONLY <1>3, <1>4, <2>3
<1>8. Judged'
  BY <1>1, <1>2, <1>6, <1>7 DEF Judged
<1>. QED
  BY <1>2, <1>4, <1>8 DEF Reads, ReadsUpToMatch, Idle

(* Every step at once.                                                     *)
LEMMA ReadsStep ==
    ASSUME ReadInv, [EStreamNext]_estream_vars
    PROVE  ReadInv'
<1>1. StreamInv /\ Collected /\ Judged /\ ReadsUpToMatch /\ StreamInv'
  BY StreamStep DEF ReadInv, Reads
<1>. SUFFICES Reads'
  BY <1>1 DEF ReadInv
<1>2. ASSUME UNCHANGED <<input, call, data, result>>, Position(stream)' = Position(stream)
      PROVE  Reads'
  BY <1>1, <1>2 DEF Reads, Collected, Judged, ReadsUpToMatch, Idle, FirstMatch, Wanted
<1>3. CASE UNCHANGED estream_vars
  BY <1>2, <1>3, Carried DEF estream_vars, Peer, ReadInv, StreamInv
<1>4. CASE Arrive \/ Close
  BY <1>1, <1>2, <1>4, PeerMoves DEF StreamInv
<1>5. CASE CallGood
  <2>1. /\ stream' = good(stream) /\ UNCHANGED <<Peer, call, data, result>>
        /\ Sound(good(stream)) /\ Position(good(stream)) = Position(stream)
    BY <1>1, <1>5, Marks DEF CallGood, StreamInv
  <2>. QED
    BY <1>1, <1>2, <2>1, Carried DEF Peer
<1>6. ASSUME call' = NoCall PROVE Reads'
  BY <1>6 DEF NoCall, Reads, Collected, Judged, ReadsUpToMatch, Idle
<1>7. CASE CallGet \/ CallPeek \/ CallUnget
  BY <1>6, <1>7 DEF CallGet, CallPeek, CallUnget, Simple
<1>8. ASSUME NEW kind, NEW n \in Nat, NEW until, NEW inclusive, NEW pc \in {"els_first", "peek"},
             Begin(kind, n, until, inclusive, pc)
      PROVE  Reads'
  <2>1. /\ data = <<>> /\ Sound(stream) /\ PeerTypes /\ Position(stream) \in Nat
    BY <1>1, <1>8, NoneMore DEF Begin, Idle, StreamInv, Progress
  <2>2. /\ call'.kind = kind /\ call'.n = n /\ call'.pc = pc
        /\ call'.criteria = "good" /\ call'.start = Position(stream)
        /\ stream' = stream /\ UNCHANGED <<Peer, data>>
    BY <1>8 DEF Begin
  <2>3. Position(stream)' = Position(stream) /\ Len(data') = 0
    BY <2>1, <2>2, Carried
  <2>4. Collected'
    BY <2>1, <2>2, <2>3 DEF Collected
  <2>5. Judged'
    BY <1>8, <2>2, <2>3 DEF Judged
  <2>. QED
    BY <2>2, <2>4, <2>5 DEF Reads, ReadsUpToMatch, Idle
<1>9. ASSUME NEW n \in Counts, CallReadEls(n) \/ CallReadSize(n) PROVE Reads'
  BY <1>6, <1>8, <1>9, EStreamAssumption DEF CallReadEls, CallReadSize
<1>10. ASSUME NEW until \in Untils, NEW inclusive \in BOOLEAN, CallReadUntil(until, inclusive)
       PROVE  Reads'
  BY <1>8, <1>10 DEF CallReadUntil
<1>11. CASE ReadElsFirst
  <2>1. ~Idle
    BY <1>11 DEF ReadElsFirst, Idle
  <2>2. Failed \/ \E n \in Nat : GoesBehind(n, "els")
    BY <1>1, <1>11, ReadElsFirstStep
  <2>. QED
    BY <2>1, <2>2, FailedReads, GoesReads
<1>12. CASE ReadElsMore
  <2>1. ~Idle /\ call.kind = "els"
    BY <1>1, <1>12 DEF ReadElsMore, Idle, StreamInv, Progress
  <2>2. \/ Failed
        \/ \E n \in Nat : GoesBehind(n, "els")
        \/ \E n \in Nat : ReturnsBehind(n) /\ Len(data) + n = call.n
    BY <1>1, <1>12, ReadElsMoreStep
  <2>3. ASSUME NEW n \in Nat, ReturnsBehind(n), Len(data) + n = call.n PROVE Reads'
    BY <1>1, <2>1, <2>3, ReturnsRead
  <2>. QED
    BY <2>1, <2>2, <2>3, FailedReads, GoesReads
<1>13. CASE CollectTakes
  <2>1. call.pc = "peek"
    BY <1>13 DEF CollectTakes
  <2>2. \/ Failed
        \/ /\ Position(stream) + 1 <= Len(input)
           /\ IF Verdict = "not_good" THEN ReturnsBehind(0)
              ELSE /\ AsCursor!Collect(1)
                   /\ call' = [call EXCEPT !.pc = "good", !.criteria = Verdict]
    BY <1>1, <1>13, CollectTakesStep
  <2>. QED
    BY <2>1, <2>2, FailedReads, NotGoodReads, TakenReads
<1>14. CASE CollectLooks
  <2>1. call.pc = "good" /\ ~Idle
    BY <1>14 DEF CollectLooks, Idle
  <2>2. \/ GoesBehind(0, "peek")
        \/ ReturnsBehind(0) /\ call.criteria = "at_last"
    BY <1>1, <1>14, CollectLooksStep
  <2>. QED
    BY <2>1, <2>2, GoesReads, AtLastReads
<1>. QED
  BY <1>3, <1>4, <1>5, <1>7, <1>9, <1>10, <1>11, <1>12, <1>13, <1>14
  DEF EStreamNext, ReaderCalls, ReaderSteps

-----------------------------------------------------------------------------
(* The theorems. *)

(* Whatever the peer sends and when, and whatever is called: a stream on a *)
(* descriptor or in memory is a cursor on the input.  A reader gets every  *)
(* element once and in order, across refills and unget().                  *)
THEOREM StreamIsACursor == EStreamSpec => ImplementsCursor
<1>1. EStreamInit => StreamInv /\ AsCursor!CursorInit
  BY StreamInitially
<1>2. StreamInv /\ [EStreamNext]_estream_vars => StreamInv' /\ [AsCursor!CursorNext]_(AsCursor!cursor_vars)
  BY StreamStep DEF CursorStep
<1>. QED
  BY <1>1, <1>2, PTL DEF EStreamSpec, ImplementsCursor, AsCursor!CursorSpec

(* The types of EStream's variables hold in every reachable state.         *)
THEOREM StreamTypesHold == EStreamSpec => []EStreamTypeOK
<1>1. EStreamInit => StreamInv
  BY StreamInitially
<1>2. StreamInv /\ [EStreamNext]_estream_vars => StreamInv'
  BY StreamStep
<1>3. StreamInv => EStreamTypeOK
  <2>. SUFFICES ASSUME StreamInv PROVE EStreamTypeOK
    OBVIOUS
  <2>1. stream.cursor \in 0..Len(stream.buffer) /\ stream.taken \in 0..arrived
    BY Fields, InputIsSeq DEF StreamInv, Sound, Buffered
  <2>2. /\ call.pc \in {"idle", "els_first", "els", "peek", "good"}
        /\ call.criteria \in {"good", "at_last", "not_good"}
    BY DEF StreamInv, Calls
  <2>. QED
    BY <2>1, <2>2 DEF EStreamTypeOK, StreamInv, PeerTypes
<1>. QED
  BY <1>1, <1>2, <1>3, PTL DEF EStreamSpec

(* read(until) and readEls(n), with an operation or without one: what a    *)
(* call returns ends with the first match, or before it, or is n elements; *)
(* and the stream stands right behind it.                                  *)
THEOREM EveryCallReadsUpToItsEnd == EStreamSpec => []ReadsUpToMatch
<1>1. EStreamInit => ReadInv
  <2>. SUFFICES ASSUME EStreamInit PROVE ReadInv
    OBVIOUS
  <2>1. call.pc = "idle" /\ call.kind = "none"
    BY DEF EStreamInit, NoCall
  <2>. QED
    BY <2>1, StreamInitially DEF ReadInv, Reads, Collected, Judged, ReadsUpToMatch, Idle
<1>2. ReadInv /\ [EStreamNext]_estream_vars => ReadInv'
  BY ReadsStep
<1>3. ReadInv => ReadsUpToMatch
  BY DEF ReadInv, Reads
<1>. QED
  BY <1>1, <1>2, <1>3, PTL DEF EStreamSpec
=============================================================================
