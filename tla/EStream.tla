-------------------------------- MODULE EStream --------------------------------
(***************************************************************************)
(* EStream of lib/estream/estream.h: buffered reading from a descriptor or *)
(* from memory, one element of unget() across a refill, and streamCollect, *)
(* which reads up to an element or a number of elements (the criteria of   *)
(* lib/estream/estream_types.h), while the peer sends, stalls or closes.   *)
(***************************************************************************)
EXTENDS Integers, Sequences, FiniteSets, FiniteSetsExt, Criteria

CONSTANTS
    Inputs,      \* sequences a peer may send
    Untils,      \* sets of elements to read up to
    BufferSize,  \* buffer_size of a stream on a descriptor
    Counts,      \* numbers of elements that are asked for
    ElsLimit,    \* ARBITRARY_LIMIT_BECAUSE_DUMB
    UntilLimit,  \* ARBITRARY_SPATIAL_UNTIL_LIMIT
    Thrown       \* the outcome of a call that throws

ASSUME EStreamAssumption ==
    /\ BufferSize \in Nat \ {0} /\ ElsLimit \in Nat /\ UntilLimit \in Nat
    /\ Counts \subseteq Nat
    /\ \A i \in Inputs : Thrown # i /\ i \in Seq({i[k] : k \in DOMAIN i})

VARIABLES
    input,    \* what the peer sends
    arrived,  \* how much of it has arrived
    ended,    \* the peer closed, or the receive timeout of the socket passed
    memory,   \* the stream is on a buffer in memory and has no descriptor
    stream,   \* [buffer, cursor, ungot, ungot_el, bad, taken]
    call,     \* [kind, n, until, inclusive, pc, criteria, start], the last call
    data,     \* what it has collected
    result,   \* what it returned
    may_unget \* an element was consumed and not yet put back

estream_vars ==
    <<input, arrived, ended, memory, stream, call, data, result, may_unget>>

NoCall == [kind |-> "none", n |-> 0, until |-> {}, inclusive |-> TRUE,
           pc |-> "idle", criteria |-> "good", start |-> 0]

EStreamInit ==
    /\ input \in Inputs
    /\ memory \in BOOLEAN
    /\ ended = memory
    /\ arrived = IF memory THEN Len(input) ELSE 0
    /\ stream = [buffer |-> IF memory THEN input ELSE <<>>, cursor |-> 0,
                 ungot |-> FALSE, ungot_el |-> 0, bad |-> FALSE, taken |-> arrived]
    /\ call = NoCall /\ data = <<>> /\ result = <<>> /\ may_unget = FALSE

Peer == <<input, arrived, ended, memory>>

-----------------------------------------------------------------------------
(* The peer.                                                               *)

Arrive == /\ ~ended /\ arrived < Len(input)
          /\ \E n \in (arrived + 1)..Len(input) : arrived' = n
          /\ UNCHANGED <<input, ended, memory, stream, call, data, result, may_unget>>

Close == /\ ~ended /\ ended' = TRUE
         /\ UNCHANGED <<input, arrived, memory, stream, call, data, result, may_unget>>

-----------------------------------------------------------------------------
(* The stream.                                                             *)

readPastBuffer(s) == s.cursor >= Len(s.buffer)

(* poll() does not wait: a stream whose next element has not arrived yet   *)
(* is bad from then on.  A closed one is readable.                         *)
Readable(s) == ~memory /\ (arrived > s.taken \/ ended)
good(s) == [s EXCEPT !.bad = @ \/ (readPastBuffer(s) /\ ~Readable(s))]

fillBuffer(s) ==
    LET n == Min({BufferSize, arrived - s.taken})
    IN  IF ~memory /\ n > 0
        THEN [s EXCEPT !.cursor = 0, !.taken = @ + n,
                       !.buffer = SubSeq(input, s.taken + 1, s.taken + n)]
        ELSE [s EXCEPT !.cursor = 0, !.buffer = <<>>, !.bad = TRUE]

(* Mutation: the end of the stream is waited out, too.                     *)
CanFillOpen(s) == memory \/ arrived > s.taken

(* read() waits.                                                           *)
CanFill(s) == memory \/ arrived > s.taken \/ ended

(* Mutation: the last element before a refill is not kept.                 *)
SavedNot(s) == s

Saved(s) == IF s.cursor = 0 THEN s
            ELSE [s EXCEPT !.ungot_el = s.buffer[s.cursor]]

(* The stream behind peek(): bad when it threw.                            *)
peek(s) == LET g == good(s)
           IN  IF ~g.bad /\ readPastBuffer(g) THEN fillBuffer(Saved(g)) ELSE g

AtUngot(s) == s.cursor = 0 /\ s.ungot
Element(s) == IF AtUngot(s) THEN s.ungot_el ELSE s.buffer[s.cursor + 1]
get(s) == IF AtUngot(s) THEN [s EXCEPT !.ungot = FALSE]
          ELSE [s EXCEPT !.cursor = @ + 1]
unget(s) == IF s.cursor = 0 THEN [s EXCEPT !.ungot = TRUE]
            ELSE [s EXCEPT !.cursor = @ - 1]

Position(s) == s.taken - (Len(s.buffer) - s.cursor) - (IF AtUngot(s) THEN 1 ELSE 0)

-----------------------------------------------------------------------------
(* Calls that end at once.                                                 *)

Idle == call.pc = "idle"

Simple(s, returned, consumed) ==
    /\ stream' = s
    /\ result' = IF s.bad THEN Thrown ELSE returned
    /\ may_unget' = (~s.bad /\ consumed)
    /\ call' = NoCall
    /\ UNCHANGED <<Peer, data>>

CallGet ==
    LET s == peek(stream)
    IN  /\ Idle
        /\ IF s.bad THEN Simple(s, Thrown, FALSE)
           ELSE Simple(get(s), <<Element(s)>>, TRUE)

CallPeek ==
    LET s == peek(stream)
    IN  /\ Idle
        /\ stream' = s
        /\ result' = IF s.bad THEN Thrown ELSE <<Element(s)>>
        /\ call' = NoCall
        /\ UNCHANGED <<Peer, data, may_unget>>

CallGood == /\ Idle
            /\ stream' = good(stream) /\ stream' # stream
            /\ UNCHANGED <<Peer, call, data, result, may_unget>>

(* A second unget() in a row is the caller's error, as one before anything *)
(* was read: only one element survives a refill.                           *)
CallUnget == /\ Idle /\ may_unget
             /\ stream' = unget(stream)
             /\ may_unget' = FALSE
             /\ call' = NoCall /\ result' = <<>>
             /\ UNCHANGED <<Peer, data>>

-----------------------------------------------------------------------------
(* readEls without an operation.                                           *)

Begin(kind, n, until, inclusive, pc) ==
    /\ Idle
    /\ call' = [kind |-> kind, n |-> n, until |-> until, inclusive |-> inclusive,
                pc |-> pc, criteria |-> "good", start |-> Position(stream)]
    /\ result' = <<>>
    /\ UNCHANGED <<Peer, stream, data, may_unget>>

CallReadEls(n) ==
    IF n \in 1..ElsLimit THEN Begin("els", n, {}, TRUE, "els_first")
    ELSE /\ Idle /\ result' = Thrown /\ call' = NoCall
         /\ UNCHANGED <<Peer, stream, data, may_unget>>

Returns(s, els) ==
    /\ stream' = s
    /\ result' = els /\ data' = <<>>
    /\ call' = [call EXCEPT !.pc = "idle"]
    /\ may_unget' = (may_unget \/ els # <<>>)
    /\ UNCHANGED Peer

Throws(s) ==
    /\ stream' = s
    /\ result' = Thrown /\ data' = <<>>
    /\ call' = [call EXCEPT !.pc = "idle"]
    /\ may_unget' = FALSE
    /\ UNCHANGED Peer

Goes(s, els, pc) ==
    /\ stream' = s /\ data' = els
    /\ call' = [call EXCEPT !.pc = pc]
    /\ UNCHANGED <<Peer, result, may_unget>>

ReadElsFirst ==
    /\ call.pc = "els_first"
    /\ IF readPastBuffer(stream)
       THEN /\ CanFill(stream)
            /\ LET s == fillBuffer(stream)
               IN  IF Len(s.buffer) = 0 THEN Throws(s) ELSE Goes(s, data, "els")
       ELSE IF AtUngot(stream)
            THEN Goes(get(stream), <<stream.ungot_el>>, "els")
            ELSE Goes(stream, data, "els")

ReadElsMore ==
    LET left == call.n - Len(data)
        in_buffer == SubSeq(stream.buffer, stream.cursor + 1, Len(stream.buffer))
    IN  /\ call.pc = "els"
        /\ IF left <= Len(in_buffer)
           THEN Returns([stream EXCEPT !.cursor = @ + left],
                        data \o SubSeq(in_buffer, 1, left))
           ELSE /\ CanFill(stream)
                /\ LET s == fillBuffer(stream)
                   IN  IF Len(s.buffer) = 0 THEN Throws(s)
                       ELSE Goes(s, data \o in_buffer, "els")

-----------------------------------------------------------------------------
(* streamCollect, behind read(until) and readEls with an operation.        *)

CallReadUntil(until, inclusive) == Begin("until", 0, until, inclusive, "peek")
CallReadSize(n) == n <= ElsLimit /\ Begin("size", n, {}, TRUE, "peek")

LimitPassed == call.kind = "until" /\ Len(data) >= UntilLimit

nextState(el) ==
    IF call.kind = "until"
    THEN untilMatchNext(call.criteria, el \in call.until, call.inclusive)
    ELSE untilSizeNext(call.criteria, call.n - Len(data))

CollectTakes ==
    LET s == peek(stream)
        state == nextState(Element(s))
    IN  /\ call.pc = "peek"
        /\ IF s.bad \/ LimitPassed THEN Throws(s)
           ELSE IF state = "not_good" THEN Returns(s, data)
           ELSE /\ stream' = get(s)
                /\ data' = Append(data, Element(s))
                /\ call' = [call EXCEPT !.pc = "good", !.criteria = state]
                /\ UNCHANGED <<Peer, result, may_unget>>

CollectLooks ==
    LET s == good(stream)
    IN  /\ call.pc = "good"
        /\ IF s.bad /\ call.criteria = "at_last" THEN Returns(s, data)
           ELSE Goes(s, data, "peek")

-----------------------------------------------------------------------------
ReaderCalls ==
    \/ CallGet \/ CallPeek \/ CallGood \/ CallUnget
    \/ \E n \in Counts : CallReadEls(n) \/ CallReadSize(n)
    \/ \E until \in Untils, inclusive \in BOOLEAN : CallReadUntil(until, inclusive)

ReaderSteps == ReadElsFirst \/ ReadElsMore \/ CollectTakes \/ CollectLooks

EStreamNext == Arrive \/ Close \/ ReaderCalls \/ ReaderSteps

(* The reader runs and the peer does not leave it waiting for ever: the    *)
(* sockets of the server have a receive timeout.                           *)
EStreamFairness == WF_estream_vars(ReaderSteps) /\ WF_estream_vars(Close)

EStreamSpec == EStreamInit /\ [][EStreamNext]_estream_vars /\ EStreamFairness

-----------------------------------------------------------------------------
EStreamTypeOK ==
    /\ input \in Inputs /\ arrived \in 0..Len(input)
    /\ stream.cursor \in 0..Len(stream.buffer)
    /\ stream.taken \in 0..arrived
    /\ call.pc \in {"idle", "els_first", "els", "peek", "good"}
    /\ call.criteria \in {"good", "at_last", "not_good"}

(* estream.h: whatever the calls and the arrivals are, and wherever the    *)
(* buffer ends, a reader gets every element once and in order.             *)
AsCursor == INSTANCE Cursor WITH position <- Position(stream), held <- data,
                                 last <- result
ImplementsCursor == AsCursor!CursorSpec

(* read(until) and readEls(n): a call that returns has read exactly up to  *)
(* the first match, with it or without it, or the n elements, and leaves   *)
(* the stream right behind them.                                           *)
FirstMatch(c) == {i \in (c.start + 1)..Len(input) : input[i] \in c.until}
Wanted(c) ==
    IF c.kind = "until"
    THEN SubSeq(input, c.start + 1, Min(FirstMatch(c)) - (IF c.inclusive THEN 0 ELSE 1))
    ELSE SubSeq(input, c.start + 1, c.start + c.n)

ReadsUpToMatch ==
    Idle /\ call.kind # "none" /\ result # Thrown =>
       /\ call.kind = "until" => FirstMatch(call) # {}
       /\ result = Wanted(call)
       /\ Position(stream) = call.start + Len(result)

(* Every call ends, also when the peer stalls in the middle of it.         *)
CallsEnd == [](~Idle => <>Idle)
=============================================================================
