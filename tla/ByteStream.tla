------------------------------ MODULE ByteStream ------------------------------
(***************************************************************************)
(* What a parser reads from a ByteEStream on a buffer in memory: the tasks *)
(* of lib/estream/reader_task.h that streamCollect hands each element to,  *)
(* and the numbers of lib/estream/byteestream.cpp.  A stream is the text   *)
(* and the number of characters consumed; the element after the last one   *)
(* makes every call throw.                                                 *)
(***************************************************************************)
EXTENDS Characters, Criteria

CONSTANT NUMBER_MAX_DIGITS

ASSUME ByteStreamAssumption == NUMBER_MAX_DIGITS \in Nat \ {0}

EndOfText == "end of text"
Ahead(text, at) == Append(SubSeq(text, at + 1, Len(text)), EndOfText)
peekAt(text, at) == IF at < Len(text) THEN text[at + 1] ELSE EndOfText

-----------------------------------------------------------------------------
(* The criteria of a call.                                                 *)

Until(chars, inclusive) == [mode |-> "until", until |-> chars, inclusive |-> inclusive,
                            left |-> 0, state |-> "good"]
Size(n) == [mode |-> "size", until |-> {}, inclusive |-> TRUE, left |-> n,
            state |-> "good"]
Digits == [mode |-> "digits", until |-> {}, inclusive |-> TRUE, left |-> 0,
           state |-> "good"]

NextCriteria(criteria, c) ==
    [criteria EXCEPT !.left = @ - 1,
        !.state = CASE criteria.mode = "until" ->
                           untilMatchNext(@, c \in criteria.until, criteria.inclusive)
                    [] criteria.mode = "size" -> untilSizeNext(@, criteria.left)
                    [] criteria.mode = "digits" -> IF isDigit(c) THEN "good" ELSE "not_good"]

-----------------------------------------------------------------------------
(* The tasks: a chain of filters and, at its end, the collector, a trimmer *)
(* or an extractor.                                                        *)

Link(kind, chars, strict) == [kind |-> kind, chars |-> chars, strict |-> strict]

(* What a filter does with a character: pass it on, drop it, throw, or ask *)
(* for the call to end.  i counts the characters an exact match has seen.  *)
Pass(link, p) ==
    LET listed == p.c \in Range(link.chars)
        refused == IF link.kind = "allow" THEN ~listed ELSE listed
    IN  IF p.verdict # "pass" THEN p ELSE
        CASE link.kind = "lc" -> [p EXCEPT !.c = LowerCase(@)]
          [] link.kind = "uc" -> [p EXCEPT !.c = UpperCase(@)]
          [] link.kind \in {"allow", "disallow"} ->
                 IF ~refused THEN p
                 ELSE [p EXCEPT !.verdict = IF link.strict THEN "throw" ELSE "drop"]
          [] link.kind = "exact" ->
                 [p EXCEPT !.i = @ + 1, !.verdict =
                     IF p.i >= Len(link.chars) THEN "throw"
                     ELSE IF link.chars[p.i + 1] = p.c THEN "pass"
                     ELSE IF link.strict THEN "throw" ELSE "bail"]

(* The extractor keeps one character right of the token and the one it has *)
(* read until, or none.                                                    *)
NewTask == [out |-> <<>>, failed |-> FALSE, bailed |-> FALSE, i |-> 0, r_trim |-> <<>>,
            l_trimming |-> TRUE, r_trimming |-> FALSE, right_of_token |-> <<>>,
            read_until |-> <<>>]

(* initialize() clears as many elements of r_trim as data holds, which is  *)
(* none: the whitespace of an earlier call stays.                          *)
Initialized(task) == [NewTask EXCEPT !.r_trim = task.r_trim, !.i = task.i]

CollectorTakes(task, c) == [task EXCEPT !.out = Append(@, c)]

(* Mutation: the whitespace inside the text is dropped with the one after. *)
TrimPerformDrops(task, c) ==
    IF task.l_trimming
    THEN IF c \in Whitespace THEN task
         ELSE CollectorTakes([task EXCEPT !.l_trimming = FALSE], c)
    ELSE IF c \in Whitespace
    THEN [task EXCEPT !.r_trimming = TRUE, !.r_trim = Append(@, c)]
    ELSE CollectorTakes([task EXCEPT !.r_trimming = FALSE], c)

TrimPerform(task, c) ==
    IF task.l_trimming
    THEN IF c \in Whitespace THEN task
         ELSE CollectorTakes([task EXCEPT !.l_trimming = FALSE], c)
    ELSE IF c \in Whitespace
    THEN [task EXCEPT !.r_trimming = TRUE, !.r_trim = Append(@, c)]
    ELSE CollectorTakes([task EXCEPT !.r_trimming = FALSE,
                            !.out = IF task.r_trimming THEN @ \o task.r_trim ELSE @], c)

ExtractPerform(task, c, left_most, right_most, state) ==
    IF task.l_trimming
    THEN IF c \in Whitespace THEN task
         ELSE IF c = left_most THEN [task EXCEPT !.l_trimming = FALSE]
         ELSE IF state = "at_last" THEN CollectorTakes(task, c)
         ELSE [task EXCEPT !.failed = TRUE]
    ELSE IF c = right_most THEN [task EXCEPT !.r_trimming = TRUE]
    ELSE IF ~task.r_trimming THEN CollectorTakes(task, c)
    ELSE IF state = "at_last" THEN [task EXCEPT !.read_until = <<c>>]
    ELSE IF c \in Whitespace THEN task
    ELSE [task EXCEPT !.right_of_token = <<c>>]

ExtractFlush(task) ==
    IF task.right_of_token # <<>> \/ (~task.l_trimming /\ ~task.r_trimming)
    THEN [task EXCEPT !.failed = TRUE]
    ELSE [Initialized(task) EXCEPT !.out = task.out \o task.read_until]

(* What the sink does with what the filters let through.                   *)
Sunk(task, p, state, sink) ==
    IF p.verdict = "throw" THEN [task EXCEPT !.failed = TRUE]
    ELSE IF p.verdict \in {"drop", "bail"} THEN task ELSE
    CASE sink = "collect" -> CollectorTakes(task, p.c)
      [] sink = "trim" -> TrimPerform(task, p.c)
      [] sink = "extract" -> ExtractPerform(task, p.c, "\"", "\"", state)
Filtering(task, p, state, sink) ==
    Sunk([task EXCEPT !.i = p.i, !.bailed = p.verdict = "bail"], p, state, sink)

perform(task, c, state, links, sink) ==
    Filtering(task, FoldLeft(LAMBDA acc, link : Pass(link, acc),
                             [c |-> c, verdict |-> "pass", i |-> task.i], links),
              state, sink)

(* streamCollect: one element, and the call.                               *)
Collected(s, text, criteria, task) ==
    LET state == IF task.bailed THEN "not_good" ELSE criteria.state
    IN  [at |-> s.at + 1, task |-> task,
         criteria |-> [criteria EXCEPT !.state = state],
         status |-> IF task.failed THEN "threw"
                    ELSE IF s.at + 1 = Len(text) /\ state = "at_last" THEN "returned"
                    ELSE "reading"]
CollectChecked(s, c, text, criteria, links, sink) ==
    IF s.status # "reading" THEN s
    ELSE IF c = EndOfText THEN [s EXCEPT !.status = "threw"]
    ELSE IF criteria.state = "not_good" THEN [s EXCEPT !.status = "returned"]
    ELSE Collected(s, text, criteria, perform(s.task, c, criteria.state, links, sink))
CollectNext(s, c, text, links, sink) ==
    CollectChecked(s, c, text, NextCriteria(s.criteria, c), links, sink)

Collect(text, at, criteria, task, links, sink) ==
    FoldLeft(LAMBDA s, c : CollectNext(s, c, text, links, sink),
             [at |-> at, task |-> task, criteria |-> criteria, status |-> "reading"],
             Ahead(text, at))

(* An exact match resets its counter and flushes nothing behind it.        *)
flush(task, links, sink) ==
    LET exact == \E i \in DOMAIN links : links[i].kind = "exact"
        t == IF exact THEN [task EXCEPT !.i = 0] ELSE task
    IN  IF sink = "extract" /\ ~exact THEN ExtractFlush(t) ELSE t

(* A filter does not initialize what is behind it, so that task is used as *)
(* it was left; a call that throws does not flush.                         *)
Flushed(read, task) ==
    [ok |-> read.status = "returned" /\ ~task.failed, at |-> read.at, out |-> task.out,
     task |-> IF read.status = "returned" THEN task ELSE read.task]
FlushedWith(read, links, sink) == Flushed(read, flush(read.task, links, sink))
ReadWith(text, at, criteria, task, links, sink) ==
    LET start == IF links = <<>> THEN Initialized(task) ELSE [task EXCEPT !.out = <<>>]
    IN  FlushedWith(Collect(text, at, criteria, [start EXCEPT !.failed = FALSE], links, sink),
                    links, sink)

Plain(text, at, criteria) == ReadWith(text, at, criteria, NewTask, <<>>, "collect")

-----------------------------------------------------------------------------
(* Numbers.  A decimal is its natural part and the digits after the point: *)
(* the sum of natural and Number(decimals) / 10^Len(decimals).             *)

AfterUntil(n, consume) == IF consume /\ n.ok THEN [n EXCEPT !.at = @ + 1] ELSE n
AsNumber(read) ==
    [ok |-> read.ok /\ Len(read.out) <= NUMBER_MAX_DIGITS, at |-> read.at,
     value |-> Number(read.out), digits |-> Len(read.out)]

readNatural(text, at) == AsNumber(Plain(text, at, Digits))
readNaturalSize(text, at, n) == AsNumber(Plain(text, at, IF n = 0 THEN Digits ELSE Size(n)))
readNaturalUntil(text, at, until, consume) ==
    AfterUntil(AsNumber(Plain(text, at, Until(until, FALSE))), consume)

AsDecimal(natural, decimals, at) ==
    [ok |-> natural.ok /\ Len(decimals) <= NUMBER_MAX_DIGITS, at |-> at,
     natural |-> natural.value, digits |-> natural.digits, decimals |-> decimals]

WithFraction(natural, fraction, after) ==
    [AsDecimal(natural, fraction.out, fraction.at + after) EXCEPT !.ok = @ /\ fraction.ok]
DecimalFrom(text, natural, criteria, after) ==
    IF ~natural.ok THEN AsDecimal(natural, <<>>, natural.at)
    ELSE IF peekAt(text, natural.at) # "." THEN AsDecimal(natural, <<>>, natural.at + after)
    ELSE WithFraction(natural, Plain(text, natural.at + 1, criteria), after)

(* Mutation: the until character is consumed when it is not asked for.     *)
readDecimalUntilConsumes(text, at, until, consume) ==
    DecimalFrom(text, readNatural(text, at),
                IF until = {} THEN Digits ELSE Until(until, FALSE), 1)

readDecimalUntil(text, at, until, consume) ==
    DecimalFrom(text, readNatural(text, at),
                IF until = {} THEN Digits ELSE Until(until, FALSE),
                IF until # {} /\ consume THEN 1 ELSE 0)

readDecimal(text, at) == readDecimalUntil(text, at, {}, FALSE)

(* readDecimal(n): n characters in all, whatever they are after the point. *)
DecimalWithin(text, natural, left) ==
    IF ~natural.ok \/ left < 0 \/ peekAt(text, natural.at) # "."
    THEN AsDecimal(natural, <<>>, natural.at)
    ELSE IF left = 0 THEN AsDecimal(natural, <<>>, natural.at + 1)
    ELSE WithFraction(natural, Plain(text, natural.at + 1, Size(left)), 0)
DecimalSized(text, natural, n) == DecimalWithin(text, natural, n - natural.digits - 1)
readDecimalSize(text, at, n) == DecimalSized(text, readNatural(text, at), n)
=============================================================================
