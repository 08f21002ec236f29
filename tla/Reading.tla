------------------------------- MODULE Reading -------------------------------
(***************************************************************************)
(* What a parser reads from a text, the calls of ByteStream over bounded   *)
(* inputs: one step turns the subject, a call and its input, into its      *)
(* outcome, which is compared with a reference definition that shares      *)
(* nothing with the code.                                                  *)
(***************************************************************************)
EXTENDS ByteStream, FiniteSets

CONSTANT Subjects  \* records with the field kind

Character == STRING \ {EndOfText, ""}

(* The texts that numbers are read from.                                   *)
NumberSubject(s) == s.text \in Seq(Character)

(* The calls that tasks are used in: inclusive ones, of the collector, the *)
(* trimmer or the extractor, behind filters; a filter that refuses is      *)
(* strict if the others are, and one changes the case of letters at most.  *)
(* An exact match is alone, in a call for as many characters as it has.    *)
PartCriteria(criteria) ==
    \/ criteria.until \subseteq Character /\ criteria = Until(criteria.until, TRUE)
    \/ criteria.left \in Nat \ {0} /\ criteria = Size(criteria.left)

CaseFilters == {"lc", "uc"}
Refusals == {"allow", "disallow"}
Links(kinds) == [kind : kinds, chars : Seq(Character), strict : BOOLEAN]

FilterLinks(links) ==
    /\ links \in Seq(Links(CaseFilters \cup Refusals))
    /\ \A i, j \in DOMAIN links :
          /\ links[i].kind \in Refusals /\ links[j].strict => links[i].strict
          /\ links[i].kind \in CaseFilters /\ links[j].kind \in CaseFilters => i = j
    /\ \A i \in DOMAIN links : links[i].kind \in CaseFilters => ~links[i].strict

ExactLink(links, criteria) ==
    /\ links \in Seq(Links({"exact"})) /\ Len(links) = 1
    /\ links[1].chars # <<>> /\ criteria = Size(Len(links[1].chars))

TaskSubject(s) ==
    /\ \A i \in 1..2 : s.texts[i] \in Seq(Character)
    /\ PartCriteria(s.criteria)
    /\ s.sink \in {"collect", "trim", "extract"}
    /\ FilterLinks(s.links) \/ (s.sink = "collect" /\ ExactLink(s.links, s.criteria))

ASSUME ReadingAssumption ==
    \A s \in Subjects : /\ s.kind = "number" => NumberSubject(s)
                        /\ s.kind = "task" => TaskSubject(s)

VARIABLES
    subject,  \* the call
    outcome   \* <<what it returned>>, and << >> before the call

conversion_vars == <<subject, outcome>>

ConversionInit == subject \in Subjects /\ outcome = <<>>

Subject(kind) == outcome = <<>> /\ subject.kind = kind
Returned == outcome[1]
Done(kind) == outcome # <<>> /\ subject.kind = kind

-----------------------------------------------------------------------------
(* Reader tasks: two calls with the same task, each on a text of its own.  *)

(* The members of a task behind a filter are not initialized before the    *)
(* first call: the characters it keeps may be there or not.                *)
Garbage == {<<>>, <<"?">>}
Uninitialized(l, r, right_of_token, read_until) ==
    [NewTask EXCEPT !.l_trimming = l, !.r_trimming = r,
                    !.right_of_token = right_of_token, !.read_until = read_until]
Unset == {Uninitialized(l, r, right, until) : l, r \in BOOLEAN, right, until \in Garbage}

(* What two reads return, and whether the first one found its task as      *)
(* initialize() would have left it.                                        *)
TwoReads(s, task) ==
    LET read(i, t) == ReadWith(s.texts[i], 0, s.criteria, t, s.links, s.sink)
        result(r) == [ok |-> r.ok, out |-> r.out]
        two(first) == <<result(first), result(read(2, first.task)), task = NewTask>>
    IN  two(read(1, task))

TaskOutcomes(s) ==
    {TwoReads(s, task) : task \in IF s.links = <<>> THEN {NewTask} ELSE Unset}

ReadTwice ==
    /\ Subject("task")
    /\ \E reads \in TaskOutcomes(subject) : outcome' = <<reads>>
    /\ UNCHANGED subject

(* What a call reads of a text: up to the first until character, or n.     *)
Extent(text, criteria) ==
    IF criteria.mode = "size" THEN criteria.left
    ELSE SelectInSeq(text, LAMBDA c : c \in criteria.until)

Words(text) == {i \in DOMAIN text : text[i] \notin Whitespace}
Stripped(text) ==
    IF Words(text) = {} THEN <<>> ELSE SubSeq(text, Min(Words(text)), Max(Words(text)))
Gaps(text) == \* the runs of whitespace inside a text
    {i \in 2..Len(text) : text[i] \in Whitespace /\ text[i - 1] \notin Whitespace
                          /\ \E j \in Words(text) : j > i}
EndsTrimmed(text) == text # <<>> /\ Last(text) \notin Whitespace

Admitted(links, c) ==
    \A i \in DOMAIN links :
       LET seen == IF \E j \in 1..(i - 1) : links[j].kind = "lc" THEN LowerCase(c)
                   ELSE IF \E j \in 1..(i - 1) : links[j].kind = "uc" THEN UpperCase(c) ELSE c
       IN  /\ links[i].kind = "allow" => seen \in Range(links[i].chars)
           /\ links[i].kind = "disallow" => seen \notin Range(links[i].chars)
Cased(links, c) ==
    IF \E i \in DOMAIN links : links[i].kind = "lc" THEN LowerCase(c)
    ELSE IF \E i \in DOMAIN links : links[i].kind = "uc" THEN UpperCase(c) ELSE c

(* What the filters admit of a text, in its order and case.                *)
Through(links, text) ==
    FoldLeft(LAMBDA kept, c : IF Admitted(links, c) THEN Append(kept, Cased(links, c)) ELSE kept,
             <<>>, text)

(* A token: "..." with nothing but whitespace on either side of it, up to  *)
(* the until character, which is kept; that character alone is kept, too.  *)
(* If the call has ended with a character that no filter let through, the  *)
(* text does not end with it.                                              *)
Token(text, ended) ==
    LET first == Min(Words(text) \cup {Len(text) + 1})
        quotes == {i \in (first + 1)..Len(text) : text[i] = "\""}
        right == Min(quotes)
        end == IF ended THEN Len(text) ELSE Len(text) + 1
    IN  IF first > Len(text) THEN [ok |-> TRUE, out |-> <<>>]
        ELSE IF first = end /\ text[first] # "\"" THEN [ok |-> TRUE, out |-> <<text[first]>>]
        ELSE IF text[first] # "\"" \/ quotes = {}
                \/ \E i \in (right + 1)..(end - 1) : text[i] \notin Whitespace \cup {"\""}
        THEN [ok |-> FALSE]
        ELSE [ok |-> TRUE, out |-> SubSeq(text, first + 1, right - 1)
                                   \o (IF ended /\ Last(text) # "\"" THEN <<Last(text)>>
                                       ELSE <<>>)]

(* A quote that is opened and not closed.                                  *)
Unclosed(text) == \E i \in Words(text) : /\ text[i] = "\""
                                         /\ \A j \in Words(text) \ {i} : j > i /\ text[j] # "\""

(* What a task lets through of one read.  The trimmer keeps the whitespace *)
(* it has flushed (r_trim.remove, reader_task.h:216): it is claimed for    *)
(* clean gaps only.  Behind a filter nothing initializes a trimmer or an   *)
(* extractor: they are claimed if they are as new.  What becomes of a      *)
(* quote that an until character stands in is an open question of          *)
(* reader_task.h:312.                                                      *)
TaskRead(s, text, clean, as_new, r) ==
    LET extent == Extent(text, s.criteria)
        part == SubSeq(text, 1, extent)
        through == Through(s.links, part)
        token == Token(through, Admitted(s.links, Last(part)))
        strict == \E i \in DOMAIN s.links : s.links[i].strict
        refused == \E i \in DOMAIN part : ~Admitted(s.links, part[i])
    IN  IF extent = 0 \/ extent > Len(text) THEN ~r.ok
        ELSE IF s.sink = "collect" /\ \E i \in DOMAIN s.links : s.links[i].kind = "exact"
        THEN /\ strict => (r.ok <=> part = s.links[1].chars)
             /\ part = s.links[1].chars => r.ok /\ r.out = part
        ELSE IF strict /\ refused THEN ~r.ok
        ELSE /\ s.sink = "collect" => r.ok /\ r.out = through
             /\ s.sink = "trim" /\ as_new =>
                   r.ok /\ (Cardinality(Gaps(through)) <= clean => r.out = Stripped(through))
             /\ s.sink = "extract" /\ as_new =>
                   \/ s.criteria.mode = "until" /\ Unclosed(through)
                   \/ r.ok = token.ok /\ (r.ok => r.out = token.out)

(* reader_task.h: a filter, a trimmer, an extractor or an exact match lets *)
(* through what it is named for, on its second read as on its first, and   *)
(* so does a chain of filters with a trimmer or an extractor at its end    *)
(* (lib/test/estream_test.cpp:352-412).  The flush of an extractor         *)
(* initializes it for the second read; a read that threw leaves an exact   *)
(* match in the middle of its count.                                       *)
TasksReadTheirPart ==
    Done("task") =>
       LET text == subject.texts[1]
           extent == Extent(text, subject.criteria)
           first == IF extent \in 1..Len(text) THEN SubSeq(text, 1, extent) ELSE text
           unused == Gaps(first) = {} /\ (Words(first) = {} \/ EndsTrimmed(first))
           exact == \E i \in DOMAIN subject.links : subject.links[i].kind = "exact"
           plain == subject.links = <<>>
       IN  /\ TaskRead(subject, text, 1, plain \/ Returned[3], Returned[1])
           /\ ~exact \/ Returned[1].ok =>
                 TaskRead(subject, subject.texts[2], IF unused THEN 1 ELSE 0,
                          plain \/ (subject.sink = "extract" /\ Returned[1].ok), Returned[2])

-----------------------------------------------------------------------------
(* Numbers of the byte stream.                                             *)

NumberOutcome(s) ==
    CASE s.call = "natural" -> readNatural(s.text, 0)
      [] s.call = "natural_size" -> readNaturalSize(s.text, 0, s.n)
      [] s.call = "natural_until" -> readNaturalUntil(s.text, 0, s.until, TRUE)
      [] s.call = "decimal" -> readDecimal(s.text, 0)
      [] s.call = "decimal_size" -> readDecimalSize(s.text, 0, s.n)
      [] s.call = "decimal_until" -> readDecimalUntil(s.text, 0, s.until, TRUE)

ReadNumber == /\ Subject("number")
              /\ outcome' = <<NumberOutcome(subject)>>
              /\ UNCHANGED subject

(* byteestream.cpp: readNatural() and readDecimal() take the digits at the *)
(* front of the text, up to NUMBER_MAX_DIGITS on either side of the point, *)
(* and leave what follows; a number at the very end of the text throws.    *)
NumbersReadDigits ==
    /\ Done("number") /\ subject.call = "natural" =>
          LET digits == DigitsFrom(subject.text, 1)
          IN  /\ Returned.ok <=> Len(digits) < Len(subject.text)
                                /\ Len(digits) <= NUMBER_MAX_DIGITS
              /\ Returned.ok => Returned.value = Number(digits) /\ Returned.at = Len(digits)
    /\ Done("number") /\ subject.call = "decimal" =>
          LET digits == DigitsFrom(subject.text, 1)
              point == Len(digits) < Len(subject.text)
                       /\ subject.text[Len(digits) + 1] = "."
              decimals == IF point THEN DigitsFrom(subject.text, Len(digits) + 2) ELSE <<>>
              length == Len(digits) + (IF point THEN 1 + Len(decimals) ELSE 0)
          IN  /\ Returned.ok <=> length < Len(subject.text)
                                /\ Len(digits) <= NUMBER_MAX_DIGITS
                                /\ Len(decimals) <= NUMBER_MAX_DIGITS
              /\ Returned.ok => /\ Returned.natural = Number(digits)
                               /\ Returned.decimals = decimals
                               /\ Returned.at = length

-----------------------------------------------------------------------------
Read == ReadTwice \/ ReadNumber
ReadingSpec == ConversionInit /\ [][Read]_conversion_vars
=============================================================================
