--------------------------------- MODULE Format --------------------------------
(***************************************************************************)
(* format() of lib/string_format.cpp: a first pass converts the arguments  *)
(* in their order, a second one, taken when the format has an escape or a  *)
(* reference, the references {<n} to them.  A converted argument keeps the *)
(* value, ptr, for a reference that formats it again.  The digits of a     *)
(* floating-point number are one opaque character.                         *)
(***************************************************************************)
EXTENDS ByteStream

NoWidth == 255
Opts == [base |-> 10, width |-> NoWidth, upper |-> TRUE, signs |-> {"-"}]
Float == <<"float">>
Failed == [ok |-> FALSE]
DefaultType == "default"

-----------------------------------------------------------------------------
(* numToString.  A run of zeros inside the number is appended at once,     *)
(* whatever start_index is, and counts for no iteration of its loop.       *)

DigitCount(num, base) == CHOOSE k \in 1..40 : num < base^k /\ (k > 1 => num >= base^(k - 1))
Digit(d, upper) == IF d < 10 THEN Numeral(d)
                   ELSE Printable[Code[IF upper THEN "A" ELSE "a"] - 31 + d - 10]

numToString(num, opts, negative) ==
    LET count == DigitCount(num, opts.base)
        digit == [p \in 1..count |-> (num \div opts.base^(count - p)) % opts.base]
        visited == {p \in 1..count : p = 1 \/ digit[p] # 0}
        i(p) == Cardinality({q \in visited : q < p})
        start_index == IF count > opts.width THEN count - opts.width ELSE 0
        sign == IF negative THEN "-" ELSE "+"
    IN  (IF sign \in opts.signs THEN <<sign>> ELSE <<>>)
        \o (IF opts.base = 16 THEN <<"0", "x">> ELSE <<>>)
        \o (IF opts.width # NoWidth /\ count < opts.width
            THEN [j \in 1..(opts.width - count) |-> "0"] ELSE <<>>)
        \o FlattenSeq([p \in 1..count |->
               IF p \notin visited \/ i(p) >= start_index
               THEN <<Digit(digit[p], opts.upper)>> ELSE <<>>])

numToStringSigned(num, opts) == numToString(IF num < 0 THEN -num ELSE num, opts, num < 0)

-----------------------------------------------------------------------------
(* Modifiers: a width, a precision, a sign.  Each returns how the parse    *)
(* ended: ok, and at, the number of characters of the format consumed.     *)

parseFloatFormat(text, at) ==
    LET digits == readNatural(text, at + 2)
        signed == peekAt(text, at + 1) \in {"+", "-"}
        end == IF isDigit(peekAt(text, at + 2)) THEN digits.at ELSE at + 2
    IN  IF peekAt(text, at) = "f" THEN [ok |-> TRUE, at |-> at + 1]
        ELSE IF signed /\ (isDigit(peekAt(text, at + 2)) => digits.ok) /\ peekAt(text, end) = "}"
        THEN [ok |-> TRUE, at |-> end]
        ELSE Failed

(* Both comparisons test the far end of the alphabet only.                 *)
CaseShifted(c, by) ==
    IF Code[c] - 31 + by \in DOMAIN Printable THEN Printable[Code[c] - 31 + by] ELSE "other"
parseStringCaseModifier(value, case) ==
    LET kept == SelectSeq(value, LAMBDA c : Code[c] >= Code[IF case = "l" THEN "Z" ELSE "z"])
    IN  [i \in DOMAIN kept |-> CaseShifted(kept[i], IF case = "l" THEN 32 ELSE -32)]

(* parsePositionalNumberModifier and parseReferencedNumberModifier, number *)
(* saying that one of them is at work, and the common head of what they    *)
(* call: the conversion character, where it is, and the options before it. *)
RECURSIVE NumberModifier(_, _, _, _)
RECURSIVE NumberModified(_, _, _)
NumberModified(text, opts, n) ==
    LET next == peekAt(text, n.at)
        wide == [opts EXCEPT !.width = n.value % 256]
    IN  IF ~n.ok THEN Failed
        ELSE IF next \in {"f", "e", "E"} THEN NumberModifier(text, n.at, opts, FALSE)
        ELSE IF next = "." THEN NumberModifier(text, n.at + 1, wide, TRUE)
        ELSE NumberModifier(text, n.at, wide, FALSE)
NumberModifier(text, at, opts, number) ==
    LET c == peekAt(text, at)
    IN  IF number THEN NumberModified(text, opts, readNatural(text, at))
        ELSE IF at + 1 >= Len(text) THEN Failed
        ELSE IF isDigit(c) THEN NumberModifier(text, at, opts, TRUE)
        ELSE IF c \in {"e", "E"} \/ (c \in {"d", "u", "x", "X", "f"} /\ peekAt(text, at + 1) = "}")
        THEN [ok |-> TRUE, at |-> at, c |-> c, opts |-> opts]
        ELSE Failed

(* What the conversion c makes of a value, and the closing brace.          *)
FloatText(float) == IF float.ok THEN [ok |-> TRUE, at |-> float.at, out |-> Float] ELSE Failed
NumberText(text, m, value) ==
    LET based == [m.opts EXCEPT !.base = IF m.c = "u" THEN 10 ELSE 16, !.upper = m.c = "X"]
        number == IF m.c = "d" THEN numToStringSigned(value, m.opts)
                  ELSE numToString(value, based, FALSE)
    IN  IF m.c \in {"f", "e", "E"} THEN FloatText(parseFloatFormat(text, m.at))
        ELSE [ok |-> TRUE, at |-> m.at + 1, out |-> number]

PositionalArgument(m, converted, value) ==
    IF ~converted.ok THEN Failed
    ELSE [ok |-> TRUE, at |-> converted.at, out |-> converted.out, ptr |-> <<value>>,
          type |-> IF m.c \in {"e", "E"} THEN "f" ELSE m.c]
PositionalModified(text, m, value) ==
    IF ~m.ok THEN Failed ELSE PositionalArgument(m, NumberText(text, m, value), value)
parsePositionalModifiableFormat(text, at, opts, value) ==
    PositionalModified(text, NumberModifier(text, at, opts, FALSE), value)

ReferencedModified(text, m, arg) ==
    LET types == CASE m.c \in {"u", "x", "X"} -> {"u", "x", "X"}
                   [] m.c = "d" -> {"d"}
                   [] m.c \in {"f", "e", "E"} -> {"f"}
    IN  IF ~m.ok THEN Failed
        ELSE IF arg.ptr = <<>> \/ arg.type \notin types THEN Failed
        ELSE NumberText(text, m, arg.ptr[1])
parseReferencedModifiableFormat(text, at, opts, arg) ==
    ReferencedModified(text, NumberModifier(text, at, opts, FALSE), arg)

-----------------------------------------------------------------------------
Signs(c) == IF c = "+" THEN {"+", "-"} ELSE IF c = "-" THEN {} ELSE {"-"}

Text(value, c) ==
    CASE c = "b" -> IF value THEN Chars("true") ELSE Chars("false")
      [] c = "c" -> <<value>>
      [] c \in {"s", "t"} -> value

(* The argument that the conversion at at makes of value; each call ends   *)
(* by taking one character, the closing brace it has looked at.            *)
ClosingBrace(read) == IF read.ok THEN [read EXCEPT !.at = @ + 1] ELSE Failed
parsePositionalFormat(text, at, value) ==
    LET c == peekAt(text, at)
        next == peekAt(text, at + 1)
        opts == [Opts EXCEPT !.signs = Signs(c)]
        from == IF c \in {"+", "-"} THEN at + 1 ELSE at
    IN  ClosingBrace(
            CASE next = EndOfText \/ c = EndOfText -> Failed
              [] next = "}" /\ c \in {"b", "t", "c", "s"} ->
                     [ok |-> TRUE, at |-> at + 1, out |-> Text(value, c), type |-> c,
                      ptr |-> IF c = "s" THEN <<value>> ELSE <<>>]
              [] c = "s" /\ next \in {"l", "u"} ->
                     IF peekAt(text, at + 2) # "}" THEN Failed
                     ELSE [ok |-> TRUE, at |-> at + 2, type |-> c, ptr |-> <<value>>,
                           out |-> parseStringCaseModifier(value, next)]
              [] OTHER -> parsePositionalModifiableFormat(text, from, opts, value))

parseReferencedFormatOverride(text, at, arg) ==
    LET c == peekAt(text, at)
        next == peekAt(text, at + 1)
        opts == [Opts EXCEPT !.signs = Signs(c)]
        from == IF c \in {"+", "-"} THEN at + 1 ELSE at
    IN  ClosingBrace(
            CASE next = EndOfText \/ c = EndOfText -> Failed
              [] next = "}" /\ c \in {"b", "t", "c", "s"} ->
                     [ok |-> TRUE, at |-> at + 1, out |-> arg.out]
              [] c = "s" /\ next \in {"l", "u"} ->
                     IF arg.ptr = <<>> \/ arg.type # "s" \/ peekAt(text, at + 2) # "}"
                     THEN Failed
                     ELSE [ok |-> TRUE, at |-> at + 2,
                           out |-> arg.out \o parseStringCaseModifier(arg.ptr[1], next)]
              [] OTHER -> parseReferencedModifiableFormat(text, from, opts, arg))

-----------------------------------------------------------------------------
(* The passes.  s: the characters consumed, the output, the arguments.     *)

Emit(s, n, chars) == [s EXCEPT !.at = @ + n, !.out = @ \o chars]

Appended(s, arg) ==
    IF arg.ok THEN [s EXCEPT !.at = arg.at, !.out = @ \o arg.out, !.args = Append(@, arg)]
    ELSE [s EXCEPT !.ok = FALSE]
parseFormat(text, s, values) == \* the brace is consumed
    LET at == s.at + 1
        value == values[Len(s.args) + 1]
        c == peekAt(text, at)
    IN  CASE c = "<" -> [Emit(s, 1, <<"{">>) EXCEPT !.again = TRUE]
          [] c = "}" -> Appended(s, [ok |-> TRUE, at |-> at + 1, out |-> value,
                                    type |-> DefaultType, ptr |-> <<>>])
          [] OTHER -> Appended(s, parsePositionalFormat(text, at, value))

Overridden(s, override) ==
    IF override.ok THEN [s EXCEPT !.at = override.at, !.out = @ \o override.out]
    ELSE [s EXCEPT !.ok = FALSE]
Referenced(text, s, n, arg) ==
    IF peekAt(text, n.at) = "}" THEN [s EXCEPT !.at = n.at + 1, !.out = @ \o arg.out]
    ELSE Overridden(s, parseReferencedFormatOverride(text, n.at + 1, arg))
IsReference(text, at, n) ==
    peekAt(text, at) = "<" /\ isDigit(peekAt(text, at + 1)) /\ n.ok
    /\ peekAt(text, n.at) \in {",", "}"}

(* Mutation: the references count from zero.                               *)
ReferencesFromZero(text, s, n) ==
    IF IsReference(text, s.at + 1, n) /\ n.value < Len(s.args)
    THEN Referenced(text, s, n, s.args[n.value + 1]) ELSE [s EXCEPT !.ok = FALSE]

References(text, s, n) ==
    IF IsReference(text, s.at + 1, n) /\ n.value \in DOMAIN s.args
    THEN Referenced(text, s, n, s.args[n.value]) ELSE [s EXCEPT !.ok = FALSE]
parseReferenceFormat(text, s) == References(text, s, readNatural(text, s.at + 2))

(* One pass over text: the first keeps an escape for the second to undo.   *)
FormatNext(text, s, c, next, values, first) ==
    CASE c = "\\" /\ next = EndOfText -> [s EXCEPT !.ok = FALSE]
      [] c = "\\" /\ next \in {"{", "}"} ->
             [Emit(s, 2, IF first THEN <<c, next>> ELSE <<next>>) EXCEPT !.again = TRUE]
      [] c = "{" -> IF first THEN parseFormat(text, s, values) ELSE parseReferenceFormat(text, s)
      [] OTHER -> Emit(s, 1, <<c>>)
RECURSIVE FormatPass(_, _, _, _)
FormatPass(text, s, values, first) ==
    LET c == peekAt(text, s.at)
    IN  IF ~s.ok \/ c = EndOfText THEN s
        ELSE FormatPass(text, FormatNext(text, s, c, peekAt(text, s.at + 1), values, first),
                        values, first)

Start(args) == [ok |-> TRUE, at |-> 0, out |-> <<>>, args |-> args, again |-> FALSE]
Finished(last) == [ok |-> last.ok, out |-> IF last.ok THEN last.out ELSE <<>>]
SecondPass(first) ==
    IF first.ok /\ first.again THEN FormatPass(first.out, Start(first.args), <<>>, FALSE)
    ELSE first
format(text, values) == Finished(SecondPass(FormatPass(text, Start(<<>>), values, TRUE)))
=============================================================================
