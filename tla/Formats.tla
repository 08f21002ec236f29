-------------------------------- MODULE Formats --------------------------------
(***************************************************************************)
(* The conversions that write text, and what reads it back: format(), the  *)
(* calendar, CSV, key and value pairs, base64.  One step of each, as in    *)
(* Conversions, compared with a reference definition.                      *)
(***************************************************************************)
EXTENDS Conversions, Calendar, Records, TLC

(* format().  A subject is a sequence of pieces: a literal, an escaped     *)
(* brace, an argument with its conversion, a reference; or a raw text.     *)

SpecText(spec) ==
    spec.sign \o (IF spec.width = NoWidth THEN <<>> ELSE Chars(ToString(spec.width)))
    \o Chars(spec.c)

PieceText(p) ==
    CASE p.kind = "literal" -> p.chars
      [] p.kind = "escape" -> <<"\\", p.c>>
      [] p.kind = "argument" -> <<"{">> \o SpecText(p.spec) \o <<"}">>
      [] p.kind = "reference" ->
             <<"{", "<", Numeral(p.n)>>
             \o (IF p.spec = <<>> THEN <<>> ELSE <<",">> \o SpecText(p.spec[1])) \o <<"}">>

FormatText(s) == FlattenSeq([i \in DOMAIN s.pieces |-> PieceText(s.pieces[i])]) \o s.raw
Arguments(pieces) == SelectSeq(pieces, LAMBDA p : p.kind = "argument")

FormatOutcome(s) ==
    LET arguments == Arguments(s.pieces)
    IN  format(FormatText(s), [i \in DOMAIN arguments |-> arguments[i].value])

FormatPieces == /\ Subject("format")
                /\ outcome' = <<FormatOutcome(subject)>>
                /\ UNCHANGED subject

HexDigits(n, upper) ==
    LET hex == Chars(IF upper THEN "0123456789ABCDEF" ELSE "0123456789abcdef")
    IN  (IF n < 16 THEN <<>> ELSE <<hex[(n \div 16) + 1]>>) \o <<hex[(n % 16) + 1]>>

NumberDigits(spec, value) ==
    IF spec.c \in {"x", "X"} THEN HexDigits(value, spec.c = "X")
    ELSE Chars(ToString(IF value < 0 THEN -value ELSE value))

(* A number cut to its width while it has a zero inside comes out longer.  *)
CutsZeros(spec, value) ==
    LET digits == NumberDigits(spec, value)
    IN  Len(digits) > spec.width /\ "0" \in Range(digits)

ToWidth(digits, width) ==
    IF width = NoWidth THEN digits
    ELSE IF Len(digits) < width THEN [i \in 1..(width - Len(digits)) |-> "0"] \o digits
    ELSE SubSeq(digits, Len(digits) - width + 1, Len(digits))

CaseModified == {"sl", "su"}

Converted(spec, value) == \* of a case modifier: not claimed
    CASE spec.c = "b" -> IF value THEN Chars("true") ELSE Chars("false")
      [] spec.c = "c" -> <<value>>
      [] spec.c \in {"", "s", "t"} \cup CaseModified -> value
      [] spec.c \in {"d", "u", "x", "X"} ->
             (IF value < 0 /\ spec.sign # <<"-">> THEN <<"-">>
              ELSE IF value >= 0 /\ spec.sign = <<"+">> THEN <<"+">> ELSE <<>>)
             \o (IF spec.c \in {"x", "X"} THEN <<"0", "x">> ELSE <<>>)
             \o ToWidth(NumberDigits(spec, value), spec.width)

(* A reference is valid when it counts to an argument and its conversion   *)
(* is one of the same kind.                                                *)
Kind(c) == IF c \in {"u", "x", "X"} THEN "unsigned" ELSE IF c = "d" THEN "signed" ELSE "text"
ValidReference(p, arguments) ==
    /\ p.n \in DOMAIN arguments
    /\ \/ p.spec = <<>>
       \/ p.spec[1].c \in {"b", "c", "s", "t"}
       \/ p.spec[1].c \in CaseModified /\ arguments[p.n].spec.c \in CaseModified \cup {"s"}
       \/ p.spec[1].c \in {"d", "u", "x", "X"}
          /\ Kind(p.spec[1].c) = Kind(arguments[p.n].spec.c)

PieceOutput(p, arguments) ==
    CASE p.kind = "literal" -> p.chars
      [] p.kind = "escape" -> <<p.c>>
      [] p.kind = "argument" -> Converted(p.spec, p.value)
      [] p.kind = "reference" ->
             LET argument == arguments[p.n]
             IN  IF p.spec = <<>> THEN Converted(argument.spec, argument.value)
                 ELSE IF Kind(p.spec[1].c) = "text" THEN Converted(argument.spec, argument.value)
                 ELSE Converted(p.spec[1], argument.value)

(* The pieces whose case a modifier changes.                               *)
Recased(p, arguments) ==
    \/ p.kind \in {"argument", "reference"}
          /\ \E spec \in (IF p.kind = "argument" THEN {p.spec} ELSE Range(p.spec)) :
                spec.c \in CaseModified
    \/ p.kind = "reference" /\ arguments[p.n].spec.c \in CaseModified

(* string_format.cpp: the output is the pieces in their order, each as its *)
(* conversion writes it; what is no format throws.  A second pass, for the *)
(* references and escapes, reads the arguments it finds in the text again: *)
(* an argument with a brace or a backslash of its own is not claimed then. *)
(* Nor is what a case modifier makes of its text, only what stands before  *)
(* the first such piece and behind the last.                               *)
FormattedAsWritten ==
    Done("format") =>
       LET pieces == subject.pieces
           arguments == Arguments(pieces)
           references == {i \in DOMAIN pieces : pieces[i].kind = "reference"}
           again == references # {} \/ \E i \in DOMAIN pieces : pieces[i].kind = "escape"
           specs == {<<arguments[i].spec, arguments[i].value>> : i \in DOMAIN arguments}
                    \cup {<<pieces[i].spec[1], arguments[pieces[i].n].value>> :
                             i \in {j \in references : /\ ValidReference(pieces[j], arguments)
                                                       /\ pieces[j].spec # <<>>}}
           numbers == {s \in specs : Kind(s[1].c) # "text"}
           braces == \E i \in DOMAIN arguments :
                        Kind(arguments[i].spec.c) = "text" /\ arguments[i].spec.c # "b"
                        /\ Range(Converted(arguments[i].spec, arguments[i].value))
                              \cap {"{", "}", "\\"} # {}
           valid == \A i \in references : ValidReference(pieces[i], arguments)
       IN  IF subject.raw # <<>> THEN ~Returned.ok
           ELSE IF (again /\ braces) \/ \E s \in numbers : CutsZeros(s[1], s[2]) THEN TRUE
           ELSE IF ~valid THEN ~Returned.ok
           ELSE LET output == [i \in DOMAIN pieces |-> PieceOutput(pieces[i], arguments)]
                    cased == {i \in DOMAIN pieces : Recased(pieces[i], arguments)}
                IN  /\ Returned.ok
                    /\ cased = {} => Returned.out = FlattenSeq(output)
                    /\ \A i \in cased :
                          /\ (\A j \in cased : i <= j) =>
                                IsPrefix(FlattenSeq(SubSeq(output, 1, i - 1)), Returned.out)
                          /\ (\A j \in cased : j <= i) =>
                                IsSuffix(FlattenSeq(SubSeq(output, i + 1, Len(output))),
                                         Returned.out)

-----------------------------------------------------------------------------
(* Dates: a time written and read again, or a raw text read.               *)

DateOutcome(s) ==
    LET zoned == getZonedEpochTime(s.now, s.offset, 0)
        back(text) == [zoned |-> zoned, text |-> text,
                       read |-> getEpochFromFormattedDateTime(text, s.form)]
    IN  back(IF s.raw # <<>> THEN s.raw
             ELSE getFormattedDateTime(zoned, Zone(s.offset, 0), s.form))

ConvertDate == /\ Subject("date")
               /\ outcome' = <<DateOutcome(subject)>>
               /\ UNCHANGED subject

(* The date that stands in a text.                                         *)
WrittenDate(text, form) ==
    LET skip == IF form = "ISO8601" THEN 0 ELSE 1  \* the separators
        part(i, n) == Number(SubSeq(text, i, i + n - 1))
        month == 5 + skip
        day == month + 2 + skip
        hr == day + 3
        min == hr + 2 + skip
        sec == min + 2 + skip
    IN  [year |-> part(1, 4), month |-> part(month, 2), day |-> part(day, 2),
         hr |-> part(hr, 2), min |-> part(min, 2), sec |-> part(sec, 2)]

(* ecal.cpp: a time is written as its date in the calendar, and read again *)
(* gives the time with its offset added, as the tests have it, for offsets *)
(* with one digit of hours; one with two is refused where the format has a *)
(* colon.  Nine and a half hours are too many for the 16 bits there.       *)
DatesReadBack ==
    Done("date") =>
       LET offset == Zone(subject.offset, 0)
           hours == Quotient(offset, 100)
           seconds == hours * 3600 + (offset - hours * 100) * 60
       IN  IF subject.raw # <<>> THEN ~Returned.read.ok
           ELSE /\ subject.form # "READABLE" =>
                      LET date == WrittenDate(Returned.text, subject.form)
                      IN  IsDate(date) /\ CivilSeconds(date) = Returned.zoned
                /\ subject.form # "ISO8601" /\ hours \notin -9..9 => ~Returned.read.ok
                /\ hours \in -9..9 /\ (subject.form = "ISO8601" \/ seconds \in -32768..32767) =>
                      Returned.read = [ok |-> TRUE, epoch |-> Returned.zoned + seconds]

-----------------------------------------------------------------------------
(* Records.                                                                *)

QuotedField(field) ==
    <<"\"">> \o FlattenSeq([i \in DOMAIN field |->
                              IF field[i] = "\"" THEN <<"\"", "\"">> ELSE <<field[i]>>])
    \o <<"\"">>
Line(fields, sep, end) ==
    FoldLeft(LAMBDA text, i : text \o (IF i = 1 THEN <<>> ELSE <<sep>>) \o fields[i],
             <<>>, [i \in DOMAIN fields |-> i]) \o end
DecimalText(d) ==
    Chars(ToString(d[1])) \o (IF d[2] = <<>> THEN <<>> ELSE <<".">> \o d[2])
CSVText(s) ==
    LET field(f) == IF s.type = "double" THEN DecimalText(f)
                    ELSE IF s.quoted THEN QuotedField(f) ELSE f
    IN  FlattenSeq([i \in DOMAIN s.rows |->
                       Line([j \in DOMAIN s.rows[i] |-> field(s.rows[i][j])], s.separator, s.end)])
        \o <<EOFChar>>

RecordsOutcome(s) == readCSV(CSVText(s), s.separator, s.has_header, s.type)

ReadRecords == /\ Subject("csv")
               /\ outcome' = <<RecordsOutcome(subject)>>
               /\ UNCHANGED subject

(* The text of the pairs up to the last length characters, which a writer  *)
(* that stops early leaves out.                                            *)
PairsText(s) ==
    LET text == toString(s.pairs, "=", s.delim)
    IN  SubSeq(text, 1, Len(text) - s.missing)

PairsOutcome(s) == parseKeyValue(PairsText(s), s.delim)

ReadPairs == /\ Subject("pairs")
             /\ outcome' = <<PairsOutcome(subject)>>
             /\ UNCHANGED subject

(* Characters that are not of the alphabet are put before each of it.      *)
Scattered(chars) == FlattenSeq([i \in DOMAIN chars |-> <<65, chars[i]>>])

Base64Outcome(s) ==
    LET chars == base64Encode(s.bytes)
    IN  [chars |-> chars, bytes |-> base64Decode(chars),
         scattered |-> base64Decode(Scattered(chars))]

EncodeBytes == /\ Subject("base64")
               /\ outcome' = <<Base64Outcome(subject)>>
               /\ UNCHANGED subject

(* csv.h: the fields of a text with records of one size are those it was   *)
(* written from, quoted or not, and records of several sizes throw.  Not   *)
(* claimed: quotes that hold a separator or stand before a carriage        *)
(* return, an empty last field, and numbers below a header.                *)
CSVReadsBack ==
    Done("csv") =>
       LET rows == subject.rows
           ragged == \E i \in DOMAIN rows : Len(rows[i]) # Len(rows[1])
           split == subject.type = "string" /\ subject.quoted
                    /\ \E i \in DOMAIN rows : \E j \in DOMAIN rows[i] :
                          subject.separator \in Range(rows[i][j])
           closed == subject.quoted => subject.end = <<"\n">>
           blank == \E i \in DOMAIN rows : Last(rows[i]) = <<>>
           named == subject.has_header /\ subject.type = "string"
       IN  IF split \/ ~closed \/ blank THEN TRUE
           ELSE IF ragged THEN ~Returned.ok
           ELSE (subject.type = "double" /\ subject.has_header) \/
                   Returned = [ok |-> TRUE, header |-> IF named THEN rows[1] ELSE <<>>,
                               rows |-> IF named THEN Tail(rows) ELSE rows]

(* keyvalue/parse.cpp: toString() is read again; what lacks the delimiter  *)
(* of its last value throws.                                               *)
PairsReadBack ==
    Done("pairs") =>
       IF Len(PairsText(subject)) > MAX_LENGTH_OF_KEYVALUE_STRING THEN ~Returned.ok
       ELSE IF subject.pairs = <<>> \/ subject.missing <= 1
       THEN Returned = [ok |-> TRUE, pairs |-> subject.pairs]
       ELSE ~Returned.ok

(* base64.h: the characters are the bits of the bytes in groups of six,    *)
(* and give the bytes again.                                               *)
Base64ReadsBack ==
    Done("base64") =>
       LET bytes == subject.bytes
           bit(i) == IF i < 8 * Len(bytes)
                     THEN (bytes[(i \div 8) + 1] \div 2^(7 - (i % 8))) % 2 ELSE 0
           value(k) == FoldLeft(LAMBDA n, j : 2 * n + bit(6 * (k - 1) + j), 0,
                                <<0, 1, 2, 3, 4, 5>>)
           length == 4 * ((Len(bytes) + 2) \div 3)
       IN  /\ Returned.chars = [k \in 1..length |->
                                   IF 6 * (k - 1) < 8 * Len(bytes) THEN value(k) ELSE Padding]
           /\ Returned.bytes = bytes /\ Returned.scattered = bytes

(* csv.h, keyvalue/parse.cpp and base64.h give back what was written.      *)
RecordsReadBack == CSVReadsBack /\ PairsReadBack /\ Base64ReadsBack

-----------------------------------------------------------------------------
ConvertFormats == FormatPieces \/ ConvertDate \/ ReadRecords \/ ReadPairs \/ EncodeBytes
=============================================================================
