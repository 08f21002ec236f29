-------------------------------- MODULE Records --------------------------------
(***************************************************************************)
(* Flat formats: the CSV reader of lib/parser/csv/csv.h, the key and value *)
(* pairs of lib/parser/keyvalue/parse.cpp and lib/base64.h.                *)
(***************************************************************************)
EXTENDS ByteStream

CONSTANT MAX_LENGTH_OF_KEYVALUE_STRING

ASSUME RecordsAssumption == MAX_LENGTH_OF_KEYVALUE_STRING \in Nat

EOFChar == "eof"  \* the byte 255, by which a CSV text ends

-----------------------------------------------------------------------------
(* CSV.  s: the characters consumed, the rows completed, the fields of the *)
(* row that is read, and whether the reader goes on.                       *)

updateAndCheckRecordSize(s, new_record_size) ==
    LET record_size == IF s.record_size = 0 THEN new_record_size ELSE s.record_size
    IN  IF new_record_size = 0 \/ new_record_size # record_size
        THEN [s EXCEPT !.status = "threw"]
        ELSE [s EXCEPT !.record_size = record_size]

processRecord(s) ==
    [updateAndCheckRecordSize(s, Len(s.row)) EXCEPT !.rows = Append(@, s.row), !.row = <<>>]

(* A separator ends a field inside quotes, too.                            *)
handleFieldDelimeter(s, b, empty) ==
    LET field == [s EXCEPT !.row = Append(@, s.current), !.current = empty, !.at = @ + 1]
    IN  IF b = "\n" THEN processRecord(field) ELSE field

(* What a quote or a carriage return does; other characters are no concern *)
(* of handleQuotes.  Of two quotes the second is consumed, the first kept. *)
handleQuotes(s, b, peeked, separator) ==
    CASE ~s.quoted /\ b = "\"" ->
             IF s.current # <<>> THEN [s EXCEPT !.status = "threw"]
             ELSE [s EXCEPT !.quoted = TRUE, !.at = @ + 1]
      [] ~s.quoted /\ b = "\r" -> [s EXCEPT !.at = @ + 1]
      [] s.quoted /\ b = "\"" ->
             IF peeked = "\"" THEN [s EXCEPT !.current = Append(@, b), !.at = @ + 2]
             ELSE IF peeked \in {separator, "\n"} THEN [s EXCEPT !.quoted = FALSE, !.at = @ + 1]
             ELSE [s EXCEPT !.status = "threw"]

Reader(at, current, record_size) ==
    [at |-> at, rows |-> <<>>, row |-> <<>>, current |-> current, quoted |-> FALSE,
     record_size |-> record_size, status |-> "reading"]

RECURSIVE readStrings(_, _, _, _)
readStrings(text, s, separator, r_count) ==
    LET b == peekAt(text, s.at)
        concerned == b = "\"" \/ (b = "\r" /\ ~s.quoted)
        s1 == CASE b = EndOfText -> [s EXCEPT !.status = "threw"]
                [] b = EOFChar -> [s EXCEPT !.status = "ended", !.at = @ + 1]
                [] concerned -> handleQuotes(s, b, peekAt(text, s.at + 1), separator)
                [] b \in {separator, "\n"} -> handleFieldDelimeter(s, b, <<>>)
                [] OTHER -> [s EXCEPT !.current = Append(@, b), !.at = @ + 1]
    IN  IF s.status # "reading" \/ Len(s.rows) = r_count THEN s
        ELSE readStrings(text, s1, separator, r_count)

DoubleRead(s, decimal) ==
    IF decimal.ok
    THEN [s EXCEPT !.current = <<decimal.natural, decimal.decimals>>, !.at = decimal.at]
    ELSE [s EXCEPT !.status = "threw"]
RECURSIVE readDoubles(_, _, _, _)
readDoubles(text, s, separator, r_count) ==
    LET b == peekAt(text, s.at)
        s1 == CASE b = EndOfText -> [s EXCEPT !.status = "threw"]
                [] b \in {separator, "\n"} -> handleFieldDelimeter(s, b, <<0, <<>>>>)
                [] isDigit(b) -> DoubleRead(s, readDecimal(text, s.at))
                [] b = EOFChar -> [s EXCEPT !.status = "ended", !.at = @ + 1]
                [] OTHER -> [s EXCEPT !.status = "threw"]
    IN  IF s.status # "reading" \/ Len(s.rows) = r_count THEN s
        ELSE readDoubles(text, s1, separator, r_count)

(* read(r_count) of the reader of the type.                                *)
readRecords(type, text, s, separator, r_count) ==
    IF type = "string" THEN readStrings(text, s, separator, r_count)
    ELSE readDoubles(text, s, separator, r_count)

(* The rows a reader has written to: one that was not ended stays.         *)
Written(s) == IF s.row = <<>> THEN s.rows ELSE Append(s.rows, s.row)

(* read(has_header): one record for the header, then all there are; the    *)
(* size of the header's record is the one the others must have.  A header  *)
(* of numbers is the first row, which the next one is written over.        *)
CSVRows(type, top, rows) ==
    LET first == IF Written(top) = <<>> THEN <<>> ELSE Written(top)[1]
        kept(row) == row \o SubSeq(first, Len(row) + 1, Len(first))
    IN  IF type = "string" THEN [ok |-> TRUE, header |-> first, rows |-> rows]
        ELSE [ok |-> TRUE, header |-> <<>>,
              rows |-> IF rows = <<>> THEN Written(top) ELSE <<kept(rows[1])>> \o Tail(rows)]
CSVRead(type, has_header, top, read) ==
    IF (has_header /\ top.status = "threw") \/ read.status = "threw" THEN [ok |-> FALSE]
    ELSE IF has_header THEN CSVRows(type, top, Written(read))
    ELSE [ok |-> TRUE, header |-> <<>>, rows |-> Written(read)]
CSVBelow(text, separator, has_header, type, empty, top) ==
    LET reader == IF has_header THEN Reader(top.at, empty, top.record_size) ELSE Reader(0, empty, 0)
    IN  CSVRead(type, has_header, top,
                readRecords(type, text, reader, separator, Len(text) + 1))
readCSV(text, separator, has_header, type) ==
    LET empty == IF type = "string" THEN <<>> ELSE <<0, <<>>>>
    IN  CSVBelow(text, separator, has_header, type, empty,
                 readRecords(type, text, Reader(0, empty, 0), separator, 1))

-----------------------------------------------------------------------------
(* Key and value pairs, as a sequence of <<key, value>>.                   *)

toString(pairs, key_delim, delim) ==
    FoldLeft(LAMBDA text, p : text \o p[1] \o <<key_delim>> \o p[2] \o <<delim>>, <<>>, pairs)
    \o <<"\n">>

Assigned(pairs, key, value) == \* data[key] = value
    Append(SelectSeq(pairs, LAMBDA p : p[1] # key), <<key, value>>)

(* A value that a new line ends, where the delimiter is another, is lost.  *)
RECURSIVE parsePairs(_, _, _, _)
Ended(ok, pairs) == [ok |-> ok, pairs |-> pairs]
PairRead(text, pairs, name, value, kept, delim) ==
    IF ~value.ok THEN Ended(FALSE, pairs)
    ELSE IF delim # "\n" /\ Last(value.out) = "\n" THEN Ended(TRUE, pairs)
    ELSE parsePairs(text, value.at, Assigned(pairs, Front(name.out), kept), delim)

(* Mutation: the delimiter of a value stays at its end.                    *)
ValueWhole(text, pairs, name, value, delim) ==
    PairRead(text, pairs, name, value, value.out, delim)

ValueRead(text, pairs, name, value, delim) ==
    PairRead(text, pairs, name, value, Front(value.out), delim)
NameRead(text, pairs, name, delim) ==
    IF ~name.ok THEN Ended(FALSE, pairs)
    ELSE IF Last(name.out) = "\n" THEN Ended(TRUE, pairs)
    ELSE ValueRead(text, pairs, name, Plain(text, name.at, Until({"\n", delim}, TRUE)), delim)
parsePairs(text, at, pairs, delim) ==
    LET blanks == <<Link("disallow", <<" ", "\t">>, FALSE)>>
    IN  IF at >= Len(text) THEN Ended(TRUE, pairs)
        ELSE NameRead(text, pairs,
                  ReadWith(text, at, Until({"=", "\n"}, TRUE), NewTask, blanks, "collect"), delim)

parseKeyValue(text, delim) ==
    IF Len(text) > MAX_LENGTH_OF_KEYVALUE_STRING THEN [ok |-> FALSE, pairs |-> <<>>]
    ELSE parsePairs(text, 0, <<>>, delim)

-----------------------------------------------------------------------------
(* Base64, over bytes; a character of the alphabet is its index, the       *)
(* padding is 64 and what is neither is 65.                                *)

Padding == 64

(* The four characters of three bytes, and the three bytes of four.        *)
Sextets(b) == <<b[1] \div 4, (b[1] % 4) * 16 + b[2] \div 16, (b[2] % 16) * 4 + b[3] \div 64,
                b[3] % 64>>
Octets(c) == <<c[1] * 4 + c[2] \div 16, (c[2] % 16) * 16 + c[3] \div 4, (c[3] % 4) * 64 + c[4]>>

Group(seq, n, k) == SubSeq(seq, (k - 1) * n + 1, k * n)
Filled(seq, n) == seq \o [i \in 1..(n - Len(seq)) |-> 0]

base64Encode(bytes) ==
    LET whole == Len(bytes) \div 3
        rest == SubSeq(bytes, whole * 3 + 1, Len(bytes))
        i == Len(rest)
    IN  FlattenSeq([k \in 1..whole |-> Sextets(Group(bytes, 3, k))])
        \o (IF i = 0 THEN <<>>
            ELSE SubSeq(Sextets(Filled(rest, 3)), 1, i + 1) \o [k \in 1..(3 - i) |-> Padding])

base64Decode(chars) ==
    LET end == SelectInSeq(chars, LAMBDA c : c = Padding)
        known == SelectSeq(IF end = 0 THEN chars ELSE SubSeq(chars, 1, end - 1),
                           LAMBDA c : c < Padding)
        whole == Len(known) \div 4
        rest == SubSeq(known, whole * 4 + 1, Len(known))
    IN  FlattenSeq([k \in 1..whole |-> Octets(Group(known, 4, k))])
        \o (IF rest = <<>> THEN <<>> ELSE SubSeq(Octets(Filled(rest, 4)), 1, Len(rest) - 1))
=============================================================================
