---------------------------------- MODULE Json ---------------------------------
(***************************************************************************)
(* The JSON parser of lib/parser/json: json_parser.cpp, the values it      *)
(* builds, and json_mapper.cpp, which takes variables out of them.  Every  *)
(* function returns where the stream is and how it ended: "ok", "threw",   *)
(* or "hangs" for the loop that consumes nothing.                          *)
(***************************************************************************)
EXTENDS ByteStream

CONSTANTS
    MAX_JSON_DEPTH,
    MAX_LENGTH_OF_JSON_STRING_KEYS,
    MAX_LENGTH_OF_JSON_STRING_VALUES

ASSUME JsonAssumption ==
    {MAX_JSON_DEPTH, MAX_LENGTH_OF_JSON_STRING_KEYS, MAX_LENGTH_OF_JSON_STRING_VALUES}
        \subseteq Nat

Null == [type |-> "null"]
Boolean(b) == [type |-> "boolean", value |-> b]
NumberValue(natural, decimals) ==
    [type |-> "number", natural |-> natural, decimals |-> decimals]
StringValue(chars) == [type |-> "string", chars |-> chars]
ArrayOf(values, depth) == [type |-> "array", values |-> values, depth |-> depth]
ObjectOf(keys, values, depth) ==
    [type |-> "object", keys |-> keys, values |-> values, depth |-> depth]

Ends(status, at) == [status |-> status, at |-> at, value |-> Null]
Ok(value, at) == [status |-> "ok", at |-> at, value |-> value]
Char(text, at) == IF at <= Len(text) THEN text[at] ELSE EndOfText

(* The sign is looked at and not consumed, so what follows is no digit;    *)
(* so is the e of an exponent, which is then found right of the number.    *)
NumberParsed(text, at, t) ==
    LET c == peekAt(text, t.at)
    IN  IF ~isDigit(peekAt(text, at)) \/ ~t.ok \/ c = EndOfText THEN Ends("threw", at)
        ELSE IF c \in {"e", "E", " ", ",", "}", "\r", "\n", "\t"}
        THEN Ok(NumberValue(t.natural, t.decimals), t.at)
        ELSE Ends("threw", t.at)
parseNumber(text, at) == NumberParsed(text, at, readDecimal(text, at))

Escapes == [c \in {"f", "n", "r", "t"} |->
               CASE c = "f" -> "\f" [] c = "n" -> "\n" [] c = "r" -> "\r" [] c = "t" -> "\t"]

(* at counts the characters got, c being the last of them.  A backslash is *)
(* appended and stays the previous character when it was escaped itself;   *)
(* the two digits after u are read and their character is dropped.         *)
RECURSIVE StringFrom(_, _, _, _, _)
AfterUnicode(text, at, s, unicode, count) ==
    IF unicode.ok THEN StringFrom(text, unicode.at + 1, s, "u", count + 1) ELSE Ends("threw", at)
StringFrom(text, at, s, prev, count) ==
    LET c == Char(text, at)
        escaped == prev = "\\"
        next == CASE escaped /\ c \in DOMAIN Escapes -> <<Escapes[c]>>
                  [] escaped /\ c = "b" -> <<"backspace">>
                  [] escaped /\ c = "u" -> <<>>
                  [] OTHER -> <<c>>
    IN  IF c = EndOfText THEN Ends("threw", at)
        ELSE IF count >= MAX_LENGTH_OF_JSON_STRING_VALUES \/ (c = "\"" /\ ~escaped)
        THEN Ok(StringValue(s), at)
        ELSE IF escaped /\ c = "u"
        THEN AfterUnicode(text, at, s, Plain(text, at, Size(2)), count)
        ELSE StringFrom(text, at + 1, s \o next, c, count + 1)

parseString(text, at) == StringFrom(text, at + 2, <<>>, "", 0)

Immediate(task, at, value) == IF task.ok THEN Ok(value, task.at) ELSE Ends("threw", at)
parseImmediate(text, at, comp, value) ==
    Immediate(ReadWith(text, at, Size(Len(comp)), NewTask, <<Link("exact", comp, TRUE)>>,
                       "collect"),
              at, value)

Extracted(extract, at, key) ==
    IF ~extract.ok \/ extract.out = <<>> THEN Ends("threw", at)
    ELSE IF Last(extract.out) = "}" THEN Ok(<<>>, extract.at)
    ELSE IF Len(extract.out) > MAX_LENGTH_OF_JSON_STRING_KEYS THEN Ends("threw", at)
    ELSE Ok(<<key>>, extract.at)

(* Mutation: the delimiter stays at the end of the key.                    *)
KeyWhole(extract, at) == Extracted(extract, at, extract.out)

(* parseKey: the key up to ":", and << >> at the end of the object, which  *)
(* is where a "}" is met first, whatever stood before it.                  *)
Key(extract, at) == Extracted(extract, at, Front(extract.out))
parseKey(text, at) ==
    Key(ReadWith(text, at, Until({":", "}"}, TRUE), NewTask, <<>>, "extract"), at)

RECURSIVE ValueFrom(_, _, _, _, _)
RECURSIVE ArrayFrom(_, _, _, _)
RECURSIVE ObjectFrom(_, _, _, _, _)

(* ArrayFrom and ObjectFrom: at counts the character c that was got last.  *)
AfterElement(text, v, depth) ==
    IF v.status # "ok" THEN v ELSE ArrayFrom(text, v.at + 1, v.value, depth)
ArrayFrom(text, at, values, depth) ==
    LET c == Char(text, at)
    IN  IF c = EndOfText THEN Ends("threw", at)
        ELSE IF c = "]" THEN Ok(ArrayOf(values, depth), at)
        ELSE IF c \in {"[", ","}
        THEN AfterElement(text, ValueFrom(text, at, values, depth, FALSE), depth)
        ELSE ArrayFrom(text, at + 1, values, depth)

parseArray(text, at, depth) ==
    IF depth > MAX_JSON_DEPTH THEN Ends("threw", at) ELSE ArrayFrom(text, at + 1, <<>>, depth)

AfterValue(text, keys, v, depth) ==
    IF v.status # "ok" THEN v ELSE ObjectFrom(text, v.at + 1, keys, v.value, depth)
AfterKey(text, key, keys, values, depth) ==
    IF key.status # "ok" THEN key
    ELSE IF key.value = <<>> THEN Ok(ObjectOf(keys, values, depth), key.at)
    ELSE AfterValue(text, keys \o key.value, ValueFrom(text, key.at, values, depth, FALSE), depth)
ObjectFrom(text, at, keys, values, depth) ==
    LET c == Char(text, at)
    IN  IF c = EndOfText THEN Ends("threw", at)
        ELSE IF c = "}" THEN Ok(ObjectOf(keys, values, depth), at)
        ELSE IF c \in {"{", ","} THEN AfterKey(text, parseKey(text, at), keys, values, depth)
        ELSE Ends("hangs", at)

parseObject(text, at, depth) ==
    IF depth > MAX_JSON_DEPTH THEN Ends("threw", at)
    ELSE ObjectFrom(text, at + 1, <<>>, <<>>, depth)

parseToken(text, at, depth) ==
    LET c == peekAt(text, at)
    IN  CASE c = "\"" -> parseString(text, at)
          [] isDigit(c) \/ c \in {"+", "-"} -> parseNumber(text, at)
          [] c = "[" -> parseArray(text, at, depth + 1)
          [] c = "t" -> parseImmediate(text, at, <<"t", "r", "u", "e">>, Boolean(TRUE))
          [] c = "f" -> parseImmediate(text, at, <<"f", "a", "l", "s", "e">>, Boolean(FALSE))
          [] c = "n" -> parseImmediate(text, at, <<"n", "u", "l", "l">>, Null)
          [] c = "{" -> parseObject(text, at, depth + 1)
          [] OTHER -> Ends("threw", at)

(* parseValue: at most one value up to a delimiter; none is no error.      *)
AfterToken(text, values, v, depth) ==
    IF v.status # "ok" THEN v ELSE ValueFrom(text, v.at, Append(values, v.value), depth, TRUE)
ValueFrom(text, at, values, depth, parsed) ==
    LET c == peekAt(text, at)
    IN  IF c = EndOfText THEN Ends("threw", at)
        ELSE IF c \in {",", "}", "]"} THEN Ok(values, at)
        ELSE IF c \in Whitespace THEN ValueFrom(text, at + 1, values, depth, parsed)
        ELSE IF parsed THEN Ends("threw", at)
        ELSE AfterToken(text, values, parseToken(text, at, depth), depth)

parse(text) ==
    LET start == SelectInSeq(text, LAMBDA c : c \notin Whitespace) - 1
        c == IF start < 0 THEN EndOfText ELSE text[start + 1]
    IN  CASE c = "{" -> parseObject(text, start, 0)
          [] c = "[" -> parseArray(text, start, 0)
          [] OTHER -> Ends("threw", 0)

-----------------------------------------------------------------------------
(* json_mapper.cpp.  The result is a sequence: << >> when the call throws. *)

Payload(value) ==
    CASE value.type = "boolean" -> value.value
      [] value.type = "string" -> value.chars
      [] OTHER -> value

setVariableFromJsonValue(value, type) == IF value.type = type THEN <<Payload(value)>> ELSE <<>>

(* What is of another type is left out.                                    *)
setArrayVariablesFromJsonValue(value, type) ==
    IF value.type # "array" THEN <<>>
    ELSE <<FoldLeft(LAMBDA arr, v : arr \o setVariableFromJsonValue(v, type),
                    <<>>, value.values)>>

(* Mutation: only the value that stays is looked at.                       *)
setMapVariableFromJsonValueLast(value, type) ==
    IF value.type # "object" THEN <<>>
    ELSE IF value.values = <<>> THEN <<"unset">>
    ELSE setVariableFromJsonValue(Last(value.values), type)

(* Every node goes to the one key of the call: the last one stays.         *)
setMapVariableFromJsonValue(value, type) ==
    IF value.type # "object" \/ \E i \in DOMAIN value.values : value.values[i].type # type
    THEN <<>>
    ELSE IF value.values = <<>> THEN <<"unset">>
    ELSE setVariableFromJsonValue(Last(value.values), type)
=============================================================================
