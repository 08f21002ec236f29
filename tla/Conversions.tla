----------------------------- MODULE Conversions ------------------------------
(***************************************************************************)
(* The conversions of the library over bounded inputs: what a parser reads *)
(* from a text, and documents, in the steps of Reading.                    *)
(***************************************************************************)
EXTENDS Reading, Json

-----------------------------------------------------------------------------
(* JSON: a document written from a tree, whole, cut off, or closed with    *)
(* the other bracket.                                                      *)

RECURSIVE Rendered(_, _)
Rendered(tree, gap) ==
    LET listed(n, Item(_)) ==
            FoldLeft(LAMBDA text, i : text \o (IF i = 1 THEN <<>> ELSE <<",">>) \o Item(i) \o gap,
                     <<>>, [i \in 1..n |-> i])
        quoted(chars) == <<"\"">> \o chars \o <<"\"">>
        decimals(n) == IF n.decimals = <<>> THEN <<>> ELSE <<".">> \o n.decimals
    IN  gap \o
        CASE tree.type = "null" -> <<"n", "u", "l", "l">>
          [] tree.type = "boolean" -> IF tree.value THEN <<"t", "r", "u", "e">>
                                      ELSE <<"f", "a", "l", "s", "e">>
          [] tree.type = "number" -> <<Numeral(tree.natural)>> \o decimals(tree)
          [] tree.type = "string" -> quoted(tree.chars)
          [] tree.type = "array" ->
                 <<"[">> \o listed(Len(tree.values), LAMBDA i : Rendered(tree.values[i], gap))
                 \o <<"]">>
          [] tree.type = "object" ->
                 <<"{">> \o listed(Len(tree.values),
                                    LAMBDA i : gap \o quoted(tree.keys[i]) \o gap \o <<":">>
                                               \o Rendered(tree.values[i], gap))
                 \o <<"}">>

RECURSIVE EndsInNumber(_)
EndsInNumber(tree) == \* an array whose last value is a number
    tree.type \in {"array", "object"} /\ tree.values # <<>> /\
       \/ tree.type = "array" /\ Last(tree.values).type = "number"
       \/ \E i \in DOMAIN tree.values : EndsInNumber(tree.values[i])

RECURSIVE TooDeep(_)
TooDeep(tree) ==
    tree.type \in {"array", "object"} /\
       (tree.depth > MAX_JSON_DEPTH \/ \E i \in DOMAIN tree.values : TooDeep(tree.values[i]))

Document(s) ==
    LET text == Rendered(s.tree, s.gap)
        closer == IF Last(text) = "]" THEN "}" ELSE "]"
    IN  CASE s.form = "whole" -> text
          [] s.form = "closed" -> Append(Front(text), closer)
          [] s.form = "cut" -> SubSeq(text, 1, s.length)

Mapped(parsed) ==
    [parsed |-> parsed,
     array |-> setArrayVariablesFromJsonValue(parsed.value, "boolean"),
     map |-> setMapVariableFromJsonValue(parsed.value, "boolean")]
DocumentOutcome(s) == Mapped(parse(Document(s)))

ParseDocument == /\ Subject("json")
                 /\ outcome' = <<DocumentOutcome(subject)>>
                 /\ UNCHANGED subject

(* A string with a backslash in it, and the tree without what such strings *)
(* hold.                                                                   *)
Escaped(v) == v.type = "string" /\ "\\" \in Range(v.chars)

RECURSIVE Shape(_)
Shape(tree) ==
    IF Escaped(tree) THEN "escaped"
    ELSE IF tree.type \notin {"array", "object"} THEN tree
    ELSE [tree EXCEPT !.values = [i \in DOMAIN tree.values |-> Shape(tree.values[i])]]

(* json_parser.cpp: a document gives back the tree it was written from, to *)
(* the last bracket, one whose arrays are too deep or that is cut off      *)
(* throws, and so does an array that is closed with "}".  Of a string with *)
(* a backslash its place and its end are claimed, not what it holds.  Not  *)
(* claimed: an array whose last value is a number, with no blank behind it *)
(* (WholeArraysParse), and an object that is closed with "]".              *)
DocumentsParseBack ==
    Done("json") =>
       LET parsed == Returned.parsed
           tree == subject.tree
       IN  CASE subject.form = "closed" -> tree.type = "array" => parsed.status = "threw"
             [] subject.form = "cut" -> parsed.status = "threw"
             [] subject.form = "whole" ->
                    IF TooDeep(tree) THEN parsed.status = "threw"
                    ELSE \/ subject.gap = <<>> /\ EndsInNumber(tree)
                         \/ /\ parsed.status = "ok" /\ parsed.at = Len(Document(subject))
                            /\ Shape(parsed.value) = Shape(tree)

(* json_parser.cpp:467 calls [1, 2, 3, 4] valid JSON: an array of numbers  *)
(* is parsed, with and without blanks before its end.                      *)
WholeArraysParse ==
    LET tree == subject.tree
    IN  Done("json") /\ subject.form = "whole" /\ tree.type = "array"
        /\ (\A i \in DOMAIN tree.values : tree.values[i].type = "number") =>
           Returned.parsed = Ok(tree, Len(Document(subject)))

(* json_mapper.cpp: an array gives its elements of the type in their order *)
(* and an object with a value of another type gives nothing.               *)
MappedByType ==
    Done("json") /\ Returned.parsed.status = "ok" =>
       LET tree == Returned.parsed.value
           wanted == SelectSeq(tree.values, LAMBDA v : v.type = "boolean")
       IN  IF tree.type = "array"
           THEN /\ Returned.map = <<>>
                /\ Len(Returned.array) = 1 /\ Len(Returned.array[1]) = Len(wanted)
                /\ \A i \in DOMAIN wanted : Returned.array[1][i] = wanted[i].value
           ELSE /\ Returned.array = <<>>
                /\ Returned.map = <<>> <=> Len(wanted) # Len(tree.values)

-----------------------------------------------------------------------------
Convert == Read \/ ParseDocument
=============================================================================
