----------------------------- MODULE HttpRouting -----------------------------
(***************************************************************************)
(* What lib/web/http does with one request: the parser of HttpRequest, the *)
(* static files, the protocol upgrade and the dispatcher, as operators.    *)
(*                                                                         *)
(* Texts are tokens.  What the parser cuts off is kept: the method loses   *)
(* its last letter, because removeBack() has already removed the blank     *)
(* that substr() is meant to remove, and a field value loses its last two  *)
(* characters, the line end "\r\n", or the last letter and the separator.  *)
(***************************************************************************)
EXTENDS Integers, Sequences, FiniteSets, SequencesExt, TLC

CONSTANTS
    StaticFiles,  \* paths of files below static_path
    RequestMap,   \* registered items, a sequence of [path, method, type]
    Upgraders,    \* a sequence of [path, protocol]
    FieldMax,     \* HTTP_FIELD_MAX
    ReadLimit     \* the largest number of elements readEls reads

ASSUME RoutingAssumption == FieldMax \in Nat /\ ReadLimit \in Nat

(* A request on the wire: method, path, crlf (its lines end in "\r\n"),    *)
(* fields (how many), upgrade (the two fields that ask for it), key,       *)
(* protocols (the values of each line of sec-websocket-protocol), length   *)
(* (content-length, -1 without one), type (of the content, "" without one),*)
(* body (the bytes that follow) and sound (the content parses as its type).*)

Method == ("GET" :> "GE") @@ ("GETx" :> "GET") @@ ("HEADx" :> "HEAD")
          @@ ("POST" :> "POS") @@ ("POSTx" :> "POST")

MethodOf(r) == Method[r.method]

(* A value that lost a letter equals no registered one.                    *)
Cut == "cut"
ValuesOfLine(r, line) ==
    [i \in DOMAIN line |-> IF i = Len(line) /\ r.crlf THEN line[i] ELSE Cut]
FieldValues(r, lines) ==
    FlattenSeq([i \in DOMAIN lines |-> ValuesOfLine(r, lines[i])])

(* The length that is read after the fields, -1 for SIZE_MAX.              *)
ContentLength(r) == IF r.length = -1 \/ r.crlf THEN r.length
                    ELSE r.length \div 10

ReadsEls(r) ==
    ContentLength(r) \in 1..ReadLimit /\ ContentLength(r) <= r.body

ParsesContent(r) ==
    IF MethodOf(r) = "POST" /\ r.type # "" /\ ContentLength(r) # -1
    THEN \/ r.crlf /\ r.type \in {"json", "form", "formdata"} /\ r.sound
         \/ r.crlf /\ r.type = "byteranges"
    ELSE ReadsEls(r)

(* Whether the constructor of HttpRequest returns.  What is read with a    *)
(* content type it does not know is read up to a delimiter that never      *)
(* comes: read() takes the length for an empty array.                      *)
Parses(r) == r.fields < FieldMax /\ ParsesContent(r)

(* setConnectionTimeout, for an upload that is long.                       *)
SetsTimeout(r) ==
    /\ r.fields < FieldMax /\ r.crlf
    /\ MethodOf(r) = "POST" /\ r.type = "formdata" /\ ContentLength(r) # -1

-----------------------------------------------------------------------------
IsStatic(r) == r.path \in StaticFiles
StaticStatus(r) == IF MethodOf(r) \in {"HEAD", "GET"} THEN "200" ELSE "500"

AsksForUpgrade(r) == r.upgrade /\ r.crlf

(* The inner loop counts with the index of the outer one: it compares the  *)
(* i-th protocol of the client with the i-th upgrader.  A protocol behind  *)
(* the last one is empty: operator[] appends it.                           *)
UpgradeMatches(r) ==
    LET offered == FieldValues(r, r.protocols)
        i_matches(i) ==
            /\ Upgraders[i].path = r.path
            /\ Upgraders[i].protocol = IF i <= Len(offered) THEN offered[i] ELSE ""
    IN  IF AsksForUpgrade(r) /\ offered # <<>>
        THEN SelectSeq([i \in DOMAIN Upgraders |-> i], i_matches)
        ELSE <<>>

(* operator== of a registered item and the request: the parser sets no     *)
(* backwards_path, so only an item without a path can be equal.  front()   *)
(* of a missing content type throws.                                       *)
ItemEquals(item, r) ==
    item.path = "" /\ item.type = "" /\ item.method = MethodOf(r)
ItemThrows(item, r) == item.type # "" /\ r.type = ""

FirstDecisive(r) ==
    SelectInSeq(RequestMap, LAMBDA x : ItemEquals(x, r) \/ ItemThrows(x, r))

(* What requestDispatcher returns: the status, or "throws".                *)
Dispatched(r) ==
    LET i == FirstDecisive(r)
    IN  IF i = 0 THEN "500"
        ELSE IF ItemThrows(RequestMap[i], r) THEN "throws" ELSE "200"
=============================================================================
