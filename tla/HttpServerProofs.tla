--------------------------- MODULE HttpServerProofs ---------------------------
(***************************************************************************)
(* Proofs about HttpServer, for any number of connections and descriptors, *)
(* any requests, and whatever is registered with the server.               *)
(***************************************************************************)
EXTENDS HttpServer, SequenceTheorems, NaturalsInduction, WellFoundedInduction,
        TLAPS

-----------------------------------------------------------------------------
(* The inductive invariant. *)

(* The replies, "" before there is one.                                    *)
ReplyTexts == {"", "200", "500"}

ConnRecords ==
    [at : Places, fd : Fds \union {0}, request : Requests, upgrader : Nat,
     reply : ReplyTexts, timed_out : BOOLEAN]

Statuses == {"101", "200", "500"}

(* What the fields of a connection are where they are used: its descriptor *)
(* once it was accepted, its reply when it is written, and the mark of the *)
(* timeout in the handler of the signal.                                   *)
ConnTypes ==
    /\ conn \in [Connections -> ConnRecords]
    /\ \A c \in Connections :
          /\ conn[c].at \notin {"new", "backlog"} => conn[c].fd \in Fds
          /\ conn[c].at = "write" => conn[c].reply # ""
          /\ conn[c].at \in {"handler", "again"} => conn[c].timed_out

SharedTypes ==
    /\ listener \in {"accept", "offer", "ended"}
    /\ backlog \in Seq(Connections)
    /\ descriptor \in [Fds -> Connections \union {NoConnection}]
    /\ replies \in [Connections -> Seq(Statuses)]
    /\ holder \in [Mutexes -> Connections \union {NoConnection}]
    /\ twice \subseteq Connections /\ crossed \subseteq Connections

ServerTypes == ConnTypes /\ SharedTypes

(* A connection waits once for accept(), and nothing else is done to it.   *)
BacklogWaits ==
    \A i \in 1..Len(backlog) :
       /\ conn[backlog[i]].at = "backlog"
       /\ \A j \in 1..Len(backlog) : backlog[i] = backlog[j] => i = j

(* Where a connection has its descriptor: until its thread has closed it.  *)
HasDescriptor(c) == Open(c) \/ conn[c].at = "handler"

(* A descriptor names the connection that has it.                          *)
Accounted ==
    /\ \A fd \in Fds : descriptor[fd] # NoConnection =>
          conn[descriptor[fd]].fd = fd /\ Owns(descriptor[fd])
    /\ \A c \in Connections : HasDescriptor(c) => descriptor[conn[c].fd] = c

(* run() has not sent its final response.                                  *)
Unanswered(c) ==
    conn[c].at \in Running
                    \union {"new", "backlog", "offered", "leaked", "created"}

(* The thread has left run(). *)
Left(c) == conn[c].at \in Tearing \union Leaving \union {"kept", "gone"}

(* Before its final response a connection is sent upgrades only, and what  *)
(* has been upgraded or has left run() was sent something.                 *)
Answered ==
    \A c \in Connections :
       /\ \A i \in 1..(Len(replies[c]) - 1) : replies[c][i] = "101"
       /\ Unanswered(c) => \A i \in 1..Len(replies[c]) : replies[c][i] = "101"
       /\ conn[c].upgrader # 0 => replies[c] # <<>>
       /\ Left(c) /\ ~conn[c].timed_out /\ ~TlsEnabled => replies[c] # <<>>

Undisturbed == crossed = {} /\ Accounted /\ Answered

(* Nobody is disturbed until a SIGTERM has made a thread close twice.      *)
ServerInv ==
    /\ ServerTypes
    /\ BacklogWaits
    /\ twice = {} => Undisturbed

-----------------------------------------------------------------------------
(* The kernel's choice, and what a thread sends. *)

(* While a descriptor is free there is a lowest one: accept() gets one that*)
(* names nobody.                                                           *)
LEMMA LowestFree ==
    ASSUME Free # {}
    PROVE  (CHOOSE n \in Free : \A m \in Free : n <= m) \in Free
<1>1. Free \subseteq Nat
  BY ServerAssumption DEF Free
<1>. DEFINE Less == {ss \in Nat \X Nat : ss[1] < ss[2]}
<1>2. IsWellFoundedOn(Less, Nat)
  BY ONLY NatLessThanWellFounded, Zenon DEF OpToRel
<1>3. PICK x \in Free : \A y \in Free : <<y, x>> \notin Less
  <2>. HIDE DEF Less
  <2>. QED
    BY <1>1, <1>2, WFMin
<1>4. ASSUME NEW y \in Free PROVE x <= y
  <2>1. x \in Nat /\ y \in Nat /\ <<y, x>> \notin Less
    BY <1>1, <1>3
  <2>2. ~(<<y, x>>[1] < <<y, x>>[2])
    BY <2>1
  <2>. QED
    BY <2>1, <2>2
<1>. QED
  BY <1>4

(* The reply of a request that is dispatched is a status line.             *)
LEMMA DispatchedStatus ==
    ASSUME NEW r, Dispatched(r) # "throws"
    PROVE  Dispatched(r) \in {"200", "500"}
  BY DEF Dispatched

-----------------------------------------------------------------------------
(* Types. *)

(* The places by name.                                                     *)
LEMMA PlaceNames ==
    /\ {"new", "backlog", "offered", "leaked", "created"} \subseteq Places
    /\ {"start", "parse", "static", "lookup", "websocket", "timeout", "setting",
        "upgraded", "dispatch", "write", "error"} \subseteq Places
    /\ {"teardown", "copy", "leave", "check", "unregister", "erase", "kept",
        "handler", "again", "gone"} \subseteq Places
  BY DEF Places, Running, Tearing, Leaving

(* The three sections under the mutex of the pool.                         *)
LEMMA Sections ==
    /\ DOMAIN Section = {"timeout", "teardown", "leave"}
    /\ Section["timeout"] = "setting" /\ Section["teardown"] = "copy"
    /\ Section["leave"] = "check"
  BY DEF Section

(* What a step does to the record of its connection.                       *)
Moves(c, r) == conn' = [conn EXCEPT ![c] = r]

(* A step that gives one connection a well-formed record keeps the types.  *)
LEMMA MovesKeep ==
    ASSUME ConnTypes, NEW c \in Connections, NEW r \in ConnRecords, Moves(c, r),
           r.at \notin {"new", "backlog"} => r.fd \in Fds,
           r.at = "write" => r.reply # "",
           r.at \in {"handler", "again"} => r.timed_out
    PROVE  ConnTypes'
  BY DEF ConnTypes, Moves

(* A step that only moves a thread keeps the types, if it was accepted     *)
(* before it runs.                                                         *)
LEMMA GoesKeeps ==
    ASSUME ConnTypes, NEW c \in Connections, NEW at \in Places, Goes(c, at),
           at # "backlog" => conn[c].at \notin {"new", "backlog"},
           at \notin {"new", "write", "handler", "again"}
    PROVE  ConnTypes'
<1>. DEFINE r == [conn[c] EXCEPT !.at = at]
<1>1. conn[c] \in ConnRecords
  BY DEF ConnTypes
<1>2. r \in ConnRecords /\ r.at = at /\ r.fd = conn[c].fd
  BY <1>1 DEF ConnRecords
<1>3. Moves(c, r)
  BY DEF Goes, Moves
<1>4. r.at \notin {"new", "backlog"} => r.fd \in Fds
  BY <1>2 DEF ConnTypes
<1>. HIDE DEF r
<1>. QED
  BY <1>2, <1>3, <1>4, MovesKeep

(* A step of a connection keeps the types of its fields.                   *)
LEMMA ConnTypesConnection ==
    ASSUME ConnTypes, NEW c \in Connections,
           Connect(c) \/ ThreadSteps(c) \/ UpgraderEnds(c) \/ TimesOut(c)
    PROVE  ConnTypes'
<1>. USE PlaceNames, GoesKeeps DEF Is
<1>. DEFINE Replies(status) == [conn[c] EXCEPT !.at = "write", !.reply = status]
<1>0. conn[c] \in ConnRecords
  BY DEF ConnTypes
<1>1. CASE Connect(c)
  BY <1>1 DEF Connect
<1>2. CASE StartsStream(c)
  BY <1>2 DEF StartsStream
<1>3. CASE Parse(c) \/ TimeoutSet(c) \/ LookUp(c)
  BY <1>3 DEF Parse, TimeoutSet, LookUp
<1>4. ASSUME NEW status \in {"200", "500"}, Moves(c, Replies(status)),
             conn[c].at \notin {"new", "backlog"}
      PROVE  ConnTypes'
  <2>1. /\ Replies(status) \in ConnRecords
        /\ Replies(status).fd = conn[c].fd /\ Replies(status).at = "write"
        /\ Replies(status).reply = status
    BY <1>0 DEF ConnRecords, ReplyTexts
  <2>2. Replies(status).fd \in Fds
    BY <1>4, <2>1 DEF ConnTypes
  <2>. HIDE DEF Replies
  <2>. QED
    BY <1>4, <2>1, <2>2, MovesKeep
<1>5. CASE handleStaticRequest(c)
  <2>1. CASE Goes(c, "error") \/ Goes(c, "websocket")
    BY <1>5, <2>1 DEF handleStaticRequest
  <2>2. CASE Moves(c, Replies(StaticStatus(conn[c].request)))
    BY <1>4, <1>5, <2>2 DEF handleStaticRequest, StaticStatus
  <2>. QED
    BY <1>5, <2>1, <2>2 DEF handleStaticRequest, Moves
<1>6. CASE handleWebsocketRequest(c)
  <2>. DEFINE n == conn[c].upgrader + 1
              r == [conn[c] EXCEPT !.at = "timeout", !.upgrader = n]
  <2>1. CASE \E at \in {"error", "teardown", "dispatch"} : Goes(c, at)
    BY <1>6, <2>1 DEF handleWebsocketRequest
  <2>2. CASE Moves(c, r)
    <3>1. r \in ConnRecords /\ r.at = "timeout" /\ r.fd = conn[c].fd
      <4>1. conn[c].upgrader \in Nat
        BY <1>0 DEF ConnRecords
      <4>2. n \in Nat
        BY <4>1
      <4>. HIDE DEF n
      <4>. QED
        BY <1>0, <4>2 DEF ConnRecords
    <3>2. conn[c].at = "websocket"
      BY <1>6 DEF handleWebsocketRequest
    <3>3. r.fd \in Fds
      BY <3>1, <3>2 DEF ConnTypes
    <3>. HIDE DEF r
    <3>. QED
      BY <2>2, <3>1, <3>3, MovesKeep
  <2>. QED
    BY <1>6, <2>1, <2>2 DEF handleWebsocketRequest, Moves
<1>7. CASE UpgraderEnds(c)
  BY <1>7 DEF UpgraderEnds
<1>8. CASE requestDispatcher(c)
  <2>1. CASE Goes(c, "error")
    BY <1>8, <2>1 DEF requestDispatcher
  <2>2. CASE ~Goes(c, "error")
    BY <1>4, <1>8, <2>2, DispatchedStatus DEF requestDispatcher, Moves
  <2>. QED
    BY <2>1, <2>2
<1>9. CASE \/ writeResponse(c) \/ Catch(c) \/ Leave(c) \/ HandlerExits(c)
           \/ Enroll(c) \/ DropsTask(c)
  BY <1>9 DEF writeResponse, Catch, Leave, HandlerExits, Enroll, DropsTask
<1>10. CASE onExit(c) \/ KeepTearingDown(c) \/ LockHandlers(c)
  BY <1>10 DEF onExit, KeepTearingDown, LockHandlers
<1>12. CASE LockPool(c)
  BY <1>12, Sections DEF LockPool
<1>11. CASE TimesOut(c)
  <2>. DEFINE at == IF conn[c].at = "kept" THEN "gone"
                    ELSE IF conn[c].at \in Leaving THEN "again" ELSE "handler"
              r == [conn[c] EXCEPT !.timed_out = TRUE, !.at = at]
  <2>1. Moves(c, r)
    BY <1>11 DEF TimesOut, Moves
  <2>2. r \in ConnRecords /\ r.at = at /\ r.fd = conn[c].fd /\ r.timed_out
    BY <1>0 DEF ConnRecords
  <2>3. r.fd \in Fds
    BY <1>11, <2>2 DEF TimesOut, ConnTypes, Running, Tearing, Leaving
  <2>. HIDE DEF r
  <2>. QED
    BY <2>1, <2>2, <2>3, MovesKeep
<1>. QED
  BY <1>1, <1>2, <1>3, <1>5, <1>6, <1>7, <1>8, <1>9, <1>10, <1>11, <1>12
  DEF ThreadSteps

(* The listener does, too.                                                 *)
LEMMA ConnTypesListener ==
    ASSUME ServerTypes, ListenerSteps
    PROVE  ConnTypes'
<1>. USE PlaceNames DEF ServerTypes
<1>1. CASE Accept
  <2>. DEFINE c == Head(backlog)
              fd == CHOOSE n \in Free : \A m \in Free : n <= m
              r == [conn[c] EXCEPT !.at = "offered", !.fd = fd]
  <2>1. c \in Connections
    BY <1>1, HeadTailProperties DEF Accept, SharedTypes
  <2>2. fd \in Fds
    BY <1>1, LowestFree DEF Accept, Free
  <2>3. conn' = [conn EXCEPT ![c].at = "offered", ![c].fd = fd]
    BY <1>1 DEF Accept
  <2>. HIDE DEF c, fd
  <2>4. Moves(c, r)
    BY <2>1, <2>3 DEF Moves, ConnTypes, ConnRecords
  <2>5. r \in ConnRecords /\ r.at = "offered" /\ r.fd = fd
    BY <2>1, <2>2 DEF ConnTypes, ConnRecords
  <2>. HIDE DEF r
  <2>. QED
    BY <2>1, <2>2, <2>4, <2>5, MovesKeep
<1>2. CASE AcceptFails
  BY <1>2 DEF AcceptFails, ConnTypes
<1>3. ASSUME NEW c \in Connections, onConnection(c) \/ onConnectionFails(c)
      PROVE  ConnTypes'
  BY <1>3, GoesKeeps DEF onConnection, onConnectionFails, Is
<1>. QED
  BY <1>1, <1>2, <1>3 DEF ListenerSteps

(* send() keeps the types of what it changes.                              *)
LEMMA SendsKeeps ==
    ASSUME SharedTypes, NEW c \in Connections, conn[c].fd \in Fds,
           NEW status \in Statuses, Sends(c, status)
    PROVE  replies' \in [Connections -> Seq(Statuses)] /\ crossed' \subseteq Connections
<1>. DEFINE d == descriptor[conn[c].fd]
<1>1. d \in Connections \union {NoConnection}
  BY DEF SharedTypes
<1>2. /\ replies' = IF d = NoConnection THEN replies
                    ELSE [replies EXCEPT ![d] = Append(@, status)]
      /\ crossed' = IF d \in {c, NoConnection} THEN crossed
                    ELSE crossed \union {d}
  BY DEF Sends
<1>3. replies \in [Connections -> Seq(Statuses)] /\ crossed \subseteq Connections
  BY DEF SharedTypes
<1>. HIDE DEF d
<1>4. CASE d = NoConnection
  BY <1>2, <1>3, <1>4
<1>5. CASE d # NoConnection
  <2>1. d \in Connections /\ replies[d] \in Seq(Statuses)
    BY <1>1, <1>3, <1>5
  <2>2. Append(replies[d], status) \in Seq(Statuses)
    BY <2>1
  <2>. QED
    BY <1>2, <1>3, <1>5, <2>1, <2>2
<1>. QED
  BY <1>4, <1>5

(* close() keeps the types of what it changes.                             *)
LEMMA ClosesKeeps ==
    ASSUME SharedTypes, NEW c \in Connections, conn[c].fd \in Fds, Closes(c)
    PROVE  /\ descriptor' \in [Fds -> Connections \union {NoConnection}]
           /\ crossed' \subseteq Connections
  BY DEF SharedTypes, Closes

(* Locking and unlocking keep the type of who holds what.                  *)
LEMMA HolderKeeps ==
    ASSUME SharedTypes, NEW c \in Connections, NEW m \in Mutexes,
           Locks(c, m) \/ Unlocks(m)
    PROVE  holder' \in [Mutexes -> Connections \union {NoConnection}]
  BY DEF SharedTypes, Locks, Unlocks

(* Every step keeps the types of what is shared.                           *)
LEMMA SharedTypesStep ==
    ASSUME ServerTypes, [ServerNext]_server_vars
    PROVE  SharedTypes'
<1>. USE DEF ServerTypes, Is
<1>1. CASE Accept
  <2>. DEFINE c == Head(backlog)
              fd == CHOOSE n \in Free : \A m \in Free : n <= m
  <2>1. c \in Connections /\ Tail(backlog) \in Seq(Connections)
    BY <1>1, HeadTailProperties DEF Accept, SharedTypes
  <2>2. fd \in Fds
    BY <1>1, LowestFree DEF Accept, Free
  <2>3. /\ descriptor' = [descriptor EXCEPT ![fd] = c]
        /\ backlog' = Tail(backlog) /\ listener' = "offer"
        /\ UNCHANGED <<replies, holder, twice, crossed>>
    BY <1>1 DEF Accept
  <2>. HIDE DEF c, fd
  <2>. QED
    BY <2>1, <2>2, <2>3 DEF SharedTypes
<1>2. CASE \/ AcceptFails
           \/ \E c \in Connections : onConnection(c) \/ onConnectionFails(c)
  BY <1>2 DEF AcceptFails, onConnection, onConnectionFails, SharedTypes
<1>3. ASSUME NEW c \in Connections, Connect(c) PROVE SharedTypes'
  <2>1. backlog' \in Seq(Connections)
    BY <1>3, AppendProperties DEF Connect, SharedTypes
  <2>. QED
    BY <1>3, <2>1 DEF Connect, SharedTypes
<1>4. CASE Silent \/ UNCHANGED server_vars
  BY <1>4 DEF Silent, Quiet, server_vars, SharedTypes
<1>15. \A m \in {"pool", "handlers", "static"} : m \in Mutexes
  BY DEF Mutexes
<1>14. ASSUME NEW c \in Connections, NEW m \in Mutexes,
              Locks(c, m) \/ Unlocks(m), Quiet
       PROVE  SharedTypes'
  BY <1>14, HolderKeeps DEF Quiet, SharedTypes
<1>5. ASSUME NEW c \in Connections, NEW status \in Statuses, Sends(c, status),
             conn[c].at \notin {"new", "backlog"},
             UNCHANGED <<listener, backlog, descriptor, holder, twice>>
      PROVE  SharedTypes'
  <2>1. conn[c].fd \in Fds
    BY <1>5 DEF ConnTypes
  <2>2. replies' \in [Connections -> Seq(Statuses)] /\ crossed' \subseteq Connections
    BY <1>5, <2>1, SendsKeeps
  <2>. QED
    BY <1>5, <2>2 DEF SharedTypes
<1>6. ASSUME NEW c \in Connections, Closes(c),
             conn[c].at \notin {"new", "backlog"},
             holder' \in [Mutexes -> Connections \union {NoConnection}],
             twice' \subseteq Connections,
             UNCHANGED <<listener, backlog, replies>>
      PROVE  SharedTypes'
  <2>1. conn[c].fd \in Fds
    BY <1>6 DEF ConnTypes
  <2>2. /\ descriptor' \in [Fds -> Connections \union {NoConnection}]
        /\ crossed' \subseteq Connections
    BY <1>6, <2>1, ClosesKeeps
  <2>. QED
    BY <1>6, <2>2 DEF SharedTypes
<1>7. ASSUME NEW c \in Connections,
             \/ StartsStream(c) \/ Parse(c) \/ requestDispatcher(c)
             \/ UpgraderEnds(c) \/ Enroll(c) \/ DropsTask(c) \/ TimesOut(c)
      PROVE  SharedTypes'
  BY <1>4, <1>7 DEF StartsStream, Parse, requestDispatcher, UpgraderEnds,
     Enroll, DropsTask, TimesOut
<1>16. ASSUME NEW c \in Connections,
              \/ TimeoutSet(c) \/ LookUp(c) \/ handleStaticRequest(c)
              \/ LockPool(c) \/ KeepTearingDown(c) \/ LockHandlers(c) \/ Leave(c)
       PROVE  SharedTypes'
  <2>1. Quiet /\ \E m \in {"pool", "handlers", "static"} : Locks(c, m) \/ Unlocks(m)
    BY <1>16 DEF TimeoutSet, LookUp, handleStaticRequest, LockPool,
       KeepTearingDown, LockHandlers, Leave
  <2>. QED
    BY <2>1, <1>14, <1>15
<1>8. ASSUME NEW c \in Connections, handleWebsocketRequest(c)
      PROVE  SharedTypes'
  BY <1>4, <1>5, <1>8 DEF handleWebsocketRequest, Statuses
<1>9. ASSUME NEW c \in Connections, writeResponse(c) PROVE SharedTypes'
  <2>1. conn[c].at = "write" /\ conn[c].reply \in Statuses
    BY <1>9 DEF writeResponse, ConnTypes, ConnRecords, Statuses, ReplyTexts
  <2>. QED
    BY <1>5, <1>9, <2>1 DEF writeResponse
<1>10. ASSUME NEW c \in Connections, Catch(c) PROVE SharedTypes'
  BY <1>5, <1>10 DEF Catch, Statuses
<1>11. ASSUME NEW c \in Connections, onExit(c) PROVE SharedTypes'
  <2>1. holder' \in [Mutexes -> Connections \union {NoConnection}]
    BY <1>11, <1>15, HolderKeeps DEF onExit
  <2>2. twice' \subseteq Connections
    BY <1>11 DEF onExit, SharedTypes
  <2>. QED
    BY <1>6, <1>11, <2>1, <2>2 DEF onExit
<1>12. ASSUME NEW c \in Connections, HandlerExits(c) PROVE SharedTypes'
  <2>1. /\ holder' \in [Mutexes -> Connections \union {NoConnection}]
        /\ twice' \subseteq Connections
    BY <1>12 DEF HandlerExits, SharedTypes
  <2>. QED
    BY <1>6, <1>12, <2>1 DEF HandlerExits
<1>. QED
  BY <1>1, <1>2, <1>3, <1>4, <1>7, <1>8, <1>9, <1>10, <1>11, <1>12, <1>16
  DEF ServerNext, ListenerSteps, ThreadSteps

(* Every step of the server keeps every type.                              *)
LEMMA TypesStep ==
    ASSUME ServerTypes, [ServerNext]_server_vars
    PROVE  ServerTypes'
<1>1. CASE UNCHANGED server_vars
  BY <1>1 DEF ServerTypes, ConnTypes, SharedTypes, server_vars
<1>. QED
  BY <1>1, SharedTypesStep, ConnTypesListener, ConnTypesConnection
  DEF ServerNext, ServerTypes

-----------------------------------------------------------------------------
(* What one step changes. *)

OnlyConn(c) == \A d \in Connections \ {c} : conn'[d] = conn[d]

Keeps(c) == /\ OnlyConn(c) /\ conn'[c].fd = conn[c].fd
            /\ conn'[c].upgrader = conn[c].upgrader
            /\ conn'[c].timed_out = conn[c].timed_out

(* A step that moves a thread changes nothing else of its connection.      *)
LEMMA GoesFrame ==
    ASSUME ConnTypes, NEW c \in Connections, NEW at, Goes(c, at)
    PROVE  Keeps(c) /\ conn'[c].at = at
  BY DEF ConnTypes, ConnRecords, Goes, Keeps, OnlyConn

(* Nor does one that chooses the reply.                                    *)
LEMMA RepliesFrame ==
    ASSUME ConnTypes, NEW c \in Connections, NEW status,
           conn' = [conn EXCEPT ![c].at = "write", ![c].reply = status]
    PROVE  Keeps(c) /\ conn'[c].at = "write"
  BY DEF ConnTypes, ConnRecords, Keeps, OnlyConn

(* An upgrade is counted.                                                  *)
LEMMA UpgradeFrame ==
    ASSUME ConnTypes, NEW c \in Connections, NEW n,
           conn' = [conn EXCEPT ![c].at = "timeout", ![c].upgrader = n]
    PROVE  /\ OnlyConn(c) /\ conn'[c].fd = conn[c].fd
           /\ conn'[c].at = "timeout" /\ conn'[c].upgrader = n
           /\ conn'[c].timed_out = conn[c].timed_out
  BY DEF ConnTypes, ConnRecords, OnlyConn

(* Only the listener touches the backlog of what was accepted, and a step  *)
(* of a connection changes its own record, never its descriptor's number.  *)
LEMMA ConnectionFrame ==
    ASSUME ConnTypes, NEW c \in Connections,
           \/ ThreadSteps(c) \/ UpgraderEnds(c) \/ TimesOut(c)
           \/ onConnection(c) \/ onConnectionFails(c)
    PROVE  /\ OnlyConn(c) /\ conn'[c].fd = conn[c].fd
           /\ conn[c].at \notin {"new", "backlog"}
           /\ backlog' = backlog /\ fixed' = fixed
           /\ handleWebsocketRequest(c) \/ conn'[c].upgrader = conn[c].upgrader
           /\ TimesOut(c) \/ conn'[c].timed_out = conn[c].timed_out
<1>. USE GoesFrame DEF Keeps, Is, Silent, Quiet
<1>1. CASE onConnection(c) \/ onConnectionFails(c)
  BY <1>1 DEF onConnection, onConnectionFails
<1>2. CASE StartsStream(c) \/ Parse(c) \/ UpgraderEnds(c) \/ Leave(c)
  BY <1>2 DEF StartsStream, Parse, UpgraderEnds, Leave
<1>9. CASE \/ Enroll(c) \/ TimeoutSet(c) \/ LookUp(c) \/ DropsTask(c)
           \/ KeepTearingDown(c) \/ LockHandlers(c)
  BY <1>9 DEF Enroll, TimeoutSet, LookUp, DropsTask, KeepTearingDown, LockHandlers
<1>10. CASE LockPool(c)
  BY <1>10, Sections DEF LockPool
<1>3. CASE handleStaticRequest(c)
  BY <1>3, RepliesFrame DEF handleStaticRequest
<1>4. CASE handleWebsocketRequest(c)
  <2>1. CASE \E at \in {"error", "teardown", "dispatch"} : Goes(c, at) /\ Silent
    BY <1>4, <2>1 DEF handleWebsocketRequest
  <2>2. CASE /\ conn' = [conn EXCEPT ![c].at = "timeout",
                                     ![c].upgrader = conn[c].upgrader + 1]
             /\ UNCHANGED <<backlog, fixed>>
    BY <1>4, <2>2, UpgradeFrame DEF handleWebsocketRequest
  <2>. QED
    BY <1>4, <2>1, <2>2 DEF handleWebsocketRequest
<1>5. CASE requestDispatcher(c)
  BY <1>5, RepliesFrame DEF requestDispatcher
<1>6. CASE writeResponse(c) \/ Catch(c)
  BY <1>6 DEF writeResponse, Catch
<1>7. CASE onExit(c) \/ HandlerExits(c)
  BY <1>7 DEF onExit, HandlerExits
<1>8. CASE TimesOut(c)
  BY <1>8 DEF TimesOut, Running, Tearing, Leaving, ConnTypes, ConnRecords,
     OnlyConn
<1>. QED
  BY <1>1, <1>2, <1>3, <1>4, <1>5, <1>6, <1>7, <1>8, <1>9, <1>10
  DEF ThreadSteps

(* A connection that waits for accept() waits until it is accepted.        *)
LEMMA BacklogStep ==
    ASSUME ServerTypes, BacklogWaits, [ServerNext]_server_vars
    PROVE  BacklogWaits'
<1>1. CASE UNCHANGED server_vars \/ AcceptFails
  BY <1>1 DEF server_vars, AcceptFails, BacklogWaits
<1>2. CASE Accept
  <2>. DEFINE c == Head(backlog)
              fd == CHOOSE n \in Free : \A m \in Free : n <= m
  <2>1. /\ c \in Connections /\ c = backlog[1] /\ Len(backlog) \in Nat \ {0}
        /\ Len(Tail(backlog)) = Len(backlog) - 1
        /\ \A i \in 1..Len(Tail(backlog)) : Tail(backlog)[i] = backlog[i + 1]
    BY <1>2, HeadTailProperties, EmptySeq
    DEF Accept, ServerTypes, SharedTypes
  <2>2. /\ conn' = [conn EXCEPT ![c].at = "offered", ![c].fd = fd]
        /\ backlog' = Tail(backlog)
    BY <1>2 DEF Accept
  <2>3. \A d \in Connections \ {c} : conn'[d] = conn[d]
    BY <2>1, <2>2 DEF ServerTypes, ConnTypes
  <2>4. ASSUME NEW i \in 1..Len(backlog')
        PROVE  /\ i + 1 \in 1..Len(backlog) /\ backlog'[i] = backlog[i + 1]
               /\ backlog[i + 1] \in Connections \ {c}
    <3>1. i + 1 \in 1..Len(backlog) /\ backlog'[i] = backlog[i + 1]
      BY <2>1, <2>2
    <3>2. backlog[i + 1] # backlog[1]
      BY <2>1, <3>1 DEF BacklogWaits
    <3>. QED
      BY <2>1, <3>1, <3>2, ElementOfSeq DEF ServerTypes, SharedTypes
  <2>5. ASSUME NEW i \in 1..Len(backlog'), NEW j \in 1..Len(backlog'),
               backlog'[i] = backlog'[j]
        PROVE  i = j
    <3>1. i + 1 = j + 1
      BY <2>4, <2>5 DEF BacklogWaits
    <3>. QED
      BY <2>1, <2>2, <3>1
  <2>6. \A i \in 1..Len(backlog') : conn'[backlog'[i]].at = "backlog"
    BY <2>3, <2>4 DEF BacklogWaits
  <2>. QED
    BY <2>5, <2>6 DEF BacklogWaits
<1>3. ASSUME NEW c \in Connections, Connect(c) PROVE BacklogWaits'
  <2>1. /\ conn[c].at = "new" /\ backlog' = Append(backlog, c)
        /\ conn'[c].at = "backlog"
        /\ \A d \in Connections \ {c} : conn'[d] = conn[d]
    BY <1>3 DEF Connect, Is, Goes, ServerTypes, ConnTypes, ConnRecords
  <2>2. /\ Len(backlog') = Len(backlog) + 1 /\ backlog'[Len(backlog) + 1] = c
        /\ \A i \in 1..Len(backlog) : backlog'[i] = backlog[i]
        /\ Len(backlog) \in Nat
    BY <2>1, AppendProperties DEF ServerTypes, SharedTypes
  <2>3. \A i \in 1..Len(backlog) : backlog[i] \in Connections \ {c}
    BY <2>1, ElementOfSeq DEF BacklogWaits, ServerTypes, SharedTypes
  <2>. QED
    BY <2>1, <2>2, <2>3 DEF BacklogWaits
<1>4. ASSUME NEW c \in Connections,
             \/ ThreadSteps(c) \/ UpgraderEnds(c) \/ TimesOut(c)
             \/ onConnection(c) \/ onConnectionFails(c)
      PROVE  BacklogWaits'
  <2>1. OnlyConn(c) /\ conn[c].at \notin {"new", "backlog"} /\ backlog' = backlog
    BY <1>4, ConnectionFrame DEF ServerTypes
  <2>2. \A i \in 1..Len(backlog) : backlog[i] \in Connections \ {c}
    BY <2>1, ElementOfSeq DEF BacklogWaits, ServerTypes, SharedTypes
  <2>. QED
    BY <2>1, <2>2 DEF BacklogWaits, OnlyConn
<1>. QED
  BY <1>1, <1>2, <1>3, <1>4 DEF ServerNext, ListenerSteps

-----------------------------------------------------------------------------
(* Descriptors. *)

(* A step that opens and closes nothing keeps the account if the           *)
(* connection has its descriptor afterwards only if it had it before, and  *)
(* stays the owner of one it owned.                                        *)
LEMMA AccountUnchanged ==
    ASSUME ServerTypes, Accounted, NEW c \in Connections, OnlyConn(c),
           conn'[c].fd = conn[c].fd, UNCHANGED <<descriptor, fixed>>,
           HasDescriptor(c)' => HasDescriptor(c), Owns(c) => Owns(c)'
    PROVE  Accounted'
<1>1. ASSUME NEW d \in Connections, d # c
      PROVE  conn'[d] = conn[d] /\ (Owns(d)' <=> Owns(d))
             /\ (HasDescriptor(d)' <=> HasDescriptor(d))
  BY <1>1 DEF OnlyConn, Owns, HasDescriptor, Open, Is
<1>2. ASSUME NEW fd \in Fds, descriptor[fd] # NoConnection
      PROVE  conn'[descriptor[fd]].fd = fd /\ Owns(descriptor[fd])'
  <2>1. /\ descriptor[fd] \in Connections /\ conn[descriptor[fd]].fd = fd
        /\ Owns(descriptor[fd])
    BY <1>2 DEF Accounted, ServerTypes, SharedTypes
  <2>2. CASE descriptor[fd] = c
    BY <2>1, <2>2 DEF Owns
  <2>3. CASE descriptor[fd] # c
    <3>1. conn'[descriptor[fd]] = conn[descriptor[fd]]
      BY <1>1, <2>1, <2>3
    <3>. QED
      BY <2>1, <3>1 DEF Owns, Open, Is
  <2>. QED
    BY <2>2, <2>3
<1>3. ASSUME NEW d \in Connections, HasDescriptor(d)'
      PROVE  descriptor[conn'[d].fd] = d
  BY <1>1, <1>3 DEF Accounted
<1>. QED
  BY <1>2, <1>3 DEF Accounted

(* A connection that closes its own descriptor disturbs nobody.            *)
LEMMA AccountClosed ==
    ASSUME ServerTypes, Accounted, NEW c \in Connections, HasDescriptor(c),
           OnlyConn(c), conn'[c].at \in {"leave", "gone"}, Closes(c),
           fixed' = fixed
    PROVE  Accounted' /\ crossed' = crossed
<1>1. conn[c].fd \in Fds /\ descriptor[conn[c].fd] = c
  BY DEF HasDescriptor, Open, Running, Tearing, Accounted, ServerTypes, ConnTypes
<1>2. crossed' = crossed /\ descriptor' = [descriptor EXCEPT ![conn[c].fd] = NoConnection]
  BY <1>1 DEF Closes
<1>3. ASSUME NEW d \in Connections, d # c PROVE conn'[d] = conn[d]
  BY <1>3 DEF OnlyConn
<1>4. ASSUME NEW fd \in Fds, descriptor'[fd] # NoConnection
      PROVE  conn'[descriptor'[fd]].fd = fd /\ Owns(descriptor[fd])'
  <2>1. fd # conn[c].fd /\ descriptor'[fd] = descriptor[fd]
    BY <1>1, <1>2, <1>4 DEF ServerTypes, SharedTypes
  <2>2. /\ descriptor[fd] \in Connections /\ conn[descriptor[fd]].fd = fd
        /\ Owns(descriptor[fd])
    BY <1>4, <2>1 DEF Accounted, ServerTypes, SharedTypes
  <2>3. conn'[descriptor[fd]] = conn[descriptor[fd]]
    BY <1>3, <2>1, <2>2
  <2>. QED
    BY <2>1, <2>2, <2>3 DEF Owns, Open, Is
<1>5. ASSUME NEW d \in Connections, HasDescriptor(d)'
      PROVE  descriptor'[conn'[d].fd] = d
  <2>1. d # c
    BY <1>5 DEF HasDescriptor, Open, Running, Tearing
  <2>2. conn'[d] = conn[d] /\ HasDescriptor(d)
    BY <1>3, <1>5, <2>1 DEF HasDescriptor, Open
  <2>3. descriptor[conn[d].fd] = d /\ conn[d].fd \in Fds
    BY <2>2 DEF Accounted, HasDescriptor, Open, Running, Tearing, ServerTypes, ConnTypes
  <2>. QED
    BY <1>1, <1>2, <2>1, <2>2, <2>3 DEF ServerTypes, SharedTypes
<1>. QED
  BY <1>2, <1>4, <1>5 DEF Accounted

(* accept() gives a connection that had none a descriptor that named none. *)
LEMMA AccountAccepted ==
    ASSUME ServerTypes, BacklogWaits, Accounted, Accept
    PROVE  Accounted'
<1>. DEFINE c == Head(backlog)
            new == CHOOSE n \in Free : \A m \in Free : n <= m
<1>1. /\ c \in Connections /\ conn[c].at = "backlog"
      /\ new \in Fds /\ descriptor[new] = NoConnection
  <2>1. c \in Connections /\ c = backlog[1] /\ 1 \in 1..Len(backlog)
    BY HeadTailProperties, EmptySeq DEF Accept, ServerTypes, SharedTypes
  <2>2. new \in Free
    BY LowestFree DEF Accept
  <2>. QED
    BY <2>1, <2>2 DEF BacklogWaits, Free
<1>2. /\ descriptor' = [descriptor EXCEPT ![new] = c]
      /\ conn' = [conn EXCEPT ![c].at = "offered", ![c].fd = new]
      /\ fixed' = fixed
  BY DEF Accept
<1>. HIDE DEF c, new
<1>3. conn'[c].at = "offered" /\ conn'[c].fd = new
  BY <1>1, <1>2 DEF ServerTypes, ConnTypes, ConnRecords
<1>4. \A d \in Connections \ {c} : conn'[d] = conn[d]
  BY <1>1, <1>2 DEF ServerTypes, ConnTypes
<1>5. \A fd \in Fds : descriptor[fd] # c
  BY <1>1, ServerAssumption DEF Accounted, Owns, Open, Is, Running, Tearing
<1>6. ASSUME NEW fd \in Fds, descriptor'[fd] # NoConnection
      PROVE  conn'[descriptor'[fd]].fd = fd /\ Owns(descriptor[fd])'
  <2>1. CASE fd = new
    <3>1. descriptor'[fd] = c
      BY <1>1, <1>2, <2>1 DEF ServerTypes, SharedTypes
    <3>. QED
      BY <1>3, <2>1, <3>1 DEF Owns, Open
  <2>2. CASE fd # new
    <3>1. descriptor'[fd] = descriptor[fd]
      BY <1>2, <2>2 DEF ServerTypes, SharedTypes
    <3>2. descriptor[fd] \in Connections \ {c}
      BY <1>5, <1>6, <3>1 DEF ServerTypes, SharedTypes
    <3>3. conn[descriptor[fd]].fd = fd /\ Owns(descriptor[fd])
      BY <1>6, <3>1 DEF Accounted
    <3>. QED
      BY <1>2, <1>4, <3>1, <3>2, <3>3 DEF Owns, Open, Is
  <2>. QED
    BY <2>1, <2>2
<1>7. ASSUME NEW d \in Connections, HasDescriptor(d)'
      PROVE  descriptor'[conn'[d].fd] = d
  <2>1. CASE d = c
    BY <1>1, <1>2, <1>3, <2>1 DEF ServerTypes, SharedTypes
  <2>2. CASE d # c
    <3>1. conn'[d] = conn[d] /\ HasDescriptor(d)
      BY <1>4, <1>7, <2>2 DEF HasDescriptor, Open
    <3>2. descriptor[conn[d].fd] = d /\ conn[d].fd \in Fds
      BY <3>1 DEF Accounted, HasDescriptor, Open, Running, Tearing, ServerTypes, ConnTypes
    <3>3. conn[d].fd # new
      BY <1>1, <3>2, ServerAssumption
    <3>. QED
      BY <1>2, <3>1, <3>2, <3>3 DEF ServerTypes, SharedTypes
  <2>. QED
    BY <2>1, <2>2
<1>. QED
  BY <1>6, <1>7 DEF Accounted

-----------------------------------------------------------------------------
(* Answers. *)

(* A step that sends nothing keeps what the clients were sent in order if  *)
(* it leads no thread back before its response, and none out of run()      *)
(* that was not answered.                                                  *)
LEMMA AnswersUnchanged ==
    ASSUME ServerTypes, Answered, NEW c \in Connections, OnlyConn(c),
           conn'[c].upgrader = conn[c].upgrader, replies' = replies,
           Unanswered(c)' => Unanswered(c),
           Left(c)' /\ ~conn'[c].timed_out =>
              \/ replies[c] # <<>> \/ TlsEnabled
              \/ Left(c) /\ ~conn[c].timed_out
    PROVE  Answered'
<1>1. ASSUME NEW d \in Connections, d # c
      PROVE  conn'[d] = conn[d]
  BY <1>1 DEF OnlyConn
<1>. QED
  BY <1>1 DEF Answered, Unanswered, Left

(* A thread that sends to its own client before the final response keeps   *)
(* them in order, if it sends an upgrade or the final response.            *)
LEMMA AnswersSent ==
    ASSUME ServerTypes, Accounted, Answered, NEW c \in Connections, OnlyConn(c),
           NEW status \in Statuses, Sends(c, status),
           HasDescriptor(c), Unanswered(c),
           Unanswered(c)' => status = "101"
    PROVE  Answered' /\ crossed' = crossed
<1>1. conn[c].fd \in Fds /\ descriptor[conn[c].fd] = c
  BY DEF HasDescriptor, Open, Running, Tearing, Accounted, ServerTypes, ConnTypes
<1>2. /\ crossed' = crossed
      /\ replies' = [replies EXCEPT ![c] = Append(replies[c], status)]
  BY <1>1, ServerAssumption DEF Sends
<1>3. replies[c] \in Seq(Statuses) /\ replies \in [Connections -> Seq(Statuses)]
  BY DEF ServerTypes, SharedTypes
<1>4. /\ Len(replies'[c]) = Len(replies[c]) + 1 /\ Len(replies[c]) \in Nat
      /\ replies'[c][Len(replies[c]) + 1] = status
      /\ \A i \in 1..Len(replies[c]) : replies'[c][i] = replies[c][i]
      /\ replies'[c] # <<>>
  BY <1>2, <1>3, AppendProperties
<1>5. ASSUME NEW d \in Connections, d # c
      PROVE  conn'[d] = conn[d] /\ replies'[d] = replies[d]
  BY <1>2, <1>3, <1>5 DEF OnlyConn
<1>6. \A i \in 1..Len(replies[c]) : replies'[c][i] = "101"
  BY <1>4 DEF Answered
<1>7. Unanswered(c)' => \A i \in 1..Len(replies'[c]) : replies'[c][i] = "101"
  BY <1>4, <1>6
<1>8. \A i \in 1..(Len(replies'[c]) - 1) : replies'[c][i] = "101"
  BY <1>4, <1>6
<1>. QED
  BY <1>2, <1>4, <1>5, <1>7, <1>8 DEF Answered, Unanswered, Left

-----------------------------------------------------------------------------
(* The steps. *)

(* A step that neither opens, closes nor sends leaves all in order if it   *)
(* takes one of the ways run() has.                                        *)
LEMMA QuietStep ==
    ASSUME ServerTypes, Undisturbed, NEW c \in Connections, Keeps(c),
           UNCHANGED <<descriptor, replies, fixed, crossed>>,
           HasDescriptor(c)' => HasDescriptor(c), Owns(c) => Owns(c)',
           Unanswered(c)' => Unanswered(c),
           Left(c)' /\ ~conn'[c].timed_out =>
              \/ replies[c] # <<>> \/ TlsEnabled
              \/ Left(c) /\ ~conn[c].timed_out
    PROVE  Undisturbed'
  BY AccountUnchanged, AnswersUnchanged DEF Undisturbed, Keeps

(* The thread of a connection, its upgrader and the timer disturb nobody   *)
(* and answer their client in order, until a SIGTERM makes one of them run *)
(* its onExit() twice.                                                     *)
LEMMA UndisturbedConnection ==
    ASSUME ServerTypes, Undisturbed, NEW c \in Connections, twice' = {},
           \/ ThreadSteps(c) \/ UpgraderEnds(c)
           \/ onConnection(c) \/ onConnectionFails(c)
    PROVE  Undisturbed'
<1>. USE DEF HasDescriptor, Owns, Open, Unanswered, Left, Running, Tearing,
              Leaving, Is, Silent, Quiet
<1>0. ConnTypes
  BY DEF ServerTypes
<1>1. CASE onConnection(c) \/ onConnectionFails(c)
  <2>1. /\ Keeps(c) /\ conn[c].at = "offered" /\ conn'[c].at \in {"created", "leaked"}
        /\ UNCHANGED <<descriptor, replies, fixed, crossed>>
    BY <1>0, <1>1, GoesFrame DEF onConnection, onConnectionFails
  <2>. QED
    BY <2>1, QuietStep
<1>2. CASE StartsStream(c)
  <2>1. /\ Keeps(c) /\ conn[c].at = "start"
        /\ conn'[c].at = "parse" \/ (TlsEnabled /\ conn'[c].at = "teardown")
        /\ UNCHANGED <<descriptor, replies, fixed, crossed>>
    BY <1>0, <1>2, GoesFrame DEF StartsStream
  <2>. QED
    BY <2>1, QuietStep
<1>3. CASE \/ Parse(c) \/ UpgraderEnds(c) \/ TimeoutSet(c) \/ LookUp(c)
           \/ Enroll(c) \/ (LockPool(c) /\ conn[c].at = "timeout")
  <2>1. /\ Keeps(c) /\ UNCHANGED <<descriptor, replies, fixed, crossed>>
        /\ conn[c].at \in {"created", "parse", "timeout", "setting", "upgraded",
                           "static"}
        /\ conn'[c].at \in {"start", "static", "timeout", "setting", "upgraded",
                            "error", "websocket", "lookup"}
    BY <1>0, <1>3, GoesFrame, Sections
    DEF Parse, UpgraderEnds, TimeoutSet, LookUp, Enroll, LockPool
  <2>. QED
    BY <2>1, QuietStep
<1>4. CASE handleStaticRequest(c) \/ requestDispatcher(c)
  <2>1. /\ Keeps(c) /\ conn[c].at \in {"lookup", "dispatch"}
        /\ conn'[c].at \in {"write", "error", "websocket"}
        /\ UNCHANGED <<descriptor, replies, fixed, crossed>>
    BY <1>0, <1>4, GoesFrame, RepliesFrame
    DEF handleStaticRequest, requestDispatcher
  <2>. QED
    BY <2>1, QuietStep
<1>5. CASE handleWebsocketRequest(c)
  <2>1. CASE /\ conn' = [conn EXCEPT ![c].at = "timeout",
                                     ![c].upgrader = conn[c].upgrader + 1]
             /\ Sends(c, "101")
             /\ UNCHANGED <<descriptor, fixed>>
    <3>1. /\ OnlyConn(c) /\ conn'[c].fd = conn[c].fd
          /\ conn[c].at = "websocket" /\ conn'[c].at = "timeout"
      BY <1>0, <1>5, <2>1, UpgradeFrame DEF handleWebsocketRequest
    <3>2. Answered' /\ crossed' = crossed
      BY <2>1, <3>1, AnswersSent DEF Undisturbed, Statuses
    <3>3. Accounted'
      BY <2>1, <3>1, AccountUnchanged DEF Undisturbed
    <3>. QED
      BY <3>2, <3>3 DEF Undisturbed
  <2>2. CASE /\ \/ Goes(c, "error") \/ Goes(c, "dispatch")
                \/ Goes(c, "teardown") /\ conn[c].upgrader + 1 > 1
             /\ Silent
    <3>1. /\ Keeps(c) /\ conn[c].at = "websocket"
          /\ \/ conn'[c].at \in {"error", "dispatch"}
             \/ conn'[c].at = "teardown" /\ conn[c].upgrader + 1 > 1
      BY <1>0, <1>5, <2>2, GoesFrame DEF handleWebsocketRequest
    <3>2. conn[c].upgrader + 1 > 1 => replies[c] # <<>>
      BY DEF Undisturbed, Answered
    <3>. QED
      BY <2>2, <3>1, <3>2, QuietStep
  <2>. QED
    BY <1>5, <2>1, <2>2 DEF handleWebsocketRequest
<1>6. CASE writeResponse(c) \/ Catch(c)
  <2>1. PICK status \in Statuses : Sends(c, status)
    BY <1>0, <1>6 DEF writeResponse, Catch, Statuses, ConnTypes, ConnRecords, ReplyTexts
  <2>2. /\ Keeps(c) /\ conn[c].at \in {"write", "error"}
        /\ conn'[c].at = "teardown" /\ UNCHANGED <<descriptor, fixed>>
    BY <1>0, <1>6, GoesFrame DEF writeResponse, Catch
  <2>3. Answered' /\ crossed' = crossed
    BY <2>1, <2>2, AnswersSent DEF Undisturbed, Keeps
  <2>4. Accounted'
    BY <2>2, AccountUnchanged DEF Undisturbed, Keeps
  <2>. QED
    BY <2>3, <2>4 DEF Undisturbed
<1>7. CASE \/ DropsTask(c) \/ KeepTearingDown(c) \/ LockHandlers(c) \/ Leave(c)
           \/ (LockPool(c) /\ conn[c].at # "timeout")
  <2>1. /\ Keeps(c) /\ UNCHANGED <<descriptor, replies, fixed, crossed>>
        /\ \/ conn[c].at = "teardown" /\ conn'[c].at = "kept" /\ fixed
           \/ conn[c].at = "teardown" /\ conn'[c].at = "copy"
           \/ conn[c].at = "leave" /\ conn'[c].at = "check"
           \/ conn[c].at = "check" /\ conn'[c].at = "unregister"
           \/ conn[c].at = "unregister" /\ conn'[c].at = "erase"
           \/ conn[c].at = "erase" /\ conn'[c].at = "gone"
    BY <1>0, <1>7, GoesFrame, Sections
    DEF DropsTask, KeepTearingDown, LockHandlers, Leave, LockPool
  <2>. QED
    BY <2>1, QuietStep DEF Keeps
<1>8. CASE onExit(c) \/ HandlerExits(c)
  <2>1. /\ Keeps(c) /\ Closes(c) /\ UNCHANGED <<replies, fixed>>
        /\ \/ conn[c].at = "copy" /\ conn'[c].at = "leave"
           \/ conn[c].at = "handler" /\ conn'[c].at = "gone"
    <3>1. Is(c, "again") => c \in twice' \/ ~HandlerExits(c)
      BY DEF HandlerExits
    <3>. QED
      BY <1>0, <1>8, <3>1, GoesFrame DEF onExit, HandlerExits
  <2>2. Accounted' /\ crossed' = crossed
    BY <2>1, AccountClosed DEF Undisturbed, Keeps
  <2>3. conn[c].at = "handler" => conn[c].timed_out
    BY <1>0 DEF ConnTypes
  <2>. QED
    BY <2>1, <2>2, <2>3, AnswersUnchanged DEF Undisturbed, Keeps
<1>. QED
  BY <1>1, <1>2, <1>3, <1>4, <1>5, <1>6, <1>7, <1>8 DEF ThreadSteps

(* SIGTERM hands a thread that has not closed its descriptor to the        *)
(* handler that closes it, and one that has to the one that closes again.  *)
LEMMA UndisturbedTimeout ==
    ASSUME ServerTypes, Undisturbed, NEW c \in Connections, TimesOut(c)
    PROVE  Undisturbed'
<1>. USE DEF HasDescriptor, Owns, Open, Is, Unanswered, Left, Running, Tearing,
              Leaving
<1>1. /\ conn[c].at \in Running \union Tearing \union Leaving \union {"kept"}
      /\ UNCHANGED <<descriptor, replies, fixed, crossed>>
  BY DEF TimesOut, Silent, Quiet
<1>2. /\ conn'[c].at = IF conn[c].at = "kept" THEN "gone"
                       ELSE IF conn[c].at \in Leaving THEN "again" ELSE "handler"
      /\ conn'[c].timed_out /\ conn'[c].fd = conn[c].fd
      /\ conn'[c].upgrader = conn[c].upgrader /\ OnlyConn(c)
  BY DEF TimesOut, OnlyConn, ServerTypes, ConnTypes, ConnRecords
<1>3. Accounted'
  BY <1>1, <1>2, AccountUnchanged DEF Undisturbed
<1>4. Answered'
  BY <1>1, <1>2, AnswersUnchanged DEF Undisturbed
<1>. QED
  BY <1>1, <1>3, <1>4 DEF Undisturbed

(* A client that connects and a connection that is accepted are sent       *)
(* nothing.                                                                *)
LEMMA UndisturbedArrival ==
    ASSUME ServerTypes, BacklogWaits, Undisturbed,
           Accept \/ \E c \in Connections : Connect(c)
    PROVE  Undisturbed'
<1>. USE DEF HasDescriptor, Owns, Open, Is, Unanswered, Left, Running,
              Tearing, Leaving
<1>1. ASSUME NEW c \in Connections, Connect(c) PROVE Undisturbed'
  <2>1. /\ Keeps(c) /\ conn[c].at = "new" /\ conn'[c].at = "backlog"
        /\ UNCHANGED <<descriptor, replies, fixed, crossed>>
    BY <1>1, GoesFrame DEF Connect, Is, ServerTypes
  <2>. QED
    BY <2>1, QuietStep
<1>2. CASE Accept
  <2>. DEFINE c == Head(backlog)
              fd == CHOOSE n \in Free : \A m \in Free : n <= m
  <2>1. c \in Connections /\ conn[c].at = "backlog"
    <3>1. c \in Connections /\ c = backlog[1] /\ 1 \in 1..Len(backlog)
      BY <1>2, HeadTailProperties, EmptySeq DEF Accept, ServerTypes, SharedTypes
    <3>. QED
      BY <3>1 DEF BacklogWaits
  <2>2. /\ conn' = [conn EXCEPT ![c].at = "offered", ![c].fd = fd]
        /\ UNCHANGED <<replies, crossed>>
    BY <1>2 DEF Accept
  <2>. HIDE DEF c, fd
  <2>3. /\ OnlyConn(c) /\ conn'[c].at = "offered"
        /\ conn'[c].upgrader = conn[c].upgrader
    BY <2>1, <2>2 DEF OnlyConn, ServerTypes, ConnTypes, ConnRecords
  <2>4. Answered'
    BY <2>1, <2>2, <2>3, AnswersUnchanged DEF Undisturbed
  <2>. QED
    BY <1>2, <2>2, <2>4, AccountAccepted DEF Undisturbed
<1>. QED
  BY <1>1, <1>2

(* The inductive invariant of the server.                                  *)
LEMMA ServerInvStep ==
    ASSUME ServerInv, [ServerNext]_server_vars
    PROVE  ServerInv'
<1>. USE DEF ServerInv
<1>1. ServerTypes' /\ BacklogWaits'
  BY TypesStep, BacklogStep
<1>2. ASSUME twice' = {} PROVE Undisturbed'
  <2>1. twice = {} /\ Undisturbed
    <3>1. twice \subseteq twice'
      BY DEF ServerNext, ListenerSteps, ThreadSteps, server_vars, Silent,
         Quiet, Connect, Accept, AcceptFails, onConnection, onConnectionFails,
         Enroll, StartsStream, Parse, TimeoutSet, LookUp, handleStaticRequest,
         handleWebsocketRequest, UpgraderEnds, requestDispatcher,
         writeResponse, Catch, DropsTask, LockPool, onExit, KeepTearingDown,
         LockHandlers, Leave, TimesOut, HandlerExits
    <3>. QED
      BY <1>2, <3>1
  <2>2. CASE UNCHANGED server_vars \/ AcceptFails
    BY <2>1, <2>2 DEF server_vars, AcceptFails, Undisturbed, Accounted,
       Answered, HasDescriptor, Owns, Open, Is, Unanswered, Left
  <2>. QED
    BY <1>2, <2>1, <2>2, UndisturbedConnection, UndisturbedTimeout,
       UndisturbedArrival
    DEF ServerNext, ListenerSteps
<1>. QED
  BY <1>1, <1>2

(* It holds when the server starts.                                        *)
LEMMA ServerInvInit == ServerInit => ServerInv
<1>. SUFFICES ASSUME ServerInit PROVE ServerInv
  OBVIOUS
<1>1. /\ listener = "accept" /\ backlog = <<>> /\ Len(backlog) = 0
      /\ descriptor = [fd \in Fds |-> NoConnection]
      /\ replies = [c \in Connections |-> <<>>]
      /\ holder = [m \in Mutexes |-> NoConnection]
      /\ twice = {} /\ crossed = {}
  BY DEF ServerInit
<1>. DEFINE New(text) == {[at |-> "new", fd |-> 0, request |-> r,
                           upgrader |-> 0, reply |-> text,
                           timed_out |-> FALSE] : r \in Requests}
<1>0. PICK text \in ReplyTexts : conn \in [Connections -> New(text)]
  BY DEF ServerInit, ReplyTexts
<1>2. ASSUME NEW c \in Connections
      PROVE  conn[c] \in ConnRecords /\ conn[c].at = "new" /\ conn[c].upgrader = 0
  <2>1. conn[c] \in New(text) /\ "new" \in Places
    BY <1>0, PlaceNames
  <2>2. PICK r \in Requests :
           conn[c] = [at |-> "new", fd |-> 0, request |-> r, upgrader |-> 0,
                      reply |-> text, timed_out |-> FALSE]
    BY <2>1
  <2>3. text \in ReplyTexts
    BY <1>0
  <2>. HIDE DEF New
  <2>. QED
    BY <2>1, <2>2, <2>3 DEF ConnRecords
<1>3. ServerTypes
  <2>1. conn \in [Connections -> ConnRecords]
    BY <1>0, <1>2
  <2>2. replies \in [Connections -> Seq(Statuses)] /\ backlog \in Seq(Connections)
    <3>1. <<>> \in Seq(Statuses) /\ <<>> \in Seq(Connections)
      BY EmptySeq
    <3>. QED
      BY <1>1, <3>1
  <2>. QED
    BY <1>1, <1>2, <2>1, <2>2 DEF ServerTypes, ConnTypes, SharedTypes
<1>4. BacklogWaits
  BY <1>1 DEF BacklogWaits
<1>5. Accounted
  BY <1>1, <1>2 DEF Accounted, HasDescriptor, Open, Running, Tearing
<1>6. Answered
  BY <1>1, <1>2 DEF Answered, Left, Tearing, Leaving
<1>. QED
  BY <1>1, <1>3, <1>4, <1>5, <1>6 DEF ServerInv, Undisturbed

(* It holds always.                                                        *)
THEOREM ServerInvariant == ServerSpec => []ServerInv
  BY ServerInvInit, ServerInvStep, PTL DEF ServerSpec

(* HttpServer: every variable keeps its type, and every connection that    *)
(* was accepted has a descriptor of the process.                           *)
THEOREM ServerTypesHold == ServerSpec => []HttpTypeOK
<1>1. ServerInv => HttpTypeOK
  BY DEF ServerInv, ServerTypes, ConnTypes, SharedTypes, ConnRecords,
     HttpTypeOK, Statuses
<1>. QED
  BY <1>1, ServerInvariant, PTL

(* http_connection_etask.cpp: no connection is sent another one's response *)
(* nor closed by another one's thread.                                     *)
THEOREM NobodyCrossed == ServerSpec => []PeersUndisturbed
<1>1. ServerInv => PeersUndisturbed
  BY DEF ServerInv, Undisturbed, PeersUndisturbed
<1>. QED
  BY <1>1, ServerInvariant, PTL

(* run(): a connection that ended in its own time was sent one final       *)
(* response, the last thing it was sent.                                   *)
THEOREM EveryoneAnswered == ServerSpec => []AnsweredOnce
<1>1. ServerInv => AnsweredOnce
  BY DEF ServerInv, Undisturbed, Answered, Left, AnsweredOnce
<1>. QED
  BY <1>1, ServerInvariant, PTL

(* onExit(): a descriptor that is open belongs to a connection that needs  *)
(* it, or that is never closed; one that needs it has it.                  *)
THEOREM NoDescriptorLost == ServerSpec => []DescriptorsAccounted
<1>1. ServerInv => DescriptorsAccounted
  BY DEF ServerInv, Undisturbed, Accounted, HasDescriptor, DescriptorsAccounted
<1>. QED
  BY <1>1, ServerInvariant, PTL

=============================================================================
