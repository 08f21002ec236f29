------------------------------ MODULE HttpServer ------------------------------
(***************************************************************************)
(* The server of lib/web: listen() accepts connections and starts a thread *)
(* for each (lib/web/server.cpp, the tasker has no limit there), which     *)
(* parses the request, answers it and closes the descriptor                *)
(* (lib/web/http/http_connection_etask.cpp), and may be ended by SIGTERM   *)
(* between any two steps, also while it is leaving or holds a mutex, which *)
(* nobody unlocks then.                                                    *)
(*                                                                         *)
(* The kernel gives the lowest free descriptor, so a number that was       *)
(* closed soon names another connection.                                   *)
(***************************************************************************)
EXTENDS HttpRouting

CONSTANTS
    Connections,  \* the connections clients make
    Fds,          \* descriptors the process may open, numbers
    Requests,     \* requests on the wire
    TlsEnabled

NoConnection == "none"

ASSUME ServerAssumption == /\ Fds \subseteq Nat /\ TlsEnabled \in BOOLEAN
                           /\ NoConnection \notin Connections

VARIABLES
    listener,   \* "accept", "offer" a connection to the tasker, or "ended"
    backlog,    \* connections that wait for accept()
    descriptor, \* fd -> the connection it names, None
    conn,       \* connection -> [at, fd, request, upgrader, reply, timed_out]
    replies,    \* connection -> the statuses its client was sent
    holder,     \* mutex -> the connection whose thread locked it, None
    fixed,      \* ETasker::fixed, which no constructor sets
    twice,      \* connections whose onExit() ran a second time
    crossed     \* connections that got what was meant for another

server_vars ==
    <<listener, backlog, descriptor, conn, replies, holder, fixed, twice,
      crossed>>

(* ETasker::mutex, thread_specific_sig_handler_mutex and the mutex of      *)
(* static_paths.                                                           *)
Mutexes == {"pool", "handlers", "static"}

(* Places of a connection.  "static", "timeout", "teardown", "leave" and   *)
(* "unregister" wait for a mutex that "lookup", "setting", "copy", "check" *)
(* and "erase" hold.  The handler of SIGTERM closes at "handler", and at   *)
(* "again" what its thread has closed already; "gone" does nothing more.   *)
Running == {"start", "parse", "static", "lookup", "websocket", "timeout",
            "setting", "upgraded", "dispatch", "write", "error"}
Tearing == {"teardown", "copy"}
Leaving == {"leave", "check", "unregister", "erase"}
Places == {"new", "backlog", "offered", "leaked", "created", "kept", "handler",
           "again", "gone"} \union Running \union Tearing \union Leaving

(* The field fixed is uninitialised: either value, the same for all.       *)
ServerInit ==
    /\ listener = "accept" /\ backlog = <<>>
    /\ descriptor = [fd \in Fds |-> NoConnection]
    /\ conn \in [Connections -> {[at |-> "new", fd |-> 0, request |-> r,
                                  upgrader |-> 0, reply |-> "", timed_out |-> FALSE]
                                   : r \in Requests}]
    /\ replies = [c \in Connections |-> <<>>]
    /\ holder = [m \in Mutexes |-> NoConnection]
    /\ fixed \in BOOLEAN
    /\ twice = {} /\ crossed = {}

Is(c, at) == conn[c].at = at
Goes(c, at) == conn' = [conn EXCEPT ![c].at = at]

IsFree(m) == holder[m] = NoConnection
Locks(c, m) == IsFree(m) /\ holder' = [holder EXCEPT ![m] = c]
Unlocks(m) == holder' = [holder EXCEPT ![m] = NoConnection]

-----------------------------------------------------------------------------
(* The thread that listens.                                                *)

Connect(c) ==
    /\ Is(c, "new")
    /\ backlog' = Append(backlog, c)
    /\ Goes(c, "backlog")
    /\ UNCHANGED <<listener, descriptor, replies, holder, fixed, twice, crossed>>

Free == {fd \in Fds : descriptor[fd] = NoConnection}

Accept ==
    /\ listener = "accept" /\ backlog # <<>> /\ Free # {}
    /\ LET c == Head(backlog)
           fd == CHOOSE n \in Free : \A m \in Free : n <= m
       IN  /\ descriptor' = [descriptor EXCEPT ![fd] = c]
           /\ conn' = [conn EXCEPT ![c].at = "offered", ![c].fd = fd]
    /\ backlog' = Tail(backlog)
    /\ listener' = "offer"
    /\ UNCHANGED <<replies, holder, fixed, twice, crossed>>

(* The first failure of accept() ends listen(): the process has no free    *)
(* descriptor, the client is gone, a signal came.                          *)
AcceptFails ==
    /\ listener = "accept"
    /\ listener' = "ended"
    /\ UNCHANGED <<backlog, descriptor, conn, replies, holder, fixed, twice,
                   crossed>>

(* ETasker::run() holds the mutex of the pool while it creates the thread. *)
onConnection(c) ==
    /\ listener = "offer" /\ Is(c, "offered") /\ IsFree("pool")
    /\ listener' = "accept"
    /\ Goes(c, "created")
    /\ UNCHANGED <<backlog, descriptor, replies, holder, fixed, twice, crossed>>

(* The thread cannot be created.  With errno EAGAIN the loop tries again,  *)
(* which changes nothing; with another one the descriptor is forgotten.    *)
onConnectionFails(c) ==
    /\ listener = "offer" /\ Is(c, "offered") /\ IsFree("pool")
    /\ listener' = "accept"
    /\ Goes(c, "leaked")
    /\ UNCHANGED <<backlog, descriptor, replies, holder, fixed, twice, crossed>>

-----------------------------------------------------------------------------
(* HttpConnectionETask::run                                                *)

Sends(c, status) ==
    LET d == descriptor[conn[c].fd]
    IN  /\ replies' = IF d = NoConnection THEN replies
                      ELSE [replies EXCEPT ![d] = Append(@, status)]
        /\ crossed' = IF d \in {c, NoConnection} THEN crossed
                      ELSE crossed \union {d}

Quiet == UNCHANGED <<listener, backlog, descriptor, replies, fixed, twice,
                     crossed>>
Silent == Quiet /\ UNCHANGED holder

(* The thread registers its handler and enrolls in the pool: one step, no  *)
(* signal is sent to a thread that is not enrolled.                        *)
Enroll(c) ==
    /\ Is(c, "created") /\ IsFree("handlers") /\ IsFree("pool")
    /\ Goes(c, "start")
    /\ Silent

(* A failed TLS handshake is not answered.                                 *)
StartsStream(c) ==
    /\ Is(c, "start")
    /\ Goes(c, "parse") \/ (TlsEnabled /\ Goes(c, "teardown"))
    /\ Silent

(* Mutation: a client that is silent is waited for, however long.          *)
ParseWaits(c) ==
    /\ Is(c, "parse") /\ Parses(conn[c].request)
    /\ Goes(c, "static")
    /\ Silent

(* The client may also be slow, or gone.  A form in parts that is long is  *)
(* given more time before it is read.                                      *)
Parse(c) ==
    LET r == conn[c].request
    IN  /\ Is(c, "parse")
        /\ \/ Parses(r) /\ Goes(c, "static")
           \/ SetsTimeout(r) /\ Goes(c, "timeout")
           \/ Goes(c, "error")
        /\ Silent

(* ETasker::setThreadTimeout, called for such a form and for an upgrade.   *)
TimeoutSet(c) ==
    /\ Is(c, "setting")
    /\ Unlocks("pool")
    /\ IF conn[c].upgrader > 0 THEN Goes(c, "upgraded")
       ELSE \/ Parses(conn[c].request) /\ Goes(c, "static")
            \/ Goes(c, "error")
    /\ Quiet

LookUp(c) == Is(c, "static") /\ Locks(c, "static") /\ Goes(c, "lookup") /\ Quiet

(* The file may be gone.                                                   *)
handleStaticRequest(c) ==
    LET r == conn[c].request
    IN  /\ Is(c, "lookup")
        /\ Unlocks("static")
        /\ IF IsStatic(r)
           THEN \/ conn' = [conn EXCEPT ![c].at = "write",
                                        ![c].reply = StaticStatus(r)]
                \/ StaticStatus(r) = "200" /\ Goes(c, "error")
           ELSE Goes(c, "websocket")
        /\ Quiet

(* One turn of the loop: 101, and the upgrader has the connection; behind  *)
(* its last match the request was upgraded or goes to the dispatcher.      *)
handleWebsocketRequest(c) ==
    LET r == conn[c].request
        n == conn[c].upgrader + 1
        more == n <= Len(UpgradeMatches(r))
    IN  /\ Is(c, "websocket")
        /\ IF more /\ r.key
           THEN /\ conn' = [conn EXCEPT ![c].at = "timeout", ![c].upgrader = n]
                /\ Sends(c, "101")
                /\ UNCHANGED <<listener, backlog, descriptor, holder, fixed, twice>>
           ELSE /\ Goes(c, IF more THEN "error"
                           ELSE IF n > 1 THEN "teardown" ELSE "dispatch")
                /\ Silent

(* The upgrader's onConnection returns or throws, when it likes.           *)
UpgraderEnds(c) ==
    /\ Is(c, "upgraded")
    /\ \E at \in {"websocket", "error"} : Goes(c, at)
    /\ Silent

(* A filter or the processor may throw.                                    *)
requestDispatcher(c) ==
    LET status == Dispatched(conn[c].request)
    IN  /\ Is(c, "dispatch")
        /\ \/ /\ status # "throws"
              /\ conn' = [conn EXCEPT ![c].at = "write", ![c].reply = status]
           \/ Goes(c, "error")
        /\ Silent

writeResponse(c) ==
    /\ Is(c, "write")
    /\ Sends(c, conn[c].reply)
    /\ Goes(c, "teardown")
    /\ UNCHANGED <<listener, backlog, descriptor, holder, fixed, twice>>

(* Mutation: an exception is logged and not answered.                      *)
CatchSilent(c) ==
    /\ Is(c, "error")
    /\ Goes(c, "teardown")
    /\ Silent

Catch(c) ==
    /\ Is(c, "error")
    /\ Sends(c, "500")
    /\ Goes(c, "teardown")
    /\ UNCHANGED <<listener, backlog, descriptor, holder, fixed, twice>>

-----------------------------------------------------------------------------
(* The end of the thread: onExit() closes the descriptor.                  *)

Closes(c) ==
    LET d == descriptor[conn[c].fd]
    IN  /\ descriptor' = [descriptor EXCEPT ![conn[c].fd] = NoConnection]
        /\ crossed' = IF d \in {c, NoConnection} THEN crossed
                      ELSE crossed \union {d}

(* In a fixed pool the task is dropped without its onExit().               *)
DropsTask(c) ==
    /\ Is(c, "teardown") /\ fixed
    /\ Goes(c, "kept")
    /\ Silent

(* The three sections of the thread under the mutex of the pool.           *)
Section == [timeout |-> "setting", teardown |-> "copy", leave |-> "check"]
LockPool(c) ==
    /\ conn[c].at \in DOMAIN Section
    /\ Is(c, "teardown") => ~fixed
    /\ Locks(c, "pool")
    /\ Goes(c, Section[conn[c].at])
    /\ Quiet

(* threadTeardown has copied the task and unlocks: one step with close(),  *)
(* between them SIGTERM does what it does before the lock.                 *)
onExit(c) ==
    /\ Is(c, "copy")
    /\ Unlocks("pool") /\ Closes(c)
    /\ Goes(c, "leave")
    /\ UNCHANGED <<listener, backlog, replies, fixed, twice>>

(* There is no limit, so no task waits for the thread.                     *)
KeepTearingDown(c) ==
    /\ Is(c, "check")
    /\ Unlocks("pool")
    /\ Goes(c, "unregister")
    /\ Quiet

LockHandlers(c) ==
    /\ Is(c, "unregister")
    /\ Locks(c, "handlers")
    /\ Goes(c, "erase")
    /\ Quiet

(* Mutation: the thread closes its descriptor once more when it leaves.    *)
LeaveCloses(c) ==
    /\ Is(c, "erase")
    /\ Unlocks("handlers") /\ Closes(c)
    /\ Goes(c, "gone")
    /\ UNCHANGED <<listener, backlog, replies, fixed, twice>>

(* From here on SIGTERM does nothing, and the thread holds nothing that it *)
(* does not give back.                                                     *)
Leave(c) == Is(c, "erase") /\ Unlocks("handlers") /\ Goes(c, "gone") /\ Quiet

(* SIGTERM: the handler tears the task down, whatever the thread was       *)
(* doing; a task that has been dropped has nothing to close.               *)
TimesOut(c) ==
    /\ conn[c].at \in Running \union Tearing \union Leaving \union {"kept"}
    /\ conn' = [conn EXCEPT ![c].timed_out = TRUE,
                   ![c].at = IF @ = "kept" THEN "gone"
                             ELSE IF @ \in Leaving THEN "again" ELSE "handler"]
    /\ Silent

(* Mutation: the handler ends the thread without its onExit().             *)
HandlerSkips(c) ==
    /\ conn[c].at \in {"handler", "again"} /\ IsFree("pool")
    /\ Goes(c, "gone")
    /\ Silent

(* The handler locks the mutex of the pool, also when its own thread holds *)
(* it, and unlocks no other one.                                           *)
HandlerExits(c) ==
    /\ conn[c].at \in {"handler", "again"} /\ IsFree("pool")
    /\ Closes(c)
    /\ twice' = IF Is(c, "again") THEN twice \union {c} ELSE twice
    /\ Goes(c, "gone")
    /\ UNCHANGED <<listener, backlog, replies, holder, fixed>>

-----------------------------------------------------------------------------
ThreadSteps(c) ==
    \/ Enroll(c) \/ StartsStream(c) \/ Parse(c) \/ TimeoutSet(c) \/ LookUp(c)
    \/ handleStaticRequest(c) \/ handleWebsocketRequest(c)
    \/ requestDispatcher(c) \/ writeResponse(c) \/ Catch(c)
    \/ DropsTask(c) \/ LockPool(c) \/ onExit(c) \/ KeepTearingDown(c)
    \/ LockHandlers(c) \/ Leave(c) \/ HandlerExits(c)

ListenerSteps ==
    \/ Accept \/ AcceptFails
    \/ \E c \in Connections : onConnection(c) \/ onConnectionFails(c)

ServerNext ==
    \/ ListenerSteps
    \/ \E c \in Connections : \/ Connect(c) \/ ThreadSteps(c)
                              \/ UpgraderEnds(c) \/ TimesOut(c)

(* The listener and the threads are scheduled; an upgraded connection and  *)
(* the timer promise nothing.  Sockets have a timeout for reading.         *)
ServerFairness == /\ WF_server_vars(ListenerSteps)
                  /\ \A c \in Connections : WF_server_vars(ThreadSteps(c))

ServerSpec == ServerInit /\ [][ServerNext]_server_vars /\ ServerFairness

-----------------------------------------------------------------------------

HttpTypeOK ==
    /\ listener \in {"accept", "offer", "ended"}
    /\ backlog \in Seq(Connections)
    /\ descriptor \in [Fds -> Connections \union {NoConnection}]
    /\ \A c \in Connections : /\ conn[c].at \in Places
                              /\ conn[c].fd \in Fds \union {0}
                              /\ replies[c] \in Seq({"101", "200", "500"})
    /\ holder \in [Mutexes -> Connections \union {NoConnection}]
    /\ twice \subseteq Connections /\ crossed \subseteq Connections

(* http_connection_etask.cpp: no client is sent another one's response and *)
(* none is closed by another one's thread, although descriptors are used   *)
(* again at once.  It takes a SIGTERM between a thread's own close() and   *)
(* its end, which closes the number a second time.                         *)
PeersUndisturbed == twice = {} => crossed = {}

(* run(): whatever throws, a connection that ended in its own time was     *)
(* answered with one final response, the last thing its client was sent;   *)
(* only an upgraded one may have ended without, and nothing but upgrades,  *)
(* one for each pair of protocol and upgrader, goes before it.  Only a     *)
(* failed TLS handshake is left unanswered.                                *)
AnsweredOnce ==
    twice = {} =>
       \A c \in Connections :
          /\ \A i \in 1..(Len(replies[c]) - 1) : replies[c][i] = "101"
          /\ conn[c].at \in Leaving \union {"gone"} /\ ~conn[c].timed_out /\ ~TlsEnabled
                => replies[c] # <<>>

(* Every descriptor that is open belongs to a connection the listener      *)
(* holds, a thread that runs, or one of the two that are never closed: the *)
(* connection whose thread was not created and the task of a fixed pool.   *)
Open(c) == conn[c].at \in Running \union Tearing
                            \union {"offered", "leaked", "created"}
Owns(c) == \/ Open(c) \/ Is(c, "handler")
           \/ fixed /\ conn[c].at \in {"kept", "gone"}
DescriptorsAccounted ==
    twice = {} =>
       /\ \A fd \in Fds : descriptor[fd] # NoConnection =>
             conn[descriptor[fd]].fd = fd /\ Owns(descriptor[fd])
       /\ \A c \in Connections : Open(c) => descriptor[conn[c].fd] = c

(* A mutex whose thread SIGTERM took out of its section stays locked, and  *)
(* a connection waits for it for ever, its own handler too: etasker.cpp    *)
(* and http_connection_etask.cpp unlock nowhere else.                      *)
Lost(m) == ~IsFree(m) /\ conn[holder[m]].at \in {"handler", "again", "gone"}
Blocked(c) ==
    \/ Lost("pool") /\ conn[c].at \in {"offered", "created", "timeout",
                                        "teardown", "handler"}
    \/ Lost("handlers") /\ Is(c, "created")
    \/ Lost("static") /\ Is(c, "static")

(* listen(), run(): a connection that was accepted does not stay open, it  *)
(* is closed unless its thread could not be created, the pool took itself  *)
(* for a fixed one, it was upgraded, or it waits for a lost mutex.         *)
ConnectionsEnd ==
    \A c \in Connections :
       Is(c, "offered") ~> \/ \A fd \in Fds : descriptor[fd] # c
                           \/ conn[c].at \in {"leaked", "kept", "upgraded"}
                           \/ Blocked(c)

=============================================================================
