---------------------------- MODULE MCHttpServer ----------------------------
(***************************************************************************)
(* An instance of HttpServer: one static file, two upgraders on one path   *)
(* and one on another, a registered item without a path, one with a path   *)
(* and one with a content type, and requests that take every way through   *)
(* the parser and the dispatcher.                                          *)
(***************************************************************************)
EXTENDS HttpServer

MCRequestMap == << [path |-> "/login", method |-> "GET", type |-> ""],
                   [path |-> "", method |-> "GET", type |-> ""],
                   [path |-> "/data", method |-> "POST", type |-> "json"] >>

MCUpgraders == << [path |-> "/chat", protocol |-> "v1"],
                  [path |-> "/chat", protocol |-> "v2"],
                  [path |-> "/other", protocol |-> "v2"] >>

Plain == [method |-> "GETx", path |-> "/", crlf |-> TRUE, fields |-> 1,
          upgrade |-> FALSE, key |-> FALSE, protocols |-> <<>>, length |-> -1,
          type |-> "", body |-> 0, sound |-> TRUE]

Chat == [Plain EXCEPT !.path = "/chat", !.upgrade = TRUE, !.key = TRUE,
                      !.length = 1, !.body = 1, !.fields = 2]

MCRequests ==
    { [Plain EXCEPT !.path = "/index", !.length = 1, !.body = 1],
      [Plain EXCEPT !.path = "/index", !.method = "GET"],
      [Plain EXCEPT !.length = 1, !.body = 1],
      [Plain EXCEPT !.method = "POSTx", !.type = "formdata", !.length = 1, !.body = 1],
      [Chat EXCEPT !.protocols = << <<"v1">>, <<"v2">> >>],
      [Chat EXCEPT !.protocols = << <<"v1", "v2">> >>, !.key = FALSE] }
=============================================================================
