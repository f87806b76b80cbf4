------------------------------ MODULE Connection ------------------------------
(***************************************************************************)
(* The connections of a server: handle_connection and handle_query         *)
(* (src/src/server/connection.rs) at one end, the built-in client          *)
(* (src/src/client.rs) at the other, a TCP stream each way between them,   *)
(* and the statements of all connections in the executor (Locks).          *)
(*                                                                         *)
(* A connection is named by its session.  The client sends a request and   *)
(* reads one response; the server answers a request with one response per  *)
(* statement in it.  Sequence ids are written and never looked at, and are *)
(* left out.  Requests the built-in client cannot make (ping, init_db,     *)
(* quit, unknown commands) come from other MySQL clients, which also read  *)
(* one response to each.                                                   *)
(***************************************************************************)
EXTENDS Locks, Handshake

CONSTANTS
  DefaultDb,     \* "srrdb"
  DBs,           \* the databases there are at the start
  Requests,      \* what a client may send
  Setups,        \* the passwords the server and the clients were started with
  MaxRequests    \* bound: requests of all clients

NoPassword == "none"   \* the server has no default_password
NoName     == "no database"
Garbled    == "the rest of the line"

\* A statement is its first section, and the database it names if any.
Statement == [start : First \ {"init_db"}, db : DBs]

\* Of the text of a query the client looks at what is in front, trimmed, and
\* at the rest of it, without blanks and quotes around it: the name of a
\* database, nothing, or something else.
Text == [front : {"USE ", "other"}, rest : DBs \cup {NoName, Garbled}]

\* A request is a command; a query carries the statements parse_sql finds, if
\* it can be parsed.  With USE and a blank in front the first one is a USE; a
\* USE can also be followed by a tab or a line break, or preceded by a comment.
Request ==
       [kind : {"ping", "unknown", "quit"}]
  \cup [kind : {"init_db"}, db : DBs]
  \cup [kind : {"unparsable"}, text : Text]
  \cup {req \in [kind : {"query"}, statements : Seq(Statement), text : Text] :
          req.text.front = "USE " => /\ req.statements # <<>>
                                     /\ req.statements[1].start = "use"}

ASSUME ConnectionAssumption ==
  /\ DefaultDb \in DBs /\ NoName \notin DBs
  /\ Requests \subseteq Request
  /\ Setups \subseteq [server : STRING, client : [Sessions -> STRING]]

VARIABLES
  setup,      \* which of Setups this is
  server,     \* the connection task: handle_connection's locals
  client,     \* the client process: run_client's locals
  to_server,  \* the streams
  to_client,
  dbs         \* the databases in the catalog

cvars == <<setup, server, client, to_server, to_client, dbs>>
vars  == <<setup, server, client, to_server, to_client, dbs, lvars>>

Server(c, new) == server' = [server EXCEPT ![c] = new]
Client(c, new) == client' = [client EXCEPT ![c] = new]

-----------------------------------------------------------------------------
(* Responses, as packets.  Each packet notes the response it belongs to, its *)
(* place in it, and the request that it answers.                             *)

rows_packets == <<"count", "def", "eof", "row", "row", "eof">>

packets(tags, no, request) ==
  [i \in DOMAIN tags |-> [tag |-> tags[i], no |-> no, part |-> i,
                          request |-> request]]

\* The server writes one response and goes on as new.
Reply(c, tags, new) ==
  /\ to_client' = [to_client EXCEPT
       ![c] = @ \o packets(tags, server[c].produced + 1, server[c].request)]
  /\ Server(c, [new EXCEPT !.produced = @ + 1])

goes(c, phase) == [server[c] EXCEPT !.phase = phase]

\* The first EOF ends the response.
response_end_FirstEof(s) ==
  IF s = <<>> THEN 0
  ELSE IF Head(s).tag # "count" THEN 1
  ELSE LET eofs == {i \in DOMAIN s : s[i].tag = "eof"}
       IN  IF eofs = {} THEN 0 ELSE Min(eofs)

\* execute_query of the client: the last packet of the response at the head of
\* the stream, 0 while it is not there.  One packet, or a count of columns,
\* their definitions, a packet, and rows up to an EOF.
response_end(s) ==
  IF s = <<>> THEN 0
  ELSE IF s[1].tag # "count" THEN 1
  ELSE LET eofs == {i \in 4 .. Len(s) : s[i].tag = "eof"}
       IN  IF eofs = {} THEN 0 ELSE Min(eofs)

-----------------------------------------------------------------------------
(* Login.                                                                   *)

scramble(c) == [i \in 1 .. 20 |-> <<"random", c, i>>]

Greet(c) ==
  /\ server[c].phase = "greet"
  /\ Server(c, goes(c, "login"))
  /\ to_client' = [to_client EXCEPT
                     ![c] = <<build_handshake(scramble(c), ServerCaps)>>]
  /\ UNCHANGED <<setup, client, to_server, dbs, lvars>>

\* run_client, up to its login
SendLogin(c) ==
  /\ client[c].phase = "connect"
  /\ to_client[c] # <<>>
  /\ to_server' = [to_server EXCEPT ![c] =
       <<build_handshake_response(parse_server_handshake(Head(to_client[c])),
                                  setup.client[c])>>]
  /\ to_client' = [to_client EXCEPT ![c] = Tail(@)]
  /\ Client(c, [client[c] EXCEPT !.phase = "login"])
  /\ UNCHANGED <<setup, server, dbs, lvars>>

accepts(c, response) ==
  \/ setup.server = NoPassword
  \/ verify_native_password_hash(hash_native_password(setup.server),
                                 scramble(c), parse_handshake_response(response))

Login(c) ==
  LET ok == accepts(c, Head(to_server[c]))
  IN  /\ server[c].phase = "login"
      /\ to_server[c] # <<>>
      /\ to_server' = [to_server EXCEPT ![c] = Tail(@)]
      /\ to_client' = [to_client EXCEPT ![c] =
           packets(IF ok THEN <<"ok">> ELSE <<"err">>, 0, 0)]
      /\ Server(c, [goes(c, IF ok THEN "ready" ELSE "closed") EXCEPT
                      !.login = IF ok THEN "accepted" ELSE "denied"])
      /\ UNCHANGED <<setup, client, dbs, lvars>>

ReadLogin(c) ==
  /\ client[c].phase = "login"
  /\ to_client[c] # <<>>
  /\ Client(c, [client[c] EXCEPT !.phase = IF Head(to_client[c]).tag = "ok"
                                           THEN "prompt" ELSE "gone"])
  /\ to_client' = [to_client EXCEPT ![c] = Tail(@)]
  /\ UNCHANGED <<setup, server, to_server, dbs, lvars>>

-----------------------------------------------------------------------------
(* The client's loop.                                                       *)

requests == MapThenSumSet(LAMBDA c : client[c].sent, Sessions)

statements(req) == IF req.kind = "query" THEN req.statements ELSE <<>>

\* Requests that the server answers with one response
single(req) == Len(statements(req)) <= 1

\* parse_use_db: by the text, whatever the server makes of it
parse_use_db(req) ==
  IF req.kind \in {"query", "unparsable"} /\ req.text.front = "USE "
  THEN req.text.rest ELSE NoName

\* The request may change the session's database to one that the client does
\* not take from it.
switches_unseen(req) ==
  \/ req.kind = "init_db"
  \/ \E i \in DOMAIN statements(req) :
       /\ statements(req)[i].start = "use"
       /\ ~single(req) \/ statements(req)[i].db # parse_use_db(req)

\* The prompt changes before the server has answered.  in_step, on_prompt: see
\* OwnAnswer and PromptRight.
Ask(c, req) ==
  LET named == parse_use_db(req)
  IN  /\ client[c].phase = "prompt"
      /\ to_server' = [to_server EXCEPT ![c] = Append(@, req)]
      /\ Client(c, [client[c] EXCEPT
           !.phase     = IF req.kind = "quit" THEN "gone" ELSE "asked",
           !.sent      = @ + 1,
           !.prompt    = IF named = NoName THEN @ ELSE named,
           !.on_prompt = IF switches_unseen(req) THEN "no"
                         ELSE IF named # NoName THEN "asked" ELSE @,
           !.more      = ~single(req),
           !.answer    = 0])
      /\ UNCHANGED <<setup, server, to_client, dbs, lvars>>

Receive(c) ==
  LET end == response_end(to_client[c])
      got == to_client[c][1]
  IN  /\ client[c].phase = "asked"
      /\ end > 0
      /\ to_client' = [to_client EXCEPT ![c] = SubSeq(@, end + 1, Len(@))]
      /\ Client(c, [client[c] EXCEPT
           !.phase     = "prompt",
           !.shown     = @ + 1,
           !.answer    = got.request,
           !.in_step   = @ /\ ~client[c].more,
           !.on_prompt = IF @ # "asked" THEN @
                         ELSE IF got.tag = "ok" /\ client[c].in_step THEN "yes"
                         ELSE "no"])
      /\ UNCHANGED <<setup, server, to_server, dbs, lvars>>

\* The stream ends before a whole response: an error is shown and the loop goes
\* on.
ReceiveNothing(c) ==
  /\ client[c].phase = "asked"
  /\ server[c].phase = "closed"
  /\ response_end(to_client[c]) = 0
  /\ Client(c, [client[c] EXCEPT !.phase = "prompt", !.on_prompt = "no"])
  /\ UNCHANGED <<setup, server, to_server, to_client, dbs, lvars>>

\* exit: no COM_QUIT, the stream is dropped.
Exit(c) ==
  /\ client[c].phase = "prompt"
  /\ Client(c, [client[c] EXCEPT !.phase = "gone"])
  /\ UNCHANGED <<setup, server, to_server, to_client, dbs, lvars>>

-----------------------------------------------------------------------------
(* The server's loop.                                                       *)

\* The next command is read off the stream.
Command(c, kinds) ==
  /\ server[c].phase = "ready"
  /\ to_server[c] # <<>>
  /\ Head(to_server[c]).kind \in kinds
  /\ to_server' = [to_server EXCEPT ![c] = Tail(@)]

asked_next(c, phase) == [goes(c, phase) EXCEPT !.request = @ + 1]

\* Commands that are answered at once, and a query without a statement
Answer(c) ==
  LET req == Head(to_server[c])
  IN  /\ Command(c, {"ping", "unknown", "unparsable", "query"})
      /\ statements(req) = <<>>
      /\ to_client' = [to_client EXCEPT ![c] =
           @ \o packets(<<IF req.kind \in {"ping", "query"} THEN "ok" ELSE "err">>,
                        server[c].produced + 1, server[c].request + 1)]
      /\ Server(c, [asked_next(c, "ready") EXCEPT !.produced = @ + 1])
      /\ UNCHANGED <<setup, client, dbs, lvars>>

TakeQuery(c) ==
  LET req == Head(to_server[c])
  IN  /\ Command(c, {"query"})
      /\ req.statements # <<>>
      /\ Server(c, [asked_next(c, "query") EXCEPT !.batch = req.statements])
      /\ UNCHANGED <<setup, client, to_client, dbs, lvars>>

TakeInitDb(c) ==
  LET req == Head(to_server[c])
  IN  /\ Command(c, {"init_db"})
      /\ Begin(c, "init_db")
      /\ Server(c, [asked_next(c, "running") EXCEPT
                      !.batch = <<[start |-> "init_db", db |-> req.db]>>])
      /\ UNCHANGED <<setup, client, to_client, dbs>>

\* A connection whose client has gone is closed under a running statement.
Close_MidStatement(c) ==
  /\ \/ Command(c, {"quit"})
     \/ /\ server[c].phase \in {"ready", "running"}
        /\ to_server[c] = <<>> /\ client[c].phase = "gone"
        /\ UNCHANGED to_server
  /\ Server(c, goes(c, "closed"))
  /\ UNCHANGED <<setup, client, to_client, dbs, lvars>>

\* Quit, or the client has gone away
Close(c) ==
  /\ \/ Command(c, {"quit"})
     \/ /\ server[c].phase = "ready"
        /\ to_server[c] = <<>> /\ client[c].phase = "gone"
        /\ UNCHANGED to_server
  /\ Server(c, goes(c, "closed"))
  /\ UNCHANGED <<setup, client, to_client, dbs, lvars>>

Execute(c) ==
  /\ server[c].phase = "query"
  /\ Begin(c, Head(server[c].batch).start)
  /\ Server(c, goes(c, "running"))
  /\ UNCHANGED <<setup, client, to_server, to_client, dbs>>

\* What the outcome of a section has to do with the databases.  Every statement
\* on tables fails in a database that is not there.
about_database(c, res) ==
  LET db == Head(server[c].batch).db
  IN  CASE at[c] \in {"use", "init_db"} -> (res = "ok") = (db \in dbs)
        [] at[c] = "drop_database" -> (res = "next") = (db \in dbs)
        [] at[c] = "create_database_exists" -> (res = "ok") = (db \in dbs)
        [] at[c] = "drop_database_exists" -> (res = "next") = (db \in dbs)
        [] at[c] = "create_table_exists" ->
             res = "ok" => server[c].database \in dbs
        [] at[c] = "drop_table_exists" ->
             res = "next" => server[c].database \in dbs
        [] at[c] = "show" -> (res = "ok") = (server[c].database \in dbs)
        [] at[c] \in Failing ->
             res \in {"next", "ok"} => server[c].database \in dbs
        [] OTHER -> TRUE

dbs_after(c) ==
  CASE at[c] = "create_database" -> dbs \cup {Head(server[c].batch).db}
    [] at[c] = "drop_database"   -> dbs \ {Head(server[c].batch).db}
    [] OTHER                     -> dbs

Work(c) ==
  /\ \/ (Acquire(c) \/ FindPoisoned(c)) /\ UNCHANGED dbs
     \/ \E res \in {"next", "ok", "err", "panic"} :
          /\ Finish(c, res)
          /\ about_database(c, res)
          /\ dbs' = dbs_after(c)
  /\ UNCHANGED <<setup, server, client, to_server, to_client>>

\* DatabaseChanged is answered and forgotten.
database_after_Kept(c) == server[c].database

\* session.database after a statement that succeeded
database_after(c) ==
  LET st == Head(server[c].batch)
  IN  IF st.start \in {"use", "init_db"} THEN st.db ELSE server[c].database

response_to(st) ==
  IF st.start \in {"select_lookup", "show", "show_databases", "describe"}
  THEN rows_packets ELSE <<"ok">>

\* The statement has returned.  An error ends the batch.
Respond(c) ==
  LET rest == Tail(server[c].batch)
  IN  /\ server[c].phase = "running"
      /\ \/ /\ outcome[c] = "ok"
            /\ Reply(c, response_to(Head(server[c].batch)),
                     [goes(c, IF rest = <<>> THEN "ready" ELSE "query") EXCEPT
                        !.batch = rest, !.database = database_after(c)])
         \/ /\ outcome[c] = "err"
            /\ Reply(c, <<"err">>, [goes(c, "ready") EXCEPT !.batch = <<>>])
      /\ UNCHANGED <<setup, client, to_server, dbs, lvars>>

\* A panic ends the task, and the stream with it.
TaskDies(c) ==
  /\ server[c].phase = "running"
  /\ outcome[c] = "panic"
  /\ Server(c, [goes(c, "closed") EXCEPT !.batch = <<>>])
  /\ UNCHANGED <<setup, client, to_server, to_client, dbs, lvars>>

-----------------------------------------------------------------------------
Init ==
  /\ setup \in Setups
  /\ server = [c \in Sessions |->
       [phase |-> "greet", login |-> "none", batch |-> <<>>,
        database |-> DefaultDb, request |-> 0, produced |-> 0]]
  /\ client = [c \in Sessions |->
       [phase |-> "connect", prompt |-> NoName, on_prompt |-> "unset",
        sent |-> 0, shown |-> 0, answer |-> 0, more |-> FALSE,
        in_step |-> TRUE]]
  /\ to_server = [c \in Sessions |-> <<>>]
  /\ to_client = [c \in Sessions |-> <<>>]
  /\ dbs = DBs
  /\ LocksInit

\* Steps of the task of a connection that is logged in
ServerStep(c) ==
  \/ Answer(c) \/ TakeQuery(c) \/ TakeInitDb(c) \/ Close(c)
  \/ Execute(c) \/ Work(c) \/ Respond(c) \/ TaskDies(c)

ClientStep(c) == Receive(c) \/ ReceiveNothing(c)

LoginStep(c) == Greet(c) \/ SendLogin(c) \/ Login(c) \/ ReadLogin(c)

\* Every client has gone and every task has ended.
AllGone ==
  /\ \A c \in Sessions : client[c].phase = "gone" /\ server[c].phase = "closed"
  /\ UNCHANGED vars

Next ==
  \/ AllGone
  \/ \E c \in Sessions :
       \/ LoginStep(c) \/ ServerStep(c) \/ ClientStep(c) \/ Exit(c)
       \/ /\ requests < MaxRequests
          /\ \E req \in Requests : Ask(c, req)

Spec == Init /\ [][Next]_vars

\* The runtime runs a task that can go on, and a client that waits reads what
\* arrives: at least one of the two moves.  No client has to ask or to leave, and
\* whether a login ends matters to no property.
Fairness == \A c \in Sessions : WF_vars(ServerStep(c) \/ ClientStep(c))

FairSpec == Spec /\ Fairness
===============================================================================
