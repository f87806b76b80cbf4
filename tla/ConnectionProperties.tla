-------------------------- MODULE ConnectionProperties --------------------------
(***************************************************************************)
(* What a connection should do for its client.                             *)
(***************************************************************************)
EXTENDS Connection

\* A login is accepted exactly when the server has no default password or the
\* client has the same one, and it is not empty: an empty password is sent as
\* no response, which verify_native_password_hash refuses.  The server hashes
\* its own scramble, the client the one it read from the greeting
\* (client.rs:19-66, 95-157, handshake.rs:15-51, 64-136, 171-192).
AuthRight ==
  \A c \in Sessions :
    server[c].login # "none" =>
      (server[c].login = "accepted") =
        \/ setup.server = NoPassword
        \/ setup.server # "" /\ setup.client[c] = setup.server

\* The client reads whole responses: what it reads next is the first packet of
\* the response after the last one it showed, whatever the kinds of responses
\* (client.rs:216-286, connection.rs:143-216).
WholeResponses ==
  \A c \in Sessions :
    client[c].phase \in {"prompt", "asked"} /\ to_client[c] # <<>> =>
      /\ Head(to_client[c]).part = 1
      /\ Head(to_client[c]).no = client[c].shown + 1

\* A client that has sent one statement at a time is shown the answer to its
\* last request, and never that of an earlier one.  A batch gets one response
\* per statement, of which execute_query reads one: from then on the client
\* shows answers to earlier requests (client.rs:216-286, connection.rs:161).
OwnAnswer ==
  \A c \in Sessions :
    client[c].phase = "prompt" /\ client[c].in_step /\ client[c].answer # 0 =>
      client[c].answer = client[c].sent

\* Once a lone USE has succeeded that the client has read as the server has,
\* the prompt names the database in which the server runs the client's
\* statements, until the client sends a USE that fails, that is part of a batch
\* or that its own test of the text does not see, such as one with a tab behind
\* it (client.rs:472-481, 537-547, connection.rs:201-205).
PromptRight ==
  \A c \in Sessions :
    client[c].phase = "prompt" /\ client[c].on_prompt = "yes" =>
      client[c].prompt = server[c].database

\* A client that waits for an answer gets one, or the end of its stream: no
\* statement waits forever for a mutex, poisoned ones included, and no command
\* goes without a response.
AnswersCome ==
  \A c \in Sessions : client[c].phase = "asked" ~> client[c].phase # "asked"

\* Type invariant.
ConnectionType ==
  /\ LocksType
  /\ setup \in Setups
  /\ dbs \subseteq DBs
  /\ \A c \in Sessions :
       /\ server[c].phase \in {"greet", "login", "ready", "query", "running",
                               "closed"}
       /\ server[c].database \in DBs
       /\ client[c].phase \in {"connect", "login", "prompt", "asked", "gone"}
       /\ client[c].prompt \in DBs \cup {NoName, Garbled}
       /\ at[c] # "idle" => server[c].phase = "running"
===============================================================================
