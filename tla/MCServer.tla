-------------------------------- MODULE MCServer --------------------------------
(***************************************************************************)
(* Two clients of one server.                                              *)
(***************************************************************************)
EXTENDS ConnectionProperties

CONSTANTS s1, s2

MCSessions == {s1, s2}
MCDBs == {"srrdb", "shop"}

MCSetups ==
  {[server |-> pw, client |-> s1 :> pw1 @@ s2 :> pw2] :
     <<pw, pw1, pw2>> \in {<<"none", "", "other">>, <<"secret", "secret", "other">>,
                           <<"", "", "secret">>}}

Stmt(start)    == [start |-> start, db |-> "srrdb"]
On(start, db)  == [start |-> start, db |-> db]
Plain(kind)    == [kind |-> kind]
Use(rest)      == [front |-> "USE ", rest |-> rest]
NoUse          == [front |-> "other", rest |-> Garbled]

Send(text, stmts) == [kind |-> "query", statements |-> stmts, text |-> text]

\* One statement at a time, a batch, and other commands; USE with a tab behind
\* it, and USE DATABASE shop, which the server cannot parse
MCRequests ==
  {Send(NoUse, <<Stmt("show")>>),
   Send(NoUse, <<Stmt("delete_lookup")>>), Send(NoUse, <<Stmt("insert_lookup")>>),
   Send(Use("shop"), <<On("use", "shop")>>),
   Send(NoUse, <<On("use", "srrdb")>>),
   Send(NoUse, <<On("drop_database", "shop")>>),
   Send(Use(Garbled), <<On("use", "srrdb"), Stmt("show")>>),
   [kind |-> "unparsable", text |-> Use(Garbled)],
   Plain("quit"), [kind |-> "init_db", db |-> "shop"]}
===============================================================================
