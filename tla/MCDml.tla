-------------------------------- MODULE MCDml --------------------------------
(***************************************************************************)
(* Sessions that INSERT, UPDATE, DELETE and SELECT concurrently in one     *)
(* table with an index; no statement changes the schema.                   *)
(***************************************************************************)
EXTENDS ExecutorProperties

CONSTANTS s1, s2, srrdb, t1, i1

MCSessions   == {s1, s2}
MCColumns    == {"id", "a"}
MCDefaultOf  == [c \in MCColumns |-> Null]

ByA == [name |-> i1, cols |-> {"a"}, unique |-> FALSE]

\* CREATE TABLE t1 and CREATE INDEX i1 ON t1 (a) were run before.
MCInitWal ==
  <<[type |-> "CreateTable", tbl |-> t1],
    [type |-> "CreateIndex", db |-> srrdb, tbl |-> t1, def |-> ByA]>>

MCInitCatalog ==
  create_index(create_table(new_catalog, srrdb, t1), srrdb, t1, ByA)

Where(c, v) == [col |-> c, val |-> v]

Insert(rs)     == [op |-> "insert", db |-> srrdb, tbl |-> t1, rows |-> rs]
Delete(sel)    == [op |-> "delete", db |-> srrdb, tbl |-> t1, sel |-> sel]
Update(v, sel) == [op |-> "update", db |-> srrdb, tbl |-> t1, sel |-> sel,
                   set |-> [id |-> Absent, a |-> v]]
Select(sel)    == [op |-> "select", db |-> srrdb, tbl |-> t1, sel |-> sel]

A(v) == [id |-> Null, a |-> v]

MCMenu ==
  {Insert(<<A(1)>>), Insert(<<A(2), A(Null)>>),
   Delete(Where("a", 1)), Delete(NoWhere),
   Update(2, Where("a", 1)), Update(1, NoWhere),
   Select(Where("a", 2)), Select(NoWhere)}
=============================================================================
