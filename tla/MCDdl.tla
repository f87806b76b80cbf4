-------------------------------- MODULE MCDdl --------------------------------
(***************************************************************************)
(* Sessions that create and drop tables, indexes and databases under each  *)
(* other, from the first start of a server, with an INSERT in between.     *)
(***************************************************************************)
EXTENDS ExecutorProperties

CONSTANTS s1, s2, srrdb, d2, t1, i1

MCSessions  == {s1, s2}
MCColumns   == {"a"}
MCDefaultOf == [c \in MCColumns |-> Null]

ByA(unique) == [name |-> i1, cols |-> {"a"}, unique |-> unique]

OnTable(op, db, opt) == [op |-> op, db |-> db, tbl |-> t1, opt |-> opt]
OnDb(op, opt)        == [op |-> op, db |-> d2, opt |-> opt]
Insert(db, rs) == [op |-> "insert", db |-> db, tbl |-> t1, rows |-> rs]
CreateI(u) == [op |-> "create_index", db |-> srrdb, tbl |-> t1,
               def |-> ByA(u)]
DropI(opt) == [op |-> "drop_index", db |-> srrdb, tbl |-> t1, name |-> i1,
               opt |-> opt]

MCMenu ==
  {OnTable("create_table", srrdb, TRUE), OnTable("create_table", d2, FALSE),
   OnTable("drop_table", srrdb, TRUE),
   OnDb("create_database", TRUE), OnDb("drop_database", TRUE),
   Insert(srrdb, <<[a |-> 1], [a |-> 1]>>), Insert(srrdb, <<[a |-> Absent]>>),
   Insert(d2, <<[a |-> 1]>>),
   CreateI(FALSE), CreateI(TRUE), DropI(FALSE), DropI(TRUE)}

MCInitCatalog == new_catalog
MCInitWal     == <<>>
=============================================================================
