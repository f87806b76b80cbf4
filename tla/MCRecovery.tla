------------------------------ MODULE MCRecovery ------------------------------
(***************************************************************************)
(* Servers that crash between any two steps of their sessions, and the     *)
(* statements the documentation makes about them.                          *)
(***************************************************************************)
EXTENDS Claims, RecoveryInvariant

CONSTANTS s1, s2, srrdb, t1, t2, i1

OneSession  == {s1}
TwoSessions == {s1, s2}

MCColumns   == {"id", "a"}
MCDefaultOf == [c \in MCColumns |-> Null]

ByA == [name |-> i1, cols |-> {"a"}, unique |-> FALSE]

\* CREATE TABLE t1 was run before.
TableWal     == <<[type |-> "CreateTable", tbl |-> t1]>>
TableCatalog == create_table(new_catalog, srrdb, t1)

\* CREATE TABLE t1 and CREATE INDEX i1 ON t1 (a) were run before.
IndexWal     == TableWal \o <<[type |-> "CreateIndex", db |-> srrdb,
                               tbl |-> t1, def |-> ByA]>>
IndexCatalog == create_index(TableCatalog, srrdb, t1, ByA)

ASSUME StartAssumption ==
  LET replayed(log) == replay([catalog |-> new_catalog,
                               storage |-> new_storage], log).catalog
  IN  replayed(TableWal) = TableCatalog /\ replayed(IndexWal) = IndexCatalog

A(v)    == [id |-> Null, a |-> v]
AIs(v)  == [col |-> "a", val |-> v]
SetA(v) == [id |-> Absent, a |-> v]

On(op)           == [op |-> op, db |-> srrdb, tbl |-> t1]
Create           == On("create_table") @@ [opt |-> FALSE]
Drop             == On("drop_table") @@ [opt |-> FALSE]
CreateI          == On("create_index") @@ [def |-> ByA]
DropI            == On("drop_index") @@ [name |-> i1, opt |-> TRUE]
Insert(rs)       == On("insert") @@ [rows |-> rs]
Delete(sel)      == On("delete") @@ [sel |-> sel]
Update(sel, set) == On("update") @@ [sel |-> sel, set |-> set]
Select(sel)      == On("select") @@ [sel |-> sel]

\* Every kind of statement in one database
EveryMenu ==
  {Create, Drop, CreateI, DropI,
   Insert(<<A(1), A(2)>>), Insert(<<[id |-> 1, a |-> 1]>>),
   Delete(AIs(1)), Delete(NoWhere), Update(AIs(1), SetA(2)), Select(AIs(2))}

\* INSERTs into a table that has an index and into one that is yet to be created
InsertMenu == {Insert(<<A(1), A(2)>>), [Create EXCEPT !.tbl = t2],
               [Insert(<<A(1)>>) EXCEPT !.tbl = t2], Select(AIs(1))}

RowsMenu   == {Insert(<<A(1)>>), Insert(<<A(2)>>), Delete(AIs(1)),
               Update(AIs(1), SetA(2))}

IndexMenu  == {Insert(<<A(1)>>), Update(NoWhere, SetA(2)), CreateI}

\* What later appends may make of an append cut short: an entry of the same
\* type, with rows that nobody inserted where it has rows, or nothing
Odd    == [id |-> 3, a |-> 3]
Oddly  == {[type |-> "CreateTable", tbl |-> t1],
           [type |-> "DropTable", tbl |-> t1],
           [type |-> "InsertRows", tbl |-> t1, rows |-> <<Odd>>],
           [type |-> "TableSnapshot", tbl |-> t1, rows |-> {<<1, Odd>>}]}

MCTornEntries ==
       [type : {"Torn"}, needs : {0}, makes : {Nothing}, resumes : {FALSE}]
  \cup [type : {"Torn"}, needs : {1, 2}, makes : Oddly \cup {Nothing},
        resumes : BOOLEAN]

\* The invariants of RecoveryInvariant are about servers started like this.
ASSUME InvariantAssumption ==
  /\ Menu = EveryMenu => SingleSession \/ TornEntries # {}
  /\ Menu = InsertMenu => ManyWriters
=============================================================================
