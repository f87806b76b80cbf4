------------------------------- MODULE Catalog -------------------------------
(***************************************************************************)
(* The catalog of srrdb (src/src/engine/catalog.rs): which databases       *)
(* exist, which tables each one has, the index definitions of each table   *)
(* and the AUTO_INCREMENT sequence of each table name.                     *)
(*                                                                         *)
(* A catalog is a value, not a variable: the executor keeps one in memory, *)
(* the catalog file holds another and recovery computes a third.           *)
(*                                                                         *)
(* A Rust method that returns a Result is two operators here: foo_ok is    *)
(* the condition under which foo returns Ok, foo the catalog it leaves.    *)
(***************************************************************************)
EXTENDS Types

(***************************************************************************)
(* sequences is keyed by the table name alone, as in the code: databases   *)
(* that have a table of the same name share its sequence.  A missing entry *)
(* reads as 1 (next_row_id), hence a total function.                       *)
(***************************************************************************)
CatalogType ==
  [dbs       : SUBSET DBs,
   tables    : SUBSET (DBs \X Tables),
   indexes   : [DBs \X Tables -> SUBSET IndexDef],
   sequences : [Tables -> Nat \ {0}]]

\* An index definition belongs to a table, a table to a database, and a table
\* has one index of a name.
WellFormed(c) ==
  /\ \A dt \in c.tables : dt[1] \in c.dbs
  /\ \A dt \in DBs \X Tables : c.indexes[dt] # {} => dt \in c.tables
  /\ \A dt \in DBs \X Tables : \A d, e \in c.indexes[dt] :
       d.name = e.name => d = e

\* Catalog::new
new_catalog ==
  [dbs       |-> {DefaultDb},
   tables    |-> {},
   indexes   |-> [dt \in DBs \X Tables |-> {}],
   sequences |-> [t \in Tables |-> 1]]

table_exists(c, db, t) == <<db, t>> \in c.tables

database_exists(c, db) == db \in c.dbs

get_table_indexes(c, db, t) == c.indexes[<<db, t>>]

create_database(c, db) == [c EXCEPT !.dbs = @ \cup {db}]

\* The tables and index definitions of the database go with it, the
\* sequences stay.
remove_database(c, db) ==
  [c EXCEPT !.dbs     = @ \ {db},
            !.tables  = {dt \in @ : dt[1] # db},
            !.indexes = [dt \in DBs \X Tables |->
                           IF dt[1] = db THEN {} ELSE @[dt]]]

create_table_ok(c, db, t) == db \in c.dbs /\ ~table_exists(c, db, t)

create_table(c, db, t) ==
  [c EXCEPT !.tables       = @ \cup {<<db, t>>},
            !.sequences[t] = 1]

drop_table_ok(c, db, t) == table_exists(c, db, t)

\* The index definitions of the table stay.
drop_table_KeepsIndexes(c, db, t) ==
  [c EXCEPT !.tables       = @ \ {<<db, t>>},
            !.sequences[t] = 1]

\* Removes the sequence of the table name, whichever databases use it.
drop_table(c, db, t) ==
  [c EXCEPT !.tables            = @ \ {<<db, t>>},
            !.indexes[<<db, t>>] = {},
            !.sequences[t]      = 1]

has_index(c, db, t, name) ==
  \E def \in get_table_indexes(c, db, t) : def.name = name

create_index_ok(c, db, t, def) ==
  table_exists(c, db, t) /\ ~has_index(c, db, t, def.name)

create_index(c, db, t, def) ==
  [c EXCEPT !.indexes[<<db, t>>] = @ \cup {def}]

drop_index_ok(c, db, t, name) == has_index(c, db, t, name)

drop_index(c, db, t, name) ==
  [c EXCEPT !.indexes[<<db, t>>] = {def \in @ : def.name # name}]

\* The sequence is read and not moved.
next_row_id_NotMoved(c, t, n) == c

\* next_row_id called n times with count 1: the sequence moves n up.
next_row_id(c, t, n) == [c EXCEPT !.sequences[t] = @ + n]
=============================================================================
