-------------------------- MODULE ExecutorProperties --------------------------
(***************************************************************************)
(* What the executor should guarantee while sessions run their statements  *)
(* against each other.                                                     *)
(***************************************************************************)
EXTENDS Executor

\* A statement is only ever at the labels of its own kind.
labels(op) ==
  CASE op = "create_table" ->
         {"create_table_exists", "create_table", "save_catalog"}
    [] op = "create_database" ->
         {"create_database_exists", "create_database", "save_catalog"}
    [] op = "drop_database" ->
         {"drop_database_exists", "drop_database", "save_catalog"}
    [] op = "drop_table" ->
         {"drop_table_exists", "drop_table_log", "drop_table",
          "drop_table_file", "drop_table_save"}
    [] op = "insert" ->
         {"insert_lookup", "insert_fill", "insert_log", "insert_store",
          "insert_save", "insert_indexes", "insert_index"}
    [] op = "delete" -> {"delete_lookup", "delete_apply", "delete_save"}
    [] op = "update" ->
         {"update_lookup", "update_assign", "update_apply", "update_save"}
    [] op = "select" -> {"select_lookup", "select_read"}
    [] op = "create_index" ->
         {"create_index_exists", "create_index", "create_index_log",
          "create_index_columns", "create_index_build", "create_index_save",
          "save_catalog"}
    [] op = "drop_index" ->
         {"drop_index_find", "drop_index_exists", "drop_index",
          "drop_index_log", "drop_index_data"}

Ops == {"create_table", "create_database", "drop_database", "drop_table",
        "insert", "delete", "update", "select", "create_index", "drop_index"}

Label == {"idle"} \cup UNION {labels(op) : op \in Ops}

Status == {"none", "ok", "error", "panic"}

\* What the sessions share
SharedType ==
  /\ catalog \in CatalogType
  /\ StorageType(storage)
  /\ poisoned \in BOOLEAN
  /\ disk \in DiskType

\* A busy session is at a label of its statement.
ControlType ==
  /\ pc \in [Sessions -> Label]
  /\ stmt \in [Sessions -> Statement]
  /\ \A s \in Sessions : pc[s] # "idle" => pc[s] \in labels(stmt[s].op)

LocalsType ==
  /\ rows \in [Sessions -> Seq(Row)]
  /\ ids \in [Sessions -> SUBSET RowId]
  /\ idxs \in [Sessions -> SUBSET IndexDef]

ResultType ==
  /\ DOMAIN result = Sessions
  /\ \A s \in Sessions : result[s].status \in Status

\* The state is well typed, and a busy session is at a label of its statement.
TypeOK ==
  SharedType /\ ControlType /\ LocalsType /\ ResultType
    /\ issued \in 0 .. MaxStatements

-----------------------------------------------------------------------------
\* The session has stored row id in t and not yet entered it in the indexes.
pending(s, t, id) ==
  /\ pc[s] \in {"insert_save", "insert_indexes", "insert_index"}
  /\ stmt[s].tbl = t
  /\ id \in ids[s]

\* No index forgets a row: every stored row is under its current key in every
\* index of its table that has data (a SELECT uses no other), but for the rows
\* an INSERT has just stored and is still to index.  Sessions INSERT, UPDATE
\* and DELETE at will (executor.rs:466-500, 566, 703-716).
IndexComplete ==
  \A dt \in catalog.tables : \A def \in catalog.indexes[dt] :
    LET t == dt[2]
        m == rows_of(storage, t)
    IN  \A id \in DOMAIN m :
          \/ <<t, def.name>> \notin DOMAIN storage.index_data
          \/ <<index_key(m[id], def), id>>
               \in DOMAIN index_data_of(storage, t, def)
          \/ \E s \in Sessions : pending(s, t, id)

\* No index keeps a live row under a key it no longer has.  An entry may
\* outlive its row (an INSERT whose row was deleted under it), and then its
\* id is never given out again.
IndexSound ==
  \A dt \in catalog.tables : \A def \in catalog.indexes[dt] :
    LET t == dt[2]
        m == rows_of(storage, t)
    IN  \A e \in DOMAIN index_data_of(storage, t, def) :
          /\ e[2] < storage.next_ids[t]
          /\ e[2] \in DOMAIN m => e[1] = index_key(m[e[2]], def)

\* A SELECT returns rows that match its clause and, but for rows still to be
\* indexed, all of them, whether an index or a scan served it
\* (executor.rs:783-838).
SelectComplete ==
  [][\A s \in Sessions :
       At(s, "select_read") /\ pc'[s] = "idle" =>
         LET t     == stmt[s].tbl
             match == matching_ids(rows_of(storage, t), stmt[s].sel)
             read  == DOMAIN result'[s].rows
         IN  /\ read \subseteq match
             /\ \A id \in match \ read : \E u \in Sessions : pending(u, t, id)
    ]_vars

\* A stored row stays as it is until a statement that is meant to change it:
\* no INSERT is ever given the id of a row that exists (storage.rs:35-52).
RowsKept ==
  [][\A t \in DOMAIN storage.tables :
       LET m == storage.tables[t]
       IN  \A id \in DOMAIN m :
             \/ id \in DOMAIN rows_of(storage', t)
                  /\ rows_of(storage', t)[id] = m[id]
             \/ \E s \in Sessions :
                  \/ At(s, "drop_table") /\ stmt[s].tbl = t
                  \/ /\ pc[s] \in {"delete_apply", "update_apply"}
                     /\ stmt[s].tbl = t
                     /\ matches(m[id], stmt[s].sel)
    ]_vars

\* A table file that is behind the memory has a writer on its way: when all
\* statements on a table have returned, its file holds its rows
\* (executor.rs:456, 589, 731).
TableFileCurrent ==
  \A t \in DOMAIN storage.tables :
    \/ disk.tables[t] = rows_vec(storage.tables[t])
    \/ \E s \in Sessions :
         /\ pc[s] \in {"insert_save", "delete_save", "update_save",
                       "create_index_save"}
         /\ stmt[s].tbl = t

\* The catalog holds together: an index definition belongs to a table, a
\* table to a database, and a table has one index of a name, whatever order
\* CREATE and DROP of tables, indexes and databases interleave in.
CatalogWellFormed == WellFormed(catalog)

\* The tables and databases in the catalog file
filed(d) == IF d.catalog = NoFile THEN [dbs |-> {DefaultDb}, tables |-> {}]
            ELSE [dbs |-> d.catalog.dbs, tables |-> d.catalog.tables]

\* A catalog file that lacks a change to the databases or tables has a
\* writer on its way, however many DDL statements run at once
\* (executor.rs:280-293, 1229-1233).  A poisoned catalog is never written.
CatalogFileCurrent ==
  \/ filed(disk) = [dbs |-> catalog.dbs, tables |-> catalog.tables]
  \/ poisoned
  \/ \E s \in Sessions :
       pc[s] \in {"save_catalog", "drop_table_file", "drop_table_save"}

\* A table file does not outlive the rows of its table: where there is one
\* and the table has no rows in memory, a DROP TABLE is about to remove it.
\* A later CREATE TABLE of that name would find the rows again after a
\* restart (executor.rs:1215-1228).
NoFileOutlivesTable ==
  \A t \in Tables :
    \/ disk.tables[t] = NoFile
    \/ t \in DOMAIN storage.tables
    \/ \E s \in Sessions : pc[s] = "drop_table_file" /\ stmt[s].tbl = t

\* A table of that name is in some database.
in_catalog(c, t) == \E dt \in c.tables : dt[2] = t

\* Rows do not come to be without a table, to show up in the next table of
\* that name: DROP TABLE takes table and rows under both locks
\* (executor.rs:1215-1225), and no other step parts them but two that do, the
\* store of an INSERT whose table was dropped since it looked
\* (executor.rs:450-454) and DROP DATABASE (executor.rs:1265-1272).
RowsHaveTable ==
  [][\A t \in DOMAIN storage'.tables :
       \/ in_catalog(catalog', t)
       \/ t \in DOMAIN storage.tables /\ ~in_catalog(catalog, t)
       \/ \E s \in Sessions :
            /\ pc'[s] # pc[s]
            /\ \/ At(s, "insert_store") /\ stmt[s].tbl = t
               \/ At(s, "drop_database")
    ]_vars

\* A value an INSERT takes from the AUTO_INCREMENT sequence is in no row of
\* the table and in no row another INSERT is about to store, as long as no
\* statement writes that column itself (executor.rs:427-442,
\* catalog.rs:127-132).
AutoFresh ==
  \A s \in Sessions :
    At(s, "insert_fill") /\ pc'[s] = "insert_log" =>
      \A i \in DOMAIN rows'[s] :
        wants_id(stmt[s].rows[i]) =>
          LET v == rows'[s][i][AutoCol]
              m == rows_of(storage, stmt[s].tbl)
          IN  /\ \A id \in DOMAIN m : m[id][AutoCol] # v
              /\ \A u \in Sessions :
                   /\ pc'[u] \in {"insert_log", "insert_store"}
                   /\ stmt[u].tbl = stmt[s].tbl
                   => \A j \in DOMAIN rows'[u] :
                        rows'[u][j][AutoCol] = v => <<u, j>> = <<s, i>>

AutoValueFresh == [][AutoFresh]_vars

\* Every statement returns, in a server with a poisoned catalog too
\* (every lock().map_err(..)? of executor.rs).
EveryStatementReturns ==
  \A s \in Sessions : pc[s] # "idle" ~> pc[s] = "idle"
=============================================================================
