------------------------------- MODULE Executor -------------------------------
(***************************************************************************)
(* The query executor (src/src/engine/executor.rs) run by several          *)
(* sessions at once, each one connection task of the server.               *)
(*                                                                         *)
(* The executor has one mutex for the catalog, one for the storage and one *)
(* for the log, and a statement takes and releases them several times.     *)
(* What a statement does while it holds a mutex, or writes to one file     *)
(* without any, is one action here; between two actions every other        *)
(* session may run.  A log append made while the catalog or the storage is *)
(* locked belongs to that action: no other session can see the memory it   *)
(* goes with before the mutex is released.                                 *)
(*                                                                         *)
(* A panic while the catalog is locked poisons its mutex for as long as    *)
(* the server lives: every later lock of it fails.                         *)
(***************************************************************************)
EXTENDS Wal

CONSTANTS
  Sessions,       \* the connections
  AutoCol,        \* the AUTO_INCREMENT column, or a value that is no column
  DefaultOf,      \* the DEFAULT of each column, NULL when it has none
  Menu,           \* the statements sessions issue
  MaxStatements,  \* bound: statements issued in a behaviour
  InitCatalog,    \* the catalog the server was started on
  InitWal         \* the log the server was started on

\* Statements.  opt is IF [NOT] EXISTS.  The tbl of a DROP INDEX is filled in
\* when the index is found.
Statement ==
       [op : {"create_table", "drop_table"}, db : DBs, tbl : Tables,
        opt : BOOLEAN]
  \cup [op : {"create_database", "drop_database"}, db : DBs, opt : BOOLEAN]
  \cup [op : {"insert"}, db : DBs, tbl : Tables,
        rows : Seq(PartialRow) \ {<<>>}]
  \cup [op : {"delete", "select"}, db : DBs, tbl : Tables, sel : Selection]
  \cup [op : {"update"}, db : DBs, tbl : Tables, sel : Selection,
        set : PartialRow]
  \cup [op : {"create_index"}, db : DBs, tbl : Tables, def : IndexDef]
  \cup [op : {"drop_index"}, db : DBs, tbl : Tables, name : IndexNames,
        opt : BOOLEAN]

ASSUME ExecutorAssumption ==
  /\ DefaultOf \in [Columns -> Value]
  /\ Menu \subseteq Statement /\ Menu # {}
  /\ MaxStatements \in Nat
  /\ InitCatalog \in CatalogType /\ WellFormed(InitCatalog)
  /\ InitWal = <<>> => InitCatalog = new_catalog
  /\ InitWal \in Seq(Entry)

VARIABLES
  catalog, storage,  \* the shared memory of the server
  poisoned,          \* whether the catalog mutex is poisoned
  disk,              \* the files
  pc,                \* where each session is; "idle" between statements
  stmt,              \* the statement it executes
  rows,              \* execute_insert: the rows, defaults filled in
  ids,               \* execute_insert: inserted_ids
  idxs,              \* table_indexes, read once and used later
  result,            \* the outcome of its last statement
  issued             \* statements issued so far

vars == <<catalog, storage, poisoned, disk, pc, stmt, rows, ids, idxs,
          result, issued>>

-----------------------------------------------------------------------------
Goto(s, label) == pc' = [pc EXCEPT ![s] = label]

Return(s, res) == /\ result' = [result EXCEPT ![s] = res]
                  /\ Goto(s, "idle")

NoRows   == EmptyBag
None     == [status |-> "none", rows |-> NoRows]
Ok       == [status |-> "ok", rows |-> NoRows]
Err      == [status |-> "error", rows |-> NoRows]
Panic    == [status |-> "panic", rows |-> NoRows]
Rows(b)  == [status |-> "ok", rows |-> b]

\* log_wal: append one entry (and sync it)
Log(e) == disk' = [disk EXCEPT !.wal = Append(@, e)]

locals == <<rows, ids, idxs>>

At(s, label) == pc[s] = label

\* A step that locks the catalog, or returns "Lock error" when it is poisoned
CatalogLock(s, label) == At(s, label) /\ ~poisoned

-----------------------------------------------------------------------------
(* execute: the dispatch.  IF [NOT] EXISTS adds a step that looks, under a  *)
(* lock of its own, before the statement proper.                            *)

first_step(st) ==
  CASE st.op = "create_table"    -> IF st.opt THEN "create_table_exists"
                                              ELSE "create_table"
    [] st.op = "drop_table"      -> IF st.opt THEN "drop_table_exists"
                                              ELSE "drop_table_log"
    [] st.op = "create_database" -> IF st.opt THEN "create_database_exists"
                                              ELSE "create_database"
    [] st.op = "drop_database"   -> IF st.opt THEN "drop_database_exists"
                                              ELSE "drop_database"
    [] st.op = "insert"          -> "insert_lookup"
    [] st.op = "delete"          -> "delete_lookup"
    [] st.op = "update"          -> "update_lookup"
    [] st.op = "select"          -> "select_lookup"
    [] st.op = "create_index"    -> "create_index_exists"
    [] st.op = "drop_index"      -> "drop_index_find"

Begin(s) ==
  /\ At(s, "idle")
  /\ issued < MaxStatements
  /\ issued' = issued + 1
  /\ \E st \in Menu : /\ stmt' = [stmt EXCEPT ![s] = st]
                      /\ Goto(s, first_step(st))
  /\ result' = [result EXCEPT ![s] = None]
  /\ rows' = [rows EXCEPT ![s] = <<>>]
  /\ ids'  = [ids EXCEPT ![s] = {}]
  /\ idxs' = [idxs EXCEPT ![s] = {}]
  /\ UNCHANGED <<catalog, storage, poisoned, disk>>

\* The look: a poisoned catalog reads as "does not exist".
ExistsCheck(s, label, holds, next) ==
  /\ At(s, label)
  /\ IF holds THEN Return(s, Ok) ELSE Goto(s, next) /\ UNCHANGED result
  /\ UNCHANGED <<catalog, storage, poisoned, disk, stmt, locals, issued>>

CreateTableExists(s) ==
  ExistsCheck(s, "create_table_exists",
    ~poisoned /\ table_exists(catalog, stmt[s].db, stmt[s].tbl),
    "create_table")

DropTableExists(s) ==
  ExistsCheck(s, "drop_table_exists",
    poisoned \/ ~table_exists(catalog, stmt[s].db, stmt[s].tbl),
    "drop_table_log")

CreateDatabaseExists(s) ==
  ExistsCheck(s, "create_database_exists",
    ~poisoned /\ database_exists(catalog, stmt[s].db), "create_database")

DropDatabaseExists(s) ==
  ExistsCheck(s, "drop_database_exists",
    poisoned \/ ~database_exists(catalog, stmt[s].db), "drop_database")

DropIndexExists(s) ==
  ExistsCheck(s, "drop_index_exists",
    poisoned \/ ~has_index(catalog, stmt[s].db, stmt[s].tbl, stmt[s].name),
    "drop_index")

CatalogLockSteps ==
  {"create_table", "drop_table", "drop_table_save", "create_database",
   "drop_database", "insert_lookup", "insert_fill", "insert_indexes",
   "delete_lookup", "update_lookup", "update_assign", "select_lookup",
   "create_index", "create_index_columns", "drop_index_find", "drop_index"}

\* A session that finds the lock poisoned tries again.
LockError_Retries(s) == poisoned /\ pc[s] \in CatalogLockSteps /\ UNCHANGED vars

\* lock().map_err(|e| format!("Lock error: {e}"))?
LockError(s) ==
  /\ poisoned
  /\ pc[s] \in CatalogLockSteps
  /\ Return(s, Err)
  /\ UNCHANGED <<catalog, storage, poisoned, disk, stmt, locals, issued>>

-----------------------------------------------------------------------------
(* save and save_table: a file is replaced whole by the memory of the       *)
(* moment, under the lock of that memory.  An index file is written too;    *)
(* nothing reads it.                                                        *)

save_catalog(d, c) == [d EXCEPT !.catalog = c]

\* Only a table that has no file yet is written.
save_table_data_FirstOnly(d, s, t) ==
  IF t \in DOMAIN s.tables /\ d.tables[t] = NoFile
  THEN [d EXCEPT !.tables[t] = rows_vec(s.tables[t])] ELSE d

\* A table without an entry is not written.
save_table_data(d, s, t) ==
  IF t \in DOMAIN s.tables THEN [d EXCEPT !.tables[t] = rows_vec(s.tables[t])]
                           ELSE d

\* save() of CREATE TABLE, CREATE INDEX, CREATE and DROP DATABASE: a poisoned
\* lock is only reported to the log file.
SaveCatalog(s) ==
  /\ At(s, "save_catalog")
  /\ disk' = IF poisoned THEN disk ELSE save_catalog(disk, catalog)
  /\ Return(s, Ok)
  /\ UNCHANGED <<catalog, storage, poisoned, stmt, locals, issued>>

SaveTable(s) ==
  /\ \/ At(s, "insert_save") /\ Goto(s, "insert_indexes") /\ UNCHANGED result
     \/ At(s, "create_index_save") /\ Goto(s, "save_catalog")
                                   /\ UNCHANGED result
     \/ pc[s] \in {"delete_save", "update_save"} /\ Return(s, Ok)
  /\ disk' = save_table_data(disk, storage, stmt[s].tbl)
  /\ UNCHANGED <<catalog, storage, poisoned, stmt, locals, issued>>

-----------------------------------------------------------------------------
(* CREATE TABLE, CREATE DATABASE, DROP DATABASE.  CREATE TABLE is logged    *)
(* before the catalog has accepted it; databases are never logged.          *)

\* A step that locks the catalog and changes it if ok
ChangeCatalog(s, ok, new, next) ==
  IF ok THEN catalog' = new /\ Goto(s, next) /\ UNCHANGED result
        ELSE Return(s, Err) /\ UNCHANGED catalog

CreateTable(s) ==
  LET st == stmt[s]
  IN  /\ CatalogLock(s, "create_table")
      /\ Log([type |-> "CreateTable", tbl |-> st.tbl])
      /\ ChangeCatalog(s, create_table_ok(catalog, st.db, st.tbl),
                       create_table(catalog, st.db, st.tbl), "save_catalog")
      /\ UNCHANGED <<storage, poisoned, stmt, locals, issued>>

CreateDatabase(s) ==
  /\ CatalogLock(s, "create_database")
  /\ ChangeCatalog(s, TRUE, create_database(catalog, stmt[s].db),
                   "save_catalog")
  /\ UNCHANGED <<storage, poisoned, disk, stmt, locals, issued>>

\* The catalog file is not written.
DropDatabase_NotSaved(s) ==
  /\ CatalogLock(s, "drop_database")
  /\ catalog' = remove_database(catalog, stmt[s].db)
  /\ Return(s, Ok)
  /\ UNCHANGED <<storage, poisoned, disk, stmt, locals, issued>>

DropDatabase(s) ==
  /\ CatalogLock(s, "drop_database")
  /\ ChangeCatalog(s, database_exists(catalog, stmt[s].db),
                   remove_database(catalog, stmt[s].db), "save_catalog")
  /\ UNCHANGED <<storage, poisoned, disk, stmt, locals, issued>>

-----------------------------------------------------------------------------
(* DROP TABLE.  Logged first, without a lock; then catalog and storage are  *)
(* locked together; then the table file is removed, without a lock.         *)

DropTableLog(s) ==
  /\ At(s, "drop_table_log")
  /\ Log([type |-> "DropTable", tbl |-> stmt[s].tbl])
  /\ Goto(s, "drop_table")
  /\ UNCHANGED <<catalog, storage, poisoned, stmt, locals, result, issued>>

\* The table file is left where it is.
DropTable_KeepsFile(s) ==
  LET st == stmt[s]
      ok == drop_table_ok(catalog, st.db, st.tbl)
  IN  /\ CatalogLock(s, "drop_table")
      /\ ChangeCatalog(s, ok, drop_table(catalog, st.db, st.tbl),
                       "drop_table_save")
      /\ storage' = IF ok THEN clear_table(storage, st.tbl) ELSE storage
      /\ UNCHANGED <<poisoned, disk, stmt, locals, issued>>

\* The rows stay in memory.
DropTable_KeepsRows(s) ==
  LET st == stmt[s]
  IN  /\ CatalogLock(s, "drop_table")
      /\ ChangeCatalog(s, drop_table_ok(catalog, st.db, st.tbl),
                       drop_table(catalog, st.db, st.tbl), "drop_table_file")
      /\ UNCHANGED <<storage, poisoned, disk, stmt, locals, issued>>

DropTable(s) ==
  LET st == stmt[s]
      ok == drop_table_ok(catalog, st.db, st.tbl)
  IN  /\ CatalogLock(s, "drop_table")
      /\ ChangeCatalog(s, ok, drop_table(catalog, st.db, st.tbl),
                       "drop_table_file")
      /\ storage' = IF ok THEN clear_table(storage, st.tbl) ELSE storage
      /\ UNCHANGED <<poisoned, disk, stmt, locals, issued>>

\* remove_table_data
DropTableFile(s) ==
  /\ At(s, "drop_table_file")
  /\ disk' = [disk EXCEPT !.tables[stmt[s].tbl] = NoFile]
  /\ Goto(s, "drop_table_save")
  /\ UNCHANGED <<catalog, storage, poisoned, stmt, locals, result, issued>>

DropTableSave(s) ==
  /\ CatalogLock(s, "drop_table_save")
  /\ disk' = save_catalog(disk, catalog)
  /\ Return(s, Ok)
  /\ UNCHANGED <<catalog, storage, poisoned, stmt, locals, issued>>

-----------------------------------------------------------------------------
(* INSERT.                                                                  *)

\* A step that locks the catalog, fails if the table is not there, and
\* otherwise notes what it needs of it.
LookupTable(s, label, next, noted) ==
  LET st == stmt[s]
      known == table_exists(catalog, st.db, st.tbl)
  IN  /\ CatalogLock(s, label)
      /\ IF known THEN Goto(s, next) /\ UNCHANGED result ELSE Return(s, Err)
      /\ idxs' = IF known THEN [idxs EXCEPT ![s] = noted] ELSE idxs
      /\ UNCHANGED <<catalog, storage, poisoned, disk, stmt, rows, ids, issued>>

InsertLookup(s) == LookupTable(s, "insert_lookup", "insert_fill", {})

wants_id(row) == AutoCol \in Columns /\ row[AutoCol] = Null

\* How many of the first k rows take a value of the sequence
ids_taken(rs, k) == Cardinality({i \in 1 .. k : wants_id(rs[i])})

fill_row(row, next) ==
  [c \in Columns |-> IF row[c] # Null THEN row[c]
                     ELSE IF c = AutoCol THEN next ELSE DefaultOf[c]]

fill_rows(rs, base) ==
  [i \in DOMAIN rs |-> fill_row(rs[i], base + ids_taken(rs, i - 1))]

\* A row shorter than the table is indexed past its end: a panic with the
\* catalog locked.  The connection's task dies.
InsertFill(s) ==
  LET st   == stmt[s]
      n    == ids_taken(st.rows, Len(st.rows))
      full == \A i \in DOMAIN st.rows : st.rows[i] \in Row
  IN  /\ CatalogLock(s, "insert_fill")
      /\ \/ /\ full
            /\ rows' = [rows EXCEPT ![s] =
                          fill_rows(st.rows, catalog.sequences[st.tbl])]
            /\ catalog' = IF n = 0 THEN catalog
                                   ELSE next_row_id(catalog, st.tbl, n)
            /\ Goto(s, "insert_log")
            /\ UNCHANGED <<poisoned, result>>
         \/ /\ ~full
            /\ poisoned' = TRUE
            /\ Return(s, Panic)
            /\ UNCHANGED <<catalog, rows>>
      /\ UNCHANGED <<storage, disk, stmt, ids, idxs, issued>>

\* The rows are logged before the storage has numbered them.
InsertLog(s) ==
  /\ At(s, "insert_log")
  /\ Log([type |-> "InsertRows", tbl |-> stmt[s].tbl, rows |-> rows[s]])
  /\ Goto(s, "insert_store")
  /\ UNCHANGED <<catalog, storage, poisoned, stmt, locals, result, issued>>

InsertStore(s) ==
  LET t == stmt[s].tbl
  IN  /\ At(s, "insert_store")
      /\ ids' = [ids EXCEPT ![s] = new_ids(storage, t, Len(rows[s]))]
      /\ storage' = insert_new_rows(storage, t, rows[s])
      /\ Goto(s, "insert_save")
      /\ UNCHANGED <<catalog, poisoned, disk, stmt, rows, idxs, result, issued>>

\* get_table_indexes: the index definitions of now, not of insert_lookup
InsertIndexes(s) ==
  LET defs == get_table_indexes(catalog, stmt[s].db, stmt[s].tbl)
  IN  /\ CatalogLock(s, "insert_indexes")
      /\ idxs' = [idxs EXCEPT ![s] = defs]
      /\ IF defs = {} THEN Return(s, Ok)
                      ELSE Goto(s, "insert_index") /\ UNCHANGED result
      /\ UNCHANGED <<catalog, storage, poisoned, disk, stmt, rows, ids, issued>>

\* Each inserted row is read back, then entered in every index.
InsertIndex(s) ==
  LET t == stmt[s].tbl
  IN  /\ At(s, "insert_index")
      /\ storage' = insert_into_indexes(storage, t, idxs[s],
                                        rows_of(storage, t), ids[s])
      /\ Return(s, Ok)
      /\ UNCHANGED <<catalog, poisoned, disk, stmt, locals, issued>>

-----------------------------------------------------------------------------
(* DELETE and UPDATE.  Rows and index entries change under one lock of the  *)
(* storage, and the log gets a snapshot of the table before its release.    *)

DeleteLookup(s) ==
  LookupTable(s, "delete_lookup", "delete_apply",
              get_table_indexes(catalog, stmt[s].db, stmt[s].tbl))

\* Nothing is logged when no row is left.
LogSnapshot_NotOfNothing(t, m, touched) ==
  IF touched = {} \/ m = EmptyMap THEN UNCHANGED disk
  ELSE Log([type |-> "TableSnapshot", tbl |-> t, rows |-> rows_vec(m)])

\* The table in memory after the statement: m; the rows it touches: touched
LogSnapshot(t, m, touched) ==
  IF touched = {} THEN UNCHANGED disk
  ELSE Log([type |-> "TableSnapshot", tbl |-> t, rows |-> rows_vec(m)])

delete_rows(s, t, defs, gone) ==
  LET m == s.tables[t]
  IN  [delete_from_indexes(s, t, defs, m, gone) EXCEPT
         !.tables[t] = [id \in DOMAIN m \ gone |-> m[id]]]

DeleteApply(s) ==
  LET st   == stmt[s]
      gone == matching_ids(storage.tables[st.tbl], st.sel)
  IN  /\ At(s, "delete_apply")
      /\ IF st.tbl \in DOMAIN storage.tables
         THEN /\ storage' = delete_rows(storage, st.tbl, idxs[s], gone)
              /\ LogSnapshot(st.tbl, storage'.tables[st.tbl], gone)
              /\ Goto(s, "delete_save")
              /\ UNCHANGED result
         ELSE Return(s, Err) /\ UNCHANGED <<storage, disk>>
      /\ UNCHANGED <<catalog, poisoned, stmt, locals, issued>>

UpdateLookup(s) ==
  LookupTable(s, "update_lookup", "update_assign",
              get_table_indexes(catalog, stmt[s].db, stmt[s].tbl))

\* The assignments are resolved under a second lock of the catalog.
UpdateAssign(s) == LookupTable(s, "update_assign", "update_apply", idxs[s])

\* The new values are not entered in the indexes.
update_rows_NotIndexed(s, t, defs, changed, set) ==
  LET m == s.tables[t]
  IN  [delete_from_indexes(s, t, defs, m, changed) EXCEPT
         !.tables[t] = [id \in DOMAIN m |->
                          IF id \in changed THEN assign(m[id], set)
                                            ELSE m[id]]]

\* The old index entries are left.
update_rows_OldEntriesStay(s, t, defs, changed, set) ==
  LET m   == s.tables[t]
      new == [id \in DOMAIN m |->
                IF id \in changed THEN assign(m[id], set) ELSE m[id]]
  IN  insert_into_indexes([s EXCEPT !.tables[t] = new], t, defs, new, changed)

\* Old index entries out, new values in, new index entries in
update_rows(s, t, defs, changed, set) ==
  LET m   == s.tables[t]
      new == [id \in DOMAIN m |->
                IF id \in changed THEN assign(m[id], set) ELSE m[id]]
      out == delete_from_indexes(s, t, defs, m, changed)
  IN  IF changed = {} THEN s
      ELSE insert_into_indexes([out EXCEPT !.tables[t] = new], t, defs,
                               new, changed)

UpdateApply(s) ==
  LET st      == stmt[s]
      changed == matching_ids(storage.tables[st.tbl], st.sel)
  IN  /\ At(s, "update_apply")
      /\ IF st.tbl \in DOMAIN storage.tables
         THEN /\ storage' = update_rows(storage, st.tbl, idxs[s], changed,
                                        st.set)
              /\ LogSnapshot(st.tbl, storage'.tables[st.tbl], changed)
              /\ Goto(s, "update_save")
              /\ UNCHANGED result
         ELSE Return(s, Err) /\ UNCHANGED <<storage, disk>>
      /\ UNCHANGED <<catalog, poisoned, stmt, locals, issued>>

-----------------------------------------------------------------------------
(* SELECT.  The first index that serves the clause is used; where several   *)
(* do, the model takes any of them.  A result is the bag of the ids of the  *)
(* rows returned.                                                           *)

SelectLookup(s) ==
  LookupTable(s, "select_lookup", "select_read",
              get_table_indexes(catalog, stmt[s].db, stmt[s].tbl))

SelectRead(s) ==
  LET st      == stmt[s]
      serving == {def \in idxs[s] : serves(storage, st.tbl, def, st.sel)}
  IN  /\ At(s, "select_read")
      /\ \/ \E def \in serving :
              Return(s, Rows(indexed_read(storage, st.tbl, def, st.sel)))
         \/ /\ serving = {}
            /\ Return(s, Rows(scan_read(storage, st.tbl, st.sel)))
      /\ UNCHANGED <<catalog, storage, poisoned, disk, stmt, locals, issued>>

-----------------------------------------------------------------------------
(* CREATE INDEX.  The definition is in the catalog, and in the log, before  *)
(* the index is built, and stays there when a UNIQUE index cannot be built. *)

CreateIndexExists(s) ==
  LET st == stmt[s]
  IN  /\ At(s, "create_index_exists")
      /\ IF ~poisoned /\ table_exists(catalog, st.db, st.tbl)
         THEN Goto(s, "create_index") /\ UNCHANGED result
         ELSE Return(s, Err)
      /\ UNCHANGED <<catalog, storage, poisoned, disk, stmt, locals, issued>>

CreateIndex(s) ==
  LET st == stmt[s]
  IN  /\ CatalogLock(s, "create_index")
      /\ ChangeCatalog(s, create_index_ok(catalog, st.db, st.tbl, st.def),
                       create_index(catalog, st.db, st.tbl, st.def),
                       "create_index_log")
      /\ UNCHANGED <<storage, poisoned, disk, stmt, locals, issued>>

CreateIndexLog(s) ==
  LET st == stmt[s]
  IN  /\ At(s, "create_index_log")
      /\ Log([type |-> "CreateIndex", db |-> st.db, tbl |-> st.tbl,
              def |-> st.def])
      /\ Goto(s, "create_index_columns")
      /\ UNCHANGED <<catalog, storage, poisoned, stmt, locals, result, issued>>

CreateIndexColumns(s) ==
  LookupTable(s, "create_index_columns", "create_index_build", idxs[s])

has_duplicate(m, def) ==
  \E i, j \in DOMAIN m : i # j /\ index_key(m[i], def) = index_key(m[j], def)

CreateIndexBuild(s) ==
  LET st  == stmt[s]
      key == <<st.tbl, st.def.name>>
      m   == rows_of(storage, st.tbl)
  IN  /\ At(s, "create_index_build")
      /\ IF st.def.unique /\ has_duplicate(m, st.def)
         THEN /\ storage' = remove_index_data(storage, key)
              /\ Return(s, Err)
         ELSE /\ storage' = [storage EXCEPT !.index_data =
                             put(@, key, SetToBag(entries(m, DOMAIN m,
                                                          st.def)))]
              /\ Goto(s, "create_index_save")
              /\ UNCHANGED result
      /\ UNCHANGED <<catalog, poisoned, disk, stmt, locals, issued>>

-----------------------------------------------------------------------------
(* DROP INDEX.  The catalog file is not written.                            *)

\* find_index_table: a table of the database with an index of that name
DropIndexFind(s) ==
  LET st == stmt[s]
      on == {t \in Tables : has_index(catalog, st.db, t, st.name)}
  IN  /\ CatalogLock(s, "drop_index_find")
      /\ \/ \E t \in on :
              /\ stmt' = [stmt EXCEPT ![s].tbl = t]
              /\ Goto(s, IF st.opt THEN "drop_index_exists" ELSE "drop_index")
              /\ UNCHANGED result
         \/ on = {} /\ Return(s, Err) /\ UNCHANGED stmt
      /\ UNCHANGED <<catalog, storage, poisoned, disk, locals, issued>>

DropIndex(s) ==
  LET st == stmt[s]
  IN  /\ CatalogLock(s, "drop_index")
      /\ ChangeCatalog(s, drop_index_ok(catalog, st.db, st.tbl, st.name),
                       drop_index(catalog, st.db, st.tbl, st.name),
                       "drop_index_log")
      /\ UNCHANGED <<storage, poisoned, disk, stmt, locals, issued>>

DropIndexLog(s) ==
  LET st == stmt[s]
  IN  /\ At(s, "drop_index_log")
      /\ Log([type |-> "DropIndex", db |-> st.db, tbl |-> st.tbl,
              name |-> st.name])
      /\ Goto(s, "drop_index_data")
      /\ UNCHANGED <<catalog, storage, poisoned, stmt, locals, result, issued>>

DropIndexData(s) ==
  /\ At(s, "drop_index_data")
  /\ storage' = remove_index_data(storage, <<stmt[s].tbl, stmt[s].name>>)
  /\ Return(s, Ok)
  /\ UNCHANGED <<catalog, poisoned, disk, stmt, locals, issued>>

-----------------------------------------------------------------------------
\* The server comes up on a data directory whose log is InitWal, whose
\* catalog file is InitCatalog and whose tables have no rows yet.  With an
\* empty log this is a first start.
Init ==
  /\ catalog  = InitCatalog
  /\ storage  = rebuild_indexes(InitCatalog, new_storage)
  /\ poisoned = FALSE
  /\ disk     = [wal     |-> InitWal,
                 catalog |-> IF InitWal = <<>> THEN NoFile ELSE InitCatalog,
                 tables  |-> [t \in Tables |-> NoFile]]
  /\ pc       = [s \in Sessions |-> "idle"]
  /\ stmt     = [s \in Sessions |-> CHOOSE st \in Menu : TRUE]
  /\ rows     = [s \in Sessions |-> <<>>]
  /\ ids      = [s \in Sessions |-> {}]
  /\ idxs     = [s \in Sessions |-> {}]
  /\ result   = [s \in Sessions |-> None]
  /\ issued   = 0

DdlStep(s) ==
  \/ CreateTableExists(s) \/ CreateTable(s)
  \/ CreateDatabaseExists(s) \/ CreateDatabase(s)
  \/ DropDatabaseExists(s) \/ DropDatabase(s)
  \/ DropTableExists(s) \/ DropTableLog(s) \/ DropTable(s)
  \/ DropTableFile(s) \/ DropTableSave(s)
  \/ CreateIndexExists(s) \/ CreateIndex(s) \/ CreateIndexLog(s)
  \/ CreateIndexColumns(s) \/ CreateIndexBuild(s)
  \/ DropIndexFind(s) \/ DropIndexExists(s) \/ DropIndex(s)
  \/ DropIndexLog(s) \/ DropIndexData(s)
  \/ SaveCatalog(s)

DmlStep(s) ==
  \/ InsertLookup(s) \/ InsertFill(s) \/ InsertLog(s) \/ InsertStore(s)
  \/ InsertIndexes(s) \/ InsertIndex(s)
  \/ DeleteLookup(s) \/ DeleteApply(s)
  \/ UpdateLookup(s) \/ UpdateAssign(s) \/ UpdateApply(s)
  \/ SelectLookup(s) \/ SelectRead(s)

\* SaveTable is shared by INSERT, DELETE, UPDATE and CREATE INDEX.
Step(s) == DdlStep(s) \/ DmlStep(s) \/ SaveTable(s) \/ LockError(s)

\* The bound on statements is reached and every session is idle.
AllDone == /\ issued = MaxStatements
           /\ \A s \in Sessions : At(s, "idle")
           /\ UNCHANGED vars

Next == AllDone \/ \E s \in Sessions : Begin(s) \/ Step(s)

Spec == Init /\ [][Next]_vars

\* A session that has a step to take takes it: no statement waits for
\* another but for a mutex, and every mutex is released within the step.
Fairness == \A s \in Sessions : WF_vars(Step(s))

FairSpec == Spec /\ Fairness

=============================================================================
