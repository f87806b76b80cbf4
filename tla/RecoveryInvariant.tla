--------------------------- MODULE RecoveryInvariant ---------------------------
(***************************************************************************)
(* What the memory, the log and the files of a server that ran before have *)
(* to do with each other at any instant: the inductive invariant behind    *)
(* DurableAtRest and ImplementsDurableStore.                               *)
(***************************************************************************)
EXTENDS Recovery

-----------------------------------------------------------------------------
(* What a start makes of the files.                                         *)

\* The catalog and storage of a server that has never run
fresh == [catalog |-> new_catalog, storage |-> new_storage]

\* The catalog file and the table files it names
loaded_of(d) == [catalog |-> d.catalog,
                 storage |-> load_tables(d.catalog, d.tables)]

\* The rows of a table file
file_rows(f) == IF f = NoFile THEN {} ELSE {r[2] : r \in f}

\* The catalog file, if there is one, holds a well-formed catalog.
FiledWellFormed(d) == d.catalog = NoFile \/ WellFormed(d.catalog)

-----------------------------------------------------------------------------
(* One database, and a table t of it: whether it is there, its index        *)
(* definitions, and the set of its rows.                                    *)

OneDatabase == DBs = {DefaultDb}

there(cs, t)   == <<DefaultDb, t>> \in cs.catalog.tables
defs_in(cs, t) == cs.catalog.indexes[<<DefaultDb, t>>]
rows_in(cs, t) == row_set(rows_of(cs.storage, t))

SameCatalogs(x, y, t) ==
  (there(x, t) <=> there(y, t)) /\ defs_in(x, t) = defs_in(y, t)

\* The same tables, index definitions and sets of rows
AlikeAt(x, y, t) == /\ there(x, t) <=> there(y, t)
                    /\ defs_in(x, t) = defs_in(y, t)
                    /\ rows_in(x, t) = rows_in(y, t)

Alike(x, y) == \A t \in Tables : AlikeAt(x, y, t)

-----------------------------------------------------------------------------
(* What the log says: the catalog and storage after each of its entries,    *)
(* from a server that has never run.                                        *)

history(log) ==
  LET after[n \in 0 .. Len(log)] ==
        IF n = 0 THEN fresh ELSE apply_entry(after[n - 1], log[n])
  IN  after

last(log) == history(log)[Len(log)]

\* No append to the log was cut short.
whole(log) == \A i \in DOMAIN log : log[i].type # "Torn"

\* Whatever came after the first append that was cut short, as long as it has
\* not been completed a restart finds each table that the log said there was
\* before it, with all of its rows: the files, of whatever instant, take none
\* of them away (wal.rs:107-137, listener.rs:47-58).
KeptBeforeTear ==
  \A i \in DOMAIN disk.wal :
    LET before == SubSeq(disk.wal, 1, i - 1)
    IN  disk.wal[i].type = "Torn" /\ whole(before) /\ ~supplied(disk.wal, i)
          => \A t \in Tables :
               there(last(before), t)
                 => /\ there(recovered, t)
                    /\ rows_in(last(before), t) \subseteq rows_in(recovered, t)

\* An entry that the server has accepted: rows of a table that is there, an
\* index on one, under a name it has no index of.
LegalEntry(cs, e) ==
  /\ e.type \in {"InsertRows", "TableSnapshot", "CreateIndex"}
       => there(cs, e.tbl)
  /\ e.type = "CreateIndex"
       => \A d \in defs_in(cs, e.tbl) : d.name # e.def.name

Legal(log) ==
  \A n \in 1 .. Len(log) : LegalEntry(history(log)[n - 1], log[n])

-----------------------------------------------------------------------------
(* What the files hold.  Of each table, the catalog is what the log said at *)
(* some instant, and the file has no row that the log did not say the table *)
(* had at some instant: another one for each table, and for its file.       *)

Filed(d) ==
  /\ d.catalog # NoFile /\ d.catalog.dbs = {DefaultDb}
  /\ \A t \in Tables : \E m \in 0 .. Len(d.wal) :
       SameCatalogs(history(d.wal)[m], loaded_of(d), t)
  /\ \A t \in Tables : \E k \in 0 .. Len(d.wal) :
       file_rows(d.tables[t]) \subseteq rows_in(history(d.wal)[k], t)

Consistent(d) == whole(d.wal) /\ Legal(d.wal) /\ Filed(d) /\ FiledWellFormed(d)

\* A server that ran before: what its log said is what it is started on.
RanBefore ==
  /\ InitWal # <<>> /\ whole(InitWal) /\ Legal(InitWal)
  /\ InitCatalog.dbs = {DefaultDb}
  /\ Alike([catalog |-> InitCatalog, storage |-> new_storage], last(InitWal))

\* Every row that is inserted has a value of each column.
WholeRows ==
  \A st \in Menu :
    st.op = "insert" => \A i \in DOMAIN st.rows : st.rows[i] \in Row

-----------------------------------------------------------------------------
(* One session, and any statements but DROP DATABASE, which is not logged.  *)

SingleSession ==
  /\ OneDatabase /\ RanBefore /\ WholeRows /\ TornEntries = {}
  /\ \E s \in Sessions : Sessions = {s}
  /\ \A st \in Menu : st.op # "drop_database"

\* The entries a statement logs, in a step of its own
drop_entry(st)       == [type |-> "DropTable", tbl |-> st.tbl]
rows_entry(st, rs)   == [type |-> "InsertRows", tbl |-> st.tbl, rows |-> rs]
index_entry(st)      == [type |-> "CreateIndex", db |-> st.db, tbl |-> st.tbl,
                         def |-> st.def]
drop_index_entry(st) == [type |-> "DropIndex", db |-> st.db, tbl |-> st.tbl,
                         name |-> st.name]

\* The memory, once the session has done what it has logged
caught_up(s) ==
  IF At(s, "drop_table") THEN apply_entry(memory, drop_entry(stmt[s]))
  ELSE IF At(s, "insert_store")
       THEN apply_entry(memory, rows_entry(stmt[s], rows[s]))
  ELSE memory

\* What the log says, once the session has logged what it has done
logged(s) ==
  IF At(s, "create_index_log")
  THEN apply_entry(last(disk.wal), index_entry(stmt[s]))
  ELSE IF At(s, "drop_index_log")
       THEN apply_entry(last(disk.wal), drop_index_entry(stmt[s]))
  ELSE last(disk.wal)

\* The rows of an INSERT, filled in
completed(rs, given) ==
  /\ Len(rs) = Len(given)
  /\ \A i \in 1 .. Len(rs) : Durable!completes(rs[i], given[i])

\* The session is where its statement has found its table.
HasTable == {"insert_fill", "insert_log", "delete_apply", "update_apply"}

\* What is in memory and what the log says differ by the statement under way
\* only.
InStep(s) ==
  /\ ~poisoned /\ catalog.dbs = {DefaultDb}
  /\ Consistent(disk)
  /\ Alike(caught_up(s), logged(s))

\* Where the statement is
OnTrack(s) ==
  /\ stmt[s].op # "drop_index" => stmt[s] \in Menu
  /\ pc[s] \in HasTable => there(memory, stmt[s].tbl)
  /\ At(s, "drop_table_file") => ~there(memory, stmt[s].tbl)
  /\ At(s, "create_index_log")
       => LegalEntry(last(disk.wal), index_entry(stmt[s]))
  /\ At(s, "insert_log") => completed(rows[s], stmt[s].rows)

\* At any instant of a statement and after any crash, what is in memory is
\* what the log says but for the statement under way, the catalog file is as
\* old as some instant of the log and no table file has a row that the log did
\* not say, and the statement is at a step it may be at
\* (executor.rs, wal.rs:107-162, persistence.rs).
StoreInv == \A s \in Sessions : InStep(s) /\ OnTrack(s)

-----------------------------------------------------------------------------
(* Any number of sessions that create tables, insert and select.            *)

ManyWriters ==
  /\ OneDatabase /\ RanBefore /\ TornEntries = {}
  /\ \A st \in Menu : st.op \in {"create_table", "insert", "select"}

rows_given(s) == {rows[s][i] : i \in 1 .. Len(rows[s])}

\* The rows of table t that are logged and not yet in memory
unstored(t) ==
  UNION {rows_given(s) : s \in {q \in Sessions : /\ At(q, "insert_store")
                                                /\ stmt[q].tbl = t}}

\* The log is what is in memory and what is pending.
LogLeads ==
  \A t \in Tables :
    /\ SameCatalogs(memory, last(disk.wal), t)
    /\ rows_in(last(disk.wal), t) = rows_in(memory, t) \cup unstored(t)

\* Between a look-up and a store the table is there, and what is logged is
\* what the statement gives.
WritesWhatIsGiven(s) ==
  /\ stmt[s] \in Menu
  /\ pc[s] \in {"insert_fill", "insert_log"} => there(memory, stmt[s].tbl)
  /\ At(s, "insert_log") => completed(rows[s], stmt[s].rows)

\* Whatever the order in which the sessions fill in, log, store and save, and
\* after any crash, the log is ahead of the memory by the rows of the INSERTs
\* between their append and their store and by nothing else, and no file is
\* ahead of the log (executor.rs:433, wal.rs:107-162, persistence.rs).
WritersInv ==
  /\ catalog.dbs = {DefaultDb} /\ Consistent(disk) /\ LogLeads
  /\ \A s \in Sessions : WritesWhatIsGiven(s)
===============================================================================
