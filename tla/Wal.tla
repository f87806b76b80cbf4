--------------------------------- MODULE Wal ---------------------------------
(***************************************************************************)
(* The write-ahead log (src/src/engine/wal.rs) and what a server start     *)
(* (src/src/server/listener.rs, persistence.rs) makes of the files.        *)
(*                                                                         *)
(* The log is a sequence of entries.  Their encoding is left out but for   *)
(* one thing: an append cut short by a crash leaves a Torn entry.  A       *)
(* replay stops at it until the appends behind it, whole or torn           *)
(* themselves, have supplied the bytes that it lacks; then their bytes are *)
(* read as its own.  LogBytes has the bytes themselves.                    *)
(*                                                                         *)
(* append_sync and truncate have no caller, so no log ever holds a         *)
(* Checkpoint entry, replay_checkpoint fails on every log that is not      *)
(* empty, and start falls through to load-the-files-then-replay.           *)
(***************************************************************************)
EXTENDS Catalog, Storage, SequencesExt

CONSTANT NoFile   \* a file that does not exist

\* WalEntry.  The rows of an InsertRows are logged before they are numbered:
\* they are a sequence.  A TableSnapshot has the rows with their ids.
WholeEntry ==
       [type : {"CreateTable", "DropTable"}, tbl : Tables]
  \cup [type : {"InsertRows"}, tbl : Tables, rows : Seq(Row)]
  \cup [type : {"TableSnapshot"}, tbl : Tables, rows : RowVec]
  \cup [type : {"CreateIndex"}, db : DBs, tbl : Tables, def : IndexDef]
  \cup [type : {"DropIndex"}, db : DBs, tbl : Tables, name : IndexNames]

\* An append that was cut short.
\*   needs    how many of the appends behind it complete its length; 0 if
\*            none ever does or if what comes out cannot be decoded: the
\*            replay stops here for good
\*   makes    the entry its bytes and theirs decode to, or Nothing: an unknown
\*            type, or a name that is nowhere
\*   resumes  whether its length ends where one of them ends, so that the
\*            replay goes on behind it; otherwise it meets no magic
Nothing   == [type |-> "Nothing"]
TornEntry == [type : {"Torn"}, needs : Nat, makes : WholeEntry \cup {Nothing},
              resumes : BOOLEAN]

Entry == WholeEntry \cup TornEntry

\* The files under data_dir.  Index files are written and never read back.
\*   wal      srrdb.wal
\*   catalog  catalog.srrdb
\*   tables   tables/<table>.srrdb: one file per table name, whatever the
\*            database
DiskType ==
  [wal     : Seq(Entry),
   catalog : {NoFile} \cup CatalogType,
   tables  : [Tables -> {NoFile} \cup RowVec]]

\* A catalog file can be told from its absence.
ASSUME WalAssumption == NoFile \notin CatalogType

-----------------------------------------------------------------------------
(* Replay works on the pair of catalog and storage.                         *)

\* A table that is there is emptied.
apply_create_table_Empties(cs, t) ==
  [catalog |-> create_table(cs.catalog, DefaultDb, t),
   storage |-> clear_table(cs.storage, t)]

apply_create_table(cs, t) ==
  IF create_table_ok(cs.catalog, DefaultDb, t)
  THEN [cs EXCEPT !.catalog = create_table(@, DefaultDb, t)] ELSE cs

\* The rows outlive the table in memory.
apply_drop_table_KeepsRows(cs, t) ==
  IF drop_table_ok(cs.catalog, DefaultDb, t)
  THEN [cs EXCEPT !.catalog = drop_table(@, DefaultDb, t)] ELSE cs

apply_drop_table(cs, t) ==
  IF drop_table_ok(cs.catalog, DefaultDb, t)
  THEN [catalog |-> drop_table(cs.catalog, DefaultDb, t),
        storage |-> clear_table(cs.storage, t)]
  ELSE cs

\* The rows of the snapshot are added to those there.
apply_snapshot_Adds(s, t, R) ==
  IF R = {} THEN s ELSE insert_rows_with_ids(s, t, R)

\* The table, if there is one, is emptied and then filled.
apply_snapshot(s, t, R) ==
  LET cleared == IF t \in DOMAIN s.tables
                 THEN [s EXCEPT !.tables[t] = EmptyMap] ELSE s
  IN  IF R = {} THEN cleared ELSE insert_rows_with_ids(cleared, t, R)

apply_create_index(c, db, t, def) ==
  IF create_index_ok(c, db, t, def) THEN create_index(c, db, t, def) ELSE c

apply_drop_index(c, db, t, name) ==
  IF drop_index_ok(c, db, t, name) THEN drop_index(c, db, t, name) ELSE c

\* CREATE TABLE and DROP TABLE entries do not say their database: they are
\* applied to the default one.  An entry that cannot be applied is skipped.
apply_entry(cs, e) ==
  CASE e.type = "CreateTable" -> apply_create_table(cs, e.tbl)
    [] e.type = "DropTable"   -> apply_drop_table(cs, e.tbl)
    [] e.type = "InsertRows"  ->
         [cs EXCEPT !.storage = insert_new_rows(@, e.tbl, e.rows)]
    [] e.type = "TableSnapshot" ->
         [cs EXCEPT !.storage = apply_snapshot(@, e.tbl, e.rows)]
    [] e.type = "CreateIndex" ->
         [cs EXCEPT !.catalog = apply_create_index(@, e.db, e.tbl, e.def)]
    [] e.type = "DropIndex"   ->
         [cs EXCEPT !.catalog = apply_drop_index(@, e.db, e.tbl, e.name)]

\* What is missing at the end of the log is taken for empty.
supplied_Clamped(log, n) == log[n].needs # 0

\* The torn entry at n has all the bytes of its length.
supplied(log, n) == log[n].needs # 0 /\ n + log[n].needs <= Len(log)

\* What the entry at n makes of cs
effect(cs, log, n) ==
  IF log[n].type # "Torn" THEN apply_entry(cs, log[n])
  ELSE IF supplied(log, n) /\ log[n].makes # Nothing
       THEN apply_entry(cs, log[n].makes)
  ELSE cs

\* Where the replay goes on from the entry at n; 0 if it stops
behind(log, n) ==
  IF log[n].type # "Torn" THEN n + 1
  ELSE IF supplied(log, n) /\ log[n].resumes THEN n + log[n].needs + 1
  ELSE 0

\* What a replay has made of cs at the end of the log, and the entry it would
\* read next
walk(cs, log) ==
  LET upto[n \in 0 .. Len(log)] ==
        IF n = 0 THEN [cs |-> cs, next |-> 1]
        ELSE LET before == upto[n - 1]
             IN  IF before.next = n
                 THEN [cs   |-> effect(before.cs, log, n),
                       next |-> behind(log, n)]
                 ELSE before
  IN  upto[Len(log)]

\* A replay that stops at a torn entry gives up what it has replayed.
replay_AllOrNothing(cs, log) ==
  IF walk(cs, log).next = 0 THEN cs ELSE walk(cs, log).cs

replay(cs, log) == walk(cs, log).cs

\* The storage loaded from the table files of the tables in the catalog
load_tables(c, files) ==
  LET named  == {dt[2] : dt \in c.tables}
      loaded == {t \in named : files[t] # NoFile}
      map(R) == [id \in {r[1] : r \in R} |-> (CHOOSE r \in R : r[1] = id)[2]]
  IN  [new_storage EXCEPT
         !.tables   = [t \in loaded |-> map(files[t])],
         !.next_ids = [t \in Tables |->
                         IF t \in loaded
                         THEN Max({1} \cup {r[1] + 1 : r \in files[t]})
                         ELSE 1]]

\* rebuild_indexes: fresh index data for every definition in the catalog.
\* Where databases share an index name for a table, one definition wins.
rebuild_indexes(c, s) ==
  LET defs(t) == UNION {c.indexes[<<db, t>>] : db \in DBs}
      keys    == UNION {index_keys(t, defs(t)) : t \in Tables}
  IN  [s EXCEPT !.index_data =
         [k \in keys |->
            SetToBag(entries(rows_of(s, k[1]), DOMAIN rows_of(s, k[1]),
                             def_named(defs(k[1]), k[2])))]]

\* The indexes are built from the files, before the log is replayed.
recover_IndexesFirst(disk) ==
  LET loaded == load_tables(disk.catalog, disk.tables)
  IN  replay([catalog |-> disk.catalog,
              storage |-> rebuild_indexes(disk.catalog, loaded)], disk.wal)

\* start.  Without a catalog file the log is not even opened.
recover(disk) ==
  LET fresh  == [catalog |-> new_catalog, storage |-> new_storage]
      loaded == [catalog |-> disk.catalog,
                 storage |-> load_tables(disk.catalog, disk.tables)]
      cs     == IF disk.catalog = NoFile THEN fresh
                ELSE replay(loaded, disk.wal)
  IN  [cs EXCEPT !.storage = rebuild_indexes(cs.catalog, @)]
=============================================================================
