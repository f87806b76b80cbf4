------------------------------- MODULE Recovery -------------------------------
(***************************************************************************)
(* The executor on a server that crashes and is started again.             *)
(*                                                                         *)
(* A crash may fall between any two steps of any session.  It loses the    *)
(* memory and the sessions and keeps the files.  The next start rebuilds   *)
(* the memory from them and writes nothing, so crash and start are one     *)
(* action (src/src/server/listener.rs).                                    *)
(***************************************************************************)
EXTENDS ExecutorProperties

CONSTANTS
  MaxCrashes,  \* bound: crashes in a behaviour
  TornEntries  \* what a crash may leave of a log append: nothing else if {}

ASSUME RecoveryAssumption == MaxCrashes \in Nat /\ TornEntries \subseteq TornEntry

VARIABLES
  crashes,    \* crashes so far
  recovered   \* the catalog and storage a start would build from the files

rvars == <<vars, crashes, recovered>>

\* The session is about to append an entry of that type: the type is among the
\* bytes of a torn entry, so what they decode to has it too.
Logging(s, type) ==
  \/ type = "CreateTable" /\ CatalogLock(s, "create_table")
  \/ type = "DropTable"   /\ At(s, "drop_table_log")
  \/ type = "InsertRows"  /\ At(s, "insert_log")
  \/ /\ type = "TableSnapshot"
     /\ At(s, "delete_apply") \/ At(s, "update_apply")
     /\ matching_ids(rows_of(storage, stmt[s].tbl), stmt[s].sel) # {}
  \/ type = "CreateIndex" /\ At(s, "create_index_log")
  \/ type = "DropIndex"   /\ At(s, "drop_index_log")

\* A crash during an append leaves its first bytes at the end of the log.  Where
\* not even its length is complete, a length put together with the bytes behind
\* it reaches beyond the log, as in LogBytes.
TornAppend ==
  \E s \in Sessions, e \in TornEntries :
    /\ \E type \in {"CreateTable", "DropTable", "InsertRows", "TableSnapshot",
                    "CreateIndex", "DropIndex"} :
         Logging(s, type) /\ e.makes.type \in {type, "Nothing"}
    /\ Log(e)

\* recovered is a function of the files; it changes only with them.
Recovered == recovered' = IF disk' = disk THEN recovered ELSE recover(disk')

CrashRestart ==
  /\ crashes < MaxCrashes
  /\ crashes' = crashes + 1
  /\ TornAppend \/ UNCHANGED disk
  /\ Recovered
  /\ catalog'  = recovered'.catalog
  /\ storage'  = recovered'.storage
  /\ poisoned' = FALSE
  /\ pc'       = [s \in Sessions |-> "idle"]
  /\ result'   = [s \in Sessions |-> None]
  /\ rows'     = [s \in Sessions |-> <<>>]
  /\ ids'      = [s \in Sessions |-> {}]
  /\ idxs'     = [s \in Sessions |-> {}]
  /\ UNCHANGED <<stmt, issued>>

RecoveryInit == Init /\ crashes = 0 /\ recovered = recover(disk)

RecoveryNext == (Next /\ Recovered /\ UNCHANGED crashes) \/ CrashRestart

RecoverySpec == RecoveryInit /\ [][RecoveryNext]_rvars

-----------------------------------------------------------------------------
AtRest == \A s \in Sessions : At(s, "idle")

row_set(m) == {m[id] : id \in DOMAIN m}

\* The tables of the default database and their rows, in a catalog and storage
contents(cs) ==
  [t \in {u \in Tables : table_exists(cs.catalog, DefaultDb, u)} |->
     row_set(rows_of(cs.storage, t))]

memory == [catalog |-> catalog, storage |-> storage]

\* Once every statement has returned, a crash loses nothing and brings
\* nothing back: a restart finds the tables, the index definitions and the
\* set of rows of each table that are in memory
\* (wal.rs:107-162, listener.rs:34-66).
DurableAtRest ==
  AtRest => /\ contents(recovered) = contents(memory)
            /\ recovered.catalog.tables = catalog.tables
            /\ recovered.catalog.indexes = catalog.indexes

\* The next append supplies the last bytes that a torn entry lacks.
Completes(log) ==
  \E i \in DOMAIN log : /\ log[i].type = "Torn"
                       /\ log[i].needs = Len(log) + 1 - i

\* A crash changes what a restart finds only by completing, with the bytes of
\* the append that it cuts short, an append that an earlier crash cut short:
\* the append itself is the statement that never happened (wal.rs:131-155).
CrashKeepsContents ==
  [][crashes' # crashes => \/ contents(recovered') = contents(recovered)
                           \/ Completes(disk.wal)]_rvars

\* What a restart would find changes only by the effect of a statement, at
\* one instant of it: the executor implements the durable store.
Durable == INSTANCE DurableStore
             WITH content     <- contents(recovered),
                  InitContent <- contents([catalog |-> InitCatalog,
                                           storage |-> new_storage])

ImplementsDurableStore == Durable!Spec
=============================================================================
