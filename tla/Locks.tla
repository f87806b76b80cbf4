-------------------------------- MODULE Locks ---------------------------------
(***************************************************************************)
(* The three mutexes of the executor (src/src/engine/executor.rs).  A      *)
(* statement is a walk through sections; a section takes a mutex, or two   *)
(* nested ones, and releases all of them at its end.  The sections have    *)
(* the names of the steps of Executor, which does in one action what a     *)
(* session does here between its first lock and the release.  What the     *)
(* statement reads and writes is left out: where it decides the outcome of *)
(* a section, every outcome is possible.                                   *)
(*                                                                         *)
(* A panic poisons the mutexes its session holds.  A poisoned mutex can    *)
(* still be waited for; whoever gets it is told, and most sections return  *)
(* an error then.                                                          *)
(***************************************************************************)
EXTENDS Naturals, Sequences, FiniteSets

CONSTANT Sessions

Mutex == {"catalog", "storage", "wal"}

\* Sections that lock the log alone, and the storage alone
LogSections == {"drop_table_log", "insert_log", "create_index_log",
                "drop_index_log"}

StorageSections ==
  {"insert_store", "insert_save", "insert_index", "delete_save",
   "update_save", "select_read", "create_index_build", "create_index_save",
   "drop_index_data"}

CatalogSections ==
  {"create_table_exists", "save_catalog", "create_database_exists",
   "create_database", "drop_database_exists", "drop_database",
   "drop_table_exists", "drop_table_save", "insert_lookup", "insert_fill",
   "insert_indexes", "delete_lookup", "update_lookup", "update_assign",
   "select_lookup", "create_index_exists", "create_index",
   "create_index_columns", "drop_index_find", "drop_index_exists",
   "drop_index", "use", "init_db", "show_databases", "show", "describe"}

Section == LogSections \cup StorageSections \cup CatalogSections
             \cup {"create_table", "drop_table", "delete_apply",
                   "update_apply", "select_rows"}

\* The sections a statement starts with, with and without IF [NOT] EXISTS
First == {"create_table_exists", "create_table", "create_database_exists",
          "create_database", "drop_database_exists", "drop_database",
          "drop_table_exists", "drop_table_log", "insert_lookup",
          "delete_lookup", "update_lookup", "select_lookup",
          "create_index_exists", "drop_index_find", "use", "init_db",
          "show_databases", "show", "describe"}

\* INSERT keeps the log locked while it stores its rows.
locks_of_LogHeld(at) ==
  CASE at = "insert_log"           -> <<"wal", "storage">>
    [] at \in {"delete_apply", "update_apply"} -> <<"storage", "wal">>
    [] at = "create_table"         -> <<"catalog", "wal">>
    [] at = "drop_table"           -> <<"catalog", "storage">>
    [] at \in LogSections          -> <<"wal">>
    [] at \in StorageSections      -> <<"storage">>
    [] at \in CatalogSections      -> <<"catalog">>
    [] OTHER                       -> <<>>

\* The mutexes of a section, in the order it takes them.  A SELECT evaluates
\* its clause on a copy of the rows, without a lock.
locks_of(at) ==
  CASE at \in {"delete_apply", "update_apply"} -> <<"storage", "wal">>
    [] at = "create_table"         -> <<"catalog", "wal">>
    [] at = "drop_table"           -> <<"catalog", "storage">>
    [] at \in LogSections          -> <<"wal">>
    [] at \in StorageSections      -> <<"storage">>
    [] at \in CatalogSections      -> <<"catalog">>
    [] OTHER                       -> <<>>

\* Where a statement goes when a section succeeds and it is not done
next_sections(at) ==
  CASE at = "create_table_exists"    -> {"create_table"}
    [] at \in {"create_table", "create_database", "drop_database",
               "create_index_save"}  -> {"save_catalog"}
    [] at = "create_database_exists" -> {"create_database"}
    [] at = "drop_database_exists"   -> {"drop_database"}
    [] at = "drop_table_exists"      -> {"drop_table_log"}
    [] at = "drop_table_log"         -> {"drop_table"}
    [] at = "drop_table"             -> {"drop_table_save"}
    [] at = "insert_lookup"          -> {"insert_fill"}
    [] at = "insert_fill"            -> {"insert_log"}
    [] at = "insert_log"             -> {"insert_store"}
    [] at = "insert_store"           -> {"insert_save"}
    [] at = "insert_save"            -> {"insert_indexes"}
    [] at = "insert_indexes"         -> {"insert_index"}
    [] at = "delete_lookup"          -> {"delete_apply"}
    [] at = "delete_apply"           -> {"delete_save"}
    [] at = "update_lookup"          -> {"update_assign"}
    [] at = "update_assign"          -> {"update_apply"}
    [] at = "update_apply"           -> {"update_save"}
    [] at = "select_lookup"          -> {"select_read"}
    [] at = "select_read"            -> {"select_rows"}
    [] at = "create_index_exists"    -> {"create_index"}
    [] at = "create_index"           -> {"create_index_log"}
    [] at = "create_index_log"       -> {"create_index_columns"}
    [] at = "create_index_columns"   -> {"create_index_build"}
    [] at = "create_index_build"     -> {"create_index_save"}
    [] at = "drop_index_find"        -> {"drop_index_exists", "drop_index"}
    [] at = "drop_index_exists"      -> {"drop_index"}
    [] at = "drop_index"             -> {"drop_index_log"}
    [] at = "drop_index_log"         -> {"drop_index_data"}
    [] OTHER                         -> {}

\* Sections that can return OK, and sections that can return an error with
\* all their mutexes held
Returning ==
  {"create_table_exists", "create_database_exists", "drop_database_exists",
   "drop_table_exists", "drop_index_exists", "save_catalog",
   "drop_table_save", "insert_indexes", "insert_index", "delete_save",
   "update_save", "select_rows", "drop_index_data", "use", "init_db",
   "show_databases", "show", "describe"}

Failing ==
  {"create_table", "drop_database", "insert_lookup", "delete_lookup",
   "update_lookup", "update_assign", "select_lookup", "create_index_exists",
   "create_index", "create_index_columns", "create_index_build",
   "drop_index_find", "drop_index", "use", "init_db", "show", "describe"}

\* What can become of a session in section at with n of its mutexes: "next",
\* "ok", "err" or "panic".  DROP TABLE fails before it takes the storage.
\* DELETE and UPDATE take the log only when they have a row to change; before
\* that they fail on a table without an entry, or panic in LIKE.
outcomes(at, n) ==
  IF n = Len(locks_of(at))
  THEN (IF next_sections(at) # {} THEN {"next"} ELSE {})
         \cup (IF at \in Returning THEN {"ok"} ELSE {})
         \cup (IF at \in Failing THEN {"err"} ELSE {})
         \cup (IF at \in {"insert_fill", "select_rows"} THEN {"panic"} ELSE {})
  ELSE CASE at = "drop_table" /\ n = 1 -> {"err"}
         [] at \in {"delete_apply", "update_apply"} /\ n = 1 ->
              {"next", "err", "panic"}
         [] OTHER -> {}

\* What a section makes of a poisoned mutex: a look takes it for "not there",
\* a save and the log for done, and everything else for an error.
if_poisoned(at) ==
  CASE at \in {"create_table_exists", "create_database_exists",
               "insert_save", "create_index_save"} \cup LogSections -> "next"
    [] at \in {"drop_table_exists", "drop_database_exists",
               "drop_index_exists", "save_catalog", "delete_save",
               "update_save"} -> "ok"
    [] OTHER -> "err"

VARIABLES
  at,        \* the section of each session; "idle" between statements
  held,      \* the mutexes it holds, in the order it took them
  poisoned,  \* the poisoned mutexes
  outcome    \* what its last statement returned

lvars == <<at, held, poisoned, outcome>>

Outcome == {"none", "ok", "err", "panic"}

LocksType ==
  /\ at \in [Sessions -> Section \cup {"idle"}]
  /\ held \in [Sessions -> Seq(Mutex)]
  /\ poisoned \subseteq Mutex
  /\ outcome \in [Sessions -> Outcome]

LocksInit ==
  /\ at = [s \in Sessions |-> "idle"]
  /\ held = [s \in Sessions |-> <<>>]
  /\ poisoned = {}
  /\ outcome = [s \in Sessions |-> "none"]

-----------------------------------------------------------------------------
holds(s, m) == \E i \in DOMAIN held[s] : held[s][i] = m

free(m) == \A s \in Sessions : ~holds(s, m)

\* The session has a mutex of its section still to take.
waits(s) == Len(held[s]) < Len(locks_of(at[s]))

wanted(s) == locks_of(at[s])[Len(held[s]) + 1]

\* Executor::execute starts the statement with its first section.
Begin(s, section) ==
  /\ section \in First
  /\ at[s] = "idle"
  /\ at' = [at EXCEPT ![s] = section]
  /\ outcome' = [outcome EXCEPT ![s] = "none"]
  /\ UNCHANGED <<held, poisoned>>

\* The mutexes held are poisoned; the others are released.
Panics(s) ==
  /\ at' = [at EXCEPT ![s] = "idle"]
  /\ outcome' = [outcome EXCEPT ![s] = "panic"]
  /\ poisoned' = poisoned \cup {held[s][i] : i \in DOMAIN held[s]}
  /\ held' = [held EXCEPT ![s] = <<>>]

\* The section ends and releases what it holds.
Leaves(s, res) ==
  /\ held' = [held EXCEPT ![s] = <<>>]
  /\ \/ /\ res = "next"
        /\ \E section \in next_sections(at[s]) :
             at' = [at EXCEPT ![s] = section]
        /\ UNCHANGED outcome
     \/ /\ res \in {"ok", "err"}
        /\ at' = [at EXCEPT ![s] = "idle"]
        /\ outcome' = [outcome EXCEPT ![s] = res]
  /\ UNCHANGED poisoned

Acquire(s) ==
  /\ waits(s) /\ free(wanted(s))
  /\ wanted(s) \notin poisoned
  /\ held' = [held EXCEPT ![s] = Append(@, wanted(s))]
  /\ UNCHANGED <<at, poisoned, outcome>>

\* A session that is told of the poison asks again.
FindPoisoned_Retries(s) ==
  /\ waits(s) /\ free(wanted(s))
  /\ wanted(s) \in poisoned
  /\ UNCHANGED lvars

\* Inside a section of two mutexes only the log fails without an error, and
\* the log is never poisoned: nothing panics while it is locked.
FindPoisoned(s) ==
  /\ waits(s) /\ free(wanted(s))
  /\ wanted(s) \in poisoned
  /\ Leaves(s, if_poisoned(at[s]))

Finish(s, res) ==
  /\ at[s] # "idle"
  /\ res \in outcomes(at[s], Len(held[s]))
  /\ IF res = "panic" THEN Panics(s) ELSE Leaves(s, res)

LocksNext ==
  \E s \in Sessions :
    \/ \E section \in Section : Begin(s, section)
    \/ Acquire(s)
    \/ FindPoisoned(s)
    \/ \E res \in {"next", "ok", "err", "panic"} : Finish(s, res)

LocksSpec == LocksInit /\ [][LocksNext]_lvars

-----------------------------------------------------------------------------
\* The session does not wait for a mutex that another one holds.  Where it may
\* end its section without the mutex, it is taken to need it.
can_step(s) == waits(s) => free(wanted(s))

\* No deadlock: while a statement runs, some statement is not waiting, in
\* whatever sections the sessions are and whatever is poisoned
\* (executor.rs:1213-1226, 526-586, 328-364 take two mutexes).
DeadlockFree ==
  (\E s \in Sessions : at[s] # "idle") =>
    \E s \in Sessions : at[s] # "idle" /\ can_step(s)
===============================================================================
