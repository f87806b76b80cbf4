# TLA+ specifications of srrdb

srrdb is a small SQL server in Rust: MySQL clients connect over TCP, each
connection is a task, and all tasks run their statements in one executor over
an in-memory catalog and row store, kept durable by a write-ahead log and a set
of files. These specifications model the engine (catalog, row store, indexes,
log, files, the executor's statements step by step between its locks, what a
start of the server makes of the files after a crash), what a SELECT returns,
and the connections: login, requests, responses and the client at the other end.

Source paths below are relative to the repository root.

## Inventory

| Component | Source | State | Operations | What makes it correct |
|---|---|---|---|---|
| Catalog | `src/engine/catalog.rs` | databases, tables, index definitions, one AUTO_INCREMENT sequence per table *name* | create and drop of each, `next_row_id` | no index without its table, no table without its database, one index of a name per table |
| Row store | `src/engine/storage.rs` | per table name: rows by id, next id | `insert_rows`, `get_rows`, `clear_table` | an id in use is never given out again |
| Indexes | `src/engine/index.rs` | per `table:index`: key to row ids | `insert`, `delete`, `lookup_eq` | every row under its key, no row under another |
| Write-ahead log | `src/engine/wal.rs` | `srrdb.wal`, append only | `append`, `replay` (`truncate`, `append_sync` have no caller) | replay rebuilds what the statements did |
| Persistence | `src/engine/persistence.rs` | catalog file, one file per table name, index files (never read back) | save, load, remove | a file is never behind for good |
| Executor | `src/engine/executor.rs` | a mutex each around catalog, storage and log | every SQL statement | statements of several sessions do not corrupt each other |
| Server start | `src/server/listener.rs` | none of its own | load the files, replay the log, rebuild the indexes, spawn a task per connection | finds what had been acknowledged |
| Connection, session | `src/server/connection.rs`, `session.rs` | current database, statements left of a batch | login, command loop, one response per statement | a response to each request, in order; the session's database is the one last used |
| Wire protocol | `src/protocol/` | none | framing, handshake, password check, result sets | both ends take the same bytes for the same thing |
| Client | `src/client.rs` | the database in its prompt | connect, query, read a response, print | knows where a response ends and whose it is |
| REPL | `src/repl/` | line history | reads, parses, prints the syntax tree; it has no executor | |
| SQL front end | `src/sql/` | none | wraps the sqlparser library | |
| Configuration, entry point | `src/config.rs`, `src/main.rs` | none | read once at start | |

**How they interact.** A connection task calls `Executor::execute`
synchronously for each statement. The executor shares three mutexes (catalog,
storage, log) and the files with every other connection, and a statement takes
and releases them several times: INSERT takes the catalog twice, the log, the
storage twice and the catalog once more. Nothing holds them across a statement,
and nothing is transactional across two of those sections. The client sends a
query and reads one response; the server sends one per statement in the query.

**What is hard here.**

- *Concurrency*: whatever a statement read under one lock may be stale under the
  next: the index list, the existence of the table, rows not yet indexed.
- *Order in the log*: INSERT logs before it stores and holds no lock meanwhile;
  DELETE and UPDATE log a snapshot of the whole table inside the storage lock.
- *Crashes*: a statement writes log, table file and catalog file at different
  moments. The log is never truncated, so it is replayed at every start, on top
  of files that hold its effects already.
- *Failure inside a statement*: a UNIQUE index that cannot be built, a DROP that
  finds nothing, a row shorter than its table (a panic that poisons the catalog
  mutex for all sessions).
- *Locks*: CREATE TABLE, DROP TABLE, DELETE and UPDATE hold two mutexes at once;
  a panic poisons what its session holds, for everybody.
- *Conversation*: the two ends agree on the number and the shape of responses
  by convention only; sequence ids are written and never looked at.
- *Values*: a column keeps whatever literal it was given, so that numbers, texts
  and NULL meet in comparisons, indexes and ORDER BY.
- *Naming*: rows, sequences and files are keyed by the table name without its
  database, and CREATE/DROP TABLE log entries do not name theirs.

## Modules

| Module | Models | Correspondence |
|---|---|---|
| `Types` | names, values, rows, index definitions | a name is a model value; values are integers and NULL; all tables have the same `Columns` |
| `Catalog` | `catalog.rs` | a catalog is a record; a method that returns `Result` is two operators, `foo_ok` (returns Ok) and `foo` (the catalog it leaves) |
| `Storage` | `storage.rs`, `index.rs`, the index helpers and the WHERE of `executor.rs` | rows are a function from ids, an index is a *bag* of (key, id) pairs because `insert` pushes without looking |
| `Wal` | `wal.rs`, the loading of `persistence.rs`, `start` of `listener.rs` | `apply_entry`, `replay`, `load_tables`, `rebuild_indexes`, `recover` as operators on (catalog, storage) |
| `Executor` | `executor.rs`, several sessions | variables `catalog`, `storage`, `poisoned`, `disk` are shared; `pc`, `stmt`, `rows`, `ids`, `idxs`, `result` are the locals of each session; one action per section between two lock operations or file writes |
| `ExecutorProperties` | | invariants, action properties, liveness of the executor |
| `DurableStore` | | abstract: tables as sets of rows, each statement one step |
| `Recovery` | crash and restart over `Executor` | `recovered` is what a start would build from the files; `CrashRestart`, `TornAppend` |
| `RecoveryInvariant` | | the history the log tells, what the files may hold, and how memory, log and files go together between two steps: `StoreInv` for one session, `WritersInv` for many that insert |
| `Predicate` | `eval_where`, `eval_expr`, `like_match`, `extract_eq_conditions` of `executor.rs` | a value is its type and a sequence of numbers; an expression is a record; `eval_where` answers `"yes"`, `"no"`, `"err"` or `"panic"` |
| `Query` | `execute_query`, `try_index_lookup`, `sort_rows` | a table, its indexes, one SELECT after each INSERT |
| `QueryProperties` | | three-valued logic, a declarative LIKE, a lexicographic order, and the comparison of `Query` with them |
| `Locks` | the three mutexes of `executor.rs`, several sessions | a statement is a walk through sections named like the steps of `Executor`; `held` is what a session holds, in order |
| `Handshake` | the login packets and `mysql_native_password` of `handshake.rs` and `client.rs` | a packet is a sequence of bytes at their offsets; a digest is one unit |
| `Connection` | `connection.rs`, `session.rs`, `client.rs`, over `Locks` and `Handshake` | `server[c]` and `client[c]` are the locals of the two ends, `to_server[c]` and `to_client[c]` the two directions of the stream; a query carries its statements, which the server goes by, and what the client looks at in its text: whether it begins with `USE ` and what follows |
| `ConnectionProperties` | | what a client may count on |
| `LogBytes` | `serialize`, `append`, the loop of `replay` and `deserialize` of `wal.rs` | the log is a sequence of bytes, each known by the entry and the field it belongs to |
| `Claims` | | statements of the project's README that the engine does not keep |
| `NumberProofs`, `ExecutorProofs`, `SafetyProofs`, `DmlProofs`, `RecoveryProofs`, `LogBytesProofs`, `ConnectionProofs`, `QueryProofs` | | theorems |
| `MCDml`, `MCDdl`, `MCRecovery`, `MCQuery`, `MCServer` | | instances for TLC |

*Three views of the executor.* `Executor` has what statements do to the data,
and does in one action what happens under a mutex. `Locks` has what `Executor`
hides: sections in which a mutex is held and another one waited for, and a panic
at any place where the code can panic; it hides the data, so that where the data
decides, every outcome is possible. `Connection` composes `Locks` with the
streams and the clients. `Query` has what a SELECT computes once it has its rows.

*Two views of the log.* In `Wal` the log is a sequence of entries, and of a torn
one it has what a replay can tell: after how many further appends, whole or torn
themselves, its length is complete (`needs`, 0 for never), what its bytes and
theirs decode to (`makes`: an entry of its type, or nothing), and whether its
length ends where one of them ends, so that the replay goes on (`resumes`).
`TornEntries` says which of these a crash may leave, and a
crash chooses among them: lengths and payloads are any that a statement can give.
`LogBytes` has the bytes, from which it follows where a replay goes; there the
decoded entries have no meaning.

An action is all that a statement does while it holds a mutex, since no other
session can see the memory in between. A log append inside such a section is
part of the action; one outside (INSERT, DROP TABLE, CREATE and DROP INDEX) is
an action of its own. A crash *inside* a section that appends to the log is the
crash before it or, with `TornEntries`, the crash that leaves half an entry. An
append that completed before the section did is followed by no other write, so
the crash after the action leaves the same files.

Operators named `foo_Something` next to an operator `foo` are variants with a
plausible bug. The model does not use them; replacing `foo` by one must break
the property that guards against that bug.

## Runs

Sizes are TLC's distinct states.

| Run | Instance | Checks | States |
|---|---|---|---|
| `dml` | 2 sessions, 4 statements out of 8 (INSERT of one or two rows, DELETE, UPDATE, SELECT, with and without WHERE), one table with one index and an AUTO_INCREMENT column | `TypeOK`, `IndexComplete`, `IndexSound`, `TableFileCurrent`, `SelectComplete`, `RowsKept`, `AutoValueFresh` | 350,694 |
| `ddl` | 2 sessions, 4 statements out of 12 (every DDL statement, with and without IF EXISTS, two databases, an INSERT in each, an INSERT that panics), from a first start, fair | `CatalogWellFormed`, `CatalogFileCurrent`, `NoFileOutlivesTable`, `RowsHaveTable`, `EveryStatementReturns` | 93,022 |
| `recovery` | 1 session, 4 statements of every kind, 2 crashes | `IndexComplete`, `DurableAtRest`, `StoreInv`, `ImplementsDurableStore` | 122,605 |
| `recovery_inserts` | 2 sessions, 4 statements out of 4 (an INSERT of two rows and a SELECT in a table with an index, CREATE TABLE of a second one, an INSERT into that), 1 crash | `DurableAtRest`, `IndexComplete`, `WritersInv`, `ImplementsDurableStore` | 149,174 |
| `recovery_torn` | 1 session, 4 statements of every kind, 2 crashes, each may tear an append; a torn entry is completed by the next append, by the one after it or never, to an entry of its type (CREATE or DROP TABLE, or rows that nobody inserted) or to nothing, and the replay goes on behind it or not | `KeptBeforeTear`, `CrashKeepsContents` | 812,872 |
| `query` | every table of up to 3 of 8 rows, whose two columns mix NULL, integers, halves, digits as text, texts and a character of two bytes; three indexes, one of two columns; 109 queries: every operator on numbers, texts and NULL, LIKE with 10 patterns, BETWEEN, IN, IS NULL and their negations, AND and OR, orders of one and two keys, pages | `IndexExact`, `SelectRight`, `IndexTransparent`, `SortedByKeys`, `PagesFit` | 64,350 |
| `server` | 2 clients, 3 requests out of 10 (single statements, USE, USE with a tab behind it, DROP DATABASE, a batch, a USE that does not parse, init_db, quit), 3 set-ups of passwords, a panic wherever the sections of these statements have one, fair | `ConnectionType`, `AuthRight`, `WholeResponses`, `OwnAnswer`, `PromptRight`, `DeadlockFree`, `AnswersCome` | 308,583 |
| `log_bytes` | 4 appends of entries of 8, 9 or 16 bytes, 2 of them cut short after any number of bytes, their types decoding foreign bytes or not | `IntactPrefix`, `InOrder`, `ReplayStable` | 239,041 |

*Bounds.* `MaxStatements` bounds the statements of a behaviour, `MaxCrashes` its
crashes; both are guards. Two sessions are enough for every race between two
statements, and no property here needs a third actor; four statements let both
sessions run a statement on what another pair left behind, for instance an
INSERT half done, a DELETE of its rows, another INSERT with fresh ids and a
SELECT. Two crashes let a second replay meet what the first left, and a second torn
append complete the first; four statements append what else completes it, and
what a replay finds or loses behind. Sessions are
not declared symmetric, for the liveness property.

`MaxRows` is three: a third row tells a stable sort from an unstable one and
gives a page something before and behind it. `MaxRequests` counts the requests
of both clients: three let one client send a batch and two more requests, which
is what it takes to see a wrong answer and the next, or let one client drop the
database that the other uses and has in its prompt. Two sessions are enough for
the mutexes because no section holds more than two; `NoDeadlock` is proved for
any number. `MaxAppends` is four and `MaxTears` two: a torn entry needs one more
append to complete it and one more to show where the replay goes on, and two
torn entries may be completed by one another. Lengths of 8 and 9 let an entry
end inside the next one's header, 16 lets one swallow a whole other entry.

*Where the executor keeps its promises.* With any interleaving of DML on one
table an index never loses a row nor keeps one under an old key, a SELECT is
complete, rows are not overwritten, and the table file catches up. With any
interleaving of DDL the catalog and its file are consistent, and rows lose
their table only to DROP DATABASE or to a DROP TABLE that overtakes their
INSERT. With one session, what a restart would find (`recovered`) changes only
by whole statements, which is `ImplementsDurableStore`: the executor with
crashes refines `DurableStore` through the mapping
`content <- contents(recovered)`. With more sessions this holds when they create
tables, INSERT and SELECT only.

*What a SELECT returns.* With one comparison, LIKE, BETWEEN, IN or IS NULL it
returns exactly the rows of SQL's three-valued logic, on values of one type. An
index changes neither rows nor order as long as its columns hold values of the
constants' types; in a column of mixed types it loses rows that a scan finds,
since it looks for the key `1` and a scan takes `'1'` for equal. A clause with AND or OR returns nothing
(finding below).

*What a client may count on.* However two connections interleave and wherever a
statement panics, nobody waits for ever: mutexes are taken in the order catalog,
storage, log, and a poisoned one fails. A client that sends one statement at a
time gets its own answer each time and, if its USE statements are written so
that it reads them as the server does, a prompt that is right from the first that
succeeds to the next; one that sends a batch reads whole responses from then on,
but those of earlier requests.

*What a torn log keeps.* Entries in front of the first torn one are replayed,
whatever is appended behind. Of the others a replay finds some, each once and in
order, and at most one piece of garbage per torn entry; what one replay has found
the next finds too. On the tables: as long as the first torn entry is not
completed, a restart finds every table that the log said there was before it,
with all its rows, over files of whatever instant (`KeptBeforeTear`). A crash
that tears an append changes what a restart finds only when these first bytes
are the last that an earlier torn entry lacks (`CrashKeepsContents`): then the
entry that comes out is applied, or skipped, and what is behind it may come
alive. Any other crash changes nothing.

*Preconditions worth knowing.* `AutoValueFresh` is about sequence values while
no statement writes the AUTO_INCREMENT column itself. `ImplementsDurableStore`
and `DurableAtRest` speak of the *set* of rows of a table: how often a row is
there is not kept (first finding below). Their runs use the default database,
do not tear appends and do not issue a DROP that fails in another database: the
findings, and the list after them, say what happens otherwise. `recovery_torn`
is about what a tear keeps; what later statements lose behind it is in the list. `SelectRight` leaves
out values of different types in one comparison, which the code compares as
text; NULL under a negation, which it takes for false and SQL for unknown; `%%`
and characters of two bytes in LIKE, which works on bytes. `SortedByKeys` leaves
out columns with a NULL or a mixture of numbers and texts: the comparator calls
what it cannot compare equal, which is no order. `OwnAnswer` is about clients
that have sent no batch, `PromptRight` about those whose last USE was a single
statement that succeeded, that client and server read alike, and who have not
since sent `init_db` or a USE that the two read differently. `IntactPrefix`
and `InOrder` assume that no payload contains the two bytes of the magic where
a replay would look for them, and logs shorter than 2^16 * 7 bytes.

### Findings

Each of these runs checks one sentence of srrdb's README against the
model, and TLC finds a behaviour of the code that breaks it.

| Run | The sentence | What the code does |
|---|---|---|
| `claim_row_count` | the WAL recovers operations *not yet checkpointed* | rows in a table file are inserted again by the replay: a restart doubles them |
| `claim_concurrent` | replay recovers | INSERT logged, other session's snapshot logged, INSERT stored: the rows are gone after a restart |
| `claim_index_race` | indexes are maintained on UPDATE | UPDATE uses the index list it read before CREATE INDEX |
| `claim_and_or` | the operators include AND and OR | the operands of AND and OR are evaluated as columns or literals; a comparison is neither, the clause fails and counts as FALSE |

Other places where the code differs from its README or does what a reader of it
would not expect, without a run of their own (in brackets, the README's lines):

- nothing that is appended behind a torn entry is sure to be replayed, and it may
  complete the torn entry to one that nobody logged (227);
- a table created in another database comes back in `srrdb` too, because the log
  entry does not name its database (227);
- an index on a column that mixes types hides rows from an equality that a scan
  would find (196);
- a UNIQUE index that could not be built stays in the catalog and comes alive,
  incomplete, with the next INSERT (196);
- the AUTO_INCREMENT sequence starts over after a restart (204);
- no checkpoint is taken after the replay (230), CREATE and DROP DATABASE are not
  logged (226), a DROP TABLE that failed is in the log and may drop a table at
  the next start (227);
- a DELETE without WHERE fails on a table that never had a row (206);
- an INSERT whose rows an UPDATE met before they were indexed enters them in the
  index a second time, so that an indexed SELECT returns them twice (196);
- DROP DATABASE leaves the rows and files of its tables, and a table of the same
  name created later, in any database, has them (28, 170);
- the prompt shows the database of a USE that failed or did not parse, and does
  not show that of a USE with a tab behind it or a comment before it: the client
  looks for `USE ` in the text (137); the database a client names at login is not
  looked at.

## Fairness

`FairSpec` assumes weak fairness of each session's own `Step`. A statement never
waits for another: it waits only for a mutex, and every mutex is released within
the action that takes it. A task that is able to run is run by the runtime, and
a step once enabled stays enabled until it is taken. `Begin` is not fair: no
client has to send a statement.

`FairSpec` of `Connection` assumes weak fairness, per connection, of "the server's
task or the waiting client moves". That is enough for `AnswersCome` because
requests are bounded: a session that waits for a mutex is disabled only while
another one holds it, the holder's own connection is fair, and after finitely
many statements there is no one left to take it. With unbounded requests it
would take a fair mutex, which `std::sync::Mutex` is not. Logins, new requests
and `exit` are not fair.

## Proofs

All theorems are about any sets of sessions, databases, tables, indexes and
columns, any menu of statements and any bound on their number, under the named
assumptions `TypesAssumption`, `WalAssumption` (a catalog can be told from a
missing file) and `ExecutorAssumption` (the server starts on a well-formed
catalog). Those about connections are about any number of clients, requests and
passwords, under `ConnectionAssumption` (no database is called what the model
calls "no database"). Those about the bytes of the log are about entries of any
lengths, any number of appends and any number of them cut short, under
`LogBytesAssumption` (an entry is longer than its header). Those about queries
are about any rows, any indexes of one column or more, tables of any length, and
any SELECTs with a clause of one predicate or two under a connective, any ORDER
BY, OFFSET and LIMIT, under `QueryAssumption` (the menus are of their types). TLC
evaluates these assumptions in the runs.

| Theorem | Statement |
|---|---|
| `TypeCorrect` | `Spec => []TypeOK` |
| `CatalogStaysWellFormed` | `Spec => []CatalogWellFormed` |
| `CatalogFileStaysCurrent` | `Spec => []CatalogFileCurrent` |
| `RowsAreKept` | `Spec => RowsKept` |
| `NoFileOutlives` | `Spec => []NoFileOutlivesTable` |
| `RowsKeepTheirTable` | `Spec => RowsHaveTable` |
| `TableFilesStayCurrent` | `NeverDropped => (Spec => []TableFileCurrent)` |
| `IndexesStaySound` | `FixedSchema => (Spec => []IndexSound)` |
| `IndexesStayComplete` | `FixedSchema => (Spec => []IndexComplete)` |
| `SelectsAreComplete` | `FixedSchema => (Spec => SelectComplete)` |
| `AutoValuesStayFresh` | `FixedSchema /\ NoAutoWrites => (Spec => AutoValueFresh)` |
| `RecoveryTypeCorrect`, `RecoveryWellFormed` | `RecoverySpec => []TypeOK`, `RecoverySpec => []CatalogWellFormed` |
| `CrashesKeepContents` | `RecoverySpec => CrashKeepsContents` |
| `StoreInvHolds` | `SingleStore => (RecoverySpec => []StoreInv)` |
| `RestIsDurable` | `SingleStore => (RecoverySpec => []DurableAtRest)` |
| `StoreIsDurable` | `SingleStore => (RecoverySpec => ImplementsDurableStore)` |
| `WritersInvHolds` | `WriterStore => (RecoverySpec => []WritersInv)` |
| `WritersAreDurable` | `WriterStore => (RecoverySpec => []DurableAtRest)` |
| `WritersImplementStore` | `WriterStore => (RecoverySpec => ImplementsDurableStore)` |
| `IntactEntriesReplayed`, `ReplayInLogOrder` | `Spec => []IntactPrefix`, `Spec => []InOrder` (of `LogBytes`) |
| `ReplaysAreStable` | `Spec => ReplayStable` (of `LogBytes`) |
| `LocksTypeCorrect`, `NoDeadlock` | `LocksSpec => []LocksType`, `LocksSpec => []DeadlockFree` |
| `ServerImplementsLocks` | `Spec => LocksSpec` (of `Connection`) |
| `ServerDeadlockFree` | `Spec => []DeadlockFree` (of `Connection`) |
| `ConnectionTypeCorrect` | `Spec => []ConnectionType` |
| `ResponsesWhole`, `AnswersAreOwn`, `PromptsAreRight` | `Spec => []WholeResponses`, `Spec => []OwnAnswer`, `Spec => []PromptRight` |
| `LoginsJudgedRightly` | `Spec => []AuthRight` |
| `QueryInvariant`, `IndexesExact` | `Spec => []QueryInv`, `Spec => []IndexExact` (of `Query`) |
| `SelectAlwaysRight`, `IndexAlwaysTransparent` | `Spec => []SelectRight`, `Spec => []IndexTransparent` |
| `AlwaysSorted`, `PagesAlwaysFit` | `Spec => []SortedByKeys`, `Spec => []PagesFit` |

*Argument.* `NumberProofs` has the induction over numbers that the proofs about
replay, file maxima, filled-in rows, sorting and LIKE need: the
numbers at which a fact fails are a set, which has a least one (`LeastNatural`),
and that needs no operator as a parameter. `RecursionExists` says
that a function defined by recursion over a range of numbers satisfies its
definition. `ExecutorProofs` shows what each operator keeps, where every catalog
operation maps well-typed, well-formed catalogs to such and every storage
operation well-typed storages to such, and that
`TypeOK` is inductive, one lemma per action. It is inductive as it stands because
`ControlType` ties the label of a session to the kind of its statement: without
that conjunct a step could read a field its statement does not have.

`SafetyProofs` uses `TypeOK` as an invariant already proved:

- `CatalogWellFormed` is inductive given `TypeOK`: seven actions change the
  catalog, each by an operator for which `ExecutorProofs` has the fact.
- `CatalogFileCurrent` is inductive because a session that changes databases or
  tables goes to a label from which it will save, and a save writes the catalog
  of the moment and so clears the debt of every session at once.
- `RowsKept` is an action property and needs an invariant it does not contain:
  `IdsBelow`, every row id in the table is below `next_ids`. With it the ids of
  an INSERT are fresh, so the rows there are untouched. `IdsBelow` is inductive.
- `NoFileOutlivesTable` follows the table file: only a save creates it, and only
  while the table has rows; only DROP TABLE empties the table, and goes to the
  label that removes the file.
- `RowsHaveTable` compares two ways the state changes: only DROP TABLE and DROP
  DATABASE take a table out of the catalog, and the first takes the entry in the
  storage too; only INSERT makes a new entry there.
- `TableFileCurrent` needs `NeverDropped`: with DROP TABLE the file of a table
  created anew can be removed by the session that dropped the old one.

`DmlProofs` is about sessions that run INSERT, DELETE, UPDATE and SELECT only.
Its hypothesis `FixedSchema` names what would break the statements, and the
constants of run `dml` satisfy it: no DDL (the finding `claim_index_race`), no
row shorter than its table (it panics and poisons the catalog, so that an INSERT
that has stored its rows never enters them), and no table name in two databases
(they share rows and index data, but each has its own index definitions). The
invariant `IndexInv` adds three things to soundness and completeness:

- `SchemaInv`: the index list a session read is the catalog's, so that what it
  enters and removes is in the indexes there are;
- `IdsBelow` and, for sessions that have stored rows and not indexed them,
  `PendingBelow`: ids on their way are below `next_ids`, so that new rows cannot
  fall on an id that an old entry, or another session, still refers to;
- every entry's id is below `next_ids`, for the entries that stay behind when a
  row is deleted before its INSERT has indexed it.

Each action is one lemma about an operator of `Storage`: storing rows makes the
table incomplete exactly by the ids that become pending, `InsertIndex` makes it
complete but for the ids others have pending, and DELETE and UPDATE take out and
put in the entries of the rows they touch. `SelectsAreComplete` is an action
property that follows from the invariant and from the lookup.

The same module shows in the same way that a sequence is above every value it
gave (`SequenceAhead`), in rows stored and in rows an INSERT has filled and not
stored yet. `NoAutoWrites` is needed because a value written by hand may be one
the sequence will give later.

`RecoveryProofs` is about `RecoverySpec`, where the server crashes and starts
again between any two steps. Type correctness, `CatalogWellFormed` and
`IdsBelow` need only that a replay, entry by entry, keeps them, from any files
and any log, whatever its torn entries are completed to; `CrashesKeepContents` that a
torn entry at the end is not read and, unless one lacked just this append, makes
no difference to how far a replay of the others goes (`ReplayTorn`). `walk` is
the replay with the entry that it would read next; on a log without torn entries
it applies them one by one (`ReplayIs`), which is all that the rest needs.
That nothing is lost needs to know what is in the files, which are each written
at a moment of its own, so that after a crash the log is replayed over a mixture
of old and new. The argument has three parts:

- *The log alone tells the story.* `history(log)[n]` is what the first `n`
  entries make of an empty server. An entry's effect on a table depends on the
  set of its rows, on whether it is there and on its index definitions, and on
  nothing else (`EntryEffect`), so two servers that are `Alike` stay so.
- *Replay converges.* `Consistent` says of the files: of each table, the catalog
  file is as old as some instant of the log, and the table file has no row that
  the log did not say the table had at some instant. Neither instant need be the
  same for two tables. Replaying the whole log over such files ends in
  `last(log)` (`ReplayConverges`): at each entry the replay has what the log has
  said, and at most rows or definitions that the files brought, until an entry
  replaces or drops them too.
- *Memory and log stay together.* For one session, `StoreInv`: they differ by the
  statement under way only, which has either logged what it has still to do
  (`caught_up`: DROP TABLE, INSERT) or done what it has still to log (`logged`:
  CREATE and DROP INDEX). For many writers, `WritersInv`: the log has exactly the
  rows in memory and those of the INSERTs between their append and their store.

With the invariant, `recovered` is alike to what the log says at every instant
and the refinement is a lemma about appends (`LogImplements`): the append of an
entry is the one step of `DurableStore` that its statement takes, and every other
step leaves `contents(recovered)` alone, a crash included.

The hypotheses say where that breaks; the constants of the runs `recovery` and
`recovery_inserts` satisfy them, which TLC evaluates (`InvariantAssumption`), but
for `NoFile \notin RowVec`, that a table file can be told from its absence,
which it cannot enumerate.

- `RanBefore`: the catalog file is there and the log has what is in it. A first
  start has neither, and between its first CREATE TABLE's append and the save of
  the catalog a crash leaves a log that the next start does not open.
- `TornEntries = {}`: what is appended behind a torn entry is lost, or read as a
  part of it.
- `OneDatabase`, and no DROP DATABASE: CREATE and DROP TABLE entries do not name
  their database, and DROP DATABASE is not logged.
- `SingleSession` has every other statement, and `WholeRows`: a short row poisons
  the catalog, after which a DROP TABLE is logged and refused.
- `ManyWriters` has any number of sessions without DELETE, UPDATE, DROP TABLE and
  index statements: the finding `claim_concurrent` is an INSERT and a DELETE, and
  a DROP TABLE logs before it looks. Short rows are allowed.

`LogBytesProofs` is about the bytes of a torn log. The invariant `LogInv` says
where the entries are: there are places `S[1] < ... < S[N + 1]`, from each to the
next stand the first bytes of one entry, and they are all of it unless the entry
is one of the torn. A replay is a recursion through the log; the first half of
the module turns any such walk into the path of the places it comes through
(`WalkPath`), by induction from the end of the log (`DownInduction`). Then:

- Where a replay does not stop an entry begins (`StepAt`): the two bytes of the
  magic stand nowhere else. So the path visits entries in their order, which is
  `InOrder`; the length found there is that entry's own or the replay stops,
  since the magic of the next entry stands where a torn entry's length would go
  on. A torn entry is never decoded as itself: its length reaches over the magic
  behind it, which is then in its payload or in place of its type. Each piece of
  garbage is at a torn entry of its own, which is the bound on their number.
- At a whole entry a replay finds it and goes on right behind it (`WholeStep`),
  so up to the first torn one it visits every entry: `IntactPrefix`.
- Bytes behind the end change nothing at the places where a replay did not stop
  (`PlaceStable`), so the path through the longer log begins with the path
  through the shorter (`PathsAgree`): `ReplayStable`.

The theorems share the model's view of bytes: no payload spells out a magic, and
a length put together from the bytes of two entries, at least 7 * 2^16, reaches
beyond the end. For a log longer than 448 KiB the latter is an assumption.

`ConnectionProofs` begins with the mutexes. It needs an invariant that
`DeadlockFree` does not contain: what a session holds is the beginning of
`locks_of` its section. `LocksInOrder` says that every such sequence ascends in
the order catalog, storage, log and has at most two mutexes. So a session that waits for the log waits for one who holds it
as the last mutex and waits for nothing (`HolderWaits`); if there is no such
session, one that waits for the storage waits for one who waits for nothing; and
so on. No section takes three, which keeps the argument to two steps.
The module then shows that every step of the composed system is a step of
`Locks` or leaves its variables alone, and carries the theorem over.

Its next part is about the two streams. Its invariant `TalkInv`
says of each connection, which no step of another one touches:

- `Whole`: the packets on their way to the client are whole responses, numbered
  from the one after the last shown to the last written. `AppendWhole` and
  `DropWhole` are what the server's writing and the client's reading do to it;
  the second holds because the first EOF that `execute_query` accepts is the
  sixth packet, never the one between the columns and the rows.
- `InStep`: a client that has sent no batch has one request at most without its
  response, and that request is in one place: on its way, being executed,
  answered, or lost with the task. So what it reads is its own answer.
- `Right` and `Asked`: a prompt is right while nothing on its way can change the
  database, and a lone USE whose answer is OK has set the database already. This
  needs `InStep`: behind a batch the OK could be that of another request.
- `Connecting`: none of this before the client is logged in.

`RunInv` adds that a session in the executor belongs to a task that waits for it.

The last part is about logins, and first about packets: `Units` is a sequence of
so many units, `Stands` says what is found behind so many of them. From how a
packet is put together follows where each part stands (`GreetingPlaces`,
`ResponsePlaces`), and from that what the other end reads at the offsets it works
out for itself: the client finds the server's flags and all 20 bytes of the
scramble (`GreetingRead`), the server what the client put in for its password,
whatever its length (`ResponseRead`). `Verified` is the algebra of
mysql_native_password: the XOR gives back the hash of the password if and only if
both ends salted the same one, SHA-1 being free of collisions in the model; an
empty password is sent as nothing and matches nothing. `LoginInv` adds to
`TalkInv` what `AuthRight` does not say, that before a login is judged the
greeting and the response on their way are those that the two ends built
(`Honest`).

`QueryProofs` is about `Query`. The invariant `QueryInv` has the type of the
table, `IndexExact`, and that the answer is `select` of what was asked: the four
properties of answers are then facts about operators, for any table.

- `IndexExact` is inductive because an INSERT gives its row the highest id and
  puts it behind the ids of its key. Rising order is part of it, or two lookups
  of the same rows could differ in order, and `IndexTransparent` with them.
- `IndexTransparent`: both candidate lists are rising, so after the clause has
  been applied to each they are equal as soon as they have the same members
  (`RisingAgree`). They have, because a row for which the clause is true has the
  key that was looked up (`IndexFinds`), which is where the types of the indexed
  values and the constants have to agree.
- `SelectRight`: predicate by predicate, the code's two truth values against
  SQL's three (`EvalRight`). LIKE goes by induction on what is left of the
  pattern: a cell of the code's recursion is true when the rest of the text can
  be cut into pieces for the rest of the pattern (`LikeIs`). The exceptions in
  `usual` are needed there: with two "%" in a row the code asks for a character
  between them, and a NOT takes unknown for false.
- `SortedByKeys`: `sort_rows` sorts by the last key first, each time by stable
  insertion (`InsertOrdered`, `SortByIs`), so each pass refines the order of the
  ones before (`RefinedIs`, `AheadStep`). A pass needs "before" to be a weak
  order; that it is one within the numbers and within the texts is
  `NumbersWeak` and `TextsWeak`, and across the types it is not one. The stable
  result of a weak order is unique, so insertion stands for whatever
  algorithm the library uses.
- `PagesFit`: a page is a part of the whole answer (`PageIs`), and three parts
  that meet are the whole.

*Only model-checked.* Liveness (`EveryStatementReturns`, `AnswersCome`), which is
out of the prover's reach, `IndexComplete` under DDL and after a restart, and
`KeptBeforeTear`.
Every other invariant and action property of a passing run is a theorem, some
under the hypotheses named in the table.

## Not modelled

- *Order and type of indexes* in `Executor`, where any that serves may answer;
  `Query` has the order.
- *WHERE* of UPDATE and DELETE beyond one equality; nested connectives, which
  fail like the flat ones; arithmetic, which eval_where refuses. Projections
  drop or repeat columns and are left out.
- *Column definitions.* All tables have the same columns. DEFAULT is a value;
  CURRENT_TIMESTAMP does not occur.
- *Index files.* Written, never read. The checkpoint entry: never written.
- *Failing writes* of the files. Those of the log are in `LogBytes` only, without
  what the statement did.
- *The sequence after a panic.* A row that is too short may panic after earlier
  rows took sequence values; the catalog is poisoned then and nobody reads it.
- *A panic with the storage locked* (a LIKE in UPDATE or DELETE) is in `Locks`
  and `Connection`, not in `Executor`, whose clauses have no LIKE.
- *The text of packets*: length-encoded integers, column definitions, the rows
  themselves, sequence ids; packets of 16 MiB and more. A stream loses and
  reorders nothing, as TCP, but is never full: a client that does not read holds
  no server task up, as back-pressure would.
- *The prompt's line editing*, `schema` and `source`, which send statements one at
  a time; the REPL and the SQL front end, which keep no state; the
  configuration, read once.

## Plan

Done, in the order of importance:

1. Engine: `Types`, `Catalog`, `Storage`, `Wal`, `Executor` and its properties.
2. `Recovery` against the abstract `DurableStore`; the claims.
3. First proofs: type correctness, catalog, row ids, files.
4. `Predicate` and `Query` against SQL's logic and against the index lookup.
5. `LogBytes`: torn appends byte by byte.
6. `Locks`, with freedom from deadlock proved for any number of sessions.
7. `Connection` over `Locks` and `Handshake`: both ends of every connection.
8. Proofs about indexes and sequences, for statements without DDL.
9. Proofs about the streams, for any number of connections.
10. Proofs about recovery: the refinement of `DurableStore` across crashes, for one
   session with any logged statement and for any number that insert.
11. Proofs about torn logs, for entries of any lengths.
12. Proofs about queries: indexes, clauses, LIKE, ORDER BY and pages, for any rows.
13. Proofs about logins, for any passwords.

Left:

14. Failing log appends in `Executor`.
