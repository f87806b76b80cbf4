----------------------------- MODULE SafetyProofs -----------------------------
(***************************************************************************)
(* Safety of the executor for every value of the constants: the catalog    *)
(* holds together, the catalog file and the table files do not fall        *)
(* behind it for good, and no stored row is overwritten.                   *)
(***************************************************************************)
EXTENDS ExecutorProofs

-----------------------------------------------------------------------------
(* Which actions change what.                                               *)

\* The actions that do not change the catalog
QuietCatalog(s) ==
  \/ Begin(s) \/ LockError(s) \/ SaveTable(s) \/ SaveCatalog(s)
  \/ CreateTableExists(s) \/ DropTableExists(s) \/ CreateDatabaseExists(s)
  \/ DropDatabaseExists(s) \/ DropIndexExists(s)
  \/ DropTableLog(s) \/ DropTableFile(s) \/ DropTableSave(s)
  \/ CreateIndexExists(s) \/ CreateIndexLog(s) \/ CreateIndexColumns(s)
  \/ CreateIndexBuild(s)
  \/ DropIndexFind(s) \/ DropIndexLog(s) \/ DropIndexData(s)
  \/ InsertLookup(s) \/ InsertLog(s) \/ InsertStore(s) \/ InsertIndexes(s)
  \/ InsertIndex(s)
  \/ DeleteLookup(s) \/ DeleteApply(s)
  \/ UpdateLookup(s) \/ UpdateAssign(s) \/ UpdateApply(s)
  \/ SelectLookup(s) \/ SelectRead(s)

\* The actions that may change it
ChangingCatalog(s) ==
  \/ CreateTable(s) \/ CreateDatabase(s) \/ DropDatabase(s) \/ DropTable(s)
  \/ CreateIndex(s) \/ DropIndex(s) \/ InsertFill(s)

\* Every step is one of these.
LEMMA CatalogSteps ==
  ASSUME [Next]_vars
  PROVE  \/ UNCHANGED vars
         \/ \E s \in Sessions : QuietCatalog(s) \/ ChangingCatalog(s)
  BY DEF Next, AllDone, Step, DdlStep, DmlStep, QuietCatalog, ChangingCatalog

\* The quiet actions do leave the catalog alone.
LEMMA QuietCatalogUnchanged ==
  ASSUME NEW s, QuietCatalog(s)
  PROVE  UNCHANGED catalog
<1>1. \A l, h, n : ExistsCheck(s, l, h, n) => UNCHANGED catalog
  BY DEF ExistsCheck
<1>2. \A l, n, x : LookupTable(s, l, n, x) => UNCHANGED catalog
  BY DEF LookupTable
<1> QED
  BY <1>1, <1>2
     DEF QuietCatalog, Begin, LockError, SaveTable, SaveCatalog,
         CreateTableExists, DropTableExists, CreateDatabaseExists,
         DropDatabaseExists, DropIndexExists, DropTableLog, DropTableFile,
         DropTableSave, CreateIndexExists, CreateIndexLog, CreateIndexColumns,
         CreateIndexBuild, DropIndexFind, DropIndexLog, DropIndexData,
         InsertLookup, InsertLog, InsertStore, InsertIndexes, InsertIndex,
         DeleteLookup, DeleteApply, UpdateLookup, UpdateAssign, UpdateApply,
         SelectLookup, SelectRead

-----------------------------------------------------------------------------
(* The catalog holds together.                                              *)

\* A statement that changes the catalog is of the kind of its label, and the
\* catalog changes as its operation says, if at all.
LEMMA CatalogChange ==
  ASSUME TypeOK, NEW s \in Sessions, ChangingCatalog(s)
  PROVE  LET st == stmt[s]
         IN  \/ catalog' = catalog
             \/ /\ CreateTable(s)
                /\ st.db \in DBs /\ st.tbl \in Tables
                /\ create_table_ok(catalog, st.db, st.tbl)
                /\ catalog' = create_table(catalog, st.db, st.tbl)
             \/ /\ CreateDatabase(s)
                /\ st.db \in DBs
                /\ catalog' = create_database(catalog, st.db)
             \/ /\ DropDatabase(s)
                /\ st.db \in DBs
                /\ catalog' = remove_database(catalog, st.db)
             \/ /\ DropTable(s)
                /\ st.db \in DBs /\ st.tbl \in Tables
                /\ catalog' = drop_table(catalog, st.db, st.tbl)
             \/ /\ CreateIndex(s)
                /\ st.db \in DBs /\ st.tbl \in Tables /\ st.def \in IndexDef
                /\ create_index_ok(catalog, st.db, st.tbl, st.def)
                /\ catalog' = create_index(catalog, st.db, st.tbl, st.def)
             \/ /\ DropIndex(s)
                /\ st.db \in DBs /\ st.tbl \in Tables /\ st.name \in IndexNames
                /\ catalog' = drop_index(catalog, st.db, st.tbl, st.name)
             \/ /\ InsertFill(s)
                /\ st.tbl \in Tables
                /\ \E n \in Nat : catalog' = next_row_id(catalog, st.tbl, n)
<1> DEFINE st == stmt[s]
<1>1. /\ st \in Statement
      /\ \A op \in Ops : pc[s] \in labels(op) \ {"save_catalog"} => st.op = op
  BY AtOp DEF TypeOK, ControlType
<1>2. CASE CreateTable(s)
  <2>1. st.op = "create_table"
    BY <1>1, <1>2, LabelSets DEF CreateTable, CatalogLock, At, Ops
  <2>2. st.db \in DBs /\ st.tbl \in Tables
    BY <1>1, <2>1, StatementFields
  <2> QED
    BY <1>2, <2>2 DEF CreateTable, ChangeCatalog
<1>3. CASE CreateDatabase(s)
  <2>1. st.db \in DBs
    BY <1>1, StatementFields
  <2> QED
    BY <1>3, <2>1 DEF CreateDatabase, ChangeCatalog
<1>4. CASE DropDatabase(s)
  <2>1. st.db \in DBs
    BY <1>1, StatementFields
  <2> QED
    BY <1>4, <2>1 DEF DropDatabase, ChangeCatalog
<1>5. CASE DropTable(s)
  <2>1. st.op = "drop_table"
    BY <1>1, <1>5, LabelSets DEF DropTable, CatalogLock, At, Ops
  <2>2. st.db \in DBs /\ st.tbl \in Tables
    BY <1>1, <2>1, StatementFields
  <2> QED
    BY <1>5, <2>2 DEF DropTable, ChangeCatalog
<1>6. CASE CreateIndex(s)
  <2>1. st.op = "create_index"
    BY <1>1, <1>6, LabelSets DEF CreateIndex, CatalogLock, At, Ops
  <2>2. st.db \in DBs /\ st.tbl \in Tables /\ st.def \in IndexDef
    BY <1>1, <2>1, StatementFields
  <2> QED
    BY <1>6, <2>2 DEF CreateIndex, ChangeCatalog
<1>7. CASE DropIndex(s)
  <2>1. st.op = "drop_index"
    BY <1>1, <1>7, LabelSets DEF DropIndex, CatalogLock, At, Ops
  <2>2. st.db \in DBs /\ st.tbl \in Tables /\ st.name \in IndexNames
    BY <1>1, <2>1, StatementFields
  <2> QED
    BY <1>7, <2>2 DEF DropIndex, ChangeCatalog
<1>8. CASE InsertFill(s)
  <2>1. st.op = "insert"
    BY <1>1, <1>8, LabelSets DEF InsertFill, CatalogLock, At, Ops
  <2>2. st.tbl \in Tables /\ st.rows \in Seq(PartialRow)
    BY <1>1, <2>1, StatementFields
  <2>3. ids_taken(st.rows, Len(st.rows)) \in Nat
    BY <2>2, IdsTakenType
  <2>4. \/ catalog' = catalog
        \/ catalog' = next_row_id(catalog, st.tbl,
                                  ids_taken(st.rows, Len(st.rows)))
    BY <1>8 DEF InsertFill
  <2> QED
    BY <1>8, <2>2, <2>3, <2>4
<1> QED
  BY <1>2, <1>3, <1>4, <1>5, <1>6, <1>7, <1>8 DEF ChangingCatalog

\* Every step keeps the catalog together.
LEMMA NextWellFormed ==
  ASSUME TypeOK, CatalogWellFormed, [Next]_vars
  PROVE  CatalogWellFormed'
<1>1. catalog \in CatalogType /\ WellFormed(catalog)
  BY DEF TypeOK, SharedType, CatalogWellFormed
<1>2. CASE UNCHANGED vars
  BY <1>1, <1>2 DEF vars, CatalogWellFormed
<1>3. ASSUME NEW s \in Sessions, QuietCatalog(s)
      PROVE  WellFormed(catalog')
  BY <1>1, <1>3, QuietCatalogUnchanged
<1>4. ASSUME NEW s \in Sessions, ChangingCatalog(s)
      PROVE  WellFormed(catalog')
  <2>1. \A t \in Tables, n \in Nat : WellFormed(next_row_id(catalog, t, n))
    BY <1>1, NextRowIdType DEF WellFormed
  <2> QED
    BY <1>1, <1>4, <2>1, CatalogChange, CreateTableWellFormed,
       CreateDatabaseWellFormed, RemoveDatabaseWellFormed,
       DropTableWellFormed, CreateIndexWellFormed, DropIndexWellFormed
<1> QED
  BY <1>2, <1>3, <1>4, CatalogSteps DEF CatalogWellFormed

\* The catalog holds together in every reachable state.
THEOREM CatalogStaysWellFormed == Spec => []CatalogWellFormed
<1>1. Init => CatalogWellFormed
  BY ExecutorAssumption DEF Init, CatalogWellFormed
<1>2. TypeOK /\ CatalogWellFormed /\ [Next]_vars => CatalogWellFormed'
  BY NextWellFormed
<1> QED
  BY <1>1, <1>2, TypeCorrect, PTL DEF Spec

-----------------------------------------------------------------------------
(* What every step of a session leaves as it is.                            *)

\* A step moves its own session and no other, changes no other session's
\* statement, and never heals a poisoned catalog.
Frame(s) == /\ \E l : Goto(s, l)
            /\ \A u \in Sessions \ {s} : stmt'[u] = stmt[u]
            /\ poisoned => poisoned'

\* Every step is such a step.
LEMMA FrameOfStep ==
  ASSUME TypeOK, NEW s \in Sessions, Begin(s) \/ Step(s)
  PROVE  Frame(s)
<1>1. /\ \A l, h, n : ExistsCheck(s, l, h, n) => Frame(s)
      /\ \A l, n, x : LookupTable(s, l, n, x) => Frame(s)
  BY DEF ExistsCheck, LookupTable, Return, Frame
<1>3. CASE Begin(s)
  BY <1>3 DEF Begin, Frame, TypeOK, ControlType
<1>4. CASE \/ CreateTableExists(s) \/ CreateDatabaseExists(s)
           \/ DropDatabaseExists(s) \/ DropTableExists(s) \/ DropIndexExists(s)
           \/ CreateIndexColumns(s) \/ InsertLookup(s) \/ DeleteLookup(s)
           \/ UpdateLookup(s) \/ UpdateAssign(s) \/ SelectLookup(s)
  BY <1>1, <1>4
     DEF CreateTableExists, CreateDatabaseExists, DropDatabaseExists,
         DropTableExists, DropIndexExists, CreateIndexColumns, InsertLookup,
         DeleteLookup, UpdateLookup, UpdateAssign, SelectLookup
<1>5. CASE \/ CreateTable(s) \/ CreateDatabase(s) \/ DropDatabase(s)
           \/ DropTable(s) \/ CreateIndex(s) \/ DropIndex(s)
  BY <1>5
     DEF CreateTable, CreateDatabase, DropDatabase, DropTable, CreateIndex,
         DropIndex, ChangeCatalog, Return, Frame
<1>6. CASE \/ DropTableLog(s) \/ DropTableFile(s) \/ DropTableSave(s)
           \/ CreateIndexExists(s) \/ CreateIndexLog(s) \/ CreateIndexBuild(s)
           \/ DropIndexLog(s) \/ DropIndexData(s)
           \/ SaveCatalog(s) \/ SaveTable(s) \/ LockError(s)
  BY <1>6
     DEF DropTableLog, DropTableFile, DropTableSave, CreateIndexExists,
         CreateIndexLog, CreateIndexBuild, DropIndexLog, DropIndexData,
         SaveCatalog, SaveTable, LockError, Return, Frame
<1>7. CASE DropIndexFind(s)
  <2>1. \A u \in Sessions \ {s} : stmt'[u] = stmt[u]
    BY <1>7 DEF DropIndexFind, TypeOK, ControlType
  <2> QED
    BY <1>7, <2>1 DEF DropIndexFind, Return, Frame
<1>8. CASE \/ InsertFill(s) \/ InsertLog(s) \/ InsertStore(s)
           \/ InsertIndexes(s) \/ InsertIndex(s)
           \/ DeleteApply(s) \/ UpdateApply(s) \/ SelectRead(s)
  BY <1>8
     DEF InsertFill, InsertLog, InsertStore, InsertIndexes, InsertIndex,
         DeleteApply, UpdateApply, SelectRead, Return, Frame
<1> QED
  BY <1>3, <1>4, <1>5, <1>6, <1>7, <1>8 DEF Step, DdlStep, DmlStep

\* A statement is set by Begin, and completed by DropIndexFind only.
LEMMA StatementKept ==
  ASSUME NEW s \in Sessions, Step(s), ~DropIndexFind(s)
  PROVE  UNCHANGED stmt
<1>1. /\ \A l, h, n : ExistsCheck(s, l, h, n) => UNCHANGED stmt
      /\ \A l, n, x : LookupTable(s, l, n, x) => UNCHANGED stmt
  BY DEF ExistsCheck, LookupTable
<1>2. DdlStep(s) => UNCHANGED stmt
  BY <1>1
     DEF DdlStep, CreateTableExists, CreateTable, CreateDatabaseExists,
         CreateDatabase, DropDatabaseExists, DropDatabase, DropTableExists,
         DropTableLog, DropTable, DropTableFile, DropTableSave,
         CreateIndexExists, CreateIndex, CreateIndexLog, CreateIndexColumns,
         CreateIndexBuild, DropIndexExists, DropIndex, DropIndexLog,
         DropIndexData, SaveCatalog
<1>3. DmlStep(s) => UNCHANGED stmt
  BY <1>1
     DEF DmlStep, InsertLookup, InsertFill, InsertLog, InsertStore,
         InsertIndexes, InsertIndex, DeleteLookup, DeleteApply, UpdateLookup,
         UpdateAssign, UpdateApply, SelectLookup, SelectRead
<1> QED
  BY <1>2, <1>3 DEF Step, SaveTable, LockError

\* A log append changes no other file.
LEMMA LogKeepsFiles ==
  ASSUME TypeOK, NEW e, Log(e)
  PROVE  disk'.catalog = disk.catalog /\ disk'.tables = disk.tables
  BY DEF TypeOK, SharedType, DiskType, Log

\* The catalog file is written by two actions only.
LEMMA CatalogFileSteps ==
  ASSUME TypeOK, NEW s \in Sessions, Begin(s) \/ Step(s)
  PROVE  SaveCatalog(s) \/ DropTableSave(s) \/ disk'.catalog = disk.catalog
<1>1. /\ \A l, h, n : ExistsCheck(s, l, h, n) => UNCHANGED disk
      /\ \A l, n, x : LookupTable(s, l, n, x) => UNCHANGED disk
  BY DEF ExistsCheck, LookupTable
<1>2. CASE \/ CreateTableExists(s) \/ CreateDatabaseExists(s)
           \/ DropDatabaseExists(s) \/ DropTableExists(s) \/ DropIndexExists(s)
           \/ CreateIndexColumns(s) \/ InsertLookup(s) \/ DeleteLookup(s)
           \/ UpdateLookup(s) \/ UpdateAssign(s) \/ SelectLookup(s)
  BY <1>1, <1>2
     DEF CreateTableExists, CreateDatabaseExists, DropDatabaseExists,
         DropTableExists, DropIndexExists, CreateIndexColumns, InsertLookup,
         DeleteLookup, UpdateLookup, UpdateAssign, SelectLookup
<1>3. CASE \/ Begin(s) \/ CreateDatabase(s) \/ DropDatabase(s) \/ DropTable(s)
           \/ CreateIndex(s) \/ DropIndex(s) \/ CreateIndexExists(s)
           \/ CreateIndexBuild(s) \/ DropIndexFind(s) \/ DropIndexData(s)
           \/ InsertFill(s) \/ InsertStore(s) \/ InsertIndexes(s)
           \/ InsertIndex(s) \/ SelectRead(s) \/ LockError(s)
  BY <1>3
     DEF Begin, CreateDatabase, DropDatabase, DropTable, CreateIndex,
         DropIndex, CreateIndexExists, CreateIndexBuild, DropIndexFind,
         DropIndexData, InsertFill, InsertStore, InsertIndexes, InsertIndex,
         SelectRead, LockError
<1>4. CASE \/ CreateTable(s) \/ DropTableLog(s) \/ CreateIndexLog(s)
           \/ DropIndexLog(s) \/ InsertLog(s) \/ DeleteApply(s)
           \/ UpdateApply(s)
  BY <1>4, LogKeepsFiles
     DEF CreateTable, DropTableLog, CreateIndexLog, DropIndexLog, InsertLog,
         DeleteApply, UpdateApply, LogSnapshot
<1>5. CASE DropTableFile(s) \/ SaveTable(s)
  BY <1>5
     DEF DropTableFile, SaveTable, save_table_data, TypeOK, SharedType, DiskType
<1> QED
  BY <1>2, <1>3, <1>4, <1>5 DEF Step, DdlStep, DmlStep

-----------------------------------------------------------------------------
(* The catalog file.                                                        *)

Writing == {"save_catalog", "drop_table_file", "drop_table_save"}

\* With the databases and tables in memory and the catalog file as they were,
\* and no writer gone, the file is no further behind.
LEMMA CatalogFileKept ==
  ASSUME TypeOK, CatalogFileCurrent, NEW s \in Sessions, Frame(s),
         disk'.catalog = disk.catalog,
         catalog'.dbs = catalog.dbs, catalog'.tables = catalog.tables,
         pc[s] \in Writing => pc'[s] \in Writing
  PROVE  CatalogFileCurrent'
<1>1. filed(disk') = filed(disk)
  BY DEF filed
<1>2. \A u \in Sessions : pc[u] \in Writing => pc'[u] \in Writing
  BY DEF Frame, Goto, TypeOK, ControlType
<1> QED
  BY <1>1, <1>2 DEF CatalogFileCurrent, Frame, Writing

\* A session that has the catalog file still to write makes it current.
LEMMA WriterPresent ==
  ASSUME NEW s \in Sessions, pc'[s] \in Writing \/ poisoned'
  PROVE  CatalogFileCurrent'
  BY DEF CatalogFileCurrent, Writing

\* The catalog file after it is written
LEMMA CatalogFileWritten ==
  ASSUME TypeOK, disk' = save_catalog(disk, catalog), UNCHANGED catalog
  PROVE  CatalogFileCurrent'
<1>1. catalog # NoFile
  BY WalAssumption DEF TypeOK, SharedType
<1>2. disk'.catalog = catalog
  BY DEF save_catalog, TypeOK, SharedType, DiskType
<1> QED
  BY <1>1, <1>2 DEF CatalogFileCurrent, filed

\* Only the actions named for it start where the catalog file is to be written.
LEMMA WritersAre ==
  ASSUME NEW s \in Sessions, Begin(s) \/ Step(s), pc[s] \in Writing
  PROVE  \/ SaveCatalog(s) \/ DropTableSave(s) \/ DropTableFile(s)
         \/ LockError(s)
<1>1. /\ \A l, h, n : ExistsCheck(s, l, h, n) => pc[s] = l
      /\ \A l, n, x : LookupTable(s, l, n, x) => pc[s] = l
  BY DEF ExistsCheck, LookupTable, CatalogLock, At
<1>2. ~(\/ CreateTableExists(s) \/ CreateDatabaseExists(s)
        \/ DropDatabaseExists(s) \/ DropTableExists(s) \/ DropIndexExists(s)
        \/ CreateIndexColumns(s) \/ InsertLookup(s) \/ DeleteLookup(s)
        \/ UpdateLookup(s) \/ UpdateAssign(s) \/ SelectLookup(s))
  BY <1>1
     DEF CreateTableExists, CreateDatabaseExists, DropDatabaseExists,
         DropTableExists, DropIndexExists, CreateIndexColumns, InsertLookup,
         DeleteLookup, UpdateLookup, UpdateAssign, SelectLookup, Writing
<1>3. ~(\/ Begin(s) \/ CreateTable(s) \/ CreateDatabase(s) \/ DropDatabase(s)
        \/ DropTable(s) \/ DropTableLog(s) \/ CreateIndex(s)
        \/ CreateIndexExists(s) \/ CreateIndexLog(s) \/ CreateIndexBuild(s)
        \/ DropIndex(s) \/ DropIndexFind(s) \/ DropIndexLog(s)
        \/ DropIndexData(s) \/ SaveTable(s))
  BY DEF Begin, CreateTable, CreateDatabase, DropDatabase, DropTable,
         DropTableLog, CreateIndex, CreateIndexExists, CreateIndexLog,
         CreateIndexBuild, DropIndex, DropIndexFind, DropIndexLog,
         DropIndexData, SaveTable, CatalogLock, At, Writing
<1>4. ~(\/ InsertFill(s) \/ InsertLog(s) \/ InsertStore(s)
        \/ InsertIndexes(s) \/ InsertIndex(s) \/ DeleteApply(s)
        \/ UpdateApply(s) \/ SelectRead(s))
  BY DEF InsertFill, InsertLog, InsertStore, InsertIndexes, InsertIndex,
         DeleteApply, UpdateApply, SelectRead, CatalogLock, At, Writing
<1> QED
  BY <1>2, <1>3, <1>4 DEF Step, DdlStep, DmlStep

\* Every step leaves the catalog file current, or a writer on its way.
LEMMA NextCatalogFile ==
  ASSUME TypeOK, CatalogFileCurrent, [Next]_vars
  PROVE  CatalogFileCurrent'
<1>1. CASE UNCHANGED vars
  BY <1>1 DEF vars, CatalogFileCurrent
<1>2. ASSUME NEW s \in Sessions, Begin(s) \/ Step(s)
      PROVE  CatalogFileCurrent'
  <2>1. Frame(s)
    BY <1>2, FrameOfStep
  <2>2. pc \in [Sessions -> Label] /\ pc' = [pc EXCEPT ![s] = pc'[s]]
    BY <2>1 DEF Frame, Goto, TypeOK, ControlType
  <2>3. CASE SaveCatalog(s)
    BY <2>3, CatalogFileWritten, WriterPresent DEF SaveCatalog
  <2>4. CASE DropTableSave(s)
    BY <2>4, CatalogFileWritten DEF DropTableSave
  <2>5. CASE DropTableFile(s)
    BY <2>2, <2>5, WriterPresent DEF DropTableFile, Goto, Writing
  <2>6. CASE LockError(s)
    BY <2>6, WriterPresent DEF LockError
  <2>7. CASE /\ disk'.catalog = disk.catalog
             /\ pc[s] \notin Writing
    <3>1. CASE catalog'.dbs = catalog.dbs /\ catalog'.tables = catalog.tables
      BY <2>1, <2>7, <3>1, CatalogFileKept
    <3>2. CASE /\ ~ UNCHANGED catalog
               /\ \/ CreateTable(s) \/ CreateDatabase(s) \/ DropDatabase(s)
                  \/ DropTable(s)
      <4>1. Goto(s, "save_catalog") \/ Goto(s, "drop_table_file")
        BY <3>2 DEF CreateTable, CreateDatabase, DropDatabase, DropTable,
                    ChangeCatalog
      <4> QED
        BY <2>2, <4>1, WriterPresent DEF Goto, Writing
    <3>3. CASE UNCHANGED catalog
      BY <3>1, <3>3
    <3>4. CASE CreateIndex(s) \/ DropIndex(s) \/ InsertFill(s)
      <4>1. catalog \in CatalogType
        BY DEF TypeOK, SharedType
      <4>2. CASE CreateIndex(s) \/ DropIndex(s)
        <5>1. \/ UNCHANGED catalog
              \/ \E i : catalog' = [catalog EXCEPT !.indexes = i]
          BY <4>2 DEF CreateIndex, DropIndex, ChangeCatalog, create_index,
                      drop_index
        <5> QED
          BY <3>1, <4>1, <5>1 DEF CatalogType
      <4>3. CASE InsertFill(s)
        <5>1. \/ UNCHANGED catalog
              \/ \E q : catalog' = [catalog EXCEPT !.sequences = q]
          BY <4>3 DEF InsertFill, next_row_id
        <5> QED
          BY <3>1, <4>1, <5>1 DEF CatalogType
      <4> QED
        BY <3>4, <4>2, <4>3
    <3>5. QuietCatalog(s) \/ ChangingCatalog(s)
      BY <1>2 DEF Step, DdlStep, DmlStep, QuietCatalog, ChangingCatalog
    <3> QED
      BY <3>2, <3>3, <3>4, <3>5, QuietCatalogUnchanged DEF ChangingCatalog
  <2>8. CASE pc[s] \in Writing
    BY <1>2, <2>3, <2>4, <2>5, <2>6, <2>8, WritersAre
  <2> QED
    BY <1>2, <2>3, <2>4, <2>7, <2>8, CatalogFileSteps
<1> QED
  BY <1>1, <1>2 DEF Next, AllDone

\* The catalog file lacks a change to the databases or tables only while a
\* session is on its way to write it, or the catalog is poisoned.
THEOREM CatalogFileStaysCurrent == Spec => []CatalogFileCurrent
<1>1. Init => CatalogFileCurrent
  <2> SUFFICES ASSUME Init PROVE CatalogFileCurrent
    OBVIOUS
  <2>1. CASE InitWal = <<>>
    <3>1. disk.catalog = NoFile /\ catalog = new_catalog
      BY <2>1, ExecutorAssumption DEF Init
    <3>2. /\ new_catalog.dbs = {DefaultDb}
          /\ new_catalog.tables = {}
      BY DEF new_catalog
    <3> QED
      BY <3>1, <3>2 DEF CatalogFileCurrent, filed
  <2>2. CASE InitWal # <<>>
    BY <2>2, ExecutorAssumption, WalAssumption
       DEF Init, CatalogFileCurrent, filed
  <2> QED
    BY <2>1, <2>2
<1>2. TypeOK /\ CatalogFileCurrent /\ [Next]_vars => CatalogFileCurrent'
  BY NextCatalogFile
<1> QED
  BY <1>1, <1>2, TypeCorrect, PTL DEF Spec

-----------------------------------------------------------------------------
(* What the actions do to the rows and to the table files.                  *)

\* The actions that do not touch the storage
QuietStorage(s) ==
  \/ Begin(s) \/ LockError(s) \/ SaveTable(s) \/ SaveCatalog(s)
  \/ CreateTableExists(s) \/ DropTableExists(s) \/ CreateDatabaseExists(s)
  \/ DropDatabaseExists(s) \/ DropIndexExists(s)
  \/ CreateTable(s) \/ CreateDatabase(s) \/ DropDatabase(s)
  \/ DropTableLog(s) \/ DropTableFile(s) \/ DropTableSave(s)
  \/ CreateIndexExists(s) \/ CreateIndex(s) \/ CreateIndexLog(s)
  \/ CreateIndexColumns(s)
  \/ DropIndexFind(s) \/ DropIndex(s) \/ DropIndexLog(s)
  \/ InsertLookup(s) \/ InsertFill(s) \/ InsertLog(s) \/ InsertIndexes(s)
  \/ DeleteLookup(s) \/ UpdateLookup(s) \/ UpdateAssign(s)
  \/ SelectLookup(s) \/ SelectRead(s)

\* The quiet actions do leave the storage alone.
LEMMA QuietStorageUnchanged ==
  ASSUME NEW s, QuietStorage(s)
  PROVE  UNCHANGED storage
<1>1. \A l, h, n : ExistsCheck(s, l, h, n) => UNCHANGED storage
  BY DEF ExistsCheck
<1>2. \A l, n, x : LookupTable(s, l, n, x) => UNCHANGED storage
  BY DEF LookupTable
<1> QED
  BY <1>1, <1>2
     DEF QuietStorage, Begin, LockError, SaveTable, SaveCatalog,
         CreateTableExists, DropTableExists, CreateDatabaseExists,
         DropDatabaseExists, DropIndexExists, CreateTable, CreateDatabase,
         DropDatabase, DropTableLog, DropTableFile, DropTableSave,
         CreateIndexExists, CreateIndex, CreateIndexLog, CreateIndexColumns,
         DropIndexFind, DropIndex, DropIndexLog, InsertLookup, InsertFill,
         InsertLog, InsertIndexes, DeleteLookup, UpdateLookup, UpdateAssign,
         SelectLookup, SelectRead

\* The ways the rows of the tables, and the row ids to come, change
DropsRows(s) ==
  /\ At(s, "drop_table")
  /\ Goto(s, "drop_table_file")
  /\ stmt[s].tbl \in Tables
  /\ storage' = clear_table(storage, stmt[s].tbl)

InsertsRows(s) ==
  /\ At(s, "insert_store")
  /\ Goto(s, "insert_save")
  /\ stmt[s].tbl \in Tables /\ rows[s] \in Seq(Row)
  /\ storage' = insert_new_rows(storage, stmt[s].tbl, rows[s])

DeletesRows(s) ==
  LET t == stmt[s].tbl
      m == storage.tables[t]
  IN  /\ At(s, "delete_apply")
      /\ Goto(s, "delete_save")
      /\ t \in DOMAIN storage.tables
      /\ storage'.tables =
           [storage.tables EXCEPT
              ![t] = rows_left(m, matching_ids(m, stmt[s].sel))]
      /\ storage'.next_ids = storage.next_ids

UpdatesRows(s) ==
  LET t == stmt[s].tbl
      m == storage.tables[t]
  IN  /\ At(s, "update_apply")
      /\ Goto(s, "update_save")
      /\ t \in DOMAIN storage.tables
      /\ storage'.tables =
           [storage.tables EXCEPT
              ![t] = rows_assigned(m, matching_ids(m, stmt[s].sel), stmt[s].set)]
      /\ storage'.next_ids = storage.next_ids

RowsUnchanged ==
  storage'.tables = storage.tables /\ storage'.next_ids = storage.next_ids

\* Every step changes rows in one of these ways, or not at all.
LEMMA RowsSteps ==
  ASSUME TypeOK, NEW s \in Sessions, Begin(s) \/ Step(s)
  PROVE  \/ RowsUnchanged \/ DropsRows(s) \/ InsertsRows(s) \/ DeletesRows(s)
         \/ UpdatesRows(s)
<1> DEFINE st == stmt[s]
<1>1. /\ st \in Statement
      /\ \A op \in Ops : pc[s] \in labels(op) \ {"save_catalog"} => st.op = op
  BY AtOp DEF TypeOK, ControlType
<1>2. StorageType(storage) /\ rows[s] \in Seq(Row) /\ idxs[s] \in SUBSET IndexDef
  BY DEF TypeOK, SharedType, LocalsType
<1>3. CASE QuietStorage(s)
  BY <1>3, QuietStorageUnchanged DEF RowsUnchanged
<1>4. CASE DropTable(s)
  <2>1. st.op = "drop_table"
    BY <1>1, <1>4, LabelSets DEF DropTable, CatalogLock, At, Ops
  <2>2. st.tbl \in Tables
    BY <1>1, <2>1, StatementFields
  <2> QED
    BY <1>4, <2>2 DEF DropTable, CatalogLock, ChangeCatalog, RowsUnchanged,
                      DropsRows
<1>5. CASE InsertStore(s)
  <2>1. st.op = "insert"
    BY <1>1, <1>5, LabelSets DEF InsertStore, At, Ops
  <2>2. st.tbl \in Tables
    BY <1>1, <2>1, StatementFields
  <2> QED
    BY <1>2, <1>5, <2>2 DEF InsertStore, InsertsRows
<1>6. CASE InsertIndex(s)
  <2>1. st.op = "insert"
    BY <1>1, <1>6, LabelSets DEF InsertIndex, At, Ops
  <2>2. st.tbl \in Tables
    BY <1>1, <2>1, StatementFields
  <2> QED
    BY <1>2, <1>6, <2>2, InsertIntoIndexes DEF InsertIndex, RowsUnchanged
<1>7. CASE CreateIndexBuild(s)
  <2>1. \/ storage' = remove_index_data(storage, <<st.tbl, st.def.name>>)
        \/ \E d : storage' = [storage EXCEPT !.index_data = d]
    BY <1>7 DEF CreateIndexBuild
  <2>2. CASE storage' = remove_index_data(storage, <<st.tbl, st.def.name>>)
    BY <1>2, <2>2, RemoveIndexData DEF RowsUnchanged
  <2>3. CASE \E d : storage' = [storage EXCEPT !.index_data = d]
    BY <1>2, <2>3 DEF StorageType, RowsUnchanged
  <2> QED
    BY <2>1, <2>2, <2>3
<1>8. CASE DropIndexData(s)
  BY <1>2, <1>8, RemoveIndexData DEF DropIndexData, RowsUnchanged
<1>9. CASE DeleteApply(s)
  <2> DEFINE gone == matching_ids(storage.tables[st.tbl], st.sel)
  <2>1. CASE st.tbl \in DOMAIN storage.tables
    <3>1. storage' = delete_rows(storage, st.tbl, idxs[s], gone)
      BY <1>9, <2>1 DEF DeleteApply
    <3> HIDE DEF gone
    <3>2. /\ storage'.tables = [storage.tables EXCEPT
               ![st.tbl] = rows_left(storage.tables[st.tbl], gone)]
          /\ storage'.next_ids = storage.next_ids
      <4> DEFINE t == st.tbl
                 defs == idxs[s]
                 r == storage'
      <4>1. /\ StorageType(storage)
            /\ t \in DOMAIN storage.tables
            /\ r = delete_rows(storage, t, defs, gone)
        BY <1>2, <2>1, <3>1
      <4> HIDE DEF st, t, defs, r
      <4>2. /\ r.tables = [storage.tables EXCEPT
                  ![t] = rows_left(storage.tables[t], gone)]
            /\ r.next_ids = storage.next_ids
        BY <4>1, DeleteRows
      <4> QED
        BY <4>2 DEF r, t
    <3>3. At(s, "delete_apply") /\ Goto(s, "delete_save")
      BY <1>9, <2>1 DEF DeleteApply
    <3> QED
      BY <2>1, <3>2, <3>3 DEF gone, DeletesRows
  <2>2. CASE st.tbl \notin DOMAIN storage.tables
    BY <1>9, <2>2 DEF DeleteApply, RowsUnchanged
  <2> QED
    BY <2>1, <2>2
<1>10. CASE UpdateApply(s)
  <2> DEFINE changed == matching_ids(storage.tables[st.tbl], st.sel)
  <2>1. CASE st.tbl \in DOMAIN storage.tables
    <3>1. st.op = "update"
      BY <1>1, <1>10, LabelSets DEF UpdateApply, At, Ops
    <3>2. st.tbl \in Tables /\ st.set \in PartialRow
      BY <1>1, <3>1, StatementFields
    <3>3. storage' = update_rows(storage, st.tbl, idxs[s], changed, st.set)
      BY <1>10, <2>1 DEF UpdateApply
    <3>4. At(s, "update_apply") /\ Goto(s, "update_save")
      BY <1>10, <2>1 DEF UpdateApply
    <3> HIDE DEF changed
    <3>5. /\ storage'.tables = [storage.tables EXCEPT
               ![st.tbl] =
                 rows_assigned(storage.tables[st.tbl], changed, st.set)]
          /\ storage'.next_ids = storage.next_ids
      <4> DEFINE t == st.tbl
                 defs == idxs[s]
                 set == st.set
                 r == storage'
      <4>1. /\ StorageType(storage)
            /\ t \in DOMAIN storage.tables /\ t \in Tables
            /\ set \in PartialRow /\ defs \in SUBSET IndexDef
            /\ r = update_rows(storage, t, defs, changed, set)
        BY <1>2, <2>1, <3>2, <3>3
      <4> HIDE DEF st, t, defs, set, r
      <4>2. /\ r.tables = [storage.tables EXCEPT
                  ![t] = rows_assigned(storage.tables[t], changed, set)]
            /\ r.next_ids = storage.next_ids
        BY <4>1, UpdateRows
      <4> QED
        BY <4>2 DEF r, t, set
    <3> QED
      BY <2>1, <3>4, <3>5 DEF changed, UpdatesRows
  <2>2. CASE st.tbl \notin DOMAIN storage.tables
    BY <1>10, <2>2 DEF UpdateApply, RowsUnchanged
  <2> QED
    BY <2>1, <2>2
<1> QED
  BY <1>3, <1>4, <1>5, <1>6, <1>7, <1>8, <1>9, <1>10
     DEF Step, DdlStep, DmlStep, QuietStorage

-----------------------------------------------------------------------------
(* No stored row is overwritten.                                            *)

\* Every row has an id that was given out: the next row gets another.
IdsBelow == \A t \in DOMAIN storage.tables :
              \A id \in DOMAIN storage.tables[t] : id < storage.next_ids[t]

\* A DROP TABLE removes the rows of one table and leaves all others.
LEMMA DropKeepsOthers ==
  ASSUME TypeOK, NEW s \in Sessions, DropsRows(s)
  PROVE  /\ DOMAIN storage'.tables = DOMAIN storage.tables \ {stmt[s].tbl}
         /\ \A t \in DOMAIN storage'.tables :
              /\ storage'.tables[t] = storage.tables[t]
              /\ storage'.next_ids[t] = storage.next_ids[t]
<1> DEFINE u == stmt[s].tbl
           r == storage'
<1>1. StorageType(storage) /\ u \in Tables /\ r = clear_table(storage, u)
  BY DEF TypeOK, SharedType, DropsRows
<1> HIDE DEF u, r
<1>2. /\ DOMAIN r.tables = DOMAIN storage.tables \ {u}
      /\ \A t \in DOMAIN r.tables : r.tables[t] = storage.tables[t]
      /\ r.next_ids = [storage.next_ids EXCEPT ![u] = 1]
  BY <1>1, ClearTable
<1>3. \A t \in DOMAIN r.tables : r.next_ids[t] = storage.next_ids[t]
  BY <1>1, <1>2 DEF StorageType
<1> QED
  BY <1>2, <1>3 DEF u, r

\* What an INSERT does to the rows of each table: those there stay.
LEMMA InsertKeepsRows ==
  ASSUME TypeOK, IdsBelow, NEW s \in Sessions, InsertsRows(s)
  PROVE  /\ IdsBelow'
         /\ \A t \in DOMAIN storage.tables :
              \A id \in DOMAIN storage.tables[t] :
                /\ id \in DOMAIN rows_of(storage', t)
                /\ rows_of(storage', t)[id] = storage.tables[t][id]
<1> DEFINE u == stmt[s].tbl
           rs == rows[s]
           n == Len(rs)
           r == storage'
<1>1. StorageType(storage) /\ u \in Tables /\ rs \in Seq(Row) /\ n \in Nat
  BY DEF TypeOK, SharedType, InsertsRows
<1>2. r = insert_new_rows(storage, u, rs)
  BY DEF InsertsRows
<1>3. /\ r.next_ids = [storage.next_ids EXCEPT ![u] = @ + n]
      /\ DOMAIN r.tables = DOMAIN storage.tables \cup {u}
      /\ \A t \in DOMAIN storage.tables : t # u => r.tables[t] = storage.tables[t]
      /\ DOMAIN r.tables[u] = DOMAIN rows_of(storage, u) \cup new_ids(storage, u, n)
      /\ \A id \in DOMAIN rows_of(storage, u) :
           id < storage.next_ids[u] => r.tables[u][id] = rows_of(storage, u)[id]
  <2> HIDE DEF u, rs, r
  <2> QED
    BY <1>1, <1>2, InsertNewRows
<1>4. /\ storage.next_ids \in [Tables -> Nat \ {0}]
      /\ DOMAIN storage.tables \subseteq Tables
  BY <1>1 DEF StorageType
<1>5. \A id \in DOMAIN rows_of(storage, u) : id \in Nat /\ id < storage.next_ids[u]
  <2>1. IsRowMap(rows_of(storage, u))
    BY <1>1, RowsOfType
  <2>2. \A id \in DOMAIN rows_of(storage, u) : id \in Nat
    BY <2>1 DEF IsRowMap, RowId
  <2> QED
    BY <2>2 DEF IdsBelow, rows_of, EmptyMap
<1>6. /\ storage.next_ids[u] \in Nat /\ r.next_ids[u] = storage.next_ids[u] + n
      /\ \A t \in Tables : t # u => r.next_ids[t] = storage.next_ids[t]
  BY <1>1, <1>3, <1>4
<1>7. \A id \in new_ids(storage, u, n) :
        /\ id \in Int /\ storage.next_ids[u] <= id
        /\ id < storage.next_ids[u] + n
  BY <1>1, <1>6 DEF new_ids
<1> HIDE DEF u, rs, n, r
<1>8. \A id \in DOMAIN r.tables[u] : id < r.next_ids[u]
  <2>1. \A id \in DOMAIN rows_of(storage, u) : id < r.next_ids[u]
    BY <1>1, <1>5, <1>6
  <2> QED
    BY <1>3, <1>6, <1>7, <2>1
<1>9. \A t \in DOMAIN r.tables : \A id \in DOMAIN r.tables[t] : id < r.next_ids[t]
  BY <1>3, <1>4, <1>6, <1>8 DEF IdsBelow
<1>10. ASSUME NEW t \in DOMAIN storage.tables,
              NEW id \in DOMAIN storage.tables[t]
       PROVE  /\ id \in DOMAIN rows_of(r, t)
              /\ rows_of(r, t)[id] = storage.tables[t][id]
  <2>1. rows_of(r, t) = r.tables[t]
    BY <1>3 DEF rows_of
  <2>2. CASE t # u
    BY <1>3, <2>1, <2>2
  <2>3. CASE t = u
    <3>1. rows_of(storage, u) = storage.tables[t]
      BY <2>3 DEF rows_of
    <3>2. id < storage.next_ids[u]
      BY <1>5, <3>1
    <3> QED
      BY <1>3, <2>1, <2>3, <3>1, <3>2
  <2> QED
    BY <2>2, <2>3
<1> QED
  BY <1>9, <1>10 DEF IdsBelow, r

\* Every step keeps the row ids below the next one.
LEMMA NextIdsBelow ==
  ASSUME TypeOK, IdsBelow, [Next]_vars
  PROVE  IdsBelow'
<1>1. CASE UNCHANGED vars
  BY <1>1 DEF vars, IdsBelow
<1>2. ASSUME NEW s \in Sessions, Begin(s) \/ Step(s)
      PROVE  IdsBelow'
  <2>1. StorageType(storage)
    BY DEF TypeOK, SharedType
  <2>2. CASE RowsUnchanged
    BY <2>2 DEF RowsUnchanged, IdsBelow
  <2>3. CASE DropsRows(s)
    BY <2>3, DropKeepsOthers DEF IdsBelow
  <2>4. CASE InsertsRows(s)
    BY <2>4, InsertKeepsRows
  <2>5. CASE DeletesRows(s) \/ UpdatesRows(s)
    <3>1. /\ DOMAIN storage'.tables = DOMAIN storage.tables
          /\ \A t \in DOMAIN storage.tables :
               DOMAIN storage'.tables[t] \subseteq DOMAIN storage.tables[t]
          /\ storage'.next_ids = storage.next_ids
      <4>1. CASE DeletesRows(s)
        BY <2>1, <4>1 DEF DeletesRows, StorageType, rows_left
      <4>2. CASE UpdatesRows(s)
        BY <2>1, <4>2 DEF UpdatesRows, StorageType, rows_assigned
      <4> QED
        BY <2>5, <4>1, <4>2
    <3> QED
      BY <3>1 DEF IdsBelow
  <2> QED
    BY <1>2, <2>2, <2>3, <2>4, <2>5, RowsSteps
<1> QED
  BY <1>1, <1>2 DEF Next, AllDone

\* The body of RowsKept
RowsKeptStep ==
  \A t \in DOMAIN storage.tables :
    LET m == storage.tables[t]
    IN  \A id \in DOMAIN m :
          \/ id \in DOMAIN rows_of(storage', t) /\ rows_of(storage', t)[id] = m[id]
          \/ \E s \in Sessions :
               \/ At(s, "drop_table") /\ stmt[s].tbl = t
               \/ /\ pc[s] \in {"delete_apply", "update_apply"}
                  /\ stmt[s].tbl = t
                  /\ matches(m[id], stmt[s].sel)

\* Every step keeps the rows it is not meant to change.
LEMMA NextRowsKept ==
  ASSUME TypeOK, IdsBelow, [Next]_vars
  PROVE  RowsKeptStep
<1>1. SUFFICES ASSUME NEW t \in DOMAIN storage.tables,
                      NEW id \in DOMAIN storage.tables[t]
               PROVE  \/ /\ id \in DOMAIN rows_of(storage', t)
                         /\ rows_of(storage', t)[id] = storage.tables[t][id]
                      \/ \E s \in Sessions :
                           \/ At(s, "drop_table") /\ stmt[s].tbl = t
                           \/ /\ pc[s] \in {"delete_apply", "update_apply"}
                              /\ stmt[s].tbl = t
                              /\ matches(storage.tables[t][id], stmt[s].sel)
  BY DEF RowsKeptStep
<1>2. CASE storage'.tables = storage.tables
  BY <1>2 DEF rows_of
<1>3. ASSUME NEW s \in Sessions, Begin(s) \/ Step(s),
             storage'.tables # storage.tables
      PROVE  \/ /\ id \in DOMAIN rows_of(storage', t)
                /\ rows_of(storage', t)[id] = storage.tables[t][id]
             \/ At(s, "drop_table") /\ stmt[s].tbl = t
             \/ /\ pc[s] \in {"delete_apply", "update_apply"}
                /\ stmt[s].tbl = t
                /\ matches(storage.tables[t][id], stmt[s].sel)
  <2>1. StorageType(storage)
    BY DEF TypeOK, SharedType
  <2>2. CASE DropsRows(s)
    BY <2>2, DropKeepsOthers DEF DropsRows, rows_of
  <2>3. CASE InsertsRows(s)
    BY <2>3, InsertKeepsRows
  <2>4. CASE DeletesRows(s)
    BY SMTT(40), <2>1, <2>4
       DEF DeletesRows, At, rows_of, matching_ids, StorageType, rows_left
  <2>5. CASE UpdatesRows(s)
    <3> DEFINE u == stmt[s].tbl
               changed == matching_ids(storage.tables[u], stmt[s].sel)
               new == rows_assigned(storage.tables[u], changed, stmt[s].set)
    <3>1. /\ pc[s] = "update_apply"
          /\ u \in DOMAIN storage.tables
          /\ storage'.tables = [storage.tables EXCEPT ![u] = new]
      BY <2>5 DEF UpdatesRows, At
    <3>2. /\ DOMAIN new = DOMAIN storage.tables[u]
          /\ \A i \in DOMAIN storage.tables[u] :
               i \notin changed => new[i] = storage.tables[u][i]
      BY DEF rows_assigned
    <3>3. \A i \in changed : matches(storage.tables[u][i], stmt[s].sel)
      BY DEF matching_ids
    <3> HIDE DEF new, changed, u
    <3>4. CASE t # u
      BY <2>1, <3>1, <3>4 DEF rows_of, StorageType
    <3>5. CASE t = u
      BY <2>1, <3>1, <3>2, <3>3, <3>5 DEF rows_of, StorageType, u
    <3> QED
      BY <3>4, <3>5
  <2> QED
    BY <1>3, <2>2, <2>3, <2>4, <2>5, RowsSteps DEF RowsUnchanged
<1> QED
  BY <1>2, <1>3 DEF Next, AllDone, vars

\* A stored row stays as it is until a DELETE, an UPDATE or a DROP TABLE means
\* it, however many INSERTs run at once: none is given the id of a row.
THEOREM RowsAreKept == Spec => RowsKept
<1>1. Init => IdsBelow
  <2>1. StorageType(new_storage) /\ DOMAIN new_storage.tables = {}
    BY NewStorageType DEF new_storage, EmptyMap
  <2> QED
    BY <2>1, RebuildIndexesType, ExecutorAssumption DEF Init, IdsBelow
<1>2. TypeOK /\ IdsBelow /\ [Next]_vars => IdsBelow'
  BY NextIdsBelow
<1>3. TypeOK /\ IdsBelow /\ [Next]_vars => [RowsKeptStep]_vars
  BY NextRowsKept
<1>4. RowsKept <=> [][RowsKeptStep]_vars
  BY DEF RowsKept, RowsKeptStep
<1> QED
  BY <1>1, <1>2, <1>3, <1>4, TypeCorrect, PTL DEF Spec

-----------------------------------------------------------------------------
(* No table file outlives its table.                                        *)

\* Table files are written by SaveTable, and removed by DropTableFile.
LEMMA TableFileSteps ==
  ASSUME TypeOK, NEW s \in Sessions, Begin(s) \/ Step(s)
  PROVE  SaveTable(s) \/ DropTableFile(s) \/ disk'.tables = disk.tables
<1>1. /\ \A l, h, n : ExistsCheck(s, l, h, n) => UNCHANGED disk
      /\ \A l, n, x : LookupTable(s, l, n, x) => UNCHANGED disk
  BY DEF ExistsCheck, LookupTable
<1>2. CASE \/ CreateTableExists(s) \/ CreateDatabaseExists(s)
           \/ DropDatabaseExists(s) \/ DropTableExists(s) \/ DropIndexExists(s)
           \/ CreateIndexColumns(s) \/ InsertLookup(s) \/ DeleteLookup(s)
           \/ UpdateLookup(s) \/ UpdateAssign(s) \/ SelectLookup(s)
  BY <1>1, <1>2
     DEF CreateTableExists, CreateDatabaseExists, DropDatabaseExists,
         DropTableExists, DropIndexExists, CreateIndexColumns, InsertLookup,
         DeleteLookup, UpdateLookup, UpdateAssign, SelectLookup
<1>3. CASE \/ Begin(s) \/ CreateDatabase(s) \/ DropDatabase(s) \/ DropTable(s)
           \/ CreateIndex(s) \/ DropIndex(s) \/ CreateIndexExists(s)
           \/ CreateIndexBuild(s) \/ DropIndexFind(s) \/ DropIndexData(s)
           \/ InsertFill(s) \/ InsertStore(s) \/ InsertIndexes(s)
           \/ InsertIndex(s) \/ SelectRead(s) \/ LockError(s)
  BY <1>3
     DEF Begin, CreateDatabase, DropDatabase, DropTable, CreateIndex,
         DropIndex, CreateIndexExists, CreateIndexBuild, DropIndexFind,
         DropIndexData, InsertFill, InsertStore, InsertIndexes, InsertIndex,
         SelectRead, LockError
<1>4. CASE \/ CreateTable(s) \/ DropTableLog(s) \/ CreateIndexLog(s)
           \/ DropIndexLog(s) \/ InsertLog(s) \/ DeleteApply(s)
           \/ UpdateApply(s)
  BY <1>4, LogKeepsFiles
     DEF CreateTable, DropTableLog, CreateIndexLog, DropIndexLog, InsertLog,
         DeleteApply, UpdateApply, LogSnapshot
<1>5. CASE SaveCatalog(s) \/ DropTableSave(s)
  BY <1>5
     DEF SaveCatalog, DropTableSave, save_catalog, TypeOK, SharedType, DiskType
<1> QED
  BY <1>2, <1>3, <1>4, <1>5 DEF Step, DdlStep, DmlStep

\* Tables with rows in memory keep their entry, but for the one a DROP TABLE
\* clears before it goes on to remove the file.
LEMMA TablesStay ==
  ASSUME TypeOK, NEW s \in Sessions, Begin(s) \/ Step(s),
         NEW t \in DOMAIN storage.tables
  PROVE  \/ t \in DOMAIN storage'.tables
         \/ /\ Goto(s, "drop_table_file") /\ stmt[s].tbl = t
            /\ At(s, "drop_table")
<1>1. StorageType(storage)
  BY DEF TypeOK, SharedType
<1>2. CASE RowsUnchanged
  BY <1>2 DEF RowsUnchanged
<1>3. CASE DropsRows(s)
  BY <1>3, DropKeepsOthers DEF DropsRows
<1>4. CASE InsertsRows(s)
  BY <1>1, <1>4 DEF InsertsRows, insert_new_rows, put, StorageType
<1>5. CASE DeletesRows(s) \/ UpdatesRows(s)
  BY <1>1, <1>5 DEF DeletesRows, UpdatesRows, StorageType
<1> QED
  BY <1>2, <1>3, <1>4, <1>5, RowsSteps

\* Every step leaves a table file to a table, or to its DROP TABLE.
LEMMA NextNoFileOutlives ==
  ASSUME TypeOK, NoFileOutlivesTable, [Next]_vars
  PROVE  NoFileOutlivesTable'
<1>1. CASE UNCHANGED vars
  BY <1>1 DEF vars, NoFileOutlivesTable
<1>2. ASSUME NEW s \in Sessions, Begin(s) \/ Step(s),
             NEW t \in Tables
      PROVE  \/ disk'.tables[t] = NoFile
             \/ t \in DOMAIN storage'.tables
             \/ \E u \in Sessions :
                  pc'[u] = "drop_table_file" /\ stmt'[u].tbl = t
  <2>1. Frame(s)
    BY <1>2, FrameOfStep
  <2>2. /\ pc' = [pc EXCEPT ![s] = pc'[s]]
        /\ pc \in [Sessions -> Label]
        /\ \A u \in Sessions \ {s} : stmt'[u] = stmt[u]
    BY <2>1 DEF Frame, Goto, TypeOK, ControlType
  <2>3. CASE t \in DOMAIN storage.tables
    <3>1. CASE t \in DOMAIN storage'.tables
      BY <3>1
    <3>2. CASE /\ Goto(s, "drop_table_file") /\ stmt[s].tbl = t
               /\ At(s, "drop_table")
      <4>1. stmt'[s].tbl = t
        BY <1>2, <3>2, StatementKept
         DEF Begin, DropIndexFind, CatalogLock, At
      <4> QED
        BY <2>2, <3>2, <4>1 DEF Goto
    <3> QED
      BY <1>2, <2>3, <3>1, <3>2, TablesStay
  <2>4. CASE disk.tables[t] = NoFile /\ t \notin DOMAIN storage.tables
    <3>1. CASE SaveTable(s)
      BY <2>4, <3>1
         DEF SaveTable, save_table_data, TypeOK, SharedType, DiskType
    <3>2. CASE DropTableFile(s)
      BY <2>4, <3>2 DEF DropTableFile, TypeOK, SharedType, DiskType
    <3> QED
      BY <1>2, <2>4, <3>1, <3>2, TableFileSteps
  <2>5. ASSUME NEW u \in Sessions, pc[u] = "drop_table_file", stmt[u].tbl = t
        PROVE  \/ disk'.tables[t] = NoFile
               \/ pc'[u] = "drop_table_file" /\ stmt'[u].tbl = t
    <3>1. CASE u = s
      <4>1. DropTableFile(s)
        BY <1>2, <2>5, <3>1, WritersAre
           DEF Writing, SaveCatalog, DropTableSave, LockError,
               CatalogLockSteps, CatalogLock, At
      <4> QED
        BY <2>5, <3>1, <4>1 DEF DropTableFile, TypeOK, SharedType, DiskType
    <3>2. CASE u # s
      BY <2>2, <2>5, <3>2
    <3> QED
      BY <3>1, <3>2
  <2> QED
    BY <2>3, <2>4, <2>5 DEF NoFileOutlivesTable
<1> QED
  BY <1>1, <1>2 DEF Next, AllDone, NoFileOutlivesTable

\* A table file whose table has no rows in memory is about to be removed: a
\* table that is created again does not find the rows of the one before.
THEOREM NoFileOutlives == Spec => []NoFileOutlivesTable
<1>1. Init => NoFileOutlivesTable
  BY DEF Init, NoFileOutlivesTable
<1>2. TypeOK /\ NoFileOutlivesTable /\ [Next]_vars => NoFileOutlivesTable'
  BY NextNoFileOutlives
<1> QED
  BY <1>1, <1>2, TypeCorrect, PTL DEF Spec

-----------------------------------------------------------------------------
(* Rows and their tables.                                                   *)

\* The tables of the catalog go by DROP TABLE, which takes their rows along,
\* and by DROP DATABASE.
LEMMA TablesLeave ==
  ASSUME TypeOK, NEW s \in Sessions, Begin(s) \/ Step(s),
         NEW dt \in catalog.tables, dt \notin catalog'.tables
  PROVE  \/ At(s, "drop_database") /\ Goto(s, "save_catalog")
         \/ dt[2] \notin DOMAIN storage'.tables
<1>1. catalog \in CatalogType /\ StorageType(storage)
  BY DEF TypeOK, SharedType
<1>2. ChangingCatalog(s)
  <2>1. QuietCatalog(s) \/ ChangingCatalog(s)
    BY DEF Step, DdlStep, DmlStep, QuietCatalog, ChangingCatalog
  <2>2. QuietCatalog(s) => catalog' = catalog
    BY QuietCatalogUnchanged
  <2> QED
    BY <2>1, <2>2
<1>3. CASE DropDatabase(s)
  BY <1>3 DEF DropDatabase, ChangeCatalog, CatalogLock
<1>4. CASE DropTable(s)
  <2>1. /\ catalog' = drop_table(catalog, stmt[s].db, stmt[s].tbl)
        /\ storage' = clear_table(storage, stmt[s].tbl)
    BY <1>4 DEF DropTable, ChangeCatalog
  <2>2. dt = <<stmt[s].db, stmt[s].tbl>>
    BY <1>1, <2>1 DEF drop_table, CatalogType
  <2> QED
    BY <1>1, <2>1, <2>2 DEF clear_table, StorageType
<1>5. CASE ~DropDatabase(s) /\ ~DropTable(s)
  <2>1. \A d, t, x :
          /\ catalog.tables \subseteq create_table(catalog, d, t).tables
          /\ create_database(catalog, d).tables = catalog.tables
          /\ create_index(catalog, d, t, x).tables = catalog.tables
          /\ drop_index(catalog, d, t, x).tables = catalog.tables
          /\ next_row_id(catalog, t, x).tables = catalog.tables
    BY <1>1
       DEF create_table, create_database, create_index, drop_index,
           next_row_id, CatalogType
  <2> QED
    BY <1>2, <1>5, <2>1, CatalogChange
<1> QED
  BY <1>3, <1>4, <1>5

\* Every step leaves rows with their table, but for the two.
LEMMA NextRowsHaveTable ==
  ASSUME TypeOK, NEW s \in Sessions, Begin(s) \/ Step(s),
         NEW t \in DOMAIN storage'.tables, ~in_catalog(catalog', t),
         t \in DOMAIN storage.tables => in_catalog(catalog, t)
  PROVE  /\ pc'[s] # pc[s]
         /\ \/ At(s, "insert_store") /\ stmt[s].tbl = t
            \/ At(s, "drop_database")
<1>1. StorageType(storage) /\ pc \in [Sessions -> Label]
  BY DEF TypeOK, SharedType, ControlType
<1>2. CASE in_catalog(catalog, t)
  <2>1. PICK dt \in catalog.tables : dt[2] = t
    BY <1>2 DEF in_catalog
  <2>2. dt \notin catalog'.tables
    BY <2>1 DEF in_catalog
  <2>3. At(s, "drop_database") /\ Goto(s, "save_catalog")
    BY <2>1, <2>2, TablesLeave
  <2> QED
    BY <1>1, <2>3 DEF At, Goto
<1>3. CASE t \notin DOMAIN storage.tables
  <2>1. ~RowsUnchanged
    BY <1>3 DEF RowsUnchanged
  <2>2. ASSUME DropsRows(s)
        PROVE  FALSE
    <3>1. storage' = clear_table(storage, stmt[s].tbl)
      BY <2>2 DEF DropsRows
    <3>2. DOMAIN storage'.tables \subseteq DOMAIN storage.tables
      BY <1>1, <3>1 DEF clear_table, StorageType
    <3> QED
      BY <1>3, <3>2
  <2>3. ~DeletesRows(s) /\ ~UpdatesRows(s)
    BY <1>1, <1>3 DEF DeletesRows, UpdatesRows, StorageType
  <2>4. InsertsRows(s)
    BY <2>1, <2>2, <2>3, RowsSteps
  <2>5. stmt[s].tbl = t
    BY <1>1, <1>3, <2>4 DEF InsertsRows, insert_new_rows, put, StorageType
  <2> QED
    BY <1>1, <2>4, <2>5 DEF InsertsRows, At, Goto
<1> QED
  BY <1>2, <1>3

\* DROP TABLE leaves no rows behind (executor.rs:1215-1225), and only an INSERT
\* that overlaps it and DROP DATABASE do.
THEOREM RowsKeepTheirTable == Spec => RowsHaveTable
<1>1. TypeOK /\ [Next]_vars =>
        [\A t \in DOMAIN storage'.tables :
           \/ in_catalog(catalog', t)
           \/ t \in DOMAIN storage.tables /\ ~in_catalog(catalog, t)
           \/ \E s \in Sessions :
                /\ pc'[s] # pc[s]
                /\ \/ At(s, "insert_store") /\ stmt[s].tbl = t
                   \/ At(s, "drop_database")]_vars
  <2> SUFFICES ASSUME TypeOK, [Next]_vars, ~UNCHANGED vars,
                      NEW t \in DOMAIN storage'.tables,
                      ~in_catalog(catalog', t),
                      t \in DOMAIN storage.tables => in_catalog(catalog, t)
               PROVE  \E s \in Sessions :
                        /\ pc'[s] # pc[s]
                        /\ \/ At(s, "insert_store") /\ stmt[s].tbl = t
                           \/ At(s, "drop_database")
    OBVIOUS
  <2>1. PICK s \in Sessions : Begin(s) \/ Step(s)
    BY DEF Next, AllDone
  <2> QED
    BY <2>1, NextRowsHaveTable
<1> QED
  BY <1>1, TypeCorrect, PTL DEF Spec, RowsHaveTable

-----------------------------------------------------------------------------
(* Table files, where no table is dropped.                                  *)

\* No session is at a DROP TABLE.
NoDrops == \A s \in Sessions : stmt[s].op # "drop_table"

NeverDropped == \A st \in Menu : st.op # "drop_table"

\* Where no statement drops a table, no session comes to execute a DROP TABLE.
LEMMA NextNoDrops ==
  ASSUME TypeOK, NeverDropped, NoDrops, [Next]_vars
  PROVE  NoDrops'
<1>1. CASE UNCHANGED stmt
  BY <1>1 DEF NoDrops
<1>2. ASSUME NEW s \in Sessions, Begin(s)
      PROVE  NoDrops'
  BY <1>2 DEF Begin, NoDrops, NeverDropped, TypeOK, ControlType
<1>3. ASSUME NEW s \in Sessions, Step(s)
      PROVE  NoDrops'
  <2>2. CASE DropIndexFind(s)
    <3>1. CASE UNCHANGED stmt
      BY <1>1, <3>1
    <3>2. CASE \E t \in Tables : stmt' = [stmt EXCEPT ![s].tbl = t]
      <4>1. PICK t \in Tables : stmt' = [stmt EXCEPT ![s].tbl = t]
        BY <3>2
      <4>2. stmt[s] \in Statement /\ stmt[s].op = "drop_index"
        BY <2>2, AtOp, LabelSets DEF DropIndexFind, CatalogLock, At, Ops, TypeOK
      <4>3. stmt' = [stmt EXCEPT ![s] = [stmt[s] EXCEPT !.tbl = t]]
        BY <4>1
      <4>4. [stmt[s] EXCEPT !.tbl = t].op = "drop_index"
        BY <4>2 DEF Statement
      <4> QED
        BY <4>3, <4>4 DEF NoDrops, TypeOK, ControlType
    <3> QED
      BY <2>2, <3>1, <3>2 DEF DropIndexFind
  <2>3. CASE ~DropIndexFind(s)
    BY <1>1, <1>3, <2>3, StatementKept
  <2> QED
    BY <2>2, <2>3
<1> QED
  BY <1>1, <1>2, <1>3 DEF Next, AllDone, vars

Saving == {"insert_save", "delete_save", "update_save", "create_index_save"}

\* Only SaveTable starts where a table file is to be written.
LEMMA SaversAre ==
  ASSUME NEW s \in Sessions, Begin(s) \/ Step(s), pc[s] \in Saving
  PROVE  SaveTable(s)
<1>1. /\ \A l, h, n : ExistsCheck(s, l, h, n) => pc[s] = l
      /\ \A l, n, x : LookupTable(s, l, n, x) => pc[s] = l
  BY DEF ExistsCheck, LookupTable, CatalogLock, At
<1>2. ~(\/ CreateTableExists(s) \/ CreateDatabaseExists(s)
        \/ DropDatabaseExists(s) \/ DropTableExists(s) \/ DropIndexExists(s)
        \/ CreateIndexColumns(s) \/ InsertLookup(s) \/ DeleteLookup(s)
        \/ UpdateLookup(s) \/ UpdateAssign(s) \/ SelectLookup(s))
  BY <1>1
     DEF CreateTableExists, CreateDatabaseExists, DropDatabaseExists,
         DropTableExists, DropIndexExists, CreateIndexColumns, InsertLookup,
         DeleteLookup, UpdateLookup, UpdateAssign, SelectLookup, Saving
<1>3. ~(\/ Begin(s) \/ CreateTable(s) \/ CreateDatabase(s) \/ DropDatabase(s)
        \/ DropTable(s) \/ DropTableLog(s) \/ DropTableFile(s)
        \/ DropTableSave(s) \/ CreateIndex(s) \/ CreateIndexExists(s)
        \/ CreateIndexLog(s) \/ CreateIndexBuild(s) \/ DropIndex(s)
        \/ DropIndexFind(s) \/ DropIndexLog(s) \/ DropIndexData(s)
        \/ SaveCatalog(s) \/ LockError(s))
  BY DEF Begin, CreateTable, CreateDatabase, DropDatabase, DropTable,
         DropTableLog, DropTableFile, DropTableSave, CreateIndex,
         CreateIndexExists, CreateIndexLog, CreateIndexBuild, DropIndex,
         DropIndexFind, DropIndexLog, DropIndexData, SaveCatalog, LockError,
         CatalogLockSteps, CatalogLock, At, Saving
<1>4. ~(\/ InsertFill(s) \/ InsertLog(s) \/ InsertStore(s)
        \/ InsertIndexes(s) \/ InsertIndex(s) \/ DeleteApply(s)
        \/ UpdateApply(s) \/ SelectRead(s))
  BY DEF InsertFill, InsertLog, InsertStore, InsertIndexes, InsertIndex,
         DeleteApply, UpdateApply, SelectRead, CatalogLock, At, Saving
<1> QED
  BY <1>2, <1>3, <1>4 DEF Step, DdlStep, DmlStep

\* The steps that change rows change neither a statement nor a table file.
LEMMA ApplyKeeps ==
  ASSUME TypeOK, NEW s \in Sessions, Begin(s) \/ Step(s),
         pc[s] \in {"insert_store", "delete_apply", "update_apply"}
  PROVE  UNCHANGED stmt /\ disk'.tables = disk.tables
<1>1. ~Begin(s) /\ ~DropIndexFind(s) /\ ~SaveTable(s) /\ ~DropTableFile(s)
  BY DEF Begin, DropIndexFind, SaveTable, DropTableFile, CatalogLock, At
<1> QED
  BY <1>1, StatementKept, TableFileSteps

\* A step changes the rows of a table only if it goes on to write its file.
LEMMA RowsChangedAreSaved ==
  ASSUME TypeOK, NoDrops, NEW s \in Sessions, Begin(s) \/ Step(s),
         NEW t \in DOMAIN storage'.tables
  PROVE  \/ t \in DOMAIN storage.tables /\ storage'.tables[t] = storage.tables[t]
         \/ stmt[s].tbl = t /\ pc'[s] \in Saving /\ UNCHANGED stmt
              /\ disk'.tables = disk.tables
<1>1. StorageType(storage) /\ pc \in [Sessions -> Label]
  BY DEF TypeOK, SharedType, ControlType
<1>2. CASE RowsUnchanged
  BY <1>2 DEF RowsUnchanged
<1>3. ~DropsRows(s)
  BY AtOp, LabelSets DEF DropsRows, At, NoDrops, TypeOK, Ops
<1>4. CASE InsertsRows(s) \/ DeletesRows(s) \/ UpdatesRows(s)
  <2>1. pc'[s] \in Saving
    BY <1>1, <1>4 DEF InsertsRows, DeletesRows, UpdatesRows, Goto, Saving
  <2>2. t # stmt[s].tbl =>
          t \in DOMAIN storage.tables /\ storage'.tables[t] = storage.tables[t]
    <3>1. CASE InsertsRows(s)
      BY <1>1, <3>1 DEF InsertsRows, insert_new_rows, put, StorageType
    <3>2. CASE DeletesRows(s) \/ UpdatesRows(s)
      BY <1>1, <3>2 DEF DeletesRows, UpdatesRows, StorageType
    <3> QED
      BY <1>4, <3>1, <3>2
  <2>3. pc[s] \in {"insert_store", "delete_apply", "update_apply"}
    BY <1>4 DEF InsertsRows, DeletesRows, UpdatesRows, At
  <2>4. UNCHANGED stmt /\ disk'.tables = disk.tables
    BY <2>3, ApplyKeeps
  <2> QED
    BY <2>1, <2>2, <2>4
<1> QED
  BY <1>2, <1>3, <1>4, RowsSteps

\* Every step leaves the table files current, or a writer on its way.
LEMMA NextTableFile ==
  ASSUME TypeOK, NoDrops, TableFileCurrent, [Next]_vars
  PROVE  TableFileCurrent'
<1>1. CASE UNCHANGED vars
  BY <1>1 DEF vars, TableFileCurrent
<1>2. ASSUME NEW s \in Sessions, Begin(s) \/ Step(s),
             NEW t \in DOMAIN storage'.tables
      PROVE  \/ disk'.tables[t] = rows_vec(storage'.tables[t])
             \/ \E u \in Sessions : pc'[u] \in Saving /\ stmt'[u].tbl = t
  <2>1. Frame(s)
    BY <1>2, FrameOfStep
  <2>2. /\ pc' = [pc EXCEPT ![s] = pc'[s]]
        /\ pc \in [Sessions -> Label]
        /\ \A u \in Sessions \ {s} : stmt'[u] = stmt[u]
    BY <2>1 DEF Frame, Goto, TypeOK, ControlType
  <2>3. CASE stmt[s].tbl = t /\ pc'[s] \in Saving /\ UNCHANGED stmt
    BY <2>3
  <2>4. CASE t \in DOMAIN storage.tables /\ storage'.tables[t] = storage.tables[t]
    <3>1. CASE SaveTable(s) /\ stmt[s].tbl = t
      BY <2>4, <3>1
         DEF SaveTable, save_table_data, TypeOK, SharedType, DiskType,
             StorageType
    <3>2. CASE ~(SaveTable(s) /\ stmt[s].tbl = t)
      <4>1. disk'.tables[t] = disk.tables[t]
        <5>1. ~DropTableFile(s)
          BY AtOp, LabelSets DEF DropTableFile, At, NoDrops, TypeOK, Ops
        <5>2. CASE SaveTable(s)
          BY <3>2, <5>2
             DEF SaveTable, save_table_data, TypeOK, SharedType, DiskType
        <5> QED
          BY <1>2, <5>1, <5>2, TableFileSteps
      <4>2. ASSUME NEW u \in Sessions, pc[u] \in Saving, stmt[u].tbl = t
            PROVE  pc'[u] \in Saving /\ stmt'[u].tbl = t
        <5>1. u # s
          BY <1>2, <3>2, <4>2, SaversAre
        <5> QED
          BY <2>2, <4>2, <5>1
      <4> QED
        BY <2>4, <4>1, <4>2 DEF TableFileCurrent, Saving
    <3> QED
      BY <3>1, <3>2
  <2> QED
    BY <1>2, <2>3, <2>4, RowsChangedAreSaved
<1> QED
  BY <1>1, <1>2 DEF Next, AllDone, TableFileCurrent, Saving

\* Where no statement drops a table, a table file is behind the memory only
\* while a statement on that table is on its way to write it.
THEOREM TableFilesStayCurrent == NeverDropped => (Spec => []TableFileCurrent)
<1>1. SUFFICES ASSUME NeverDropped PROVE Spec => []TableFileCurrent
  OBVIOUS
<1>2. Init => NoDrops /\ TableFileCurrent
  <2> SUFFICES ASSUME Init PROVE NoDrops /\ TableFileCurrent
    OBVIOUS
  <2>1. NoDrops
    BY <1>1, ExecutorAssumption DEF Init, NoDrops, NeverDropped
  <2>2. DOMAIN storage.tables = {}
    <3>1. StorageType(new_storage) /\ DOMAIN new_storage.tables = {}
      BY NewStorageType DEF new_storage, EmptyMap
    <3> QED
      BY <3>1, RebuildIndexesType, ExecutorAssumption DEF Init
  <2> QED
    BY <2>1, <2>2 DEF TableFileCurrent
<1>3. TypeOK /\ NoDrops /\ [Next]_vars => NoDrops'
  BY <1>1, NextNoDrops
<1>4. TypeOK /\ NoDrops /\ TableFileCurrent /\ [Next]_vars => TableFileCurrent'
  BY NextTableFile
<1> QED
  BY <1>2, <1>3, <1>4, TypeCorrect, PTL DEF Spec
=============================================================================
