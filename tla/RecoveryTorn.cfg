CONSTANTS
  s1 = s1
  s2 = s2
  srrdb = srrdb
  t1 = t1
  t2 = t2
  i1 = i1
  Null = Null
  NoFile = NoFile
  Absent = Absent
  Sessions <- OneSession
  DBs = {srrdb}
  DefaultDb = srrdb
  Tables = {t1}
  IndexNames = {i1}
  Columns <- MCColumns
  AutoCol = "id"
  DefaultOf <- MCDefaultOf
  Menu <- EveryMenu
  MaxStatements = 4
  MaxCrashes = 2
  TornEntries <- MCTornEntries
  InitCatalog <- TableCatalog
  InitWal <- TableWal
SPECIFICATION RecoverySpec
INVARIANTS KeptBeforeTear
PROPERTIES CrashKeepsContents
