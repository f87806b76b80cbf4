CONSTANTS
  s1 = s1
  s2 = s2
  srrdb = srrdb
  t1 = t1
  t2 = t2
  i1 = i1
  Null = Null
  NoFile = NoFile
  Absent = Absent
  Sessions <- TwoSessions
  DBs = {srrdb}
  DefaultDb = srrdb
  Tables = {t1, t2}
  IndexNames = {i1}
  Columns <- MCColumns
  AutoCol = "id"
  DefaultOf <- MCDefaultOf
  Menu <- InsertMenu
  MaxStatements = 4
  MaxCrashes = 1
  TornEntries = {}
  InitCatalog <- IndexCatalog
  InitWal <- IndexWal
SPECIFICATION RecoverySpec
INVARIANTS DurableAtRest IndexComplete WritersInv
PROPERTIES ImplementsDurableStore
