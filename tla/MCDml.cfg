CONSTANTS
  s1 = s1
  s2 = s2
  srrdb = srrdb
  t1 = t1
  i1 = i1
  Null = Null
  NoFile = NoFile
  Absent = Absent
  Sessions <- MCSessions
  DBs = {srrdb}
  DefaultDb = srrdb
  Tables = {t1}
  IndexNames = {i1}
  Columns <- MCColumns
  AutoCol = "id"
  DefaultOf <- MCDefaultOf
  Menu <- MCMenu
  MaxStatements = 4
  InitCatalog <- MCInitCatalog
  InitWal <- MCInitWal
SPECIFICATION Spec
INVARIANTS TypeOK IndexComplete IndexSound TableFileCurrent
PROPERTIES SelectComplete RowsKept AutoValueFresh
