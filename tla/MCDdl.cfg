CONSTANTS
  s1 = s1
  s2 = s2
  srrdb = srrdb
  d2 = d2
  t1 = t1
  i1 = i1
  Null = Null
  NoFile = NoFile
  Absent = Absent
  Sessions <- MCSessions
  DBs = {srrdb, d2}
  DefaultDb = srrdb
  Tables = {t1}
  IndexNames = {i1}
  Columns <- MCColumns
  AutoCol = "none"
  DefaultOf <- MCDefaultOf
  Menu <- MCMenu
  MaxStatements = 4
  InitCatalog <- MCInitCatalog
  InitWal <- MCInitWal
SPECIFICATION FairSpec
INVARIANTS CatalogWellFormed CatalogFileCurrent NoFileOutlivesTable
PROPERTIES RowsHaveTable EveryStatementReturns
