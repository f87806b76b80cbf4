CONSTANTS
  Columns <- MCColumns
  Rows <- MCRows
  Queries <- MCQueries
  Indexes <- MCIndexes
  MaxRows = 2
SPECIFICATION Spec
INVARIANT ConnectivesSupported
CHECK_DEADLOCK FALSE
