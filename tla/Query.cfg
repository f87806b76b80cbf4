CONSTANTS
  Columns <- MCColumns
  Rows <- MCRows
  Queries <- MCQueries
  Indexes <- MCIndexes
  MaxRows = 3
SPECIFICATION Spec
INVARIANTS IndexExact SelectRight IndexTransparent SortedByKeys PagesFit
CHECK_DEADLOCK FALSE
