-------------------------------- MODULE Types --------------------------------
(***************************************************************************)
(* The names and values srrdb works with (src/src/engine/types.rs,         *)
(* src/src/engine/index.rs).                                               *)
(*                                                                         *)
(* Names are lower-cased by the code before every lookup, so a name is a   *)
(* member of a set.  Every table has the same columns.                     *)
(***************************************************************************)
EXTENDS Integers, FiniteSets

CONSTANTS
  DBs,          \* database names
  DefaultDb,    \* "srrdb", the database every server starts with
  Tables,       \* table names
  IndexNames,   \* index names
  Columns,      \* the columns of a table
  Null,         \* SQL NULL
  Absent        \* no value: a row or an assignment leaves the column out

ASSUME TypesAssumption ==
  /\ DefaultDb \in DBs
  /\ IsFiniteSet(Columns)
  /\ Null \notin Nat
  /\ Absent \notin Nat \cup {Null}

\* Values are the integers and NULL; nothing here depends on the other types.
Value == Nat \cup {Null}
Row   == [Columns -> Value]
RowId == Nat \ {0}

\* A row as a statement writes it.  A row of an INSERT with a column list has
\* every column (NULL where it gives none); one without may be shorter than
\* the table.  The SET of an UPDATE leaves out the columns it keeps.
PartialRow == [Columns -> Value \cup {Absent}]

(***************************************************************************)
(* IndexDef keeps the indexed columns as a set: a lookup succeeds or fails *)
(* the same way whatever their order.  The index type (B-tree or hash)     *)
(* does not change what an equality lookup returns and is left out.        *)
(***************************************************************************)
IndexDef ==
  [name : IndexNames, cols : (SUBSET Columns) \ {{}}, unique : BOOLEAN]
=============================================================================
