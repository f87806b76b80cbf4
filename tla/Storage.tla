------------------------------- MODULE Storage -------------------------------
(***************************************************************************)
(* The row store (src/src/engine/storage.rs) and the index data it holds   *)
(* (src/src/engine/index.rs).  Everything is keyed by the table name and   *)
(* never by the database: two databases with a table of the same name      *)
(* share its rows, its row ids and its index data.                         *)
(*                                                                         *)
(* Rows.  A stored row maps every column to a value; a BTreeMap<u64, Row>  *)
(* is a function from row ids to rows.                                     *)
(*                                                                         *)
(* Index data.  The map from a key to the vector of row ids under it is a  *)
(* bag of <<key, id>> pairs.  It is a bag and not a set because insert     *)
(* pushes without looking: a row id may come to stand twice under a key.   *)
(***************************************************************************)
EXTENDS Types, Sequences, Bags, FiniteSetsExt

\* m is a BTreeMap<u64, Row>
IsRowMap(m) == /\ m = [id \in DOMAIN m |-> m[id]]
               /\ DOMAIN m \subseteq RowId
               /\ IsFiniteSet(DOMAIN m)
               /\ \A id \in DOMAIN m : m[id] \in Row

\* A Vec<Row> of rows that have their ids, no two the same
RowVec == {R \in SUBSET (RowId \X Row) :
             IsFiniteSet(R) /\ \A p, q \in R : p[1] = q[1] => p = q}

\* b is the content of an IndexData
IsIndexData(b) == /\ b = [e \in DOMAIN b |-> b[e]]
                  /\ \A e \in DOMAIN b : b[e] \in Nat \ {0}

\* The key of index_data: "table:index"
IndexKey == Tables \X IndexNames

\* A table has an entry in tables from its first insertion to the DROP
\* TABLE; one without an entry in next_ids reads as 1 (or_insert(1)).
StorageType(s) ==
  /\ DOMAIN s = {"tables", "next_ids", "index_data"}
  /\ s.tables = [t \in DOMAIN s.tables |-> s.tables[t]]
  /\ DOMAIN s.tables \subseteq Tables
  /\ \A t \in DOMAIN s.tables : IsRowMap(s.tables[t])
  /\ s.next_ids \in [Tables -> Nat \ {0}]
  /\ s.index_data = [k \in DOMAIN s.index_data |-> s.index_data[k]]
  /\ DOMAIN s.index_data \subseteq IndexKey
  /\ \A k \in DOMAIN s.index_data : IsIndexData(s.index_data[k])

EmptyMap == [x \in {} |-> x]

\* new where it has a key, old elsewhere (@@ with its definition at hand, which
\* proofs need)
over(new, old) == [k \in DOMAIN new \cup DOMAIN old |->
                     IF k \in DOMAIN new THEN new[k] ELSE old[k]]

put(map, key, val) == [k \in DOMAIN map \cup {key} |->
                         IF k = key THEN val ELSE map[k]]

\* Storage::new
new_storage == [tables     |-> EmptyMap,
                next_ids   |-> [t \in Tables |-> 1],
                index_data |-> EmptyMap]

\* A Vec<Row> whose rows have their ids: what a table file and a snapshot
\* in the log hold.
rows_vec(m) == {<<id, m[id]>> : id \in DOMAIN m}

\* The rows of a table, none when it has no entry (get_rows, unwrap_or_default).
rows_of(s, t) == IF t \in DOMAIN s.tables THEN s.tables[t] ELSE EmptyMap

-----------------------------------------------------------------------------
(* insert_rows.  Rows that come with id 0 are numbered from next_ids; rows  *)
(* that bring an id keep it, replace a row that has it, and push next_ids   *)
(* past it.                                                                 *)

\* The ids insert_rows gives to n new rows
new_ids(s, t, n) == s.next_ids[t] .. (s.next_ids[t] + n - 1)

\* next_ids is not moved on.
insert_new_rows_IdsNotTaken(s, t, rows) ==
  LET base == s.next_ids[t]
      new  == [id \in new_ids(s, t, Len(rows)) |-> rows[id - base + 1]]
  IN  [s EXCEPT !.tables = put(@, t, over(new, rows_of(s, t)))]

insert_new_rows(s, t, rows) ==
  LET base == s.next_ids[t]
      new  == [id \in new_ids(s, t, Len(rows)) |-> rows[id - base + 1]]
  IN  [s EXCEPT !.tables      = put(@, t, over(new, rows_of(s, t))),
                !.next_ids[t] = @ + Len(rows)]

insert_rows_with_ids(s, t, R) ==
  LET m == [id \in {r[1] : r \in R} |-> (CHOOSE r \in R : r[1] = id)[2]]
  IN  [s EXCEPT !.tables      = put(@, t, over(m, rows_of(s, t))),
                !.next_ids[t] = Max({@} \cup {r[1] + 1 : r \in R})]

clear_table(s, t) ==
  [s EXCEPT !.tables      = [u \in DOMAIN @ \ {t} |-> @[u]],
            !.next_ids[t] = 1,
            !.index_data  = [k \in {j \in DOMAIN @ : j[1] # t} |-> @[k]]]

-----------------------------------------------------------------------------
(* Index keys and index data.                                               *)

\* get_index_key: the indexed columns of the row.
index_key(row, def) == [c \in def.cols |-> row[c]]

\* IndexData::insert of a set of <<key, id>> entries
index_insert(b, E) == b (+) SetToBag(E)

\* An emptied key keeps its place in the map.
index_delete_KeepsKey(b, E) ==
  [e \in DOMAIN b |-> IF e \in E THEN 0 ELSE b[e]]

\* IndexData::delete: retain(|id| *id != row_id), so every copy goes.
index_delete(b, E) == [e \in DOMAIN b \ E |-> b[e]]

\* IndexData::lookup_eq: the ids under the key, with their multiplicity.
lookup_eq(b, key) ==
  [id \in {e[2] : e \in {x \in DOMAIN b : x[1] = key}} |-> b[<<key, id>>]]

index_data_of(s, t, def) ==
  IF <<t, def.name>> \in DOMAIN s.index_data
  THEN s.index_data[<<t, def.name>>]
  ELSE EmptyBag

\* The entry of row id of the rows m.  A row that is gone has no values
\* (unwrap_or_default), so every column of its key reads NULL.
entry_of(m, id, def) ==
  <<IF id \in DOMAIN m THEN index_key(m[id], def)
                       ELSE [c \in def.cols |-> Null], id>>

entries(m, ids, def) == {entry_of(m, id, def) : id \in ids}

index_keys(t, defs) == {<<t, def.name>> : def \in defs}

def_named(defs, name) == CHOOSE def \in defs : def.name = name

\* insert_into_indexes_raw for the rows ids of m: an index without data gets
\* an empty one first (or_insert_with).
insert_into_indexes(s, t, defs, m, ids) ==
  [s EXCEPT !.index_data =
     [k \in DOMAIN @ \cup index_keys(t, defs) |->
        IF k \in index_keys(t, defs)
        THEN LET def == def_named(defs, k[2])
             IN  index_insert(index_data_of(s, t, def), entries(m, ids, def))
        ELSE @[k]]]

\* delete_from_indexes_raw: an index without data is left alone.
delete_from_indexes(s, t, defs, m, ids) ==
  [s EXCEPT !.index_data =
     [k \in DOMAIN @ |->
        IF k \in index_keys(t, defs)
        THEN index_delete(@[k], entries(m, ids, def_named(defs, k[2])))
        ELSE @[k]]]

remove_index_data(s, key) ==
  [s EXCEPT !.index_data = [k \in DOMAIN @ \ {key} |-> @[k]]]

-----------------------------------------------------------------------------
(* WHERE clauses, as far as indexes tell them apart: none, or column =     *)
(* constant (the only form an index can serve).  A NULL equals nothing.    *)

NoWhere == [col |-> "none", val |-> 0]

Selection == {NoWhere} \cup [col : Columns, val : Value]

matches(row, sel) ==
  \/ sel = NoWhere
  \/ sel.val # Null /\ row[sel.col] = sel.val

\* The SET of an UPDATE
assign(row, set) ==
  [c \in Columns |-> IF set[c] = Absent THEN row[c] ELSE set[c]]

matching_ids(m, sel) == {id \in DOMAIN m : matches(m[id], sel)}

\* try_index_lookup: an index serves the clause when it is on that column
\* alone and has data.
serves(s, t, def, sel) ==
  /\ sel # NoWhere
  /\ def.cols = {sel.col}
  /\ <<t, def.name>> \in DOMAIN s.index_data

\* The rows an indexed SELECT returns: the ids found under the key that
\* still have a row, filtered again by the clause.
indexed_read(s, t, def, sel) ==
  LET m     == rows_of(s, t)
      found == lookup_eq(s.index_data[<<t, def.name>>],
                         [c \in {sel.col} |-> sel.val])
  IN  [id \in DOMAIN found \cap matching_ids(m, sel) |-> found[id]]

\* The rows a scan returns
scan_read(s, t, sel) == SetToBag(matching_ids(rows_of(s, t), sel))
=============================================================================
