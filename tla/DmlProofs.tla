------------------------------ MODULE DmlProofs ------------------------------
(***************************************************************************)
(* Sessions that INSERT, UPDATE, DELETE and SELECT keep the indexes right: *)
(* no row is under a key it does not have, none is missing but those an    *)
(* INSERT is still to enter, and so a SELECT through an index returns what *)
(* a scan would.  The AUTO_INCREMENT sequence of a table is ahead of every *)
(* value it gave, in the rows stored and in the rows still on their way    *)
(* there, and so no value is given twice.                                  *)
(***************************************************************************)
EXTENDS SafetyProofs

\* The entries an index holds, however often each
entries_in(st, t, def) == DOMAIN index_data_of(st, t, def)

UniqueNames(defs) == \A d, e \in defs : d.name = e.name => d = e

\* Every index of the table has data.
HasData(st, t, defs) == index_keys(t, defs) \subseteq DOMAIN st.index_data

\* IndexSound for one table, and an entry is a key with a row id
TableSound(st, t, defs) ==
  \A def \in defs : \A e \in entries_in(st, t, def) :
    /\ e = <<e[1], e[2]>>
    /\ e[2] \in Nat /\ e[2] < st.next_ids[t]
    /\ e[2] \in DOMAIN rows_of(st, t) =>
         e[1] = index_key(rows_of(st, t)[e[2]], def)

\* IndexComplete for one table whose rows P are still to be entered
TableComplete(st, t, defs, P) ==
  \A def \in defs : \A id \in DOMAIN rows_of(st, t) :
    \/ id \in P
    \/ <<index_key(rows_of(st, t)[id], def), id>> \in entries_in(st, t, def)

Indexed(st, t, defs, P) ==
  HasData(st, t, defs) /\ TableSound(st, t, defs) /\ TableComplete(st, t, defs, P)

\* A table keeps its rows, its row ids and its index entries.
SameTable(st, r, t) ==
  /\ rows_of(r, t) = rows_of(st, t)
  /\ r.next_ids[t] = st.next_ids[t]
  /\ \A def : entries_in(r, t, def) = entries_in(st, t, def)
  /\ DOMAIN st.index_data \subseteq DOMAIN r.index_data

-----------------------------------------------------------------------------
(* What the operations on index data do to the entries.                     *)

\* IndexData::insert adds entries, IndexData::delete takes them out.
LEMMA EntriesChange ==
  ASSUME NEW b, NEW E
  PROVE  /\ DOMAIN index_insert(b, E) = DOMAIN b \cup E
         /\ DOMAIN index_delete(b, E) = DOMAIN b \ E
  BY DEF index_insert, index_delete, SetToBag, (+)

\* An index definition is found by its name.
LEMMA DefNamed ==
  ASSUME NEW defs, UniqueNames(defs), NEW def \in defs
  PROVE  def_named(defs, def.name) = def
  BY DEF def_named, UniqueNames

\* An index key is of the table.
LEMMA KeyOfTable ==
  ASSUME NEW t, NEW defs, NEW u, NEW def
  PROVE  /\ def \in defs => <<t, def.name>> \in index_keys(t, defs)
         /\ u # t => <<u, def.name>> \notin index_keys(t, defs)
         /\ \A k \in index_keys(t, defs) : k[1] = t
  BY DEF index_keys

\* insert_into_indexes_raw adds one entry per row to every index of the table
\* and changes no other index.
LEMMA InsertEntries ==
  ASSUME NEW st, StorageType(st), NEW t, NEW defs, UniqueNames(defs),
         NEW m, NEW I,
         NEW r, r = insert_into_indexes(st, t, defs, m, I)
  PROVE  /\ \A def \in defs : entries_in(r, t, def) =
                                entries_in(st, t, def) \cup entries(m, I, def)
         /\ \A u, def : u # t => entries_in(r, u, def) = entries_in(st, u, def)
         /\ DOMAIN st.index_data \subseteq DOMAIN r.index_data
<1> DEFINE keys == index_keys(t, defs)
           added(k) == LET def == def_named(defs, k[2])
                       IN  index_insert(index_data_of(st, t, def),
                                        entries(m, I, def))
<1>1. r.index_data = [k \in DOMAIN st.index_data \cup keys |->
                        IF k \in keys THEN added(k) ELSE st.index_data[k]]
  BY DEF insert_into_indexes, StorageType
<1>2. ASSUME NEW def \in defs
      PROVE  entries_in(r, t, def) =
               entries_in(st, t, def) \cup entries(m, I, def)
  <2>1. <<t, def.name>> \in keys
    BY KeyOfTable
  <2>2. added(<<t, def.name>>) = index_insert(index_data_of(st, t, def),
                                              entries(m, I, def))
    BY DefNamed
  <2> HIDE DEF keys, added
  <2>3. index_data_of(r, t, def) = added(<<t, def.name>>)
    BY <1>1, <2>1 DEF index_data_of
  <2>4. DOMAIN index_insert(index_data_of(st, t, def), entries(m, I, def)) =
          entries_in(st, t, def) \cup entries(m, I, def)
    BY EntriesChange DEF entries_in
  <2> QED
    BY <2>2, <2>3, <2>4, Zenon DEF entries_in
<1>3. ASSUME NEW u, NEW def, u # t
      PROVE  index_data_of(r, u, def) = index_data_of(st, u, def)
  <2>1. <<u, def.name>> \notin keys
    BY <1>3, KeyOfTable
  <2> HIDE DEF keys, added
  <2> QED
    BY <1>1, <2>1 DEF index_data_of
<1> QED
  BY <1>1, <1>2, <1>3 DEF entries_in

\* delete_from_indexes_raw takes one entry per row out of every index of the
\* table and changes no other index.
LEMMA DeleteEntries ==
  ASSUME NEW st, StorageType(st), NEW t, NEW defs, UniqueNames(defs),
         NEW m, NEW I,
         NEW r, r = delete_from_indexes(st, t, defs, m, I)
  PROVE  /\ \A def \in defs : entries_in(r, t, def) =
                                entries_in(st, t, def) \ entries(m, I, def)
         /\ \A u, def : u # t => entries_in(r, u, def) = entries_in(st, u, def)
         /\ DOMAIN r.index_data = DOMAIN st.index_data
<1> DEFINE keys == index_keys(t, defs)
           less(k) == index_delete(st.index_data[k],
                                   entries(m, I, def_named(defs, k[2])))
<1>1. r.index_data = [k \in DOMAIN st.index_data |->
                        IF k \in keys THEN less(k) ELSE st.index_data[k]]
  BY DEF delete_from_indexes, StorageType
<1>2. ASSUME NEW def \in defs
      PROVE  entries_in(r, t, def) =
               entries_in(st, t, def) \ entries(m, I, def)
  <2> DEFINE k == <<t, def.name>>
  <2>1. k \in keys
    BY KeyOfTable
  <2>2. less(k) = index_delete(st.index_data[k], entries(m, I, def))
    BY DefNamed
  <2> HIDE DEF keys, less
  <2>3. CASE k \in DOMAIN st.index_data
    <3>1. index_data_of(r, t, def) = less(k)
      BY <1>1, <2>1, <2>3 DEF index_data_of
    <3>2. index_data_of(st, t, def) = st.index_data[k]
      BY <2>3 DEF index_data_of
    <3> DEFINE b == st.index_data[k]
               E == entries(m, I, def)
    <3>3. entries_in(r, t, def) = DOMAIN index_delete(b, E)
      BY <2>2, <3>1 DEF entries_in
    <3>4. entries_in(st, t, def) = DOMAIN b
      BY <3>2 DEF entries_in
    <3> HIDE DEF b
    <3> QED
      BY <3>3, <3>4, EntriesChange
  <2>4. CASE k \notin DOMAIN st.index_data
    <3>1. /\ index_data_of(r, t, def) = EmptyBag
          /\ index_data_of(st, t, def) = EmptyBag
      BY <1>1, <2>4 DEF index_data_of
    <3>2. DOMAIN EmptyBag = {}
      BY DEF EmptyBag, SetToBag
    <3> QED
      BY <3>1, <3>2 DEF entries_in
  <2> QED
    BY <2>3, <2>4
<1>3. ASSUME NEW u, NEW def, u # t
      PROVE  index_data_of(r, u, def) = index_data_of(st, u, def)
  <2>1. <<u, def.name>> \notin keys
    BY <1>3, KeyOfTable
  <2> HIDE DEF keys, less
  <2> QED
    BY <1>1, <2>1 DEF index_data_of
<1> QED
  BY <1>1, <1>2, <1>3 DEF entries_in

-----------------------------------------------------------------------------
(* What the statements do to one table and its indexes.                     *)

\* Nothing else matters to a table and its indexes.
LEMMA SameTableIndexed ==
  ASSUME NEW st, NEW r, NEW t, SameTable(st, r, t), NEW defs, NEW P, NEW Q,
         P \subseteq Q, Indexed(st, t, defs, P)
  PROVE  Indexed(r, t, defs, Q)
  BY DEF SameTable, Indexed, HasData, TableSound, TableComplete

\* Row ids are numbers.
LEMMA RowIdsOf ==
  ASSUME NEW st, StorageType(st), NEW t, NEW id \in DOMAIN rows_of(st, t)
  PROVE  id \in Nat
  BY RowsOfType DEF IsRowMap, RowId

\* insert_rows: the rows stored are still to be entered in the indexes.
LEMMA InsertRowsIndexed ==
  ASSUME NEW st, StorageType(st), NEW t \in Tables, NEW rs \in Seq(Row),
         \A id \in DOMAIN rows_of(st, t) : id < st.next_ids[t],
         NEW defs, NEW P, Indexed(st, t, defs, P),
         NEW r, r = insert_new_rows(st, t, rs)
  PROVE  /\ Indexed(r, t, defs, P \cup new_ids(st, t, Len(rs)))
         /\ \A u \in Tables : u # t => SameTable(st, r, u)
<1> DEFINE new == new_ids(st, t, Len(rs))
<1>1. /\ r.index_data = st.index_data
      /\ r.next_ids = [st.next_ids EXCEPT ![t] = @ + Len(rs)]
      /\ DOMAIN r.tables = DOMAIN st.tables \cup {t}
      /\ \A u \in DOMAIN st.tables : u # t => r.tables[u] = st.tables[u]
      /\ DOMAIN r.tables[t] = DOMAIN rows_of(st, t) \cup new
      /\ \A id \in DOMAIN rows_of(st, t) :
           id < st.next_ids[t] => r.tables[t][id] = rows_of(st, t)[id]
  BY InsertNewRows
<1>2. st.next_ids \in [Tables -> Nat \ {0}] /\ Len(rs) \in Nat
  BY DEF StorageType
<1>3. /\ r.next_ids[t] = st.next_ids[t] + Len(rs)
      /\ st.next_ids[t] \in Nat
      /\ \A u \in Tables : u # t => r.next_ids[u] = st.next_ids[u]
  BY <1>1, <1>2
<1>4. \A id \in new : ~(id < st.next_ids[t])
  BY <1>2, <1>3 DEF new_ids
<1>5. \A u, def : entries_in(r, u, def) = entries_in(st, u, def)
  BY <1>1 DEF entries_in, index_data_of
<1>6. \A u \in Tables : u # t => SameTable(st, r, u)
  BY <1>1, <1>3, <1>5 DEF SameTable, rows_of
<1>7. rows_of(r, t) = r.tables[t]
  BY <1>1 DEF rows_of
<1> HIDE DEF new
<1>8. HasData(r, t, defs)
  BY <1>1 DEF Indexed, HasData
<1>9. TableSound(r, t, defs)
  <2>1. SUFFICES ASSUME NEW def \in defs, NEW e \in entries_in(st, t, def)
                 PROVE  /\ e = <<e[1], e[2]>>
                        /\ e[2] \in Nat /\ e[2] < r.next_ids[t]
                        /\ e[2] \in DOMAIN r.tables[t] =>
                             e[1] = index_key(r.tables[t][e[2]], def)
    BY <1>5, <1>7 DEF TableSound
  <2>2. /\ e = <<e[1], e[2]>>
        /\ e[2] \in Nat /\ e[2] < st.next_ids[t]
        /\ e[2] \in DOMAIN rows_of(st, t) =>
             e[1] = index_key(rows_of(st, t)[e[2]], def)
    BY DEF Indexed, TableSound
  <2>3. e[2] < r.next_ids[t]
    BY <1>2, <1>3, <2>2
  <2> QED
    BY <1>1, <1>4, <2>2, <2>3
<1>10. TableComplete(r, t, defs, P \cup new)
  BY <1>1, <1>5, <1>7 DEF Indexed, TableComplete
<1> QED
  BY <1>6, <1>8, <1>9, <1>10 DEF Indexed, new

\* insert_into_indexes_raw on the rows as they are now: the ids I, whether
\* their rows are still there or not, are entered.
LEMMA EnterRowsIndexed ==
  ASSUME NEW st, StorageType(st), NEW t \in Tables,
         NEW defs \in SUBSET IndexDef, UniqueNames(defs), NEW P,
         Indexed(st, t, defs, P),
         NEW I \in SUBSET Nat, \A id \in I : id < st.next_ids[t],
         NEW r, r = insert_into_indexes(st, t, defs, rows_of(st, t), I)
  PROVE  /\ Indexed(r, t, defs, P \ I)
         /\ \A u \in Tables : u # t => SameTable(st, r, u)
<1> DEFINE m == rows_of(st, t)
<1>1. /\ r.tables = st.tables
      /\ r.next_ids = st.next_ids
  BY InsertIntoIndexes
<1>2. /\ \A def \in defs : entries_in(r, t, def) =
                             entries_in(st, t, def) \cup entries(m, I, def)
      /\ \A u, def : u # t => entries_in(r, u, def) = entries_in(st, u, def)
      /\ DOMAIN st.index_data \subseteq DOMAIN r.index_data
  <2>1. r = insert_into_indexes(st, t, defs, m, I)
    OBVIOUS
  <2> HIDE DEF m
  <2> QED
    BY <2>1, InsertEntries
<1>3. \A u : rows_of(r, u) = rows_of(st, u)
  BY <1>1 DEF rows_of
<1>4. \A u \in Tables : u # t => SameTable(st, r, u)
  BY <1>1, <1>2, <1>3 DEF SameTable
<1> HIDE DEF m
<1>5. ASSUME NEW def \in defs, NEW id \in I
      PROVE  LET e == entry_of(m, id, def)
             IN  /\ e = <<e[1], e[2]>>
                 /\ e[2] = id
                 /\ id \in DOMAIN m => e = <<index_key(m[id], def), id>>
  BY DEF entry_of
<1>6. TableSound(r, t, defs)
  <2>1. SUFFICES ASSUME NEW def \in defs, NEW e \in entries_in(r, t, def)
                 PROVE  /\ e = <<e[1], e[2]>>
                        /\ e[2] \in Nat /\ e[2] < st.next_ids[t]
                        /\ e[2] \in DOMAIN m => e[1] = index_key(m[e[2]], def)
    BY <1>1, <1>3 DEF TableSound, m
  <2>2. CASE e \in entries_in(st, t, def)
    BY <2>2 DEF Indexed, TableSound, m
  <2>3. CASE e \in entries(m, I, def)
    <3>1. PICK id \in I : e = entry_of(m, id, def)
      BY <2>3 DEF entries
    <3> QED
      BY <1>5, <3>1
  <2> QED
    BY <1>2, <2>2, <2>3
<1>7. TableComplete(r, t, defs, P \ I)
  <2>1. SUFFICES ASSUME NEW def \in defs, NEW id \in DOMAIN m, id \notin P \ I
                 PROVE  <<index_key(m[id], def), id>> \in entries_in(r, t, def)
    BY <1>3 DEF TableComplete, m
  <2>2. CASE id \in I
    <3>1. entry_of(m, id, def) \in entries(m, I, def)
      BY <2>2 DEF entries
    <3>2. entry_of(m, id, def) = <<index_key(m[id], def), id>>
      BY <2>1, <2>2 DEF entry_of
    <3> QED
      BY <1>2, <3>1, <3>2
  <2>3. CASE id \notin P
    BY <1>2, <2>3 DEF Indexed, TableComplete, m
  <2> QED
    BY <2>1, <2>2, <2>3
<1>8. HasData(r, t, defs)
  BY <1>2 DEF Indexed, HasData
<1> QED
  BY <1>4, <1>6, <1>7, <1>8 DEF Indexed

\* DELETE: the rows go with their entries.
LEMMA DeleteRowsIndexed ==
  ASSUME NEW st, StorageType(st), NEW t \in DOMAIN st.tables,
         NEW defs, UniqueNames(defs), NEW P, Indexed(st, t, defs, P),
         NEW gone \in SUBSET DOMAIN st.tables[t],
         NEW r, r = delete_rows(st, t, defs, gone)
  PROVE  /\ Indexed(r, t, defs, P)
         /\ \A u \in Tables : u # t => SameTable(st, r, u)
<1> DEFINE m    == st.tables[t]
           out  == delete_from_indexes(st, t, defs, m, gone)
           left == rows_left(m, gone)
<1>1. /\ r.tables = [st.tables EXCEPT ![t] = left]
      /\ r.next_ids = st.next_ids
  BY DeleteRows
<1>2. /\ StorageType(out)
      /\ \A def \in defs : entries_in(out, t, def) =
                             entries_in(st, t, def) \ entries(m, gone, def)
      /\ \A u, def : u # t => entries_in(out, u, def) = entries_in(st, u, def)
      /\ DOMAIN out.index_data = DOMAIN st.index_data
  BY DeleteFromIndexes, DeleteEntries
<1>3. r.index_data = out.index_data
  BY <1>2 DEF delete_rows, StorageType
<1>4. \A u, def : entries_in(r, u, def) = entries_in(out, u, def)
  BY <1>3 DEF entries_in, index_data_of
<1>5. /\ rows_of(st, t) = m /\ rows_of(r, t) = left
      /\ \A u : u # t => rows_of(r, u) = rows_of(st, u)
  BY <1>1 DEF rows_of, StorageType
<1>6. /\ DOMAIN left = DOMAIN m \ gone
      /\ \A id \in DOMAIN left : left[id] = m[id]
  BY DEF rows_left
<1> HIDE DEF m, out, left
<1>7. \A u \in Tables : u # t => SameTable(st, r, u)
  BY <1>1, <1>2, <1>3, <1>4, <1>5 DEF SameTable
<1>8. TableSound(r, t, defs)
  BY <1>1, <1>2, <1>4, <1>5, <1>6 DEF Indexed, TableSound
<1>9. TableComplete(r, t, defs, P)
  <2>1. SUFFICES ASSUME NEW def \in defs, NEW id \in DOMAIN m \ gone, id \notin P
                 PROVE  <<index_key(m[id], def), id>> \in entries_in(r, t, def)
    BY <1>5, <1>6 DEF TableComplete
  <2>2. <<index_key(m[id], def), id>> \in entries_in(st, t, def)
    BY <1>5, <2>1 DEF Indexed, TableComplete
  <2>3. <<index_key(m[id], def), id>> \notin entries(m, gone, def)
    BY <2>1 DEF entries, entry_of
  <2> QED
    BY <1>2, <1>4, <2>2, <2>3
<1>10. HasData(r, t, defs)
  BY <1>2, <1>3 DEF Indexed, HasData
<1> QED
  BY <1>7, <1>8, <1>9, <1>10 DEF Indexed

\* UPDATE: the rows change, and their entries with them.
LEMMA UpdateRowsIndexed ==
  ASSUME NEW st, StorageType(st), NEW t \in Tables, t \in DOMAIN st.tables,
         NEW defs \in SUBSET IndexDef, UniqueNames(defs), NEW P,
         Indexed(st, t, defs, P),
         \A id \in DOMAIN st.tables[t] : id < st.next_ids[t],
         NEW changed \in SUBSET DOMAIN st.tables[t], NEW set \in PartialRow,
         NEW r, r = update_rows(st, t, defs, changed, set)
  PROVE  /\ Indexed(r, t, defs, P)
         /\ \A u \in Tables : u # t => SameTable(st, r, u)
<1> DEFINE m   == st.tables[t]
           new == rows_assigned(m, changed, set)
           out == delete_from_indexes(st, t, defs, m, changed)
           mid == with_rows(out, t, new)
<1>1. CASE changed = {}
  BY <1>1 DEF update_rows, SameTable
<1>2. CASE changed # {}
  <2>1. r = insert_into_indexes(mid, t, defs, new, changed)
    BY <1>2 DEF update_rows, with_rows, rows_assigned
  <2>2. /\ r.tables = [st.tables EXCEPT ![t] = new]
        /\ r.next_ids = st.next_ids
    BY UpdateRows
  <2>3. /\ StorageType(out) /\ out.tables = st.tables
        /\ \A def \in defs : entries_in(out, t, def) =
                             entries_in(st, t, def) \ entries(m, changed, def)
        /\ \A u, def : u # t => entries_in(out, u, def) = entries_in(st, u, def)
        /\ DOMAIN out.index_data = DOMAIN st.index_data
    BY DeleteFromIndexes, DeleteEntries
  <2>4. IsRowMap(new)
    BY AssignType DEF StorageType, IsRowMap, rows_assigned
  <2>5. /\ DOMAIN new = DOMAIN m
        /\ \A id \in DOMAIN m : id \notin changed => new[id] = m[id]
    BY DEF rows_assigned
  <2> HIDE DEF out, new
  <2>6. StorageType(mid) /\ mid.index_data = out.index_data
    <3>1. StorageType(out) /\ t \in DOMAIN out.tables
      BY <2>3
    <3>2. mid = with_rows(out, t, new)
      OBVIOUS
    <3> HIDE DEF m, mid
    <3>3. /\ StorageType(mid)
          /\ mid.tables = [out.tables EXCEPT ![t] = new]
          /\ mid.next_ids = out.next_ids
          /\ mid.index_data = out.index_data
      BY <2>4, <3>1, <3>2, ReplaceRows
    <3> QED
      BY <3>3
  <2>7. \A u, def : entries_in(mid, u, def) = entries_in(out, u, def)
    BY <2>6 DEF entries_in, index_data_of
  <2> HIDE DEF mid
  <2>8. /\ \A def \in defs : entries_in(r, t, def) =
                     entries_in(mid, t, def) \cup entries(new, changed, def)
        /\ \A u, def : u # t => entries_in(r, u, def) = entries_in(mid, u, def)
        /\ DOMAIN mid.index_data \subseteq DOMAIN r.index_data
    BY <2>1, <2>6, InsertEntries
  <2>9. \A def \in defs : entries_in(r, t, def) =
          (entries_in(st, t, def) \ entries(m, changed, def))
            \cup entries(new, changed, def)
    BY <2>3, <2>7, <2>8
  <2>10. /\ rows_of(st, t) = m /\ rows_of(r, t) = new
         /\ \A u : u # t => rows_of(r, u) = rows_of(st, u)
    BY <2>2 DEF rows_of, StorageType
  <2>11. \A id \in DOMAIN m : id \in Nat
    BY <2>10, RowIdsOf
  <2>12. \A id \in DOMAIN m : id < st.next_ids[t]
    OBVIOUS
  <2>13. changed \subseteq DOMAIN m
    OBVIOUS
  <2> HIDE DEF m
  <2>14. \A u \in Tables : u # t => SameTable(st, r, u)
    BY <2>2, <2>3, <2>6, <2>7, <2>8, <2>10 DEF SameTable
  <2>15. HasData(r, t, defs)
    BY <2>3, <2>6, <2>8 DEF Indexed, HasData
  <2>16. \A def \in defs : \A id \in changed :
           /\ entry_of(m, id, def) = <<index_key(m[id], def), id>>
           /\ entry_of(new, id, def) = <<index_key(new[id], def), id>>
    BY <2>5, <2>13 DEF entry_of
  <2>17. TableSound(r, t, defs)
    <3>1. SUFFICES ASSUME NEW def \in defs, NEW e \in entries_in(r, t, def)
                   PROVE  /\ e = <<e[1], e[2]>>
                          /\ e[2] \in Nat /\ e[2] < st.next_ids[t]
                          /\ e[2] \in DOMAIN new =>
                               e[1] = index_key(new[e[2]], def)
      BY <2>2, <2>10 DEF TableSound
    <3>2. CASE e \in entries(new, changed, def)
      <4>1. PICK id \in changed : e = <<index_key(new[id], def), id>>
        BY <2>16, <3>2 DEF entries
      <4> QED
        BY <2>11, <2>12, <2>13, <4>1
    <3>3. CASE e \in entries_in(st, t, def) \ entries(m, changed, def)
      <4>1. /\ e = <<e[1], e[2]>>
            /\ e[2] \in Nat /\ e[2] < st.next_ids[t]
            /\ e[2] \in DOMAIN m => e[1] = index_key(m[e[2]], def)
        BY <2>10, <3>3 DEF Indexed, TableSound
      <4>2. e[2] \notin changed
        <5>1. SUFFICES ASSUME e[2] \in changed
                       PROVE  e \in entries(m, changed, def)
          BY <3>3
        <5>2. e = entry_of(m, e[2], def)
          BY <2>13, <2>16, <4>1, <5>1
        <5> QED
          BY <5>1, <5>2 DEF entries
      <4> QED
        BY <2>5, <4>1, <4>2
    <3> QED
      BY <2>9, <3>2, <3>3
  <2>18. TableComplete(r, t, defs, P)
    <3>1. SUFFICES ASSUME NEW def \in defs, NEW id \in DOMAIN m, id \notin P
                   PROVE  <<index_key(new[id], def), id>>
                            \in entries_in(r, t, def)
      BY <2>5, <2>10 DEF TableComplete
    <3>2. CASE id \in changed
      <4>1. entry_of(new, id, def) \in entries(new, changed, def)
        BY <3>2 DEF entries
      <4> QED
        BY <2>9, <2>16, <3>2, <4>1
    <3>3. CASE id \notin changed
      <4>1. <<index_key(m[id], def), id>> \in entries_in(st, t, def)
        BY <2>10, <3>1 DEF Indexed, TableComplete
      <4>2. <<index_key(m[id], def), id>> \notin entries(m, changed, def)
        BY <3>3 DEF entries, entry_of
      <4> QED
        BY <2>5, <2>9, <3>3, <4>1, <4>2
    <3> QED
      BY <3>2, <3>3
  <2> QED
    BY <2>14, <2>15, <2>17, <2>18 DEF Indexed
<1> QED
  BY <1>1, <1>2

-----------------------------------------------------------------------------
(* A fixed schema.  No statement of the menu changes the catalog but for    *)
(* the sequences, no INSERT gives a row that is too short (and so none      *)
(* panics), and no two databases share a table name.                        *)

DmlOps == {"insert", "delete", "update", "select"}

FixedSchema ==
  /\ \A st \in Menu : st.op \in DmlOps
  /\ \A st \in Menu :
       st.op = "insert" => \A i \in DOMAIN st.rows : st.rows[i] \in Row
  /\ \A d, e \in InitCatalog.tables : d[2] = e[2] => d = e

table_of(st) == <<st.db, st.tbl>>

\* Where a statement has found its table, and where it has noted its indexes
Found == {"insert_fill", "insert_log", "insert_store", "insert_save",
          "insert_indexes", "insert_index", "delete_apply", "update_assign",
          "update_apply", "select_read"}

Noted == {"insert_index", "delete_apply", "update_assign", "update_apply",
          "select_read"}

\* The schema is the one of the start, and every statement that has noted the
\* indexes of its table has noted all of them.
SchemaInv ==
  /\ ~poisoned
  /\ catalog.tables = InitCatalog.tables
  /\ catalog.indexes = InitCatalog.indexes
  /\ stmt \in [Sessions -> Menu]
  /\ \A s \in Sessions :
       pc[s] \in Found => table_of(stmt[s]) \in InitCatalog.tables
  /\ \A s \in Sessions :
       pc[s] \in Noted => idxs[s] = InitCatalog.indexes[table_of(stmt[s])]

\* Only INSERT, DELETE, UPDATE and SELECT take steps.
LEMMA FixedSchemaSteps ==
  ASSUME FixedSchema, TypeOK, SchemaInv, NEW s \in Sessions,
         Begin(s) \/ Step(s)
  PROVE  \/ Begin(s) \/ DmlStep(s)
         \/ SaveTable(s) /\ pc[s] # "create_index_save"
<1>1. /\ stmt[s].op \in DmlOps
      /\ pc[s] # "idle" => pc[s] \in labels(stmt[s].op)
  BY DEF FixedSchema, SchemaInv, TypeOK, ControlType
<1>2. pc[s] \in {"idle"} \cup labels("insert") \cup labels("delete")
                  \cup labels("update") \cup labels("select")
  BY <1>1 DEF DmlOps
<1>3. ~LockError(s)
  BY DEF LockError, SchemaInv
<1>4. /\ \A l, h, n : ExistsCheck(s, l, h, n) => pc[s] = l
      /\ \A l, n, x : LookupTable(s, l, n, x) => pc[s] = l
  BY DEF ExistsCheck, LookupTable, CatalogLock, At
<1>5. ~(\/ CreateTableExists(s) \/ CreateDatabaseExists(s)
        \/ DropDatabaseExists(s) \/ DropTableExists(s) \/ DropIndexExists(s)
        \/ CreateIndexColumns(s))
  BY <1>2, <1>4, LabelSets
     DEF CreateTableExists, CreateDatabaseExists, DropDatabaseExists,
         DropTableExists, DropIndexExists, CreateIndexColumns
<1>6. ~(\/ CreateTable(s) \/ CreateDatabase(s) \/ DropDatabase(s)
        \/ DropTableLog(s) \/ DropTable(s) \/ DropTableFile(s)
        \/ DropTableSave(s) \/ CreateIndexExists(s) \/ CreateIndex(s)
        \/ CreateIndexLog(s) \/ CreateIndexBuild(s) \/ DropIndexFind(s)
        \/ DropIndex(s) \/ DropIndexLog(s) \/ DropIndexData(s)
        \/ SaveCatalog(s))
  BY <1>2, LabelSets
     DEF CreateTable, CreateDatabase, DropDatabase, DropTableLog, DropTable,
         DropTableFile, DropTableSave, CreateIndexExists, CreateIndex,
         CreateIndexLog, CreateIndexBuild, DropIndexFind, DropIndex,
         DropIndexLog, DropIndexData, SaveCatalog, CatalogLock, At
<1>7. pc[s] # "create_index_save"
  BY <1>2, LabelSets
<1> QED
  BY <1>3, <1>5, <1>6, <1>7 DEF Step, DdlStep

\* A step that leaves the schema alone, and notes the indexes of its table.
LEMMA SchemaKept ==
  ASSUME TypeOK, SchemaInv, NEW s \in Sessions, Frame(s), UNCHANGED stmt,
         ~poisoned',
         catalog'.tables = catalog.tables, catalog'.indexes = catalog.indexes,
         \A u \in Sessions \ {s} : idxs'[u] = idxs[u],
         pc'[s] \in Found => table_of(stmt[s]) \in InitCatalog.tables,
         pc'[s] \in Noted => idxs'[s] = InitCatalog.indexes[table_of(stmt[s])]
  PROVE  SchemaInv'
<1>1. \A u \in Sessions \ {s} : pc'[u] = pc[u]
  BY DEF Frame, Goto, TypeOK, ControlType
<1> QED
  BY <1>1 DEF SchemaInv

\* A step that looks the table up, and notes x.
LEMMA LookupSchema ==
  ASSUME TypeOK, SchemaInv, NEW s \in Sessions, Frame(s), NEW l, NEW n, NEW x,
         LookupTable(s, l, n, x),
         n \in Noted => x = InitCatalog.indexes[table_of(stmt[s])]
  PROVE  SchemaInv'
<1>1. /\ UNCHANGED stmt /\ ~poisoned' /\ UNCHANGED catalog
      /\ \A u \in Sessions \ {s} : idxs'[u] = idxs[u]
  BY DEF LookupTable, SchemaInv, TypeOK, LocalsType
<1>2. \/ pc'[s] = "idle"
      \/ /\ pc'[s] = n /\ idxs'[s] = x
         /\ table_of(stmt[s]) \in InitCatalog.tables
  BY DEF LookupTable, Return, Goto, SchemaInv, TypeOK, ControlType, LocalsType,
         table_exists, table_of
<1>3. "idle" \notin Found \cup Noted
  BY DEF Found, Noted
<1> QED
  BY <1>1, <1>2, <1>3, SchemaKept

\* Every step keeps the schema.
LEMMA NextSchema ==
  ASSUME FixedSchema, TypeOK, SchemaInv, [Next]_vars
  PROVE  SchemaInv'
<1>1. CASE UNCHANGED vars
  BY <1>1 DEF vars, SchemaInv
<1>2. ASSUME NEW s \in Sessions, Begin(s) \/ Step(s)
      PROVE  SchemaInv'
  <2> DEFINE defs == InitCatalog.indexes[table_of(stmt[s])]
  <2>1. Frame(s)
    BY <1>2, FrameOfStep
  <2>2. /\ pc \in [Sessions -> Label] /\ pc' = [pc EXCEPT ![s] = pc'[s]]
        /\ get_table_indexes(catalog, stmt[s].db, stmt[s].tbl) = defs
    BY <2>1 DEF Frame, Goto, TypeOK, ControlType, SchemaInv, get_table_indexes,
                table_of
  <2>3. CASE Begin(s)
    <3>1. PICK st \in Menu : /\ stmt' = [stmt EXCEPT ![s] = st]
                             /\ Goto(s, first_step(st))
      BY <2>3 DEF Begin
    <3>2. /\ first_step(st) \notin Found /\ first_step(st) \notin Noted
      <4>1. st.op \in DmlOps
        BY DEF FixedSchema
      <4>2. first_step(st) \in {"insert_lookup", "delete_lookup",
                                "update_lookup", "select_lookup"}
        BY <4>1 DEF first_step, DmlOps
      <4> QED
        BY <4>2 DEF Found, Noted
    <3>3. /\ ~poisoned' /\ UNCHANGED catalog
          /\ \A u \in Sessions \ {s} : idxs'[u] = idxs[u]
      BY <2>3 DEF Begin, SchemaInv, TypeOK, LocalsType
    <3>4. /\ stmt' \in [Sessions -> Menu] /\ pc'[s] = first_step(st)
          /\ \A u \in Sessions \ {s} : pc'[u] = pc[u] /\ stmt'[u] = stmt[u]
      BY <2>2, <3>1 DEF Goto, SchemaInv
    <3> QED
      BY <3>2, <3>3, <3>4 DEF SchemaInv
  <2>4. CASE InsertLookup(s) \/ DeleteLookup(s) \/ UpdateLookup(s)
             \/ SelectLookup(s)
    <3>1. "insert_fill" \notin Noted
      BY DEF Noted
    <3>2. \E l, n, x : /\ LookupTable(s, l, n, x)
                       /\ n \in Noted => x = defs
      BY <2>2, <2>4, <3>1 DEF InsertLookup, DeleteLookup, UpdateLookup,
                              SelectLookup
    <3> HIDE DEF defs
    <3> QED
      BY <2>1, <3>2, LookupSchema DEF defs
  <2>5. CASE UpdateAssign(s)
    <3>1. pc[s] = "update_assign"
      BY <2>5 DEF UpdateAssign, LookupTable, CatalogLock, At
    <3>2. idxs[s] = defs
      BY <3>1 DEF SchemaInv, Noted
    <3>3. LookupTable(s, "update_assign", "update_apply", idxs[s])
      BY <2>5 DEF UpdateAssign
    <3> QED
      BY <2>1, <3>2, <3>3, LookupSchema
  <2>6. CASE InsertFill(s)
    <3>1. /\ pc[s] = "insert_fill" /\ stmt[s] \in Menu
          /\ table_of(stmt[s]) \in InitCatalog.tables
      BY <2>6 DEF InsertFill, CatalogLock, At, SchemaInv, Found
    <3>2. stmt[s].op = "insert"
      BY <3>1, AtOp, LabelSets DEF TypeOK, Ops
    <3>3. \A i \in DOMAIN stmt[s].rows : stmt[s].rows[i] \in Row
      BY <3>1, <3>2 DEF FixedSchema
    <3>4. /\ Goto(s, "insert_log") /\ UNCHANGED <<poisoned, stmt, idxs>>
          /\ \/ UNCHANGED catalog
             \/ \E q : catalog' = [catalog EXCEPT !.sequences = q]
      BY <2>6, <3>3 DEF InsertFill, next_row_id
    <3>5. catalog'.tables = catalog.tables /\ catalog'.indexes = catalog.indexes
      BY <3>4 DEF TypeOK, SharedType, CatalogType
    <3>6. pc'[s] = "insert_log" /\ "insert_log" \notin Noted
      BY <2>2, <3>4 DEF Goto, Noted
    <3>7. ~poisoned'
      BY <3>4 DEF SchemaInv
    <3> QED
      BY <2>1, <3>1, <3>4, <3>5, <3>6, <3>7, SchemaKept
  <2>7. CASE InsertLog(s) \/ InsertStore(s)
    <3>1. /\ pc[s] \in Found
          /\ pc'[s] \in {"insert_store", "insert_save"}
          /\ UNCHANGED <<poisoned, stmt, idxs, catalog>>
      BY <2>2, <2>7 DEF InsertLog, InsertStore, At, Goto, Found, locals
    <3>2. pc'[s] \notin Noted /\ ~poisoned'
      BY <3>1 DEF Noted, SchemaInv
    <3>3. table_of(stmt[s]) \in InitCatalog.tables
      BY <3>1 DEF SchemaInv
    <3> QED
      BY <2>1, <3>1, <3>2, <3>3, SchemaKept
  <2>8. CASE InsertIndexes(s)
    <3>1. /\ pc[s] \in Found /\ idxs' = [idxs EXCEPT ![s] = defs]
          /\ UNCHANGED <<poisoned, stmt, catalog>>
      BY <2>2, <2>8 DEF InsertIndexes, CatalogLock, At, Found
    <3>2. table_of(stmt[s]) \in InitCatalog.tables /\ ~poisoned'
      BY <3>1 DEF SchemaInv
    <3>3. /\ idxs'[s] = defs
          /\ \A u \in Sessions \ {s} : idxs'[u] = idxs[u]
      BY <3>1 DEF TypeOK, LocalsType
    <3> QED
      BY <2>1, <3>1, <3>2, <3>3, SchemaKept
  <2>9. CASE \/ InsertIndex(s) \/ DeleteApply(s) \/ UpdateApply(s)
             \/ SelectRead(s)
             \/ SaveTable(s) /\ pc[s] # "create_index_save"
    <3>1. /\ UNCHANGED <<poisoned, stmt, idxs, catalog>>
          /\ \/ pc'[s] \in {"idle", "delete_save", "update_save"}
             \/ pc'[s] = "insert_indexes" /\ pc[s] = "insert_save"
      BY <2>2, <2>9 DEF InsertIndex, DeleteApply, UpdateApply, SelectRead,
                        SaveTable, Return, Goto, locals, At
    <3>2. /\ pc'[s] \notin Noted /\ ~poisoned'
          /\ pc'[s] \in Found => pc[s] \in Found
      BY <3>1 DEF Noted, Found, SchemaInv
    <3>3. pc'[s] \in Found => table_of(stmt[s]) \in InitCatalog.tables
      BY <3>2 DEF SchemaInv
    <3> QED
      BY <2>1, <3>1, <3>2, <3>3, SchemaKept
  <2>10. \/ Begin(s) \/ DmlStep(s)
         \/ SaveTable(s) /\ pc[s] # "create_index_save"
    BY <1>2, FixedSchemaSteps
  <2> QED
    BY <2>3, <2>4, <2>5, <2>6, <2>7, <2>8, <2>9, <2>10 DEF DmlStep
<1> QED
  BY <1>1, <1>2 DEF Next, AllDone

-----------------------------------------------------------------------------
(* The indexes of all tables.                                               *)

Entering == {"insert_save", "insert_indexes", "insert_index"}

\* The rows of a table that an INSERT is still to enter in the indexes
PendingIds(t) == {id \in Nat : \E s \in Sessions : pending(s, t, id)}

\* A row that is to be entered has an id that was given out.
PendingBelow ==
  \A s \in Sessions : pc[s] \in Entering =>
    \A id \in ids[s] : id < storage.next_ids[stmt[s].tbl]

AllIndexed ==
  \A dt \in InitCatalog.tables :
    Indexed(storage, dt[2], InitCatalog.indexes[dt], PendingIds(dt[2]))

\* A table of the catalog is a database and a name, and its index definitions
\* have different names.
LEMMA TablesType ==
  /\ \A dt \in InitCatalog.tables :
       /\ dt = <<dt[1], dt[2]>> /\ dt[1] \in DBs /\ dt[2] \in Tables
       /\ InitCatalog.indexes[dt] \in SUBSET IndexDef
       /\ UniqueNames(InitCatalog.indexes[dt])
<1>1. /\ InitCatalog.tables \subseteq DBs \X Tables
      /\ InitCatalog.indexes \in [DBs \X Tables -> SUBSET IndexDef]
      /\ WellFormed(InitCatalog)
  BY ExecutorAssumption DEF CatalogType
<1> QED
  BY <1>1 DEF WellFormed, UniqueNames

\* The rows other sessions are still to enter stay to be entered.
LEMMA PendingOfOthers ==
  ASSUME TypeOK, NEW s \in Sessions, Frame(s),
         \A u \in Sessions \ {s} : ids'[u] = ids[u],
         NEW t, NEW id \in PendingIds(t), ~pending(s, t, id)
  PROVE  id \in PendingIds(t)'
<1>1. PICK u \in Sessions : pending(u, t, id)
  BY DEF PendingIds
<1>2. u # s
  BY <1>1
<1>3. pc'[u] = pc[u] /\ stmt'[u] = stmt[u] /\ ids'[u] = ids[u]
  BY <1>2 DEF Frame, Goto, TypeOK, ControlType
<1>4. pending(u, t, id)'
  BY <1>1, <1>3 DEF pending
<1>5. id \in Nat
  BY DEF PendingIds
<1> QED
  BY <1>4, <1>5 DEF PendingIds

\* So do those of a session that is not done with them.
LEMMA PendingStays ==
  ASSUME TypeOK, NEW s \in Sessions, Frame(s),
         \A u \in Sessions \ {s} : ids'[u] = ids[u],
         pc[s] \in Entering =>
           pc'[s] \in Entering /\ UNCHANGED stmt /\ ids'[s] = ids[s],
         NEW t
  PROVE  PendingIds(t) \subseteq PendingIds(t)'
<1> SUFFICES ASSUME NEW id \in PendingIds(t)
             PROVE  id \in PendingIds(t)'
  OBVIOUS
<1>1. CASE pending(s, t, id)
  <2>1. pending(s, t, id)'
    BY <1>1 DEF pending, Entering
  <2>2. id \in Nat
    BY DEF PendingIds
  <2> QED
    BY <2>1, <2>2 DEF PendingIds
<1> QED
  BY <1>1, PendingOfOthers

\* Every step keeps the ids that are to be entered below the next one.
LEMMA NextPendingBelow ==
  ASSUME FixedSchema, TypeOK, SchemaInv, PendingBelow, [Next]_vars
  PROVE  PendingBelow'
<1>1. CASE UNCHANGED vars
  BY <1>1 DEF vars, PendingBelow
<1>2. ASSUME NEW s \in Sessions, Begin(s) \/ Step(s)
      PROVE  PendingBelow'
  <2>1. Frame(s)
    BY <1>2, FrameOfStep
  <2>2. \A u \in Sessions \ {s} : pc'[u] = pc[u] /\ stmt'[u] = stmt[u]
    BY <2>1 DEF Frame, Goto, TypeOK, ControlType
  <2>3. /\ pc' = [pc EXCEPT ![s] = pc'[s]] /\ pc \in [Sessions -> Label]
        /\ StorageType(storage) /\ storage.next_ids \in [Tables -> Nat \ {0}]
        /\ ids \in [Sessions -> SUBSET RowId]
    BY <2>1 DEF Frame, Goto, TypeOK, ControlType, SharedType, StorageType,
                LocalsType
  <2>4. \A u \in Sessions : pc[u] \in Entering => stmt[u].tbl \in Tables
    <3>1. \A u \in Sessions : pc[u] \in Entering =>
            stmt[u] \in Statement /\ stmt[u].op = "insert"
      BY AtOp, LabelSets DEF Entering, TypeOK, Ops
    <3> QED
      BY <3>1, StatementFields
  <2>5. CASE InsertStore(s)
    <3> DEFINE t == stmt[s].tbl
               n == Len(rows[s])
    <3>1. /\ t \in Tables /\ rows[s] \in Seq(Row) /\ n \in Nat
      <4>1. stmt[s] \in Statement /\ stmt[s].op = "insert"
        BY <2>5, AtOp, LabelSets DEF InsertStore, At, TypeOK, Ops
      <4>2. rows[s] \in Seq(Row)
        BY DEF TypeOK, LocalsType
      <4> QED
        BY <4>1, <4>2, StatementFields
    <3>2. /\ storage' = insert_new_rows(storage, t, rows[s])
          /\ ids' = [ids EXCEPT ![s] = new_ids(storage, t, n)]
          /\ UNCHANGED stmt
      BY <2>5 DEF InsertStore
    <3> HIDE DEF t, n
    <3>3. storage'.next_ids = [storage.next_ids EXCEPT ![t] = @ + n]
      <4>1. storage'.next_ids =
              [storage.next_ids EXCEPT ![t] = @ + Len(rows[s])]
        BY <2>3, <3>1, <3>2, InsertNewRows
      <4> QED
        BY <4>1 DEF n
    <3>4. /\ storage.next_ids[t] \in Nat
          /\ storage'.next_ids[t] = storage.next_ids[t] + n
          /\ \A u \in Tables : u # t =>
               storage'.next_ids[u] = storage.next_ids[u]
      BY <2>3, <3>1, <3>3
    <3>5. \A id \in ids'[s] : id < storage'.next_ids[t]
      BY <2>3, <3>1, <3>2, <3>4 DEF new_ids
    <3>6. ASSUME NEW u \in Sessions \ {s}, pc[u] \in Entering,
                 NEW id \in ids[u]
          PROVE  id < storage'.next_ids[stmt[u].tbl]
      <4>1. /\ id \in Nat /\ id < storage.next_ids[stmt[u].tbl]
            /\ stmt[u].tbl \in Tables
        BY <2>3, <2>4, <3>6 DEF PendingBelow, RowId
      <4>2. CASE stmt[u].tbl = t
        BY <3>1, <3>4, <4>1, <4>2
      <4>3. CASE stmt[u].tbl # t
        BY <3>4, <4>1, <4>3
      <4> QED
        BY <4>2, <4>3
    <3>7. \A u \in Sessions \ {s} : ids'[u] = ids[u]
      BY <2>3, <3>2
    <3>8. stmt'[s].tbl = t
      BY <3>2 DEF t
    <3> QED
      BY <2>2, <3>5, <3>6, <3>7, <3>8 DEF PendingBelow
  <2>6. CASE ~InsertStore(s)
    <3>1. storage'.next_ids = storage.next_ids
      <4>1. ~DropsRows(s)
        <5>1. pc[s] # "drop_table"
          BY AtOp, LabelSets DEF TypeOK, Ops, SchemaInv, FixedSchema, DmlOps
        <5> QED
          BY <5>1 DEF DropsRows, At
      <4>2. ~InsertsRows(s)
        <5>1. ASSUME pc[s] = "insert_store" PROVE InsertStore(s)
          BY <1>2, <2>6, <5>1, FixedSchemaSteps
             DEF Begin, DmlStep, SaveTable, InsertLookup, InsertFill,
                 InsertLog, InsertIndexes, InsertIndex, DeleteLookup,
                 DeleteApply, UpdateLookup, UpdateAssign, UpdateApply,
                 SelectLookup, SelectRead, LookupTable, CatalogLock, At
        <5> QED
          BY <2>6, <5>1 DEF InsertsRows, At
      <4> QED
        BY <1>2, <4>1, <4>2, RowsSteps
           DEF RowsUnchanged, DeletesRows, UpdatesRows
    <3>2. /\ pc'[s] \in Entering =>
               pc[s] \in Entering /\ UNCHANGED <<stmt, ids>>
          /\ \A u \in Sessions \ {s} : ids'[u] = ids[u]
      <4>1. CASE Begin(s)
        <5>1. PICK st \in Menu : pc'[s] = first_step(st)
          BY <2>3, <4>1 DEF Begin, Goto
        <5>2. st.op \in DmlOps
          BY DEF FixedSchema
        <5>3. pc'[s] \notin Entering
          BY <5>1, <5>2 DEF first_step, DmlOps, Entering
        <5> QED
          BY <2>3, <4>1, <5>3 DEF Begin
      <4>2. CASE \/ InsertLookup(s) \/ DeleteLookup(s) \/ UpdateLookup(s)
                 \/ UpdateAssign(s) \/ SelectLookup(s)
        <5>1. \E l, n, x : LookupTable(s, l, n, x) /\ n \notin Entering
          BY <4>2 DEF InsertLookup, DeleteLookup, UpdateLookup, UpdateAssign,
                      SelectLookup, Entering
        <5> QED
          BY <2>3, <5>1 DEF LookupTable, Return, Goto, Entering
      <4>3. CASE \/ InsertFill(s) \/ InsertLog(s) \/ InsertIndexes(s)
                 \/ InsertIndex(s) \/ DeleteApply(s) \/ UpdateApply(s)
                 \/ SelectRead(s)
                 \/ SaveTable(s) /\ pc[s] # "create_index_save"
        BY <2>3, <4>3
           DEF InsertFill, InsertLog, InsertIndexes, InsertIndex,
               DeleteApply, UpdateApply, SelectRead, SaveTable, Return, Goto,
               CatalogLock, At, locals, Entering
      <4> QED
        BY <1>2, <2>6, <4>1, <4>2, <4>3, FixedSchemaSteps DEF DmlStep
    <3> QED
      BY <2>2, <3>1, <3>2 DEF PendingBelow
  <2> QED
    BY <2>5, <2>6
<1> QED
  BY <1>1, <1>2 DEF Next, AllDone

\* The indexes of a table stay right when the step leaves the table alone and
\* no row that is to be entered is forgotten.
LEMMA UntouchedIndexed ==
  ASSUME AllIndexed, NEW dt \in InitCatalog.tables,
         SameTable(storage, storage', dt[2]),
         PendingIds(dt[2]) \subseteq PendingIds(dt[2])'
  PROVE  Indexed(storage', dt[2], InitCatalog.indexes[dt], PendingIds(dt[2])')
<1>1. Indexed(storage, dt[2], InitCatalog.indexes[dt], PendingIds(dt[2]))
  BY DEF AllIndexed
<1> DEFINE P == PendingIds(dt[2])
           Q == PendingIds(dt[2])'
           r == storage'
           t == dt[2]
           defs == InitCatalog.indexes[dt]
<1>2. /\ Indexed(storage, t, defs, P) /\ P \subseteq Q
      /\ SameTable(storage, r, t)
  BY <1>1
<1> HIDE DEF P, Q, r, t, defs
<1>3. Indexed(r, t, defs, Q)
  BY <1>2, SameTableIndexed
<1> QED
  BY <1>3 DEF P, Q, r, t, defs

\* A table of the catalog has the name of a statement's table only if it is
\* the statement's table.
LEMMA OneTable ==
  ASSUME FixedSchema, SchemaInv, NEW s \in Sessions, pc[s] \in Found,
         NEW dt \in InitCatalog.tables, dt[2] = stmt[s].tbl
  PROVE  dt = table_of(stmt[s])
<1>1. table_of(stmt[s]) \in InitCatalog.tables
  BY DEF SchemaInv
<1>2. table_of(stmt[s])[2] = stmt[s].tbl
  BY DEF table_of
<1> QED
  BY <1>1, <1>2 DEF FixedSchema

\* Storing the rows of an INSERT leaves them to be entered.
LEMMA StoreIndexed ==
  ASSUME FixedSchema, TypeOK, IdsBelow, SchemaInv, AllIndexed,
         NEW s \in Sessions, InsertStore(s)
  PROVE  AllIndexed'
<1>0. PICK t : t = stmt[s].tbl
  OBVIOUS
<1> DEFINE new == new_ids(storage, t, Len(rows[s]))
<1>1. /\ StorageType(storage) /\ t \in Tables /\ rows[s] \in Seq(Row)
  <2>1. stmt[s] \in Statement /\ stmt[s].op = "insert"
    BY AtOp, LabelSets DEF InsertStore, At, TypeOK, Ops
  <2> QED
    BY <1>0, <2>1, StatementFields DEF TypeOK, SharedType, LocalsType
<1>2. Frame(s)
  BY FrameOfStep DEF Step, DmlStep
<1>3. /\ storage' = insert_new_rows(storage, t, rows[s])
      /\ ids' = [ids EXCEPT ![s] = new] /\ UNCHANGED stmt
      /\ pc[s] = "insert_store" /\ pc'[s] = "insert_save"
  BY <1>0 DEF InsertStore, At, Goto, TypeOK, ControlType
<1>4. /\ ids'[s] = new /\ \A u \in Sessions \ {s} : ids'[u] = ids[u]
  BY <1>3 DEF TypeOK, LocalsType
<1>5. \A u : PendingIds(u) \subseteq PendingIds(u)'
  BY <1>2, <1>3, <1>4, PendingStays DEF Entering
<1>6. new \subseteq PendingIds(t)'
  <2>1. new \subseteq Nat
    BY <1>1 DEF new_ids, StorageType
  <2>2. \A id \in new : pending(s, t, id)'
    BY <1>0, <1>3, <1>4 DEF pending
  <2> QED
    BY <2>1, <2>2 DEF PendingIds
<1>7. \A id \in DOMAIN rows_of(storage, t) : id < storage.next_ids[t]
  BY DEF IdsBelow, rows_of, EmptyMap
<1>8. ASSUME NEW dt \in InitCatalog.tables
      PROVE  Indexed(storage', dt[2], InitCatalog.indexes[dt],
                     PendingIds(dt[2])')
  <2> DEFINE defs == InitCatalog.indexes[dt]
             P == PendingIds(t)
             Q == PendingIds(t)'
             r == storage'
             rs == rows[s]
  <2>1. dt[2] \in Tables
    BY TablesType
  <2>2. CASE dt[2] = t
    <3>1. /\ Indexed(storage, t, defs, P) /\ P \cup new \subseteq Q
          /\ r = insert_new_rows(storage, t, rs)
      BY <1>3, <1>5, <1>6, <2>2 DEF AllIndexed
    <3>2. rs \in Seq(Row) /\ new = new_ids(storage, t, Len(rs))
      BY <1>1
    <3> HIDE DEF defs, P, Q, r, rs, new
    <3>3. Indexed(r, t, defs, P \cup new)
      BY <1>1, <1>7, <3>1, <3>2, InsertRowsIndexed
    <3>4. Indexed(r, t, defs, Q)
      BY <3>1, <3>3 DEF Indexed, TableComplete
    <3> QED
      BY <2>2, <3>4 DEF r, Q, defs
  <2>3. CASE dt[2] # t
    <3>1. SameTable(storage, r, dt[2])
      <4>1. Indexed(storage, t, {}, P)
        BY DEF Indexed, HasData, TableSound, TableComplete, index_keys
      <4>2. r = insert_new_rows(storage, t, rs) /\ rs \in Seq(Row)
        BY <1>1, <1>3
      <4> HIDE DEF P, r, rs
      <4>3. \A u \in Tables : u # t => SameTable(storage, r, u)
        BY <1>1, <1>7, <4>1, <4>2, InsertRowsIndexed
      <4> QED
        BY <2>1, <2>3, <4>3
    <3> QED
      BY <1>5, <3>1, UntouchedIndexed
  <2> QED
    BY <2>2, <2>3
<1> QED
  BY <1>8 DEF AllIndexed

\* Entering rows in the indexes settles them.
LEMMA EnterIndexed ==
  ASSUME FixedSchema, TypeOK, SchemaInv, PendingBelow, AllIndexed,
         NEW s \in Sessions, InsertIndex(s)
  PROVE  AllIndexed'
<1>0. PICK t : t = stmt[s].tbl
  OBVIOUS
<1> DEFINE I == ids[s]
           all == idxs[s]
<1>1. /\ StorageType(storage) /\ t \in Tables /\ I \in SUBSET Nat
  <2>1. stmt[s] \in Statement /\ stmt[s].op = "insert"
    BY AtOp, LabelSets DEF InsertIndex, At, TypeOK, Ops
  <2>2. ids[s] \in SUBSET RowId
    BY DEF TypeOK, LocalsType
  <2> QED
    BY <1>0, <2>1, <2>2, StatementFields DEF TypeOK, SharedType, RowId
<1>2. Frame(s)
  BY FrameOfStep DEF Step, DmlStep
<1>3. /\ storage' = insert_into_indexes(storage, t, all, rows_of(storage, t), I)
      /\ UNCHANGED <<stmt, ids>> /\ pc[s] = "insert_index"
  BY <1>0 DEF InsertIndex, At, locals
<1>4. /\ table_of(stmt[s]) \in InitCatalog.tables
      /\ all = InitCatalog.indexes[table_of(stmt[s])]
      /\ \A id \in I : id < storage.next_ids[t]
  BY <1>0, <1>3 DEF SchemaInv, PendingBelow, Found, Noted, Entering
<1>5. all \in SUBSET IndexDef /\ UniqueNames(all)
  BY <1>4, TablesType
<1>6. \A u : PendingIds(u) \ I \subseteq PendingIds(u)'
  BY <1>2, <1>3, PendingOfOthers DEF pending
<1>7. \A u : u # t => PendingIds(u) \subseteq PendingIds(u)'
  BY <1>0, <1>2, <1>3, PendingOfOthers DEF pending
<1>8. Indexed(storage, t, all, PendingIds(t))
  <2>1. table_of(stmt[s])[2] = t
    BY <1>0 DEF table_of
  <2> QED
    BY <1>4, <2>1 DEF AllIndexed
<1>9. /\ Indexed(storage', t, all, PendingIds(t) \ I)
      /\ \A u \in Tables : u # t => SameTable(storage, storage', u)
  <2> DEFINE P == PendingIds(t)
             r == storage'
  <2>1. /\ Indexed(storage, t, all, P)
        /\ r = insert_into_indexes(storage, t, all, rows_of(storage, t), I)
    BY <1>3, <1>8
  <2> HIDE DEF P, r, I, all
  <2>2. /\ Indexed(r, t, all, P \ I)
        /\ \A u \in Tables : u # t => SameTable(storage, r, u)
    BY <1>1, <1>4, <1>5, <2>1, EnterRowsIndexed
  <2> QED
    BY <2>2 DEF P, r
<1>10. Indexed(storage', t, all, PendingIds(t)')
  BY <1>6, <1>9 DEF Indexed, TableComplete
<1>11. ASSUME NEW dt \in InitCatalog.tables
       PROVE  Indexed(storage', dt[2], InitCatalog.indexes[dt],
                      PendingIds(dt[2])')
  <2>1. CASE dt[2] = t
    <3>1. dt = table_of(stmt[s])
      BY <1>0, <1>3, <2>1, OneTable DEF Found
    <3> HIDE DEF all
    <3> QED
      BY <1>4, <1>10, <2>1, <3>1
  <2>2. CASE dt[2] # t
    BY <1>7, <1>9, <2>2, TablesType, UntouchedIndexed
  <2> QED
    BY <2>1, <2>2
<1> QED
  BY <1>11 DEF AllIndexed

\* A DELETE and an UPDATE change rows and index entries together.
LEMMA ApplyIndexed ==
  ASSUME FixedSchema, TypeOK, IdsBelow, SchemaInv, AllIndexed,
         NEW s \in Sessions, DeleteApply(s) \/ UpdateApply(s),
         stmt[s].tbl \in DOMAIN storage.tables
  PROVE  AllIndexed'
<1>0. PICK t : t = stmt[s].tbl
  OBVIOUS
<1> DEFINE all == idxs[s]
           m   == storage.tables[t]
           hit == matching_ids(m, stmt[s].sel)
<1>1. /\ StorageType(storage) /\ t \in Tables /\ t \in DOMAIN storage.tables
      /\ UpdateApply(s) => stmt[s].set \in PartialRow
  <2>1. /\ stmt[s] \in Statement
        /\ stmt[s].op = "delete" \/ stmt[s].op = "update"
        /\ UpdateApply(s) => stmt[s].op = "update"
    BY AtOp, LabelSets DEF DeleteApply, UpdateApply, At, TypeOK, Ops
  <2> QED
    BY <1>0, <2>1, StatementFields DEF TypeOK, SharedType
<1>2. Frame(s)
  BY FrameOfStep DEF Step, DmlStep
<1>3. /\ \/ storage' = delete_rows(storage, t, all, hit)
         \/ /\ UpdateApply(s)
            /\ storage' = update_rows(storage, t, all, hit, stmt[s].set)
      /\ UNCHANGED <<stmt, ids>>
      /\ pc[s] \in {"delete_apply", "update_apply"}
  BY <1>0 DEF DeleteApply, UpdateApply, At, locals
<1>4. /\ table_of(stmt[s]) \in InitCatalog.tables
      /\ all = InitCatalog.indexes[table_of(stmt[s])]
  BY <1>3 DEF SchemaInv, Found, Noted
<1>5. all \in SUBSET IndexDef /\ UniqueNames(all)
  BY <1>4, TablesType
<1>6. \A u : PendingIds(u) \subseteq PendingIds(u)'
  BY <1>2, <1>3, PendingStays DEF Entering
<1>7. Indexed(storage, t, all, PendingIds(t))
  <2>1. table_of(stmt[s])[2] = t
    BY <1>0 DEF table_of
  <2> QED
    BY <1>4, <2>1 DEF AllIndexed
<1>8. /\ Indexed(storage', t, all, PendingIds(t))
      /\ \A u \in Tables : u # t => SameTable(storage, storage', u)
  <2> DEFINE P == PendingIds(t)
             r == storage'
             set == stmt[s].set
  <2>1. /\ Indexed(storage, t, all, P)
        /\ hit \subseteq DOMAIN storage.tables[t]
        /\ \A id \in DOMAIN storage.tables[t] : id < storage.next_ids[t]
    BY <1>1, <1>7 DEF matching_ids, IdsBelow
  <2> HIDE DEF P, all, hit
  <2>2. CASE r = delete_rows(storage, t, all, hit)
    <3> HIDE DEF r
    <3>1. /\ Indexed(r, t, all, P)
          /\ \A u \in Tables : u # t => SameTable(storage, r, u)
      BY <1>1, <1>5, <2>1, <2>2, DeleteRowsIndexed
    <3> QED
      BY <3>1 DEF r, P
  <2>3. CASE set \in PartialRow /\ r = update_rows(storage, t, all, hit, set)
    <3> HIDE DEF r, set
    <3>1. /\ Indexed(r, t, all, P)
          /\ \A u \in Tables : u # t => SameTable(storage, r, u)
      BY <1>1, <1>5, <2>1, <2>3, UpdateRowsIndexed
    <3> QED
      BY <3>1 DEF r, P
  <2> QED
    BY <1>1, <1>3, <2>2, <2>3
<1>9. Indexed(storage', t, all, PendingIds(t)')
  BY <1>6, <1>8 DEF Indexed, TableComplete
<1>10. ASSUME NEW dt \in InitCatalog.tables
       PROVE  Indexed(storage', dt[2], InitCatalog.indexes[dt],
                      PendingIds(dt[2])')
  <2>1. CASE dt[2] = t
    <3>1. dt = table_of(stmt[s])
      BY <1>0, <1>3, <2>1, OneTable DEF Found
    <3> HIDE DEF all
    <3> QED
      BY <1>4, <1>9, <2>1, <3>1
  <2>2. CASE dt[2] # t
    BY <1>6, <1>8, <2>2, TablesType, UntouchedIndexed
  <2> QED
    BY <2>1, <2>2
<1> QED
  BY <1>10 DEF AllIndexed

\* A step that leaves the storage alone forgets no row that is to be entered:
\* an INSERT that finds no index has none to enter its rows in.
LEMMA QuietIndexed ==
  ASSUME FixedSchema, TypeOK, SchemaInv, AllIndexed, NEW s \in Sessions,
         Begin(s) \/ Step(s), UNCHANGED storage, ~InsertStore(s),
         ~InsertIndex(s)
  PROVE  AllIndexed'
<1>1. Frame(s)
  BY FrameOfStep
<1>2. pc' = [pc EXCEPT ![s] = pc'[s]] /\ pc \in [Sessions -> Label]
  BY <1>1 DEF Frame, Goto, TypeOK, ControlType
<1>3. \A dt \in InitCatalog.tables : SameTable(storage, storage', dt[2])
  BY DEF SameTable
<1>4. /\ \A u \in Sessions \ {s} : ids'[u] = ids[u]
      /\ \/ pc[s] \notin Entering
         \/ SaveTable(s) /\ pc[s] = "insert_save"
         \/ InsertIndexes(s)
  <2>1. CASE Begin(s)
    BY <2>1 DEF Begin, At, Entering, TypeOK, LocalsType
  <2>2. CASE \/ InsertLookup(s) \/ DeleteLookup(s) \/ UpdateLookup(s)
             \/ UpdateAssign(s) \/ SelectLookup(s)
    <3>1. \E l, n, x : LookupTable(s, l, n, x) /\ l \notin Entering
      BY <2>2 DEF InsertLookup, DeleteLookup, UpdateLookup, UpdateAssign,
                  SelectLookup, Entering
    <3> QED
      BY <3>1 DEF LookupTable, CatalogLock, At
  <2>3. CASE \/ InsertFill(s) \/ InsertLog(s) \/ InsertIndexes(s)
             \/ DeleteApply(s) \/ UpdateApply(s) \/ SelectRead(s)
             \/ SaveTable(s)
    BY <2>3
       DEF InsertFill, InsertLog, InsertIndexes, DeleteApply, UpdateApply,
           SelectRead, SaveTable, CatalogLock, At, locals, Entering
  <2> QED
    BY <2>1, <2>2, <2>3, FixedSchemaSteps DEF DmlStep
<1>5. CASE \/ pc[s] \notin Entering
           \/ SaveTable(s) /\ pc[s] = "insert_save"
  <2>1. pc[s] \in Entering =>
          pc'[s] \in Entering /\ UNCHANGED stmt /\ ids'[s] = ids[s]
    BY <1>2, <1>5 DEF SaveTable, At, Goto, locals, Entering
  <2>2. \A t : PendingIds(t) \subseteq PendingIds(t)'
    BY <1>1, <1>4, <2>1, PendingStays
  <2> QED
    BY <1>3, <2>2, UntouchedIndexed DEF AllIndexed
<1>6. CASE InsertIndexes(s)
  <2> DEFINE defs == InitCatalog.indexes[table_of(stmt[s])]
  <2>1. /\ pc[s] = "insert_indexes" /\ UNCHANGED <<stmt, ids>>
        /\ get_table_indexes(catalog, stmt[s].db, stmt[s].tbl) = defs
    BY <1>6 DEF InsertIndexes, CatalogLock, At, SchemaInv, get_table_indexes,
                table_of
  <2>2. CASE defs # {}
    <3>1. pc'[s] \in Entering
      BY <1>2, <1>6, <2>1, <2>2 DEF InsertIndexes, Goto, Entering
    <3>2. \A t : PendingIds(t) \subseteq PendingIds(t)'
      BY <1>1, <1>4, <2>1, <3>1, PendingStays
    <3> QED
      BY <1>3, <3>2, UntouchedIndexed DEF AllIndexed
  <2>3. CASE defs = {}
    <3>1. ASSUME NEW dt \in InitCatalog.tables
          PROVE  Indexed(storage', dt[2], InitCatalog.indexes[dt],
                         PendingIds(dt[2])')
      <4>1. CASE dt[2] = stmt[s].tbl
        <5>1. InitCatalog.indexes[dt] = {}
          BY <2>1, <2>3, <4>1, OneTable DEF Found
        <5> QED
          BY <5>1 DEF Indexed, HasData, TableSound, TableComplete, index_keys
      <4>2. CASE dt[2] # stmt[s].tbl
        <5>1. PendingIds(dt[2]) \subseteq PendingIds(dt[2])'
          BY <1>1, <1>4, <4>2, PendingOfOthers DEF pending
        <5> QED
          BY <1>3, <5>1, UntouchedIndexed
      <4> QED
        BY <4>1, <4>2
    <3> QED
      BY <3>1 DEF AllIndexed
  <2> QED
    BY <2>2, <2>3
<1> QED
  BY <1>4, <1>5, <1>6

\* Every step keeps the indexes right.
LEMMA NextAllIndexed ==
  ASSUME FixedSchema, TypeOK, IdsBelow, SchemaInv, PendingBelow, AllIndexed,
         [Next]_vars
  PROVE  AllIndexed'
<1>1. CASE UNCHANGED vars
  BY <1>1 DEF vars, AllIndexed, PendingIds, pending
<1>2. ASSUME NEW s \in Sessions, Begin(s) \/ Step(s)
      PROVE  AllIndexed'
  <2>1. CASE InsertStore(s)
    BY <2>1, StoreIndexed
  <2>2. CASE InsertIndex(s)
    BY <2>2, EnterIndexed
  <2>3. CASE /\ DeleteApply(s) \/ UpdateApply(s)
             /\ stmt[s].tbl \in DOMAIN storage.tables
    BY <2>3, ApplyIndexed
  <2>4. CASE /\ ~InsertStore(s) /\ ~InsertIndex(s)
             /\ ~(/\ DeleteApply(s) \/ UpdateApply(s)
                  /\ stmt[s].tbl \in DOMAIN storage.tables)
    <3>1. /\ \A l, n, x : LookupTable(s, l, n, x) => UNCHANGED storage
      BY DEF LookupTable
    <3>2. UNCHANGED storage
      BY <1>2, <2>4, <3>1, FixedSchemaSteps
         DEF Begin, DmlStep, SaveTable, InsertLookup, InsertFill, InsertLog,
             InsertIndexes, DeleteLookup, DeleteApply, UpdateLookup,
             UpdateAssign, UpdateApply, SelectLookup, SelectRead
    <3> QED
      BY <1>2, <2>4, <3>2, QuietIndexed
  <2> QED
    BY <2>1, <2>2, <2>3, <2>4
<1> QED
  BY <1>1, <1>2 DEF Next, AllDone

\* The indexes a server starts with have data, and no entries.
LEMMA InitAllIndexed ==
  ASSUME Init
  PROVE  AllIndexed
<1> DEFINE defs(t) == UNION {InitCatalog.indexes[<<db, t>>] : db \in DBs}
           keys    == UNION {index_keys(t, defs(t)) : t \in Tables}
<1>1. /\ StorageType(storage) /\ DOMAIN storage.tables = {}
  <2>1. StorageType(new_storage) /\ DOMAIN new_storage.tables = {}
    BY NewStorageType DEF new_storage, EmptyMap
  <2> QED
    BY <2>1, RebuildIndexesType, ExecutorAssumption DEF Init
<1>2. storage.index_data =
        [k \in keys |-> SetToBag(entries(EmptyMap, {}, def_named(defs(k[1]), k[2])))]
  <2>1. \A t : rows_of(new_storage, t) = EmptyMap
    BY DEF rows_of, new_storage, EmptyMap
  <2>2. DOMAIN EmptyMap = {}
    BY DEF EmptyMap
  <2>3. storage = rebuild_indexes(InitCatalog, new_storage)
    BY DEF Init
  <2>4. storage.index_data =
          [k \in keys |-> SetToBag(entries(rows_of(new_storage, k[1]),
                                    DOMAIN rows_of(new_storage, k[1]),
                                    def_named(defs(k[1]), k[2])))]
    BY <2>3 DEF rebuild_indexes, new_storage
  <2> HIDE DEF keys, defs
  <2> QED
    BY <2>1, <2>2, <2>4
<1>3. \A def : entries(EmptyMap, {}, def) = {}
  BY DEF entries
<1>4. \A E : DOMAIN SetToBag(E) = E
  BY DEF SetToBag
<1>5. \A t, def : entries_in(storage, t, def) = {}
  <2> HIDE DEF keys, defs
  <2>1. \A k \in DOMAIN storage.index_data :
          DOMAIN storage.index_data[k] = {}
    BY <1>2, <1>3, <1>4
  <2> QED
    BY <1>4, <2>1 DEF entries_in, index_data_of, EmptyBag
<1>6. ASSUME NEW dt \in InitCatalog.tables
      PROVE  index_keys(dt[2], InitCatalog.indexes[dt])
               \subseteq DOMAIN storage.index_data
  <2>1. dt = <<dt[1], dt[2]>> /\ dt[1] \in DBs /\ dt[2] \in Tables
    BY TablesType
  <2>2. InitCatalog.indexes[dt] \subseteq defs(dt[2])
    <3> SUFFICES ASSUME NEW x \in InitCatalog.indexes[dt]
                 PROVE  \E db \in DBs : x \in InitCatalog.indexes[<<db, dt[2]>>]
      OBVIOUS
    <3> QED
      BY <2>1
  <2> HIDE DEF defs
  <2>3. index_keys(dt[2], InitCatalog.indexes[dt])
          \subseteq index_keys(dt[2], defs(dt[2]))
    BY <2>2 DEF index_keys
  <2>4. index_keys(dt[2], defs(dt[2])) \subseteq keys
    BY <2>1
  <2> HIDE DEF keys
  <2> QED
    BY <1>2, <2>3, <2>4
<1>7. \A t : DOMAIN rows_of(storage, t) = {}
  BY <1>1 DEF rows_of, EmptyMap
<1> QED
  BY <1>5, <1>6, <1>7
     DEF AllIndexed, Indexed, HasData, TableSound, TableComplete

\* The invariant the theorems below rest on
IndexInv == IdsBelow /\ SchemaInv /\ PendingBelow /\ AllIndexed

\* It holds at the start.
LEMMA InitIndexInv ==
  ASSUME FixedSchema, Init
  PROVE  IndexInv
<1>1. IdsBelow
  <2>1. StorageType(new_storage) /\ DOMAIN new_storage.tables = {}
    BY NewStorageType DEF new_storage, EmptyMap
  <2> QED
    BY <2>1, RebuildIndexesType, ExecutorAssumption DEF Init, IdsBelow
<1>2. \A s \in Sessions : pc[s] = "idle"
  BY DEF Init
<1>3. stmt \in [Sessions -> Menu]
  BY ExecutorAssumption DEF Init
<1>4. SchemaInv
  BY <1>2, <1>3 DEF Init, SchemaInv, Found, Noted
<1>5. PendingBelow
  BY <1>2 DEF PendingBelow, Entering
<1> QED
  BY <1>1, <1>4, <1>5, InitAllIndexed DEF IndexInv

\* Every step keeps it.
LEMMA NextIndexInv ==
  ASSUME FixedSchema, TypeOK, IndexInv, [Next]_vars
  PROVE  IndexInv'
  BY NextIdsBelow, NextSchema, NextPendingBelow, NextAllIndexed DEF IndexInv

\* It says of every index what IndexSound and IndexComplete say.
LEMMA IndexInvImplies ==
  ASSUME IndexInv, TypeOK
  PROVE  IndexSound /\ IndexComplete
<1>1. catalog.tables = InitCatalog.tables /\ catalog.indexes = InitCatalog.indexes
  BY DEF IndexInv, SchemaInv
<1>2. \A dt \in InitCatalog.tables :
        Indexed(storage, dt[2], InitCatalog.indexes[dt], PendingIds(dt[2]))
  BY DEF IndexInv, AllIndexed
<1>3. IndexSound
  BY <1>1, <1>2 DEF IndexSound, Indexed, TableSound, entries_in
<1>4. IndexComplete
  BY <1>1, <1>2
     DEF IndexComplete, Indexed, TableComplete, entries_in, PendingIds
<1> QED
  BY <1>3, <1>4

\* No index keeps a live row under a key it no longer has, whatever INSERTs,
\* UPDATEs and DELETEs run at once: UPDATE moves the entries of the rows it
\* writes under one storage lock (executor.rs:671-718), and an INSERT that
\* enters its rows later (executor.rs:466-500) reads them anew.
THEOREM IndexesStaySound == FixedSchema => (Spec => []IndexSound)
<1>1. SUFFICES ASSUME FixedSchema PROVE Spec => []IndexSound
  OBVIOUS
<1>2. Init => IndexInv
  BY <1>1, InitIndexInv
<1>3. TypeOK /\ IndexInv /\ [Next]_vars => IndexInv'
  BY <1>1, NextIndexInv
<1>4. TypeOK /\ IndexInv => IndexSound
  BY IndexInvImplies
<1> QED
  BY <1>2, <1>3, <1>4, TypeCorrect, PTL DEF Spec

\* No index forgets a row but for those an INSERT is still to enter, whatever
\* INSERTs, UPDATEs and DELETEs run at once: the rows are stored under one lock
\* and indexed under the next (executor.rs:447-500).
THEOREM IndexesStayComplete == FixedSchema => (Spec => []IndexComplete)
<1>1. SUFFICES ASSUME FixedSchema PROVE Spec => []IndexComplete
  OBVIOUS
<1>2. Init => IndexInv
  BY <1>1, InitIndexInv
<1>3. TypeOK /\ IndexInv /\ [Next]_vars => IndexInv'
  BY <1>1, NextIndexInv
<1>4. TypeOK /\ IndexInv => IndexComplete
  BY IndexInvImplies
<1> QED
  BY <1>2, <1>3, <1>4, TypeCorrect, PTL DEF Spec

-----------------------------------------------------------------------------
(* What a SELECT returns.                                                   *)

\* A lookup through an index that holds every row but those of P, and then
\* the clause, return every row that matches but for P.
LEMMA IndexedRead ==
  ASSUME NEW st, NEW t, NEW defs, NEW P, TableComplete(st, t, defs, P),
         NEW def \in defs, NEW sel, serves(st, t, def, sel)
  PROVE  LET match == matching_ids(rows_of(st, t), sel)
             read  == DOMAIN indexed_read(st, t, def, sel)
         IN  read \subseteq match /\ match \ read \subseteq P
<1> DEFINE m     == rows_of(st, t)
           match == matching_ids(m, sel)
           b     == st.index_data[<<t, def.name>>]
           key   == [c \in {sel.col} |-> sel.val]
           found == lookup_eq(b, key)
           read  == DOMAIN indexed_read(st, t, def, sel)
<1>1. read = DOMAIN found \cap match
  BY DEF indexed_read
<1>2. ASSUME NEW id \in match, id \notin P
      PROVE  id \in DOMAIN found
  <2>1. id \in DOMAIN m /\ m[id][sel.col] = sel.val
    BY DEF matching_ids, matches, serves
  <2>2. index_key(m[id], def) = key
    BY <2>1 DEF index_key, serves
  <2>3. index_data_of(st, t, def) = b
    BY DEF index_data_of, serves
  <2>4. <<key, id>> \in DOMAIN b
    BY <1>2, <2>1, <2>2, <2>3 DEF TableComplete, entries_in
  <2> HIDE DEF b, key
  <2> QED
    BY <2>4 DEF lookup_eq
<1> QED
  BY <1>1, <1>2

\* The body of SelectComplete
SelectCompleteStep ==
  \A s \in Sessions :
    At(s, "select_read") /\ pc'[s] = "idle" =>
      LET t     == stmt[s].tbl
          match == matching_ids(rows_of(storage, t), stmt[s].sel)
          read  == DOMAIN result'[s].rows
      IN  /\ read \subseteq match
          /\ \A id \in match \ read : \E u \in Sessions : pending(u, t, id)

\* Every step that ends a SELECT returns what it should.
LEMMA NextSelectComplete ==
  ASSUME FixedSchema, TypeOK, IndexInv, [Next]_vars
  PROVE  SelectCompleteStep
<1>1. SUFFICES ASSUME NEW s \in Sessions, pc[s] = "select_read", pc'[s] = "idle"
               PROVE  LET t     == stmt[s].tbl
                          match == matching_ids(rows_of(storage, t), stmt[s].sel)
                          read  == DOMAIN result'[s].rows
                      IN  read \subseteq match /\ match \ read \subseteq PendingIds(t)
  BY DEF SelectCompleteStep, At, PendingIds
<1>2. SelectRead(s)
  <2>1. pc'[s] # pc[s]
    BY <1>1
  <2>2. PICK u \in Sessions : Begin(u) \/ Step(u)
    BY <2>1 DEF Next, AllDone, vars
  <2>3. u = s
    BY <2>1, <2>2, FrameOfStep DEF Frame, Goto, TypeOK, ControlType
  <2>4. SchemaInv
    BY DEF IndexInv
  <2>5. \A l, n, x : LookupTable(s, l, n, x) => pc[s] = l
    BY DEF LookupTable, CatalogLock, At
  <2> QED
    BY <1>1, <2>2, <2>3, <2>4, <2>5, FixedSchemaSteps
       DEF DmlStep, Begin, SaveTable, InsertLookup, InsertFill, InsertLog,
           InsertStore, InsertIndexes, InsertIndex, DeleteLookup, DeleteApply,
           UpdateLookup, UpdateAssign, UpdateApply, SelectLookup, CatalogLock,
           At
<1> DEFINE t == stmt[s].tbl
           sel == stmt[s].sel
           all == idxs[s]
           match == matching_ids(rows_of(storage, t), sel)
           read == DOMAIN result'[s].rows
           P == PendingIds(t)
<1>3. TableComplete(storage, t, all, P)
  <2>1. /\ table_of(stmt[s]) \in InitCatalog.tables
        /\ all = InitCatalog.indexes[table_of(stmt[s])]
        /\ table_of(stmt[s])[2] = t
    BY <1>1 DEF IndexInv, SchemaInv, Found, Noted, table_of
  <2> QED
    BY <2>1 DEF IndexInv, AllIndexed, Indexed
<1>4. s \in DOMAIN result
  BY DEF TypeOK, ResultType
<1>5. CASE \E def \in all : /\ serves(storage, t, def, sel)
                            /\ Return(s, Rows(indexed_read(storage, t, def, sel)))
  <2>1. PICK def \in all :
          /\ serves(storage, t, def, sel)
          /\ Return(s, Rows(indexed_read(storage, t, def, sel)))
    BY <1>5
  <2>2. read = DOMAIN indexed_read(storage, t, def, sel)
    BY <1>4, <2>1 DEF Return, Rows
  <2> HIDE DEF t, sel, all, read, P
  <2>3. /\ DOMAIN indexed_read(storage, t, def, sel) \subseteq match
        /\ match \ DOMAIN indexed_read(storage, t, def, sel) \subseteq P
    BY <1>3, <2>1, IndexedRead
  <2>4. read \subseteq match /\ match \ read \subseteq P
    BY <2>2, <2>3
  <2> QED
    BY <2>4 DEF t, sel, read, P
<1>6. CASE Return(s, Rows(scan_read(storage, t, sel)))
  <2>1. read = DOMAIN scan_read(storage, t, sel)
    BY <1>4, <1>6 DEF Return, Rows
  <2>2. DOMAIN scan_read(storage, t, sel) = match
    BY DEF scan_read, SetToBag
  <2> QED
    BY <2>1, <2>2
<1> QED
  BY <1>2, <1>5, <1>6 DEF SelectRead

\* A SELECT returns rows that match its clause and, but for rows still to be
\* indexed, all of them, whether an index or a scan served it
\* (executor.rs:783-838) and whatever INSERTs, UPDATEs and DELETEs run at once.
THEOREM SelectsAreComplete == FixedSchema => (Spec => SelectComplete)
<1>1. SUFFICES ASSUME FixedSchema PROVE Spec => SelectComplete
  OBVIOUS
<1>2. Init => IndexInv
  BY <1>1, InitIndexInv
<1>3. TypeOK /\ IndexInv /\ [Next]_vars => IndexInv'
  BY <1>1, NextIndexInv
<1>4. TypeOK /\ IndexInv /\ [Next]_vars => [SelectCompleteStep]_vars
  BY <1>1, NextSelectComplete
<1>5. SelectComplete <=> [][SelectCompleteStep]_vars
  BY DEF SelectComplete, SelectCompleteStep
<1> QED
  BY <1>2, <1>3, <1>4, <1>5, TypeCorrect, PTL DEF Spec

-----------------------------------------------------------------------------
(* The AUTO_INCREMENT sequences.                                            *)

\* No statement writes the AUTO_INCREMENT column itself.
NoAutoWrites ==
  \A st \in Menu :
    /\ st.op = "insert" => \A i \in DOMAIN st.rows : st.rows[i][AutoCol] = Null
    /\ st.op = "update" => st.set[AutoCol] = Absent

\* A value the sequence gave before it came to next
Given(v, next) == v \in Nat /\ v < next

\* Where an INSERT has filled its rows in and not yet stored them
OnTheWay == {"insert_log", "insert_store"}

\* The sequence of a table is ahead of its rows, and of those on their way.
SequenceAhead ==
  /\ \A t \in DOMAIN storage.tables : \A id \in DOMAIN storage.tables[t] :
       Given(storage.tables[t][id][AutoCol], catalog.sequences[t])
  /\ \A s \in Sessions : pc[s] \in OnTheWay =>
       \A j \in DOMAIN rows[s] :
         Given(rows[s][j][AutoCol], catalog.sequences[stmt[s].tbl])

-----------------------------------------------------------------------------
(* The rows of an INSERT that leaves the column to the sequence.            *)

\* Every row takes a value, one after the other.
LEMMA FilledValues ==
  ASSUME AutoCol \in Columns, NEW rs \in Seq(PartialRow),
         \A i \in DOMAIN rs : rs[i] \in Row /\ rs[i][AutoCol] = Null,
         NEW base \in Nat
  PROVE  /\ \A k \in 0 .. Len(rs) : ids_taken(rs, k) = k
         /\ DOMAIN fill_rows(rs, base) = DOMAIN rs
         /\ \A i \in DOMAIN rs : fill_rows(rs, base)[i][AutoCol] = base + i - 1
<1>1. DOMAIN rs = 1 .. Len(rs) /\ Len(rs) \in Nat
  OBVIOUS
<1>2. ASSUME NEW k \in 0 .. Len(rs)
      PROVE  ids_taken(rs, k) = k
  <2>1. {i \in 1 .. k : wants_id(rs[i])} = 1 .. k
    BY <1>1 DEF wants_id
  <2>2. Cardinality(1 .. k) = k
    BY <1>1, FS_Interval
  <2> QED
    BY <2>1, <2>2 DEF ids_taken
<1>3. ASSUME NEW i \in DOMAIN rs
      PROVE  fill_rows(rs, base)[i][AutoCol] = base + i - 1
  <2>1. i \in Nat \ {0} /\ i - 1 \in 0 .. Len(rs)
    BY <1>1
  <2>2. ids_taken(rs, i - 1) = i - 1
    BY <1>2, <2>1
  <2>3. fill_rows(rs, base)[i] = fill_row(rs[i], base + (i - 1))
    BY <2>2 DEF fill_rows
  <2>4. fill_row(rs[i], base + (i - 1))[AutoCol] = base + (i - 1)
    BY DEF fill_row
  <2> QED
    BY <2>1, <2>3, <2>4
<1> QED
  BY <1>2, <1>3 DEF fill_rows

\* What InsertFill does to the sequence and the rows of its session.
LEMMA FillStep ==
  ASSUME FixedSchema, NoAutoWrites, AutoCol \in Columns, TypeOK, SchemaInv,
         NEW s \in Sessions, InsertFill(s)
  PROVE  \E t \in Tables, n \in Nat \ {0} :
           LET base == catalog.sequences[t]
           IN  /\ t = stmt[s].tbl /\ UNCHANGED stmt /\ pc'[s] = "insert_log"
               /\ catalog'.sequences = [catalog.sequences EXCEPT ![t] = base + n]
               /\ \A u \in Sessions \ {s} : rows'[u] = rows[u]
               /\ DOMAIN rows'[s] = 1 .. n
               /\ \A i \in 1 .. n : rows'[s][i][AutoCol] = base + i - 1
<1> DEFINE st == stmt[s]
           rs == stmt[s].rows
           t == stmt[s].tbl
           n == Len(stmt[s].rows)
           base == catalog.sequences[t]
<1>1. st \in Statement /\ st.op = "insert" /\ st \in Menu
  BY AtOp, LabelSets DEF InsertFill, CatalogLock, At, TypeOK, Ops, SchemaInv
<1>2. /\ t \in Tables /\ rs \in Seq(PartialRow) /\ rs # <<>>
  BY <1>1 DEF Statement
<1>3. \A i \in DOMAIN rs : rs[i] \in Row /\ rs[i][AutoCol] = Null
  BY <1>1 DEF FixedSchema, NoAutoWrites
<1>4. n \in Nat \ {0} /\ DOMAIN rs = 1 .. n
  BY <1>2
<1>5. base \in Nat /\ catalog \in CatalogType
  BY <1>2 DEF TypeOK, SharedType, CatalogType
<1>6. /\ ids_taken(rs, n) = n
      /\ DOMAIN fill_rows(rs, base) = 1 .. n
      /\ \A i \in 1 .. n : fill_rows(rs, base)[i][AutoCol] = base + i - 1
  <2>1. n \in 0 .. Len(rs)
    BY <1>4
  <2> HIDE DEF rs, base
  <2> QED
    BY <1>2, <1>3, <1>4, <1>5, <2>1, FilledValues
<1>7. /\ rows' = [rows EXCEPT ![s] = fill_rows(rs, base)]
      /\ catalog' = next_row_id(catalog, t, n)
      /\ Goto(s, "insert_log") /\ UNCHANGED stmt
  BY <1>3, <1>4, <1>6 DEF InsertFill
<1>8. catalog'.sequences = [catalog.sequences EXCEPT ![t] = base + n]
  BY <1>5, <1>7 DEF next_row_id, CatalogType
<1>9. /\ pc'[s] = "insert_log" /\ rows'[s] = fill_rows(rs, base)
      /\ \A u \in Sessions \ {s} : rows'[u] = rows[u]
  BY <1>7 DEF Goto, TypeOK, ControlType, LocalsType
<1>10. /\ t = stmt[s].tbl /\ UNCHANGED stmt /\ pc'[s] = "insert_log"
       /\ catalog'.sequences = [catalog.sequences EXCEPT ![t] = base + n]
       /\ \A u \in Sessions \ {s} : rows'[u] = rows[u]
       /\ DOMAIN rows'[s] = 1 .. n
       /\ \A i \in 1 .. n : rows'[s][i][AutoCol] = base + i - 1
  BY <1>6, <1>7, <1>8, <1>9
<1> HIDE DEF n, t
<1> QED
  BY <1>2, <1>4, <1>10

\* Every other step leaves the sequences alone, and brings no row on its way.
LEMMA NoFillStep ==
  ASSUME FixedSchema, TypeOK, SchemaInv, NEW s \in Sessions,
         Begin(s) \/ Step(s), ~InsertFill(s)
  PROVE  /\ catalog'.sequences = catalog.sequences
         /\ \A u \in Sessions \ {s} : rows'[u] = rows[u]
         /\ pc'[s] \in OnTheWay =>
              /\ pc[s] \in OnTheWay
              /\ rows'[s] = rows[s] /\ stmt'[s] = stmt[s]
<1>1. pc' = [pc EXCEPT ![s] = pc'[s]] /\ pc \in [Sessions -> Label]
  BY FrameOfStep DEF Frame, Goto, TypeOK, ControlType
<1>2. DOMAIN rows = Sessions
  BY DEF TypeOK, LocalsType
<1>3. CASE Begin(s)
  <2>1. PICK st \in Menu : pc'[s] = first_step(st)
    BY <1>1, <1>3 DEF Begin, Goto
  <2>2. st.op \in DmlOps
    BY DEF FixedSchema
  <2>3. pc'[s] \notin OnTheWay
    BY <2>1, <2>2 DEF first_step, DmlOps, OnTheWay
  <2> QED
    BY <1>2, <1>3, <2>3 DEF Begin
<1>4. CASE \/ InsertLookup(s) \/ DeleteLookup(s) \/ UpdateLookup(s)
           \/ UpdateAssign(s) \/ SelectLookup(s)
  <2>1. \E l, n, x : LookupTable(s, l, n, x) /\ n \notin OnTheWay
    BY <1>4 DEF InsertLookup, DeleteLookup, UpdateLookup, UpdateAssign,
                SelectLookup, OnTheWay
  <2> QED
    BY <1>1, <2>1 DEF LookupTable, Return, Goto, OnTheWay
<1>5. CASE \/ InsertLog(s) \/ InsertStore(s) \/ InsertIndexes(s)
           \/ InsertIndex(s) \/ DeleteApply(s) \/ UpdateApply(s)
           \/ SelectRead(s)
           \/ SaveTable(s) /\ pc[s] # "create_index_save"
  BY <1>1, <1>5
     DEF InsertLog, InsertStore, InsertIndexes, InsertIndex, DeleteApply,
         UpdateApply, SelectRead, SaveTable, Return, Goto, CatalogLock, At,
         locals, OnTheWay
<1> QED
  BY <1>3, <1>4, <1>5, FixedSchemaSteps DEF DmlStep

-----------------------------------------------------------------------------
(* The sequence stays ahead.                                                *)

\* Rows an INSERT stores have the values they had on their way.
LEMMA StoredValues ==
  ASSUME NEW st, StorageType(st), NEW t \in Tables, NEW rs \in Seq(Row),
         NEW r, r = insert_new_rows(st, t, rs),
         NEW u \in DOMAIN r.tables, NEW id \in DOMAIN r.tables[u]
  PROVE  \/ /\ u \in DOMAIN st.tables /\ id \in DOMAIN st.tables[u]
            /\ r.tables[u][id] = st.tables[u][id]
         \/ u = t /\ \E j \in DOMAIN rs : r.tables[u][id] = rs[j]
<1> DEFINE base == st.next_ids[t]
           new  == [i \in new_ids(st, t, Len(rs)) |-> rs[i - base + 1]]
           m    == over(new, rows_of(st, t))
<1>1. r.tables = put(st.tables, t, m)
  BY DEF insert_new_rows, StorageType
<1>2. base \in Nat /\ Len(rs) \in Nat /\ DOMAIN rs = 1 .. Len(rs)
  BY DEF StorageType
<1>3. CASE u # t
  BY <1>1, <1>3 DEF put
<1>4. CASE u = t
  <2>1. r.tables[u] = m
    BY <1>1, <1>4 DEF put
  <2>2. CASE id \in new_ids(st, t, Len(rs))
    <3>1. id - base + 1 \in DOMAIN rs
      BY <1>2, <2>2 DEF new_ids
    <3>2. r.tables[u][id] = rs[id - base + 1]
      BY <2>1, <2>2 DEF over
    <3> QED
      BY <1>4, <3>1, <3>2
  <2>3. CASE id \notin new_ids(st, t, Len(rs))
    <3>1. id \in DOMAIN rows_of(st, t) /\ r.tables[u][id] = rows_of(st, t)[id]
      BY <2>1, <2>3 DEF over
    <3> QED
      BY <1>4, <3>1 DEF rows_of, EmptyMap
  <2> QED
    BY <2>2, <2>3
<1> QED
  BY <1>3, <1>4

\* A row in memory has the value of a row that was there before, or of one its
\* INSERT had on its way.
LEMMA ValuesComeFrom ==
  ASSUME FixedSchema, NoAutoWrites, AutoCol \in Columns, TypeOK, SchemaInv,
         NEW s \in Sessions, Begin(s) \/ Step(s),
         NEW t \in DOMAIN storage'.tables, NEW id \in DOMAIN storage'.tables[t]
  PROVE  \/ /\ t \in DOMAIN storage.tables /\ id \in DOMAIN storage.tables[t]
            /\ storage'.tables[t][id][AutoCol] = storage.tables[t][id][AutoCol]
         \/ /\ pc[s] \in OnTheWay /\ stmt[s].tbl = t
            /\ \E j \in DOMAIN rows[s] : storage'.tables[t][id] = rows[s][j]
<1>1. StorageType(storage)
  BY DEF TypeOK, SharedType
<1>2. CASE RowsUnchanged
  BY <1>2 DEF RowsUnchanged
<1>3. ~DropsRows(s)
  <2>1. pc[s] # "drop_table"
    BY AtOp, LabelSets DEF TypeOK, Ops, SchemaInv, FixedSchema, DmlOps
  <2> QED
    BY <2>1 DEF DropsRows, At
<1>4. CASE InsertsRows(s)
  <2> DEFINE u == stmt[s].tbl
             rs == rows[s]
             r == storage'
  <2>1. /\ u \in Tables /\ rs \in Seq(Row) /\ r = insert_new_rows(storage, u, rs)
        /\ t \in DOMAIN r.tables /\ id \in DOMAIN r.tables[t]
    BY <1>4 DEF InsertsRows
  <2> HIDE DEF u, rs, r
  <2>2. \/ /\ t \in DOMAIN storage.tables /\ id \in DOMAIN storage.tables[t]
           /\ r.tables[t][id] = storage.tables[t][id]
        \/ t = u /\ \E j \in DOMAIN rs : r.tables[t][id] = rs[j]
    BY <1>1, <2>1, StoredValues
  <2>3. pc[s] \in OnTheWay
    BY <1>4 DEF InsertsRows, At, OnTheWay
  <2> QED
    BY <2>2, <2>3 DEF u, rs, r
<1>5. CASE DeletesRows(s)
  BY <1>1, <1>5 DEF DeletesRows, StorageType, rows_left
<1>6. CASE UpdatesRows(s)
  <2> DEFINE u == stmt[s].tbl
             changed == matching_ids(storage.tables[u], stmt[s].sel)
             set == stmt[s].set
  <2>1. set[AutoCol] = Absent
    <3>1. stmt[s] \in Menu /\ stmt[s].op = "update"
      BY <1>6, AtOp, LabelSets DEF UpdatesRows, At, TypeOK, Ops, SchemaInv
    <3> QED
      BY <3>1 DEF NoAutoWrites
  <2>2. /\ u \in DOMAIN storage.tables
        /\ storage'.tables =
             [storage.tables EXCEPT
                ![u] = rows_assigned(storage.tables[u], changed, set)]
    BY <1>6 DEF UpdatesRows
  <2>3. \A m : /\ DOMAIN rows_assigned(m, changed, set) = DOMAIN m
               /\ \A i \in DOMAIN m :
                    rows_assigned(m, changed, set)[i][AutoCol] = m[i][AutoCol]
    BY <2>1 DEF rows_assigned, assign
  <2> HIDE DEF u, changed, set
  <2> QED
    BY <1>1, <2>2, <2>3 DEF StorageType
<1> QED
  BY <1>2, <1>3, <1>4, <1>5, <1>6, RowsSteps

\* Every step keeps the sequence ahead.
LEMMA NextSequenceAhead ==
  ASSUME FixedSchema, NoAutoWrites, AutoCol \in Columns, TypeOK, SchemaInv,
         SequenceAhead, [Next]_vars
  PROVE  SequenceAhead'
<1>1. CASE UNCHANGED vars
  BY <1>1 DEF vars, SequenceAhead
<1>2. ASSUME NEW s \in Sessions, Begin(s) \/ Step(s)
      PROVE  SequenceAhead'
  <2>1. /\ catalog.sequences \in [Tables -> Nat \ {0}]
        /\ StorageType(storage) /\ StorageType(storage')
        /\ DOMAIN storage.tables \subseteq Tables
        /\ DOMAIN storage'.tables \subseteq Tables
    <3>1. TypeOK'
      BY <1>2, NextType DEF Next
    <3> QED
      BY <3>1 DEF TypeOK, SharedType, CatalogType, StorageType
  <2>2. \A u \in Sessions : pc[u] \in OnTheWay => stmt[u].tbl \in Tables
    <3>1. \A u \in Sessions : pc[u] \in OnTheWay =>
            stmt[u] \in Statement /\ stmt[u].op = "insert"
      BY AtOp, LabelSets DEF OnTheWay, TypeOK, Ops
    <3> QED
      BY <3>1, StatementFields
  <2>3. \A u \in Sessions \ {s} : pc'[u] = pc[u] /\ stmt'[u] = stmt[u]
    BY <1>2, FrameOfStep DEF Frame, Goto, TypeOK, ControlType
  <2>4. CASE InsertFill(s)
    <3>1. PICK t \in Tables, n \in Nat \ {0} :
            LET base == catalog.sequences[t]
            IN  /\ t = stmt[s].tbl /\ UNCHANGED stmt
                /\ catalog'.sequences =
                     [catalog.sequences EXCEPT ![t] = base + n]
                /\ \A u \in Sessions \ {s} : rows'[u] = rows[u]
                /\ DOMAIN rows'[s] = 1 .. n
                /\ \A i \in 1 .. n : rows'[s][i][AutoCol] = base + i - 1
      BY <2>4, FillStep
    <3>2. \A u \in Tables : \A v :
            Given(v, catalog.sequences[u]) => Given(v, catalog'.sequences[u])
      BY <2>1, <3>1 DEF Given
    <3>3. UNCHANGED storage
      BY <2>4 DEF InsertFill
    <3>4. \A i \in DOMAIN rows'[s] :
            Given(rows'[s][i][AutoCol], catalog'.sequences[t])
      BY SMTT(40), <2>1, <3>1 DEF Given
    <3>5. stmt'[s].tbl = t
      BY <3>1
    <3> QED
      BY <2>1, <2>2, <2>3, <3>1, <3>2, <3>3, <3>4, <3>5 DEF SequenceAhead
  <2>5. CASE ~InsertFill(s)
    <3>1. /\ catalog'.sequences = catalog.sequences
          /\ \A u \in Sessions \ {s} : rows'[u] = rows[u]
          /\ pc'[s] \in OnTheWay =>
               /\ pc[s] \in OnTheWay
               /\ rows'[s] = rows[s] /\ stmt'[s] = stmt[s]
      BY <1>2, <2>5, NoFillStep
    <3>2. ASSUME NEW t \in DOMAIN storage'.tables,
                 NEW id \in DOMAIN storage'.tables[t]
          PROVE  Given(storage'.tables[t][id][AutoCol], catalog.sequences[t])
      BY <1>2, ValuesComeFrom DEF SequenceAhead
    <3> QED
      BY <2>3, <3>1, <3>2 DEF SequenceAhead
  <2> QED
    BY <2>4, <2>5
<1> QED
  BY <1>1, <1>2 DEF Next, AllDone

\* The values an INSERT takes are in no row, stored or on its way.
LEMMA NextAutoFresh ==
  ASSUME FixedSchema, NoAutoWrites, AutoCol \in Columns, TypeOK, SchemaInv,
         SequenceAhead, [Next]_vars
  PROVE  AutoFresh
<1>1. SUFFICES ASSUME NEW s \in Sessions, pc[s] = "insert_fill",
                      pc'[s] = "insert_log", NEW i \in DOMAIN rows'[s]
               PROVE  LET v == rows'[s][i][AutoCol]
                          m == rows_of(storage, stmt[s].tbl)
                      IN  /\ \A id \in DOMAIN m : m[id][AutoCol] # v
                          /\ \A u \in Sessions :
                               /\ pc'[u] \in OnTheWay
                               /\ stmt[u].tbl = stmt[s].tbl
                               => \A j \in DOMAIN rows'[u] :
                                    rows'[u][j][AutoCol] = v => <<u, j>> = <<s, i>>
  BY DEF AutoFresh, At, OnTheWay
<1>2. pc'[s] # pc[s]
  BY <1>1
<1>3. PICK w \in Sessions : Begin(w) \/ Step(w)
  BY <1>2 DEF Next, AllDone, vars
<1>4. w = s
  BY <1>2, <1>3, FrameOfStep DEF Frame, Goto, TypeOK, ControlType
<1>5. \A u \in Sessions \ {s} : pc'[u] = pc[u]
  BY <1>3, <1>4, FrameOfStep DEF Frame, Goto, TypeOK, ControlType
<1>6. InsertFill(s)
  BY <1>1, <1>3, <1>4, NoFillStep DEF OnTheWay
<1>7. PICK t \in Tables, n \in Nat \ {0} :
        LET base == catalog.sequences[t]
        IN  /\ t = stmt[s].tbl
            /\ \A u \in Sessions \ {s} : rows'[u] = rows[u]
            /\ DOMAIN rows'[s] = 1 .. n
            /\ \A j \in 1 .. n : rows'[s][j][AutoCol] = base + j - 1
  BY ZenonT(40), <1>6, FillStep
<1> DEFINE base == catalog.sequences[t]
           v == rows'[s][i][AutoCol]
           m == rows_of(storage, stmt[s].tbl)
<1>8. base \in Nat /\ i \in Nat \ {0} /\ v = base + i - 1
  BY <1>7 DEF TypeOK, SharedType, CatalogType
<1>9. \A x : Given(x, base) => x # v
  BY <1>8 DEF Given
<1>10. \A id \in DOMAIN m : m[id][AutoCol] # v
  <2>1. \A id \in DOMAIN m : Given(m[id][AutoCol], base)
    BY <1>7 DEF SequenceAhead, rows_of, EmptyMap
  <2> QED
    BY <1>9, <2>1
<1>11. ASSUME NEW u \in Sessions, pc'[u] \in OnTheWay,
              stmt[u].tbl = stmt[s].tbl, NEW j \in DOMAIN rows'[u],
              rows'[u][j][AutoCol] = v
       PROVE  <<u, j>> = <<s, i>>
  <2>1. u = s
    <3> SUFFICES ASSUME u # s PROVE FALSE
      OBVIOUS
    <3>1. Given(rows'[u][j][AutoCol], base)
      BY <1>5, <1>7, <1>11 DEF SequenceAhead
    <3> QED
      BY <1>9, <1>11, <3>1
  <2>2. j \in DOMAIN rows'[s] /\ rows'[s][j][AutoCol] = v
    BY <1>11, <2>1
  <2>3. j \in Nat /\ rows'[s][j][AutoCol] = base + j - 1
    BY <1>7, <2>2
  <2>4. base + j - 1 = base + i - 1
    BY <1>8, <2>2, <2>3
  <2> HIDE DEF base, v
  <2>5. j = i
    BY <1>8, <2>3, <2>4
  <2> QED
    BY <2>1, <2>5
<1> QED
  BY <1>10, <1>11

\* Where no statement writes the AUTO_INCREMENT column itself, a value an
\* INSERT takes from the sequence (catalog.rs:127-132) is in no row of the
\* table and in no row another INSERT is about to store.
THEOREM AutoValuesStayFresh ==
  FixedSchema /\ NoAutoWrites => (Spec => AutoValueFresh)
<1>1. SUFFICES ASSUME FixedSchema, NoAutoWrites PROVE Spec => AutoValueFresh
  OBVIOUS
<1>2. CASE AutoCol \notin Columns
  <2>1. [Next]_vars => [AutoFresh]_vars
    BY <1>2 DEF AutoFresh, wants_id
  <2> QED
    BY <2>1, PTL DEF Spec, AutoValueFresh
<1>3. CASE AutoCol \in Columns
  <2>1. Init => IndexInv /\ SequenceAhead
    <3> SUFFICES ASSUME Init PROVE IndexInv /\ SequenceAhead
      OBVIOUS
    <3>1. DOMAIN storage.tables = {}
      <4>1. StorageType(new_storage) /\ DOMAIN new_storage.tables = {}
        BY NewStorageType DEF new_storage, EmptyMap
      <4> QED
        BY <4>1, RebuildIndexesType, ExecutorAssumption DEF Init
    <3>2. SequenceAhead
      BY <3>1 DEF Init, SequenceAhead, OnTheWay
    <3> QED
      BY <1>1, <3>2, InitIndexInv
  <2>2. TypeOK /\ IndexInv /\ [Next]_vars => IndexInv'
    BY <1>1, NextIndexInv
  <2>3. TypeOK /\ IndexInv /\ SequenceAhead /\ [Next]_vars => SequenceAhead'
    BY <1>1, <1>3, NextSequenceAhead DEF IndexInv
  <2>4. TypeOK /\ IndexInv /\ SequenceAhead /\ [Next]_vars => [AutoFresh]_vars
    BY <1>1, <1>3, NextAutoFresh DEF IndexInv
  <2> QED
    BY <2>1, <2>2, <2>3, <2>4, TypeCorrect, PTL DEF Spec, AutoValueFresh
<1> QED
  BY <1>2, <1>3
=============================================================================
