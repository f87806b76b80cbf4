---------------------------- MODULE ExecutorProofs ----------------------------
(***************************************************************************)
(* What holds of the executor whatever the sessions, the databases, the    *)
(* tables and the statements: proofs for every value of the constants.     *)
(*                                                                         *)
(* The catalog and the storage come first, as values: every operation on   *)
(* one takes a well-typed value to a well-typed one, the operations of the *)
(* catalog keep it well formed, and those on index data leave the rows     *)
(* alone.                                                                  *)
(***************************************************************************)
EXTENDS ExecutorProperties, NumberProofs

-----------------------------------------------------------------------------
(* The catalog.                                                             *)

\* Catalog::new gives a well-typed, well-formed catalog.
LEMMA NewCatalog == new_catalog \in CatalogType /\ WellFormed(new_catalog)
<1>1. /\ {DefaultDb} \in SUBSET DBs
      /\ {} \in SUBSET (DBs \X Tables)
      /\ [dt \in DBs \X Tables |-> {}] \in [DBs \X Tables -> SUBSET IndexDef]
      /\ [t \in Tables |-> 1] \in [Tables -> Nat \ {0}]
  BY TypesAssumption
<1> QED
  BY <1>1 DEF new_catalog, CatalogType, WellFormed

-----------------------------------------------------------------------------
(* Types.                                                                   *)

\* create_database keeps the catalog well typed.
LEMMA CreateDatabaseType ==
  ASSUME NEW c \in CatalogType, NEW db \in DBs
  PROVE  create_database(c, db) \in CatalogType
<1>1. c.dbs \cup {db} \in SUBSET DBs
  BY DEF CatalogType
<1> QED
  BY <1>1 DEF CatalogType, create_database

\* remove_database keeps the catalog well typed.
LEMMA RemoveDatabaseType ==
  ASSUME NEW c \in CatalogType, NEW db \in DBs
  PROVE  remove_database(c, db) \in CatalogType
<1> DEFINE kept == {dt \in c.tables : dt[1] # db}
           defs == [dt \in DBs \X Tables |->
                      IF dt[1] = db THEN {} ELSE c.indexes[dt]]
<1>1. /\ c.dbs \ {db} \in SUBSET DBs
      /\ kept \in SUBSET (DBs \X Tables)
  BY DEF CatalogType
<1>2. \A dt \in DBs \X Tables : c.indexes[dt] \in SUBSET IndexDef
  BY DEF CatalogType
<1>3. defs \in [DBs \X Tables -> SUBSET IndexDef]
  BY <1>2
<1>4. remove_database(c, db) = [c EXCEPT !.dbs = c.dbs \ {db},
                                         !.tables = kept, !.indexes = defs]
  BY DEF remove_database
<1> HIDE DEF kept, defs
<1> QED
  BY <1>1, <1>3, <1>4 DEF CatalogType

\* create_table keeps the catalog well typed.
LEMMA CreateTableType ==
  ASSUME NEW c \in CatalogType, NEW db \in DBs, NEW t \in Tables
  PROVE  create_table(c, db, t) \in CatalogType
<1>1. c.tables \cup {<<db, t>>} \in SUBSET (DBs \X Tables)
  BY DEF CatalogType
<1>2. [c.sequences EXCEPT ![t] = 1] \in [Tables -> Nat \ {0}]
  BY DEF CatalogType
<1> QED
  BY <1>1, <1>2 DEF CatalogType, create_table

\* drop_table keeps the catalog well typed.
LEMMA DropTableType ==
  ASSUME NEW c \in CatalogType, NEW db \in DBs, NEW t \in Tables
  PROVE  drop_table(c, db, t) \in CatalogType
<1>1. c.tables \ {<<db, t>>} \in SUBSET (DBs \X Tables)
  BY DEF CatalogType
<1>2. [c.indexes EXCEPT ![<<db, t>>] = {}]
        \in [DBs \X Tables -> SUBSET IndexDef]
  BY DEF CatalogType
<1>3. [c.sequences EXCEPT ![t] = 1] \in [Tables -> Nat \ {0}]
  BY DEF CatalogType
<1> QED
  BY <1>1, <1>2, <1>3 DEF CatalogType, drop_table

\* create_index keeps the catalog well typed.
LEMMA CreateIndexType ==
  ASSUME NEW c \in CatalogType, NEW db \in DBs, NEW t \in Tables,
         NEW def \in IndexDef
  PROVE  create_index(c, db, t, def) \in CatalogType
<1>1. c.indexes[<<db, t>>] \in SUBSET IndexDef
  BY DEF CatalogType
<1>2. [c.indexes EXCEPT ![<<db, t>>] = @ \cup {def}]
        \in [DBs \X Tables -> SUBSET IndexDef]
  BY <1>1 DEF CatalogType
<1> QED
  BY <1>2 DEF CatalogType, create_index

\* drop_index keeps the catalog well typed.
LEMMA DropIndexType ==
  ASSUME NEW c \in CatalogType, NEW db \in DBs, NEW t \in Tables,
         NEW name \in IndexNames
  PROVE  drop_index(c, db, t, name) \in CatalogType
<1>1. {def \in c.indexes[<<db, t>>] : def.name # name} \in SUBSET IndexDef
  BY DEF CatalogType
<1>2. [c.indexes EXCEPT ![<<db, t>>] = {def \in @ : def.name # name}]
        \in [DBs \X Tables -> SUBSET IndexDef]
  BY <1>1 DEF CatalogType
<1> QED
  BY <1>2 DEF CatalogType, drop_index

\* next_row_id keeps the catalog well typed and moves nothing but sequences.
LEMMA NextRowIdType ==
  ASSUME NEW c \in CatalogType, NEW t \in Tables, NEW n \in Nat
  PROVE  /\ next_row_id(c, t, n) \in CatalogType
         /\ next_row_id(c, t, n).dbs = c.dbs
         /\ next_row_id(c, t, n).tables = c.tables
         /\ next_row_id(c, t, n).indexes = c.indexes
<1>1. [c.sequences EXCEPT ![t] = @ + n] \in [Tables -> Nat \ {0}]
  BY DEF CatalogType
<1> QED
  BY <1>1 DEF CatalogType, next_row_id

-----------------------------------------------------------------------------
(* Well-formedness.                                                         *)

\* A new database changes no table.
LEMMA CreateDatabaseWellFormed ==
  ASSUME NEW c \in CatalogType, WellFormed(c), NEW db \in DBs
  PROVE  WellFormed(create_database(c, db))
  BY DEF CatalogType, create_database, WellFormed

\* A dropped database takes its tables and their indexes along.
LEMMA RemoveDatabaseWellFormed ==
  ASSUME NEW c \in CatalogType, WellFormed(c), NEW db \in DBs
  PROVE  WellFormed(remove_database(c, db))
<1> DEFINE r == remove_database(c, db)
<1>1. /\ r.dbs = c.dbs \ {db}
      /\ r.tables = {dt \in c.tables : dt[1] # db}
      /\ \A dt \in DBs \X Tables :
           r.indexes[dt] = IF dt[1] = db THEN {} ELSE c.indexes[dt]
  BY DEF CatalogType, remove_database
<1> HIDE DEF r
<1>2. WellFormed(r)
  BY <1>1 DEF WellFormed
<1> QED
  BY <1>2 DEF r

\* A new table is in a database that exists.
LEMMA CreateTableWellFormed ==
  ASSUME NEW c \in CatalogType, WellFormed(c), NEW db \in DBs, NEW t \in Tables,
         create_table_ok(c, db, t)
  PROVE  WellFormed(create_table(c, db, t))
<1>1. /\ create_table(c, db, t).dbs = c.dbs
      /\ create_table(c, db, t).tables = c.tables \cup {<<db, t>>}
      /\ create_table(c, db, t).indexes = c.indexes
  BY DEF CatalogType, create_table
<1> QED
  BY <1>1 DEF WellFormed, create_table_ok

\* A dropped table takes its indexes along.
LEMMA DropTableWellFormed ==
  ASSUME NEW c \in CatalogType, WellFormed(c), NEW db \in DBs, NEW t \in Tables
  PROVE  WellFormed(drop_table(c, db, t))
<1> DEFINE r == drop_table(c, db, t)
<1>1. /\ r.dbs = c.dbs
      /\ r.tables = c.tables \ {<<db, t>>}
      /\ \A dt \in DBs \X Tables :
           r.indexes[dt] = IF dt = <<db, t>> THEN {} ELSE c.indexes[dt]
  BY DEF CatalogType, drop_table
<1> HIDE DEF r
<1>2. WellFormed(r)
  BY <1>1 DEF WellFormed
<1> QED
  BY <1>2 DEF r

\* A new index is on a table that exists, under a name it has no index of.
LEMMA CreateIndexWellFormed ==
  ASSUME NEW c \in CatalogType, WellFormed(c), NEW db \in DBs, NEW t \in Tables,
         NEW def \in IndexDef, create_index_ok(c, db, t, def)
  PROVE  WellFormed(create_index(c, db, t, def))
<1> DEFINE r == create_index(c, db, t, def)
<1>1. /\ r.dbs = c.dbs
      /\ r.tables = c.tables
      /\ \A dt \in DBs \X Tables :
           r.indexes[dt] = IF dt = <<db, t>> THEN c.indexes[dt] \cup {def}
                                             ELSE c.indexes[dt]
  BY DEF CatalogType, create_index
<1>2. /\ <<db, t>> \in c.tables
      /\ \A d \in c.indexes[<<db, t>>] : d.name # def.name
  BY DEF create_index_ok, table_exists, has_index, get_table_indexes
<1> HIDE DEF r
<1>3. \A dt \in r.tables : dt[1] \in r.dbs
  BY <1>1 DEF WellFormed
<1>4. \A dt \in DBs \X Tables : r.indexes[dt] # {} => dt \in r.tables
  BY <1>1, <1>2 DEF WellFormed
<1>5. ASSUME NEW dt \in DBs \X Tables, NEW d \in r.indexes[dt],
             NEW e \in r.indexes[dt], d.name = e.name
      PROVE  d = e
  <2>0. \A f, g \in c.indexes[dt] : f.name = g.name => f = g
    BY DEF WellFormed
  <2>1. CASE dt = <<db, t>>
    <3>1. r.indexes[dt] = c.indexes[dt] \cup {def}
      BY <1>1, <2>1
    <3>2. \A f \in c.indexes[dt] : f.name # def.name
      BY <1>2, <2>1
    <3> QED
      BY <3>1, <3>2, <2>0, <1>5
  <2>2. CASE dt # <<db, t>>
    BY <1>1, <1>5, <2>2 DEF WellFormed
  <2> QED
    BY <2>1, <2>2
<1> QED
  BY <1>3, <1>4, <1>5 DEF WellFormed, r

\* Dropping an index leaves the others as they are.
LEMMA DropIndexWellFormed ==
  ASSUME NEW c \in CatalogType, WellFormed(c), NEW db \in DBs, NEW t \in Tables,
         NEW name \in IndexNames
  PROVE  WellFormed(drop_index(c, db, t, name))
<1> DEFINE r == drop_index(c, db, t, name)
<1>1. /\ r.dbs = c.dbs
      /\ r.tables = c.tables
      /\ \A dt \in DBs \X Tables : r.indexes[dt] \subseteq c.indexes[dt]
  BY DEF CatalogType, drop_index
<1> HIDE DEF r
<1>2. WellFormed(r)
  BY <1>1 DEF WellFormed
<1> QED
  BY <1>2 DEF r

-----------------------------------------------------------------------------
(* The storage.                                                             *)

\* StorageType speaks of the three fields alone.
LEMMA FieldsType ==
  ASSUME NEW s, DOMAIN s = {"tables", "next_ids", "index_data"},
         s.tables = [t \in DOMAIN s.tables |-> s.tables[t]],
         DOMAIN s.tables \subseteq Tables,
         \A t \in DOMAIN s.tables : IsRowMap(s.tables[t]),
         s.next_ids \in [Tables -> Nat \ {0}],
         s.index_data = [k \in DOMAIN s.index_data |-> s.index_data[k]],
         DOMAIN s.index_data \subseteq IndexKey,
         \A k \in DOMAIN s.index_data : IsIndexData(s.index_data[k])
  PROVE  StorageType(s)
  BY DEF StorageType

\* Storage::new gives a well-typed storage.
LEMMA NewStorageType == StorageType(new_storage)
  BY DEF new_storage, StorageType, EmptyMap

\* What get_rows reads is a map of rows.
LEMMA RowsOfType ==
  ASSUME NEW s, StorageType(s), NEW t
  PROVE  IsRowMap(rows_of(s, t))
  BY FS_EmptySet DEF StorageType, rows_of, EmptyMap, IsRowMap

-----------------------------------------------------------------------------
(* Rows.                                                                    *)

\* insert_rows on new rows: the rows of the table are the old ones and the new
\* ones under ids from next_ids on, and no other table changes.
LEMMA InsertNewRows ==
  ASSUME NEW s, StorageType(s), NEW t \in Tables, NEW rs \in Seq(Row),
         NEW r, r = insert_new_rows(s, t, rs)
  PROVE  /\ StorageType(r)
         /\ r.index_data = s.index_data
         /\ r.next_ids = [s.next_ids EXCEPT ![t] = @ + Len(rs)]
         /\ DOMAIN r.tables = DOMAIN s.tables \cup {t}
         /\ \A u \in DOMAIN s.tables : u # t => r.tables[u] = s.tables[u]
         /\ DOMAIN r.tables[t] = DOMAIN rows_of(s, t) \cup new_ids(s, t, Len(rs))
         /\ \A id \in DOMAIN rows_of(s, t) :
              id < s.next_ids[t] => r.tables[t][id] = rows_of(s, t)[id]
<1> DEFINE base == s.next_ids[t]
           new  == [id \in new_ids(s, t, Len(rs)) |-> rs[id - base + 1]]
           m    == over(new, rows_of(s, t))
<1>1. base \in Nat \ {0} /\ Len(rs) \in Nat
  BY DEF StorageType
<1>2. IsRowMap(rows_of(s, t))
  BY RowsOfType
<1>3. IsRowMap(m)
  <2>1. DOMAIN m = new_ids(s, t, Len(rs)) \cup DOMAIN rows_of(s, t)
    BY DEF over
  <2>2. IsFiniteSet(new_ids(s, t, Len(rs)))
    <3>1. base \in Int /\ base + Len(rs) - 1 \in Int
      BY <1>1
    <3> QED
      BY <3>1, FS_Interval DEF new_ids
  <2>3. IsFiniteSet(DOMAIN m)
    <3>1. IsFiniteSet(DOMAIN rows_of(s, t))
      BY <1>2 DEF IsRowMap
    <3> HIDE DEF m
    <3>2. IsFiniteSet(new_ids(s, t, Len(rs)) \cup DOMAIN rows_of(s, t))
      BY <3>1, <2>2, FS_Union
    <3> QED
      BY <2>1, <3>2
  <2>4. /\ m = [id \in DOMAIN m |-> m[id]]
        /\ DOMAIN m \subseteq RowId
        /\ \A id \in DOMAIN m : m[id] \in Row
    BY <1>1, <1>2 DEF IsRowMap, new_ids, RowId, over
  <2> HIDE DEF m
  <2> QED
    BY <2>3, <2>4 DEF IsRowMap
<1>4. /\ r.tables = put(s.tables, t, m)
      /\ r.next_ids = [s.next_ids EXCEPT ![t] = @ + Len(rs)]
      /\ r.index_data = s.index_data
      /\ DOMAIN r = DOMAIN s
  BY DEF insert_new_rows, StorageType
<1>5. r.next_ids \in [Tables -> Nat \ {0}]
  BY <1>1, <1>4 DEF StorageType
<1>6. /\ DOMAIN r.tables = DOMAIN s.tables \cup {t}
      /\ r.tables = [u \in DOMAIN r.tables |-> r.tables[u]]
      /\ r.tables[t] = m
      /\ \A u \in DOMAIN s.tables : u # t => r.tables[u] = s.tables[u]
  BY <1>4 DEF put
<1>7. /\ DOMAIN m = DOMAIN rows_of(s, t) \cup new_ids(s, t, Len(rs))
      /\ \A id \in DOMAIN rows_of(s, t) :
           id < base => m[id] = rows_of(s, t)[id]
  BY <1>1, <1>2 DEF over, new_ids, IsRowMap, RowId
<1> HIDE DEF m
<1>8. StorageType(r)
  BY <1>3, <1>4, <1>5, <1>6 DEF StorageType
<1> QED
  BY <1>4, <1>6, <1>7, <1>8

\* clear_table removes the table, resets its ids and removes its index data.
LEMMA ClearTable ==
  ASSUME NEW s, StorageType(s), NEW t \in Tables,
         NEW r, r = clear_table(s, t)
  PROVE  /\ StorageType(r)
         /\ DOMAIN r.tables = DOMAIN s.tables \ {t}
         /\ \A u \in DOMAIN r.tables : r.tables[u] = s.tables[u]
         /\ r.next_ids = [s.next_ids EXCEPT ![t] = 1]
<1>1. /\ r.tables = [u \in DOMAIN s.tables \ {t} |-> s.tables[u]]
      /\ r.next_ids = [s.next_ids EXCEPT ![t] = 1]
      /\ r.index_data = [k \in {j \in DOMAIN s.index_data : j[1] # t} |->
                           s.index_data[k]]
      /\ DOMAIN r = DOMAIN s
  BY DEF clear_table, StorageType
<1>2. r.next_ids \in [Tables -> Nat \ {0}]
  BY <1>1 DEF StorageType
<1>3. StorageType(r)
  BY <1>1, <1>2 DEF StorageType
<1> QED
  BY <1>1, <1>3

\* s with m for the rows of t
with_rows(s, t, m) == [s EXCEPT !.tables[t] = m]

\* The rows of a table that exists are replaced.
LEMMA ReplaceRows ==
  ASSUME NEW s, StorageType(s), NEW t \in DOMAIN s.tables,
         NEW m, IsRowMap(m),
         NEW r, r = with_rows(s, t, m)
  PROVE  /\ StorageType(r)
         /\ r.tables = [s.tables EXCEPT ![t] = m]
         /\ r.next_ids = s.next_ids
         /\ r.index_data = s.index_data
<1>1. /\ r.tables = [s.tables EXCEPT ![t] = m]
      /\ r.next_ids = s.next_ids
      /\ r.index_data = s.index_data
      /\ DOMAIN r = DOMAIN s
  BY DEF StorageType, with_rows
<1>2. StorageType(r)
  BY <1>1 DEF StorageType
<1> QED
  BY <1>1, <1>2

-----------------------------------------------------------------------------
(* Index data.                                                              *)

\* IndexData::insert gives index data.
LEMMA IndexInsertType ==
  ASSUME NEW b, IsIndexData(b), NEW E
  PROVE  IsIndexData(index_insert(b, E))
  BY DEF IsIndexData, index_insert, SetToBag, (+)

\* IndexData::delete gives index data.
LEMMA IndexDeleteType ==
  ASSUME NEW b, IsIndexData(b), NEW E
  PROVE  IsIndexData(index_delete(b, E))
  BY DEF IsIndexData, index_delete

\* A set of entries as index data
LEMMA SetToBagType ==
  ASSUME NEW E
  PROVE  IsIndexData(SetToBag(E))
  BY DEF IsIndexData, SetToBag

\* The index data of a storage, there or not, is index data.
LEMMA IndexDataOfType ==
  ASSUME NEW s, StorageType(s), NEW t, NEW def
  PROVE  IsIndexData(index_data_of(s, t, def))
  BY DEF StorageType, index_data_of, EmptyBag, SetToBag, IsIndexData

\* A storage with other index data
LEMMA ReplaceIndexData ==
  ASSUME NEW s, StorageType(s), NEW d,
         d = [k \in DOMAIN d |-> d[k]],
         DOMAIN d \subseteq IndexKey,
         \A k \in DOMAIN d : IsIndexData(d[k]),
         NEW r, r = [s EXCEPT !.index_data = d]
  PROVE  /\ StorageType(r)
         /\ r.tables = s.tables
         /\ r.next_ids = s.next_ids
         /\ r.index_data = d
<1>1. /\ r.tables = s.tables
      /\ r.next_ids = s.next_ids
      /\ r.index_data = d
      /\ DOMAIN r = DOMAIN s
  BY DEF StorageType
<1>2. StorageType(r)
  BY <1>1 DEF StorageType
<1> QED
  BY <1>1, <1>2

\* The keys of indexes of a table are keys of index_data.
LEMMA IndexKeysType ==
  ASSUME NEW t \in Tables, NEW defs \in SUBSET IndexDef
  PROVE  index_keys(t, defs) \subseteq IndexKey
  BY DEF index_keys, IndexKey, IndexDef

\* insert_into_indexes_raw keeps the storage well typed and its rows alone.
LEMMA InsertIntoIndexes ==
  ASSUME NEW s, StorageType(s), NEW t \in Tables,
         NEW defs \in SUBSET IndexDef, NEW m, NEW I,
         NEW r, r = insert_into_indexes(s, t, defs, m, I)
  PROVE  /\ StorageType(r)
         /\ r.tables = s.tables
         /\ r.next_ids = s.next_ids
<1> DEFINE keys == index_keys(t, defs)
           added(k) == LET def == def_named(defs, k[2])
                       IN  index_insert(index_data_of(s, t, def),
                                        entries(m, I, def))
           d == [k \in DOMAIN s.index_data \cup keys |->
                   IF k \in keys THEN added(k) ELSE s.index_data[k]]
<1>1. \A k : IsIndexData(added(k))
  BY IndexDataOfType, IndexInsertType
<1>2. keys \subseteq IndexKey
  BY IndexKeysType
<1>3. r = [s EXCEPT !.index_data = d]
  BY DEF insert_into_indexes
<1> HIDE DEF keys, added
<1>4. /\ d = [k \in DOMAIN d |-> d[k]]
      /\ DOMAIN d \subseteq IndexKey
      /\ \A k \in DOMAIN d : IsIndexData(d[k])
  BY <1>1, <1>2 DEF StorageType
<1> HIDE DEF d
<1> QED
  BY <1>3, <1>4, ReplaceIndexData

\* delete_from_indexes_raw keeps the storage well typed and its rows alone.
LEMMA DeleteFromIndexes ==
  ASSUME NEW s, StorageType(s), NEW t, NEW defs, NEW m, NEW I,
         NEW r, r = delete_from_indexes(s, t, defs, m, I)
  PROVE  /\ StorageType(r)
         /\ r.tables = s.tables
         /\ r.next_ids = s.next_ids
<1> DEFINE keys == index_keys(t, defs)
           less(k) == index_delete(s.index_data[k],
                                   entries(m, I, def_named(defs, k[2])))
           d == [k \in DOMAIN s.index_data |->
                   IF k \in keys THEN less(k) ELSE s.index_data[k]]
<1>1. \A k \in DOMAIN s.index_data : IsIndexData(less(k))
  BY IndexDeleteType DEF StorageType
<1>2. r = [s EXCEPT !.index_data = d]
  BY DEF delete_from_indexes
<1> HIDE DEF keys, less
<1>3. /\ d = [k \in DOMAIN d |-> d[k]]
      /\ DOMAIN d \subseteq IndexKey
      /\ \A k \in DOMAIN d : IsIndexData(d[k])
  BY <1>1 DEF StorageType
<1> HIDE DEF d
<1> QED
  BY <1>2, <1>3, ReplaceIndexData

\* Removing index data keeps the storage well typed and its rows alone.
LEMMA RemoveIndexData ==
  ASSUME NEW s, StorageType(s), NEW key, NEW r, r = remove_index_data(s, key)
  PROVE  /\ StorageType(r)
         /\ r.tables = s.tables
         /\ r.next_ids = s.next_ids
<1> DEFINE d == [k \in DOMAIN s.index_data \ {key} |-> s.index_data[k]]
<1>1. r = [s EXCEPT !.index_data = d]
  BY DEF remove_index_data
<1>2. /\ d = [k \in DOMAIN d |-> d[k]]
      /\ DOMAIN d \subseteq IndexKey
      /\ \A k \in DOMAIN d : IsIndexData(d[k])
  BY DEF StorageType
<1> HIDE DEF d
<1> QED
  BY <1>1, <1>2, ReplaceIndexData

-----------------------------------------------------------------------------
(* Statements and labels.                                                   *)

\* The fields a statement has, by its kind.
LEMMA StatementFields ==
  ASSUME NEW st \in Statement
  PROVE  /\ st.op \in Ops
         /\ st.db \in DBs
         /\ st.op \notin {"create_database", "drop_database"}
              => st.tbl \in Tables
         /\ st.op = "insert" => st.rows \in Seq(PartialRow)
         /\ st.op = "update" => st.set \in PartialRow
         /\ st.op = "create_index" => st.def \in IndexDef
         /\ st.op = "drop_index" => st.name \in IndexNames
  BY DEF Statement, Ops

\* A label tells the kind of the statement.
LEMMA LabelsOfOps ==
  /\ \A op \in Ops : labels(op) \subseteq Label
  /\ "idle" \in Label
  /\ \A op \in Ops : "idle" \notin labels(op)
  BY DEF Ops, Label, labels

\* Kinds of statement share no label but save_catalog.
LEMMA LabelOp ==
  ASSUME NEW op \in Ops, NEW l \in labels(op)
  PROVE  /\ l \in labels("create_table") \ {"save_catalog"}
              => op = "create_table"
         /\ l \in labels("create_database") \ {"save_catalog"}
              => op = "create_database"
         /\ l \in labels("drop_database") \ {"save_catalog"}
              => op = "drop_database"
         /\ l \in labels("create_index") \ {"save_catalog"}
              => op = "create_index"
         /\ l \in labels("drop_table") => op = "drop_table"
         /\ l \in labels("insert") => op = "insert"
         /\ l \in labels("delete") => op = "delete"
         /\ l \in labels("update") => op = "update"
         /\ l \in labels("select") => op = "select"
         /\ l \in labels("drop_index") => op = "drop_index"
  BY DEF Ops, labels

\* The labels of each kind, spelled out.
LEMMA LabelSets ==
  /\ labels("create_table") =
       {"create_table_exists", "create_table", "save_catalog"}
  /\ labels("create_database") =
       {"create_database_exists", "create_database", "save_catalog"}
  /\ labels("drop_database") =
       {"drop_database_exists", "drop_database", "save_catalog"}
  /\ labels("drop_table") =
       {"drop_table_exists", "drop_table_log", "drop_table",
        "drop_table_file", "drop_table_save"}
  /\ labels("insert") =
       {"insert_lookup", "insert_fill", "insert_log", "insert_store",
        "insert_save", "insert_indexes", "insert_index"}
  /\ labels("delete") = {"delete_lookup", "delete_apply", "delete_save"}
  /\ labels("update") =
       {"update_lookup", "update_assign", "update_apply", "update_save"}
  /\ labels("select") = {"select_lookup", "select_read"}
  /\ labels("create_index") =
       {"create_index_exists", "create_index", "create_index_log",
        "create_index_columns", "create_index_build", "create_index_save",
        "save_catalog"}
  /\ labels("drop_index") =
       {"drop_index_find", "drop_index_exists", "drop_index",
        "drop_index_log", "drop_index_data"}
  BY DEF labels

\* A session at a label of one kind of statement executes such a statement.
LEMMA AtOp ==
  ASSUME ControlType, NEW s \in Sessions, NEW op \in Ops,
         pc[s] \in labels(op) \ {"save_catalog"}
  PROVE  stmt[s] \in Statement /\ stmt[s].op = op
<1>1. stmt[s] \in Statement /\ stmt[s].op \in Ops
  BY StatementFields DEF ControlType
<1>2. pc[s] # "idle"
  BY LabelsOfOps
<1>3. pc[s] \in labels(stmt[s].op)
  BY <1>2 DEF ControlType
<1> QED
  BY <1>1, <1>3, LabelOp DEF Ops

\* A session that goes to a label of its statement, or returns, is well typed.
LEMMA GotoType ==
  ASSUME ControlType, NEW s \in Sessions, NEW l, Goto(s, l), UNCHANGED stmt,
         l \in labels(stmt[s].op) \cup {"idle"}
  PROVE  ControlType'
<1>1. stmt[s].op \in Ops
  BY StatementFields DEF ControlType
<1>2. l \in Label
  BY <1>1, LabelsOfOps
<1>3. pc' \in [Sessions -> Label]
  BY <1>2 DEF Goto, ControlType
<1>4. \A u \in Sessions : pc'[u] # "idle" => pc'[u] \in labels(stmt'[u].op)
  BY DEF Goto, ControlType
<1> QED
  BY <1>3, <1>4 DEF ControlType

\* A result with a proper status keeps the results well typed.
LEMMA SetResultType ==
  ASSUME ResultType, NEW s \in Sessions, NEW r, r.status \in Status,
         result' = [result EXCEPT ![s] = r]
  PROVE  ResultType'
  BY DEF ResultType

\* A session that returns is idle and has a result.
LEMMA ReturnType ==
  ASSUME ControlType, ResultType, NEW s \in Sessions, NEW r,
         r.status \in Status, Return(s, r), UNCHANGED stmt
  PROVE  ControlType' /\ ResultType'
  BY GotoType, SetResultType DEF Return

\* The outcomes of statements have a proper status.
LEMMA Statuses ==
  /\ None.status \in Status /\ Ok.status \in Status
  /\ Err.status \in Status /\ Panic.status \in Status
  /\ \A b : Rows(b).status \in Status
  BY DEF None, Ok, Err, Panic, Rows, Status

\* An append to the log of an entry keeps the files well typed.
LEMMA LogType ==
  ASSUME disk \in DiskType, NEW e \in Entry, Log(e)
  PROVE  disk' \in DiskType
<1>1. Append(disk.wal, e) \in Seq(Entry)
  BY DEF DiskType
<1> QED
  BY <1>1 DEF Log, DiskType

\* The catalog file and a table file are replaced by what is in memory.
LEMMA SaveCatalogType ==
  ASSUME NEW d \in DiskType, NEW c \in CatalogType
  PROVE  save_catalog(d, c) \in DiskType
  BY DEF DiskType, save_catalog

\* The rows written to a table file or a snapshot have row ids and columns; they
\* are finitely many, and no two have the same id.
LEMMA RowsVecType ==
  ASSUME NEW m, IsRowMap(m)
  PROVE  rows_vec(m) \in RowVec
<1> DEFINE f == [id \in DOMAIN m |-> <<id, m[id]>>]
<1>1. f \in Surjection(DOMAIN m, rows_vec(m))
  BY DEF Surjection, rows_vec
<1>2. IsFiniteSet(DOMAIN m)
  BY DEF IsRowMap
<1> HIDE DEF f
<1>3. IsFiniteSet(rows_vec(m))
  BY <1>1, <1>2, FS_Surjection
<1>4. rows_vec(m) \in SUBSET (RowId \X Row)
  BY DEF IsRowMap, rows_vec
<1>5. \A p, q \in rows_vec(m) : p[1] = q[1] => p = q
  BY DEF rows_vec
<1> QED
  BY <1>3, <1>4, <1>5 DEF RowVec

\* A table file may be replaced by any rows, or removed.
LEMMA TableFileType ==
  ASSUME NEW d \in DiskType, NEW t,
         NEW f \in {NoFile} \cup RowVec
  PROVE  [d EXCEPT !.tables[t] = f] \in DiskType
<1>1. [d.tables EXCEPT ![t] = f]
        \in [Tables -> {NoFile} \cup RowVec]
  BY DEF DiskType
<1> QED
  BY <1>1 DEF DiskType

\* save_table writes rows, or nothing.
LEMMA SaveTableType ==
  ASSUME NEW d \in DiskType, NEW st, StorageType(st), NEW t
  PROVE  save_table_data(d, st, t) \in DiskType
<1>1. CASE t \in DOMAIN st.tables
  <2>1. rows_vec(st.tables[t]) \in RowVec
    BY <1>1, RowsVecType DEF StorageType
  <2> QED
    BY <1>1, <2>1, TableFileType DEF save_table_data
<1>2. CASE t \notin DOMAIN st.tables
  BY <1>2 DEF save_table_data
<1> QED
  BY <1>1, <1>2

-----------------------------------------------------------------------------
(* The actions keep the types.                                              *)

\* A session that begins a statement is at the first label of its kind.
LEMMA BeginType ==
  ASSUME TypeOK, NEW s \in Sessions, Begin(s)
  PROVE  TypeOK'
<1>1. PICK st \in Menu : /\ stmt' = [stmt EXCEPT ![s] = st]
                         /\ Goto(s, first_step(st))
  BY DEF Begin
<1>2. st \in Statement /\ st.op \in Ops
  BY StatementFields, ExecutorAssumption
<1>3. first_step(st) \in labels(st.op)
  BY <1>2 DEF first_step, labels, Ops
<1>4. first_step(st) \in Label
  BY <1>2, <1>3, LabelsOfOps
<1>5. ControlType'
  <2>1. pc' \in [Sessions -> Label] /\ stmt' \in [Sessions -> Statement]
    BY <1>1, <1>2, <1>4 DEF Goto, TypeOK, ControlType
  <2>2. \A u \in Sessions : pc'[u] # "idle" => pc'[u] \in labels(stmt'[u].op)
    BY <1>1, <1>3 DEF Goto, TypeOK, ControlType
  <2> QED
    BY <2>1, <2>2 DEF ControlType
<1>6. SharedType'
  BY DEF Begin, TypeOK, SharedType
<1>7. LocalsType'
  BY DEF Begin, TypeOK, LocalsType
<1>8. ResultType'
  BY SetResultType, Statuses DEF Begin, TypeOK
<1>9. issued' \in 0 .. MaxStatements
  BY ExecutorAssumption DEF Begin, TypeOK
<1> QED
  BY <1>5, <1>6, <1>7, <1>8, <1>9 DEF TypeOK

\* The look of IF [NOT] EXISTS returns, or goes on to a label of the statement.
LEMMA ExistsCheckType ==
  ASSUME TypeOK, NEW s \in Sessions, NEW label, NEW holds, NEW next,
         ExistsCheck(s, label, holds, next),
         label \in labels(stmt[s].op) => next \in labels(stmt[s].op),
         label # "idle"
  PROVE  TypeOK'
<1>1. /\ pc[s] = label
      /\ label \in labels(stmt[s].op)
      /\ UNCHANGED <<catalog, storage, poisoned, disk, stmt, locals, issued>>
      /\ Return(s, Ok) \/ (Goto(s, next) /\ UNCHANGED result)
  BY DEF ExistsCheck, At, TypeOK, ControlType
<1>2. ControlType' /\ ResultType'
  <2>1. CASE Return(s, Ok)
    BY <1>1, <2>1, ReturnType, Statuses DEF TypeOK
  <2>2. CASE Goto(s, next) /\ UNCHANGED result
    <3>1. ControlType'
      BY <1>1, <2>2, GotoType DEF TypeOK
    <3>2. ResultType'
      BY <2>2 DEF TypeOK, ResultType
    <3> QED
      BY <3>1, <3>2
  <2> QED
    BY <1>1, <2>1, <2>2
<1>3. SharedType' /\ LocalsType' /\ issued' \in 0 .. MaxStatements
  BY <1>1 DEF TypeOK, SharedType, LocalsType, locals
<1> QED
  BY <1>2, <1>3 DEF TypeOK

\* A statement that fails for the poisoned catalog returns an error.
LEMMA LockErrorType ==
  ASSUME TypeOK, NEW s \in Sessions, LockError(s)
  PROVE  TypeOK'
<1>1. ControlType' /\ ResultType'
  BY ReturnType, Statuses DEF LockError, TypeOK
<1> QED
  BY <1>1 DEF LockError, TypeOK, SharedType, LocalsType, locals

\* A step that notes idxs and goes on, or fails because there is no table
LEMMA LookupTableType ==
  ASSUME TypeOK, NEW s \in Sessions, NEW label, NEW next, NEW noted,
         LookupTable(s, label, next, noted),
         noted \in SUBSET IndexDef,
         label \in labels(stmt[s].op) => next \in labels(stmt[s].op),
         label # "idle"
  PROVE  TypeOK'
<1>1. /\ pc[s] = label
      /\ label \in labels(stmt[s].op)
      /\ UNCHANGED <<catalog, storage, poisoned, disk, stmt, rows, ids, issued>>
      /\ Return(s, Err) \/ (Goto(s, next) /\ UNCHANGED result)
      /\ idxs' = [idxs EXCEPT ![s] = noted] \/ UNCHANGED idxs
  BY DEF LookupTable, CatalogLock, At, TypeOK, ControlType
<1>2. ControlType' /\ ResultType'
  <2>1. CASE Return(s, Err)
    BY <1>1, <2>1, ReturnType, Statuses DEF TypeOK
  <2>2. CASE Goto(s, next) /\ UNCHANGED result
    <3>1. ControlType'
      BY <1>1, <2>2, GotoType DEF TypeOK
    <3>2. ResultType'
      BY <2>2 DEF TypeOK, ResultType
    <3> QED
      BY <3>1, <3>2
  <2> QED
    BY <1>1, <2>1, <2>2
<1>3. LocalsType'
  BY <1>1 DEF TypeOK, LocalsType
<1>4. SharedType' /\ issued' \in 0 .. MaxStatements
  BY <1>1 DEF TypeOK, SharedType
<1> QED
  BY <1>2, <1>3, <1>4 DEF TypeOK

\* A step that moves on, or returns, and leaves the locals alone: what is left
\* to show is the type of the shared state.
LEMMA MoveType ==
  ASSUME TypeOK, NEW s \in Sessions, NEW next, NEW res,
         \/ Goto(s, next) /\ UNCHANGED result
         \/ Return(s, res),
         UNCHANGED <<stmt, issued>>, SharedType', LocalsType',
         next \in labels(stmt[s].op) \cup {"idle"}, res.status \in Status
  PROVE  TypeOK'
<1>1. CASE Goto(s, next) /\ UNCHANGED result
  <2>1. ControlType'
    BY <1>1, GotoType DEF TypeOK
  <2>2. ResultType'
    BY <1>1 DEF TypeOK, ResultType
  <2> QED
    BY <2>1, <2>2 DEF TypeOK
<1>2. CASE Return(s, res)
  BY <1>2, ReturnType DEF TypeOK
<1> QED
  BY <1>1, <1>2

\* Locals that do not change stay well typed.
LEMMA LocalsUnchanged ==
  ASSUME TypeOK, UNCHANGED locals
  PROVE  LocalsType'
  BY DEF TypeOK, LocalsType, locals

\* Writing the catalog file keeps the types.
LEMMA SaveCatalogStepType ==
  ASSUME TypeOK, NEW s \in Sessions, SaveCatalog(s)
  PROVE  TypeOK'
<1>1. disk' \in DiskType
  BY SaveCatalogType DEF SaveCatalog, TypeOK, SharedType
<1>2. SharedType'
  BY <1>1 DEF SaveCatalog, TypeOK, SharedType
<1> QED
  BY <1>2, LocalsUnchanged, MoveType, Statuses DEF SaveCatalog

\* Writing a table file keeps the types.
LEMMA SaveTableStepType ==
  ASSUME TypeOK, NEW s \in Sessions, SaveTable(s)
  PROVE  TypeOK'
<1>1. disk' \in DiskType
  BY SaveTableType DEF SaveTable, TypeOK, SharedType
<1>2. SharedType'
  BY <1>1 DEF SaveTable, TypeOK, SharedType
<1>3. UNCHANGED <<stmt, locals, issued>>
  BY DEF SaveTable
<1>4. ControlType
  BY DEF TypeOK
<1>5. CASE At(s, "insert_save") /\ Goto(s, "insert_indexes")
             /\ UNCHANGED result
  <2>1. "insert_indexes" \in labels(stmt[s].op)
    BY <1>4, <1>5, AtOp, LabelSets DEF At, Ops
  <2> QED
    BY <1>2, <1>3, <1>5, <2>1, LocalsUnchanged, MoveType, Statuses
<1>6. CASE At(s, "create_index_save") /\ Goto(s, "save_catalog")
             /\ UNCHANGED result
  <2>1. "save_catalog" \in labels(stmt[s].op)
    BY <1>4, <1>6, AtOp, LabelSets DEF At, Ops
  <2> QED
    BY <1>2, <1>3, <1>6, <2>1, LocalsUnchanged, MoveType, Statuses
<1>7. CASE Return(s, Ok)
  BY <1>2, <1>3, <1>7, LocalsUnchanged, MoveType, Statuses
<1> QED
  BY <1>5, <1>6, <1>7 DEF SaveTable

\* A step that changes the catalog, or fails, leaves it well typed.
LEMMA ChangeCatalogType ==
  ASSUME catalog \in CatalogType, NEW s, NEW ok, NEW new, NEW next,
         ChangeCatalog(s, ok, new, next),
         new \in CatalogType
  PROVE  /\ catalog' \in CatalogType
         /\ \/ Goto(s, next) /\ UNCHANGED result
            \/ Return(s, Err)
  BY DEF ChangeCatalog

\* CREATE TABLE keeps the types.
LEMMA CreateTableStepType ==
  ASSUME TypeOK, NEW s \in Sessions, CreateTable(s)
  PROVE  TypeOK'
<1> DEFINE st == stmt[s]
<1>1. /\ st \in Statement /\ st.op = "create_table"
      /\ st.db \in DBs /\ st.tbl \in Tables
  BY AtOp, LabelSets, StatementFields
     DEF CreateTable, CatalogLock, At, TypeOK, Ops
<1>2. catalog \in CatalogType /\ disk \in DiskType
  BY DEF TypeOK, SharedType
<1>3. create_table(catalog, st.db, st.tbl) \in CatalogType
  BY <1>1, <1>2, CreateTableType
<1>4. /\ catalog' \in CatalogType
      /\ \/ Goto(s, "save_catalog") /\ UNCHANGED result
         \/ Return(s, Err)
  BY <1>2, <1>3, ChangeCatalogType DEF CreateTable
<1>5. [type |-> "CreateTable", tbl |-> st.tbl] \in Entry
  BY <1>1 DEF Entry, WholeEntry
<1>6. disk' \in DiskType
  BY <1>2, <1>5, LogType DEF CreateTable
<1>7. SharedType'
  BY <1>4, <1>6 DEF CreateTable, TypeOK, SharedType
<1>8. "save_catalog" \in labels(stmt[s].op)
  BY <1>1, LabelSets
<1> QED
  BY <1>4, <1>7, <1>8, LocalsUnchanged, MoveType, Statuses DEF CreateTable

\* CREATE DATABASE keeps the types.
LEMMA CreateDatabaseStepType ==
  ASSUME TypeOK, NEW s \in Sessions, CreateDatabase(s)
  PROVE  TypeOK'
<1> DEFINE st == stmt[s]
<1>1. st \in Statement /\ st.op = "create_database" /\ st.db \in DBs
  BY AtOp, LabelSets, StatementFields
     DEF CreateDatabase, CatalogLock, At, TypeOK, Ops
<1>2. catalog \in CatalogType
  BY DEF TypeOK, SharedType
<1>3. create_database(catalog, st.db) \in CatalogType
  BY <1>1, <1>2, CreateDatabaseType
<1>4. /\ catalog' \in CatalogType
      /\ \/ Goto(s, "save_catalog") /\ UNCHANGED result
         \/ Return(s, Err)
  BY <1>2, <1>3, ChangeCatalogType DEF CreateDatabase
<1>5. SharedType'
  BY <1>4 DEF CreateDatabase, TypeOK, SharedType
<1>6. "save_catalog" \in labels(stmt[s].op)
  BY <1>1, LabelSets
<1> QED
  BY <1>4, <1>5, <1>6, LocalsUnchanged, MoveType, Statuses DEF CreateDatabase

\* DROP DATABASE keeps the types.
LEMMA DropDatabaseStepType ==
  ASSUME TypeOK, NEW s \in Sessions, DropDatabase(s)
  PROVE  TypeOK'
<1> DEFINE st == stmt[s]
<1>1. st \in Statement /\ st.op = "drop_database" /\ st.db \in DBs
  BY AtOp, LabelSets, StatementFields
     DEF DropDatabase, CatalogLock, At, TypeOK, Ops
<1>2. catalog \in CatalogType
  BY DEF TypeOK, SharedType
<1>3. remove_database(catalog, st.db) \in CatalogType
  BY <1>1, <1>2, RemoveDatabaseType
<1>4. /\ catalog' \in CatalogType
      /\ \/ Goto(s, "save_catalog") /\ UNCHANGED result
         \/ Return(s, Err)
  BY <1>2, <1>3, ChangeCatalogType DEF DropDatabase
<1>5. SharedType'
  BY <1>4 DEF DropDatabase, TypeOK, SharedType
<1>6. "save_catalog" \in labels(stmt[s].op)
  BY <1>1, LabelSets
<1> QED
  BY <1>4, <1>5, <1>6, LocalsUnchanged, MoveType, Statuses DEF DropDatabase

\* Every step of a DROP TABLE keeps the types.
LEMMA DropTableStepType ==
  ASSUME TypeOK, NEW s \in Sessions,
         \/ DropTableLog(s) \/ DropTable(s) \/ DropTableFile(s)
         \/ DropTableSave(s)
  PROVE  TypeOK'
<1> DEFINE st == stmt[s]
<1>1. /\ st \in Statement /\ st.op = "drop_table"
      /\ st.db \in DBs /\ st.tbl \in Tables
  <2>1. pc[s] \in labels("drop_table") \ {"save_catalog"}
    BY LabelSets
       DEF DropTableLog, DropTable, DropTableFile, DropTableSave,
           CatalogLock, At
  <2>2. ControlType
    BY DEF TypeOK
  <2>3. st \in Statement /\ st.op = "drop_table"
    BY <2>1, <2>2, AtOp DEF Ops
  <2> QED
    BY <2>3, StatementFields
<1>2. /\ catalog \in CatalogType /\ disk \in DiskType
      /\ StorageType(storage)
  BY DEF TypeOK, SharedType
<1>3. {"drop_table", "drop_table_file", "drop_table_save"}
        \subseteq labels(stmt[s].op)
  BY <1>1, LabelSets
<1>4. CASE DropTableLog(s)
  <2>1. [type |-> "DropTable", tbl |-> st.tbl] \in Entry
    BY <1>1 DEF Entry, WholeEntry
  <2>2. disk' \in DiskType
    BY <1>2, <1>4, <2>1, LogType DEF DropTableLog
  <2>3. SharedType'
    BY <1>4, <2>2 DEF DropTableLog, TypeOK, SharedType
  <2> QED
    BY <1>3, <1>4, <2>3, LocalsUnchanged, MoveType, Statuses DEF DropTableLog
<1>5. CASE DropTable(s)
  <2>1. drop_table(catalog, st.db, st.tbl) \in CatalogType
    BY <1>1, <1>2, DropTableType
  <2>2. /\ catalog' \in CatalogType
        /\ \/ Goto(s, "drop_table_file") /\ UNCHANGED result
           \/ Return(s, Err)
    BY <1>2, <1>5, <2>1, ChangeCatalogType DEF DropTable
  <2>3. StorageType(clear_table(storage, st.tbl))
    BY <1>1, <1>2, ClearTable
  <2>4. storage' = clear_table(storage, st.tbl) \/ storage' = storage
    BY <1>5 DEF DropTable
  <2>5. StorageType(storage')
    BY <1>2, <2>3, <2>4
  <2>6. SharedType'
    BY <1>5, <2>2, <2>5 DEF DropTable, TypeOK, SharedType
  <2> QED
    BY <1>3, <1>5, <2>2, <2>6, LocalsUnchanged, MoveType, Statuses
       DEF DropTable
<1>6. CASE DropTableFile(s)
  <2>1. disk' \in DiskType
    BY <1>2, <1>6, TableFileType DEF DropTableFile
  <2>2. SharedType'
    BY <1>6, <2>1 DEF DropTableFile, TypeOK, SharedType
  <2> QED
    BY <1>3, <1>6, <2>2, LocalsUnchanged, MoveType, Statuses DEF DropTableFile
<1>7. CASE DropTableSave(s)
  <2>1. disk' \in DiskType
    BY <1>2, <1>7, SaveCatalogType DEF DropTableSave
  <2>2. SharedType'
    BY <1>7, <2>1 DEF DropTableSave, TypeOK, SharedType
  <2> QED
    BY <1>7, <2>2, LocalsUnchanged, MoveType, Statuses DEF DropTableSave
<1> QED
  BY <1>4, <1>5, <1>6, <1>7

\* Every step of a CREATE INDEX keeps the types.
LEMMA CreateIndexStepType ==
  ASSUME TypeOK, NEW s \in Sessions,
         \/ CreateIndexExists(s) \/ CreateIndex(s) \/ CreateIndexLog(s)
         \/ CreateIndexColumns(s) \/ CreateIndexBuild(s)
  PROVE  TypeOK'
<1> DEFINE st == stmt[s]
<1>1. /\ st \in Statement /\ st.op = "create_index"
      /\ st.db \in DBs /\ st.tbl \in Tables /\ st.def \in IndexDef
  <2>1. pc[s] \in labels("create_index") \ {"save_catalog"}
    BY LabelSets
       DEF CreateIndexExists, CreateIndex, CreateIndexLog, CreateIndexColumns,
           CreateIndexBuild, CatalogLock, LookupTable, At
  <2>2. ControlType
    BY DEF TypeOK
  <2>3. st \in Statement /\ st.op = "create_index"
    BY <2>1, <2>2, AtOp DEF Ops
  <2> QED
    BY <2>3, StatementFields
<1>2. /\ catalog \in CatalogType /\ disk \in DiskType
      /\ StorageType(storage)
  BY DEF TypeOK, SharedType
<1>3. {"create_index", "create_index_log", "create_index_columns",
       "create_index_build", "create_index_save"} \subseteq labels(stmt[s].op)
  BY <1>1, LabelSets
<1>4. CASE CreateIndexExists(s)
  <2>1. SharedType'
    BY <1>4 DEF CreateIndexExists, TypeOK, SharedType
  <2> QED
    BY <1>3, <1>4, <2>1, LocalsUnchanged, MoveType, Statuses
       DEF CreateIndexExists
<1>5. CASE CreateIndex(s)
  <2>1. create_index(catalog, st.db, st.tbl, st.def) \in CatalogType
    BY <1>1, <1>2, CreateIndexType
  <2>2. /\ catalog' \in CatalogType
        /\ \/ Goto(s, "create_index_log") /\ UNCHANGED result
           \/ Return(s, Err)
    BY <1>2, <1>5, <2>1, ChangeCatalogType DEF CreateIndex
  <2>3. SharedType'
    BY <1>5, <2>2 DEF CreateIndex, TypeOK, SharedType
  <2> QED
    BY <1>3, <1>5, <2>2, <2>3, LocalsUnchanged, MoveType, Statuses
       DEF CreateIndex
<1>6. CASE CreateIndexLog(s)
  <2>1. [type |-> "CreateIndex", db |-> st.db, tbl |-> st.tbl,
         def |-> st.def] \in Entry
    BY <1>1 DEF Entry, WholeEntry
  <2>2. disk' \in DiskType
    BY <1>2, <1>6, <2>1, LogType DEF CreateIndexLog
  <2>3. SharedType'
    BY <1>6, <2>2 DEF CreateIndexLog, TypeOK, SharedType
  <2> QED
    BY <1>3, <1>6, <2>3, LocalsUnchanged, MoveType, Statuses
       DEF CreateIndexLog
<1>7. CASE CreateIndexColumns(s)
  <2>1. idxs[s] \in SUBSET IndexDef
    BY DEF TypeOK, LocalsType
  <2>2. LookupTable(s, "create_index_columns", "create_index_build", idxs[s])
    BY <1>7 DEF CreateIndexColumns
  <2> QED
    BY <1>3, <2>1, <2>2, LookupTableType
<1>8. CASE CreateIndexBuild(s)
  <2> DEFINE key == <<st.tbl, st.def.name>>
             m   == rows_of(storage, st.tbl)
             b   == SetToBag(entries(m, DOMAIN m, st.def))
             d   == put(storage.index_data, key, b)
  <2>1. /\ StorageType(remove_index_data(storage, key))
        /\ key \in IndexKey
        /\ IsIndexData(b)
    BY <1>1, <1>2, RemoveIndexData, SetToBagType DEF IndexKey, IndexDef
  <2>2. /\ d = [k \in DOMAIN d |-> d[k]]
        /\ DOMAIN d \subseteq IndexKey
        /\ \A k \in DOMAIN d : IsIndexData(d[k])
    <3> HIDE DEF key, b
    <3> QED
      BY <1>2, <2>1 DEF put, StorageType
  <2>3. StorageType([storage EXCEPT !.index_data = d])
    <3> HIDE DEF d
    <3> QED
      BY <1>2, <2>2, ReplaceIndexData
  <2>4. \/ storage' = remove_index_data(storage, key) /\ Return(s, Err)
        \/ /\ storage' = [storage EXCEPT !.index_data = d]
           /\ Goto(s, "create_index_save")
           /\ UNCHANGED result
    BY <1>8 DEF CreateIndexBuild
  <2>5. StorageType(storage')
    BY <2>1, <2>3, <2>4
  <2>6. SharedType'
    BY <1>8, <2>5 DEF CreateIndexBuild, TypeOK, SharedType
  <2>7. UNCHANGED <<stmt, issued, locals>>
    BY <1>8 DEF CreateIndexBuild
  <2> HIDE DEF key, d
  <2> QED
    BY <1>3, <2>4, <2>6, <2>7, LocalsUnchanged, MoveType, Statuses
<1> QED
  BY <1>4, <1>5, <1>6, <1>7, <1>8

\* Every step of a DROP INDEX keeps the types.
LEMMA DropIndexStepType ==
  ASSUME TypeOK, NEW s \in Sessions,
         \/ DropIndexFind(s) \/ DropIndex(s) \/ DropIndexLog(s)
         \/ DropIndexData(s)
  PROVE  TypeOK'
<1> DEFINE st == stmt[s]
<1>1. /\ st \in Statement /\ st.op = "drop_index"
      /\ st.db \in DBs /\ st.tbl \in Tables /\ st.name \in IndexNames
  <2>1. pc[s] \in labels("drop_index") \ {"save_catalog"}
    BY LabelSets
       DEF DropIndexFind, DropIndex, DropIndexLog, DropIndexData,
           CatalogLock, At
  <2>2. ControlType
    BY DEF TypeOK
  <2>3. st \in Statement /\ st.op = "drop_index"
    BY <2>1, <2>2, AtOp DEF Ops
  <2> QED
    BY <2>3, StatementFields
<1>2. /\ catalog \in CatalogType /\ disk \in DiskType
      /\ StorageType(storage)
  BY DEF TypeOK, SharedType
<1>3. {"drop_index", "drop_index_exists", "drop_index_log",
       "drop_index_data"} \subseteq labels(stmt[s].op)
  BY <1>1, LabelSets
<1>4. CASE DropIndexFind(s)
  <2>1. SharedType' /\ LocalsType' /\ issued' \in 0 .. MaxStatements
    BY <1>4 DEF DropIndexFind, TypeOK, SharedType, LocalsType, locals
  <2>2. CASE Return(s, Err) /\ UNCHANGED stmt
    BY <2>1, <2>2, ReturnType, Statuses DEF TypeOK
  <2>3. CASE \E t \in Tables :
                /\ stmt' = [stmt EXCEPT ![s].tbl = t]
                /\ Goto(s, IF st.opt THEN "drop_index_exists"
                                     ELSE "drop_index")
                /\ UNCHANGED result
    <3>1. PICK t \in Tables : stmt' = [stmt EXCEPT ![s].tbl = t]
      BY <2>3
    <3>2. PICK l \in {"drop_index", "drop_index_exists"} : Goto(s, l)
      BY <2>3
    <3>3. [st EXCEPT !.tbl = t] \in Statement
      BY <1>1 DEF Statement
    <3>4. [st EXCEPT !.tbl = t].op = "drop_index"
      BY <1>1 DEF Statement
    <3>5. stmt' = [stmt EXCEPT ![s] = [st EXCEPT !.tbl = t]]
      BY <3>1
    <3>6. l \in Label /\ l \in labels("drop_index")
      BY LabelSets, LabelsOfOps DEF Ops
    <3>7. pc' \in [Sessions -> Label] /\ stmt' \in [Sessions -> Statement]
      BY <3>2, <3>3, <3>5, <3>6 DEF Goto, TypeOK, ControlType
    <3>8. \A u \in Sessions : pc'[u] # "idle" => pc'[u] \in labels(stmt'[u].op)
      BY <3>2, <3>4, <3>5, <3>6 DEF Goto, TypeOK, ControlType
    <3>9. ResultType'
      BY <2>3 DEF TypeOK, ResultType
    <3> QED
      BY <2>1, <3>7, <3>8, <3>9 DEF TypeOK, ControlType
  <2> QED
    BY <1>4, <2>2, <2>3 DEF DropIndexFind
<1>5. CASE DropIndex(s)
  <2>1. drop_index(catalog, st.db, st.tbl, st.name) \in CatalogType
    BY <1>1, <1>2, DropIndexType
  <2>2. /\ catalog' \in CatalogType
        /\ \/ Goto(s, "drop_index_log") /\ UNCHANGED result
           \/ Return(s, Err)
    BY <1>2, <1>5, <2>1, ChangeCatalogType DEF DropIndex
  <2>3. SharedType'
    BY <1>5, <2>2 DEF DropIndex, TypeOK, SharedType
  <2> QED
    BY <1>3, <1>5, <2>2, <2>3, LocalsUnchanged, MoveType, Statuses
       DEF DropIndex
<1>6. CASE DropIndexLog(s)
  <2>1. [type |-> "DropIndex", db |-> st.db, tbl |-> st.tbl,
         name |-> st.name] \in Entry
    BY <1>1 DEF Entry, WholeEntry
  <2>2. disk' \in DiskType
    BY <1>2, <1>6, <2>1, LogType DEF DropIndexLog
  <2>3. SharedType'
    BY <1>6, <2>2 DEF DropIndexLog, TypeOK, SharedType
  <2> QED
    BY <1>3, <1>6, <2>3, LocalsUnchanged, MoveType, Statuses DEF DropIndexLog
<1>7. CASE DropIndexData(s)
  <2>1. StorageType(storage')
    BY <1>2, <1>7, RemoveIndexData DEF DropIndexData
  <2>2. SharedType'
    BY <1>7, <2>1 DEF DropIndexData, TypeOK, SharedType
  <2> QED
    BY <1>7, <2>2, LocalsUnchanged, MoveType, Statuses DEF DropIndexData
<1> QED
  BY <1>4, <1>5, <1>6, <1>7

\* The number of sequence values that rows take is a number.
LEMMA IdsTakenType ==
  ASSUME NEW rs, NEW k \in Int
  PROVE  ids_taken(rs, k) \in Nat
<1>1. IsFiniteSet(1 .. k)
  BY FS_Interval
<1>2. IsFiniteSet({i \in 1 .. k : wants_id(rs[i])})
  BY <1>1, FS_Subset
<1> QED
  BY <1>2, FS_CardinalityType DEF ids_taken

\* Rows that have every column are still such rows when the sequence and the
\* defaults have filled their NULLs in.
LEMMA FillRowsType ==
  ASSUME NEW rs \in Seq(PartialRow), \A i \in DOMAIN rs : rs[i] \in Row,
         NEW base \in Nat
  PROVE  fill_rows(rs, base) \in Seq(Row)
<1>1. \A i \in DOMAIN rs : base + ids_taken(rs, i - 1) \in Nat
  BY IdsTakenType
<1>2. \A row \in Row, n \in Nat : fill_row(row, n) \in Row
  BY ExecutorAssumption DEF fill_row, Row, Value
<1>3. \A i \in DOMAIN rs :
        fill_row(rs[i], base + ids_taken(rs, i - 1)) \in Row
  BY <1>1, <1>2
<1>4. DOMAIN rs = 1 .. Len(rs) /\ Len(rs) \in Nat
  OBVIOUS
<1> QED
  BY <1>3, <1>4 DEF fill_rows

\* Every step of an INSERT keeps the types.
LEMMA InsertStepType ==
  ASSUME TypeOK, NEW s \in Sessions,
         \/ InsertLookup(s) \/ InsertFill(s) \/ InsertLog(s)
         \/ InsertStore(s) \/ InsertIndexes(s) \/ InsertIndex(s)
  PROVE  TypeOK'
<1> DEFINE st == stmt[s]
<1>1. /\ st \in Statement /\ st.op = "insert"
      /\ st.db \in DBs /\ st.tbl \in Tables /\ st.rows \in Seq(PartialRow)
  <2>1. pc[s] \in labels("insert") \ {"save_catalog"}
    BY LabelSets
       DEF InsertLookup, InsertFill, InsertLog, InsertStore, InsertIndexes,
           InsertIndex, LookupTable, CatalogLock, At
  <2>2. ControlType
    BY DEF TypeOK
  <2>3. st \in Statement /\ st.op = "insert"
    BY <2>1, <2>2, AtOp DEF Ops
  <2> QED
    BY <2>3, StatementFields
<1>2. /\ catalog \in CatalogType /\ disk \in DiskType
      /\ StorageType(storage)
      /\ rows[s] \in Seq(Row) /\ idxs[s] \in SUBSET IndexDef
  BY DEF TypeOK, SharedType, LocalsType
<1>3. {"insert_fill", "insert_log", "insert_store", "insert_save",
       "insert_index"} \subseteq labels(stmt[s].op)
  BY <1>1, LabelSets
<1>4. CASE InsertLookup(s)
  <2>1. LookupTable(s, "insert_lookup", "insert_fill", {})
    BY <1>4 DEF InsertLookup
  <2> QED
    BY <1>3, <2>1, LookupTableType
<1>5. CASE InsertFill(s)
  <2>1. /\ catalog.sequences[st.tbl] \in Nat
        /\ ids_taken(st.rows, Len(st.rows)) \in Nat
    BY <1>1, <1>2, IdsTakenType DEF CatalogType
  <2>2. CASE /\ \A i \in DOMAIN st.rows : st.rows[i] \in Row
             /\ rows' = [rows EXCEPT ![s] =
                           fill_rows(st.rows, catalog.sequences[st.tbl])]
             /\ \/ catalog' = catalog
                \/ catalog' = next_row_id(catalog, st.tbl,
                                          ids_taken(st.rows, Len(st.rows)))
             /\ Goto(s, "insert_log")
             /\ UNCHANGED <<poisoned, result>>
    <3>1. catalog' \in CatalogType
      BY <1>1, <1>2, <2>1, <2>2, NextRowIdType
    <3>2. fill_rows(st.rows, catalog.sequences[st.tbl]) \in Seq(Row)
      BY <1>1, <2>1, <2>2, FillRowsType
    <3>3. SharedType'
      BY <1>5, <2>2, <3>1 DEF InsertFill, TypeOK, SharedType
    <3>4. LocalsType'
      BY <1>5, <2>2, <3>2 DEF InsertFill, TypeOK, LocalsType
    <3> QED
      BY <1>3, <1>5, <2>2, <3>3, <3>4, MoveType, Statuses DEF InsertFill
  <2>3. CASE /\ poisoned' = TRUE
             /\ Return(s, Panic)
             /\ UNCHANGED <<catalog, rows>>
    <3>1. SharedType' /\ LocalsType'
      BY <1>5, <2>3 DEF InsertFill, TypeOK, SharedType, LocalsType
    <3> QED
      BY <1>5, <2>3, <3>1, MoveType, Statuses DEF InsertFill
  <2> QED
    BY <1>5, <2>2, <2>3 DEF InsertFill
<1>6. CASE InsertLog(s)
  <2>1. [type |-> "InsertRows", tbl |-> st.tbl, rows |-> rows[s]] \in Entry
    BY <1>1, <1>2 DEF Entry, WholeEntry
  <2>2. disk' \in DiskType
    BY <1>2, <1>6, <2>1, LogType DEF InsertLog
  <2>3. SharedType'
    BY <1>6, <2>2 DEF InsertLog, TypeOK, SharedType
  <2> QED
    BY <1>3, <1>6, <2>3, LocalsUnchanged, MoveType, Statuses DEF InsertLog
<1>7. CASE InsertStore(s)
  <2>1. StorageType(storage')
    BY <1>1, <1>2, <1>7, InsertNewRows DEF InsertStore
  <2>2. SharedType'
    BY <1>7, <2>1 DEF InsertStore, TypeOK, SharedType
  <2>3. new_ids(storage, st.tbl, Len(rows[s])) \in SUBSET RowId
    BY <1>1, <1>2 DEF new_ids, StorageType, RowId
  <2>4. LocalsType'
    BY <1>7, <2>3 DEF InsertStore, TypeOK, LocalsType
  <2> QED
    BY <1>3, <1>7, <2>2, <2>4, MoveType, Statuses DEF InsertStore
<1>8. CASE InsertIndexes(s)
  <2>1. get_table_indexes(catalog, st.db, st.tbl) \in SUBSET IndexDef
    BY <1>1, <1>2 DEF get_table_indexes, CatalogType
  <2>2. SharedType' /\ LocalsType'
    BY <1>8, <2>1 DEF InsertIndexes, TypeOK, SharedType, LocalsType
  <2> QED
    BY <1>3, <1>8, <2>2, MoveType, Statuses DEF InsertIndexes
<1>9. CASE InsertIndex(s)
  <2>1. StorageType(storage')
    BY <1>1, <1>2, <1>9, InsertIntoIndexes DEF InsertIndex
  <2>2. SharedType'
    BY <1>9, <2>1 DEF InsertIndex, TypeOK, SharedType
  <2> QED
    BY <1>9, <2>2, LocalsUnchanged, MoveType, Statuses DEF InsertIndex
<1> QED
  BY <1>4, <1>5, <1>6, <1>7, <1>8, <1>9

\* A row that a SET has been applied to is a row.
LEMMA AssignType ==
  ASSUME NEW row \in Row, NEW set \in PartialRow
  PROVE  assign(row, set) \in Row
  BY DEF assign, Row, PartialRow, Value

\* The rows of m a DELETE of the ids gone leaves, and those an UPDATE of the ids
\* changed leaves.  The provers see these as two names where their bodies do
\* not matter.
rows_left(m, gone) == [id \in DOMAIN m \ gone |-> m[id]]

rows_assigned(m, changed, set) ==
  [id \in DOMAIN m |-> IF id \in changed THEN assign(m[id], set) ELSE m[id]]

\* Taking rows and their index entries out keeps the storage well typed and
\* leaves the other rows, and the row ids to come, as they are.
LEMMA DeleteRows ==
  ASSUME NEW st, StorageType(st), NEW t \in DOMAIN st.tables,
         NEW defs, NEW gone,
         NEW r, r = delete_rows(st, t, defs, gone)
  PROVE  /\ StorageType(r)
         /\ r.tables = [st.tables EXCEPT ![t] = rows_left(st.tables[t], gone)]
         /\ r.next_ids = st.next_ids
<1> DEFINE m    == st.tables[t]
           left == rows_left(m, gone)
           out  == delete_from_indexes(st, t, defs, m, gone)
<1>1. StorageType(out) /\ out.tables = st.tables /\ out.next_ids = st.next_ids
  BY DeleteFromIndexes
<1>2. IsRowMap(m)
  BY DEF StorageType
<1>3. IsRowMap(left)
  <2>1. IsFiniteSet(DOMAIN m \ gone)
    BY <1>2, FS_Subset DEF IsRowMap
  <2> QED
    BY <1>2, <2>1 DEF IsRowMap, rows_left
<1>4. r = with_rows(out, t, left)
  BY DEF delete_rows, with_rows, rows_left
<1>5. t \in DOMAIN out.tables
  BY <1>1
<1> HIDE DEF m, out, left
<1>7. StorageType(out) /\ IsRowMap(left)
  BY <1>1, <1>3
<1>6. /\ StorageType(r)
      /\ r.tables = [out.tables EXCEPT ![t] = left]
      /\ r.next_ids = out.next_ids
  BY <1>4, <1>5, <1>7, ReplaceRows
<1> QED
  BY <1>1, <1>6 DEF left, m

\* Setting columns of rows and moving their index entries keeps the storage
\* well typed and leaves the other rows, and the row ids to come, as they are.
LEMMA UpdateRows ==
  ASSUME NEW st, StorageType(st), NEW t \in Tables, t \in DOMAIN st.tables,
         NEW defs \in SUBSET IndexDef, NEW changed, NEW set \in PartialRow,
         NEW r, r = update_rows(st, t, defs, changed, set)
  PROVE  /\ StorageType(r)
         /\ r.tables =
              [st.tables EXCEPT ![t] = rows_assigned(st.tables[t], changed, set)]
         /\ r.next_ids = st.next_ids
<1> DEFINE m   == st.tables[t]
           new == rows_assigned(m, changed, set)
           out == delete_from_indexes(st, t, defs, m, changed)
           mid == with_rows(out, t, new)
<1>1. StorageType(out) /\ out.tables = st.tables /\ out.next_ids = st.next_ids
  BY DeleteFromIndexes
<1>2. IsRowMap(m)
  BY DEF StorageType
<1>3. IsRowMap(new)
  BY <1>2, AssignType DEF IsRowMap, rows_assigned
<1>4. CASE changed = {}
  <2>1. r = st
    BY <1>4 DEF update_rows
  <2>2. new = m
    BY <1>2, <1>4 DEF IsRowMap, rows_assigned
  <2>3. st.tables = [st.tables EXCEPT ![t] = m]
    BY DEF StorageType
  <2> HIDE DEF new
  <2>4. st.tables = [st.tables EXCEPT ![t] = new]
    BY <2>2, <2>3
  <2> QED
    BY <2>1, <2>4 DEF new
<1>5. CASE changed # {}
  <2>1. r = insert_into_indexes(mid, t, defs, new, changed)
    BY <1>5 DEF update_rows, with_rows, rows_assigned
  <2>2. t \in DOMAIN out.tables /\ IsRowMap(new)
    BY <1>1, <1>3
  <2> HIDE DEF m, out, new
  <2>3. /\ StorageType(mid)
        /\ mid.tables = [out.tables EXCEPT ![t] = new]
        /\ mid.next_ids = out.next_ids
    BY <1>1, <2>2, ReplaceRows
  <2> HIDE DEF mid
  <2>4. StorageType(r) /\ r.tables = mid.tables /\ r.next_ids = mid.next_ids
    BY <2>1, <2>3, InsertIntoIndexes
  <2> QED
    BY <1>1, <2>3, <2>4 DEF new, m
<1> QED
  BY <1>4, <1>5

\* The snapshot of a table in the log is well typed.
LEMMA LogSnapshotType ==
  ASSUME disk \in DiskType, NEW t \in Tables, NEW m, IsRowMap(m), NEW touched,
         LogSnapshot(t, m, touched)
  PROVE  disk' \in DiskType
<1>1. [type |-> "TableSnapshot", tbl |-> t, rows |-> rows_vec(m)] \in Entry
  BY RowsVecType DEF Entry, WholeEntry
<1> QED
  BY <1>1, LogType DEF LogSnapshot

\* Every step of a DELETE keeps the types.
LEMMA DeleteStepType ==
  ASSUME TypeOK, NEW s \in Sessions, DeleteLookup(s) \/ DeleteApply(s)
  PROVE  TypeOK'
<1> DEFINE st == stmt[s]
<1>1. st \in Statement /\ st.op = "delete" /\ st.db \in DBs /\ st.tbl \in Tables
  <2>1. pc[s] \in labels("delete") \ {"save_catalog"}
    BY LabelSets DEF DeleteLookup, DeleteApply, LookupTable, CatalogLock, At
  <2>2. st \in Statement /\ st.op = "delete"
    BY <2>1, AtOp DEF Ops, TypeOK
  <2> QED
    BY <2>2, StatementFields
<1>2. catalog \in CatalogType /\ disk \in DiskType /\ StorageType(storage)
  BY DEF TypeOK, SharedType
<1>3. {"delete_apply", "delete_save"} \subseteq labels(stmt[s].op)
  BY <1>1, LabelSets
<1>4. CASE DeleteLookup(s)
  <2>1. get_table_indexes(catalog, st.db, st.tbl) \in SUBSET IndexDef
    BY <1>1, <1>2 DEF get_table_indexes, CatalogType
  <2>2. LookupTable(s, "delete_lookup", "delete_apply",
                    get_table_indexes(catalog, st.db, st.tbl))
    BY <1>4 DEF DeleteLookup
  <2> QED
    BY <1>3, <2>1, <2>2, LookupTableType
<1>5. CASE DeleteApply(s)
  <2> DEFINE gone == matching_ids(storage.tables[st.tbl], st.sel)
  <2>1. CASE st.tbl \in DOMAIN storage.tables
    <3>1. /\ storage' = delete_rows(storage, st.tbl, idxs[s], gone)
          /\ LogSnapshot(st.tbl, storage'.tables[st.tbl], gone)
          /\ Goto(s, "delete_save")
          /\ UNCHANGED result
      BY <1>5, <2>1, Zenon DEF DeleteApply
    <3> HIDE DEF gone
    <3>2. /\ StorageType(storage')
          /\ storage'.tables = [storage.tables EXCEPT
               ![st.tbl] = rows_left(storage.tables[st.tbl], gone)]
      BY <1>2, <2>1, <3>1, DeleteRows
    <3>3. IsRowMap(storage'.tables[st.tbl])
      BY <2>1, <3>2 DEF StorageType
    <3>4. disk' \in DiskType
      BY <1>1, <1>2, <3>1, <3>3, LogSnapshotType
    <3>5. SharedType'
      BY <1>5, <3>2, <3>4 DEF DeleteApply, TypeOK, SharedType
    <3>6. UNCHANGED locals /\ UNCHANGED <<stmt, issued>>
      BY <1>5, Zenon DEF DeleteApply
    <3>7. LocalsType'
      BY <3>6, LocalsUnchanged
    <3>8. "delete_save" \in labels(stmt[s].op)
      BY <1>3
    <3> QED
      BY <3>1, <3>5, <3>6, <3>7, <3>8, MoveType, Statuses
  <2>2. CASE st.tbl \notin DOMAIN storage.tables
    <3>1. Return(s, Err) /\ UNCHANGED <<storage, disk>>
      BY <1>5, <2>2 DEF DeleteApply
    <3>2. SharedType'
      BY <1>5, <3>1 DEF DeleteApply, TypeOK, SharedType
    <3> QED
      BY <1>5, <3>1, <3>2, LocalsUnchanged, MoveType, Statuses DEF DeleteApply
  <2> QED
    BY <2>1, <2>2
<1> QED
  BY <1>4, <1>5

\* Every step of an UPDATE keeps the types.
LEMMA UpdateStepType ==
  ASSUME TypeOK, NEW s \in Sessions,
         UpdateLookup(s) \/ UpdateAssign(s) \/ UpdateApply(s)
  PROVE  TypeOK'
<1> DEFINE st == stmt[s]
<1>1. /\ st \in Statement /\ st.op = "update"
      /\ st.db \in DBs /\ st.tbl \in Tables /\ st.set \in PartialRow
  <2>1. pc[s] \in labels("update") \ {"save_catalog"}
    BY LabelSets
       DEF UpdateLookup, UpdateAssign, UpdateApply, LookupTable, CatalogLock, At
  <2>2. st \in Statement /\ st.op = "update"
    BY <2>1, AtOp DEF Ops, TypeOK
  <2> QED
    BY <2>2, StatementFields
<1>2. /\ catalog \in CatalogType /\ disk \in DiskType /\ StorageType(storage)
      /\ idxs[s] \in SUBSET IndexDef
  BY DEF TypeOK, SharedType, LocalsType
<1>3. {"update_assign", "update_apply", "update_save"}
        \subseteq labels(stmt[s].op)
  BY <1>1, LabelSets
<1>4. CASE UpdateLookup(s)
  <2>1. get_table_indexes(catalog, st.db, st.tbl) \in SUBSET IndexDef
    BY <1>1, <1>2 DEF get_table_indexes, CatalogType
  <2>2. LookupTable(s, "update_lookup", "update_assign",
                    get_table_indexes(catalog, st.db, st.tbl))
    BY <1>4 DEF UpdateLookup
  <2> QED
    BY <1>3, <2>1, <2>2, LookupTableType
<1>5. CASE UpdateAssign(s)
  <2>1. LookupTable(s, "update_assign", "update_apply", idxs[s])
    BY <1>5 DEF UpdateAssign
  <2> QED
    BY <1>2, <1>3, <2>1, LookupTableType
<1>6. CASE UpdateApply(s)
  <2> DEFINE changed == matching_ids(storage.tables[st.tbl], st.sel)
  <2>1. CASE st.tbl \in DOMAIN storage.tables
    <3>1. /\ storage' = update_rows(storage, st.tbl, idxs[s], changed, st.set)
          /\ LogSnapshot(st.tbl, storage'.tables[st.tbl], changed)
          /\ Goto(s, "update_save")
          /\ UNCHANGED result
      BY <1>6, <2>1, Zenon DEF UpdateApply
    <3> HIDE DEF changed
    <3>2. /\ StorageType(storage')
          /\ storage'.tables = [storage.tables EXCEPT
               ![st.tbl] =
                 rows_assigned(storage.tables[st.tbl], changed, st.set)]
      <4>1. st.tbl \in Tables /\ st.set \in PartialRow
        BY <1>1
      <4> HIDE DEF st
      <4> QED
        BY <1>2, <2>1, <3>1, <4>1, UpdateRows
    <3>3. IsRowMap(storage'.tables[st.tbl])
      BY <2>1, <3>2 DEF StorageType
    <3>4. disk' \in DiskType
      BY <1>1, <1>2, <3>1, <3>3, LogSnapshotType
    <3>5. SharedType'
      BY <1>6, <3>2, <3>4 DEF UpdateApply, TypeOK, SharedType
    <3>6. UNCHANGED locals /\ UNCHANGED <<stmt, issued>>
      BY <1>6, Zenon DEF UpdateApply
    <3>7. LocalsType'
      BY <3>6, LocalsUnchanged
    <3>8. "update_save" \in labels(stmt[s].op)
      BY <1>3
    <3> QED
      BY <3>1, <3>5, <3>6, <3>7, <3>8, MoveType, Statuses
  <2>2. CASE st.tbl \notin DOMAIN storage.tables
    <3>1. Return(s, Err) /\ UNCHANGED <<storage, disk>>
      BY <1>6, <2>2 DEF UpdateApply
    <3>2. SharedType'
      BY <1>6, <3>1 DEF UpdateApply, TypeOK, SharedType
    <3> QED
      BY <1>6, <3>1, <3>2, LocalsUnchanged, MoveType, Statuses DEF UpdateApply
  <2> QED
    BY <2>1, <2>2
<1> QED
  BY <1>4, <1>5, <1>6

\* Every step of a SELECT keeps the types.
LEMMA SelectStepType ==
  ASSUME TypeOK, NEW s \in Sessions, SelectLookup(s) \/ SelectRead(s)
  PROVE  TypeOK'
<1> DEFINE st == stmt[s]
<1>1. st \in Statement /\ st.op = "select" /\ st.db \in DBs /\ st.tbl \in Tables
  <2>1. pc[s] \in labels("select") \ {"save_catalog"}
    BY LabelSets DEF SelectLookup, SelectRead, LookupTable, CatalogLock, At
  <2>2. st \in Statement /\ st.op = "select"
    BY <2>1, AtOp DEF Ops, TypeOK
  <2> QED
    BY <2>2, StatementFields
<1>2. catalog \in CatalogType
  BY DEF TypeOK, SharedType
<1>3. "select_read" \in labels(stmt[s].op)
  BY <1>1, LabelSets
<1>4. CASE SelectLookup(s)
  <2>1. get_table_indexes(catalog, st.db, st.tbl) \in SUBSET IndexDef
    BY <1>1, <1>2 DEF get_table_indexes, CatalogType
  <2>2. LookupTable(s, "select_lookup", "select_read",
                    get_table_indexes(catalog, st.db, st.tbl))
    BY <1>4 DEF SelectLookup
  <2> QED
    BY <1>3, <2>1, <2>2, LookupTableType
<1>5. CASE SelectRead(s)
  <2>1. PICK b : Return(s, Rows(b))
    BY <1>5 DEF SelectRead
  <2>2. SharedType'
    BY <1>5 DEF SelectRead, TypeOK, SharedType
  <2> QED
    BY <1>5, <2>1, <2>2, LocalsUnchanged, MoveType, Statuses DEF SelectRead
<1> QED
  BY <1>4, <1>5

\* The look that IF [NOT] EXISTS adds keeps the types.
LEMMA ExistsStepType ==
  ASSUME TypeOK, NEW s \in Sessions,
         \/ CreateTableExists(s) \/ DropTableExists(s)
         \/ CreateDatabaseExists(s) \/ DropDatabaseExists(s)
         \/ DropIndexExists(s)
  PROVE  TypeOK'
<1>1. /\ stmt[s].op \in Ops
      /\ \A op \in Ops :
           pc[s] \in labels(op) \ {"save_catalog"} => stmt[s].op = op
  BY StatementFields, AtOp DEF TypeOK, ControlType
<1>2. CASE CreateTableExists(s)
  <2>1. stmt[s].op = "create_table"
    BY <1>1, <1>2, LabelSets DEF CreateTableExists, ExistsCheck, At, Ops
  <2>2. PICK holds :
          ExistsCheck(s, "create_table_exists", holds, "create_table")
    BY <1>2 DEF CreateTableExists
  <2> QED
    BY <2>1, <2>2, ExistsCheckType, LabelSets
<1>3. CASE DropTableExists(s)
  <2>1. stmt[s].op = "drop_table"
    BY <1>1, <1>3, LabelSets DEF DropTableExists, ExistsCheck, At, Ops
  <2>2. PICK holds :
          ExistsCheck(s, "drop_table_exists", holds, "drop_table_log")
    BY <1>3 DEF DropTableExists
  <2> QED
    BY <2>1, <2>2, ExistsCheckType, LabelSets
<1>4. CASE CreateDatabaseExists(s)
  <2>1. stmt[s].op = "create_database"
    BY <1>1, <1>4, LabelSets DEF CreateDatabaseExists, ExistsCheck, At, Ops
  <2>2. PICK holds :
          ExistsCheck(s, "create_database_exists", holds, "create_database")
    BY <1>4 DEF CreateDatabaseExists
  <2> QED
    BY <2>1, <2>2, ExistsCheckType, LabelSets
<1>5. CASE DropDatabaseExists(s)
  <2>1. stmt[s].op = "drop_database"
    BY <1>1, <1>5, LabelSets DEF DropDatabaseExists, ExistsCheck, At, Ops
  <2>2. PICK holds :
          ExistsCheck(s, "drop_database_exists", holds, "drop_database")
    BY <1>5 DEF DropDatabaseExists
  <2> QED
    BY <2>1, <2>2, ExistsCheckType, LabelSets
<1>6. CASE DropIndexExists(s)
  <2>1. stmt[s].op = "drop_index"
    BY <1>1, <1>6, LabelSets DEF DropIndexExists, ExistsCheck, At, Ops
  <2>2. PICK holds :
          ExistsCheck(s, "drop_index_exists", holds, "drop_index")
    BY <1>6 DEF DropIndexExists
  <2> QED
    BY <2>1, <2>2, ExistsCheckType, LabelSets
<1> QED
  BY <1>2, <1>3, <1>4, <1>5, <1>6

\* The indexes built at a start are index data.
LEMMA RebuildIndexesType ==
  ASSUME NEW c \in CatalogType, NEW st, StorageType(st)
  PROVE  /\ StorageType(rebuild_indexes(c, st))
         /\ rebuild_indexes(c, st).tables = st.tables
         /\ rebuild_indexes(c, st).next_ids = st.next_ids
<1> DEFINE defs(t) == UNION {c.indexes[<<db, t>>] : db \in DBs}
           keys    == UNION {index_keys(t, defs(t)) : t \in Tables}
           data(k) == SetToBag(entries(rows_of(st, k[1]),
                                       DOMAIN rows_of(st, k[1]),
                                       def_named(defs(k[1]), k[2])))
           d       == [k \in keys |-> data(k)]
<1>1. \A t \in Tables : defs(t) \in SUBSET IndexDef
  <2>1. \A dt \in DBs \X Tables : c.indexes[dt] \subseteq IndexDef
    BY DEF CatalogType
  <2>2. ASSUME NEW t \in Tables, NEW x \in defs(t) PROVE x \in IndexDef
    <3>1. PICK db \in DBs : x \in c.indexes[<<db, t>>]
      BY <2>2
    <3>2. <<db, t>> \in DBs \X Tables
      OBVIOUS
    <3> QED
      BY <2>1, <3>1, <3>2
  <2> HIDE DEF defs
  <2> QED
    BY <2>2
<1>2. keys \subseteq IndexKey
  <2> HIDE DEF defs
  <2> QED
    BY <1>1, IndexKeysType
<1>3. \A k : IsIndexData(data(k))
  BY SetToBagType
<1>4. rebuild_indexes(c, st) = [st EXCEPT !.index_data = d]
  BY DEF rebuild_indexes
<1> HIDE DEF keys, data
<1>5. /\ d = [k \in DOMAIN d |-> d[k]]
      /\ DOMAIN d \subseteq IndexKey
      /\ \A k \in DOMAIN d : IsIndexData(d[k])
  BY <1>2, <1>3
<1> HIDE DEF d
<1> QED
  BY <1>4, <1>5, ReplaceIndexData

-----------------------------------------------------------------------------
(* Type correctness.                                                        *)

\* Every step keeps the types.
LEMMA NextType ==
  ASSUME TypeOK, [Next]_vars
  PROVE  TypeOK'
<1>1. CASE UNCHANGED vars
  BY <1>1 DEF vars, TypeOK, SharedType, ControlType, LocalsType, ResultType
<1>2. ASSUME NEW s \in Sessions, Begin(s) PROVE TypeOK'
  BY <1>2, BeginType
<1>3. ASSUME NEW s \in Sessions, DdlStep(s) PROVE TypeOK'
  BY <1>3, ExistsStepType, CreateTableStepType, CreateDatabaseStepType,
     DropDatabaseStepType, DropTableStepType, CreateIndexStepType,
     DropIndexStepType, SaveCatalogStepType DEF DdlStep
<1>4. ASSUME NEW s \in Sessions, DmlStep(s) PROVE TypeOK'
  BY <1>4, InsertStepType, DeleteStepType, UpdateStepType, SelectStepType
     DEF DmlStep
<1>5. ASSUME NEW s \in Sessions, SaveTable(s) \/ LockError(s) PROVE TypeOK'
  BY <1>5, SaveTableStepType, LockErrorType
<1> QED
  BY <1>1, <1>2, <1>3, <1>4, <1>5 DEF Next, Step, AllDone

\* A server starts well typed.
LEMMA InitType ==
  ASSUME Init
  PROVE  TypeOK
<1>1. StorageType(storage)
  BY NewStorageType, RebuildIndexesType, ExecutorAssumption DEF Init
<1>2. disk \in DiskType
  <2>1. [t \in Tables |-> NoFile]
          \in [Tables -> {NoFile} \cup RowVec]
    OBVIOUS
  <2> QED
    BY <2>1, ExecutorAssumption DEF Init, DiskType
<1>3. SharedType
  BY <1>1, <1>2, ExecutorAssumption DEF Init, SharedType
<1>4. (CHOOSE st \in Menu : TRUE) \in Statement
  BY ExecutorAssumption
<1>5. ControlType
  BY <1>4, LabelsOfOps DEF Init, ControlType
<1>6. LocalsType
  BY DEF Init, LocalsType
<1>7. ResultType
  BY Statuses DEF Init, ResultType
<1>8. issued \in 0 .. MaxStatements
  BY ExecutorAssumption DEF Init
<1> QED
  BY <1>3, <1>5, <1>6, <1>7, <1>8 DEF TypeOK

\* Whatever the sessions do, the shared state, the locals and the results are
\* well typed, and a busy session is at a label of its statement.
THEOREM TypeCorrect == Spec => []TypeOK
<1>1. Init => TypeOK
  BY InitType
<1>2. TypeOK /\ [Next]_vars => TypeOK'
  BY NextType
<1> QED
  BY <1>1, <1>2, PTL DEF Spec
=============================================================================
