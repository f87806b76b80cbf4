-------------------------------- MODULE Query ---------------------------------
(***************************************************************************)
(* SELECT on one table: execute_query, try_index_lookup and sort_rows      *)
(* (src/src/engine/executor.rs).  The catalog and the locks are left to    *)
(* Executor and Locks; here a SELECT is one step, and what matters is      *)
(* which rows it returns, in which order.                                  *)
(*                                                                         *)
(* A query is its clause, its ORDER BY keys, its offset and its limit.     *)
(* The rows of the answer stand for themselves by their ids: the           *)
(* projection drops or repeats columns and never a row.                    *)
(***************************************************************************)
EXTENDS Predicate

CONSTANTS
  Rows,      \* the rows an INSERT may bring
  Queries,   \* the queries a SELECT may ask
  Indexes,   \* the indexes, a sequence of sequences of columns
  MaxRows

NoLimit == -1

\* One key of an ORDER BY
OrderKey == [col : Columns, asc : BOOLEAN]

\* An index has a column at least.
ASSUME QueryAssumption ==
  /\ Rows \subseteq [Columns -> Value]
  /\ Queries \subseteq [where : Clauses, order : Seq(OrderKey), offset : Nat,
                       limit : Nat \cup {NoLimit}]
  /\ Indexes \in Seq(Seq(Columns) \ {<<>>})
  /\ MaxRows \in Nat

VARIABLES
  table,    \* the rows; the id of a row is its place
  index,    \* per index, the ids under each key in the order they were entered
  asked,    \* the last statement, if it was a query
  answer    \* the ids it returned, in order, or Panic

vars == <<table, index, asked, answer>>

Panic == <<0>>

\* No query has this limit.
NoQuery == [where |-> NoWhere, order |-> <<>>, offset |-> 0, limit |-> -2]

-----------------------------------------------------------------------------
(* try_index_lookup: the first index all of whose columns an equality pins  *)
(* serves the query, and a key that it does not have yields no row.         *)

key_of(cols, row) == [i \in DOMAIN cols |-> row[cols[i]]]

serves(cols, conditions) == \A i \in DOMAIN cols :
                              \E c \in conditions : c[1] = cols[i]

serving(p) == {n \in DOMAIN Indexes : serves(Indexes[n], eq_conditions(p))}

lookup_key(cols, conditions) ==
  [i \in DOMAIN cols |-> (CHOOSE c \in conditions : c[1] = cols[i])[2]]

lookup_eq(data, key) == IF key \in DOMAIN data THEN data[key] ELSE <<>>

scan(tab) == [id \in DOMAIN tab |-> id]

\* The ids a SELECT looks at
candidates(tab, data, p) ==
  IF p = NoWhere \/ serving(p) = {} THEN scan(tab)
  ELSE LET n == Min(serving(p))
       IN  lookup_eq(data[n], lookup_key(Indexes[n], eq_conditions(p)))

-----------------------------------------------------------------------------
(* sort_rows: one stable sort per key, the last key first.                  *)

\* The comparator of a key: what is not comparable is equal.
before(key, a, b) == IF key.asc THEN less(a[key.col], b[key.col])
                                ELSE less(b[key.col], a[key.col])

\* slice::sort_by of up to 20 rows is an insertion sort: a row moves left past
\* the rows it is before.
insert_sorted(tab, key, ids, id) ==
  LET stop == Max({0} \cup {k \in DOMAIN ids :
                              ~before(key, tab[id], tab[ids[k]])})
  IN  InsertAt(ids, stop + 1, id)

sort_by(tab, key, ids) ==
  LET sorted[n \in 0 .. Len(ids)] ==
        IF n = 0 THEN <<>> ELSE insert_sorted(tab, key, sorted[n - 1], ids[n])
  IN  sorted[Len(ids)]

\* The first key first, so that the last one decides
sort_rows_Forward(tab, order, ids) ==
  LET sorted[n \in 0 .. Len(order)] ==
        IF n = 0 THEN ids ELSE sort_by(tab, order[n], sorted[n - 1])
  IN  sorted[Len(order)]

\* n counts the keys from the last one.
sort_rows(tab, order, ids) ==
  LET sorted[n \in 0 .. Len(order)] ==
        IF n = 0 THEN ids
        ELSE sort_by(tab, order[Len(order) + 1 - n], sorted[n - 1])
  IN  sorted[Len(order)]

\* Truncated before it is split off
page_LimitFirst(ids, q) ==
  LET limited == IF q.limit = NoLimit THEN ids
                 ELSE SubSeq(ids, 1, Min({q.limit, Len(ids)}))
  IN  SubSeq(limited, q.offset + 1, Len(limited))

page(ids, q) ==
  LET rest == SubSeq(ids, q.offset + 1, Len(ids))
  IN  IF q.limit = NoLimit THEN rest
      ELSE SubSeq(rest, 1, Min({q.limit, Len(rest)}))

\* A clause that fails is taken as FALSE.
holds(p, row) == p = NoWhere \/ eval_where(p, row) = "yes"

\* The rows that the clause retains, in their order
retain(tab, p, ids) ==
  LET kept[n \in 0 .. Len(ids)] ==
        IF n = 0 THEN <<>>
        ELSE IF holds(p, tab[ids[n]]) THEN Append(kept[n - 1], ids[n])
        ELSE kept[n - 1]
  IN  kept[Len(ids)]

select(tab, data, q) ==
  LET found == candidates(tab, data, q.where)
      kept  == retain(tab, q.where, found)
  IN  IF /\ q.where # NoWhere
         /\ \E id \in Range(found) : eval_where(q.where, tab[id]) = "panic"
      THEN Panic
      ELSE page(sort_rows(tab, q.order, kept), q)

-----------------------------------------------------------------------------
Init ==
  /\ table = <<>>
  /\ index = [n \in DOMAIN Indexes |-> [key \in {} |-> <<>>]]
  /\ asked = NoQuery
  /\ answer = <<>>

\* An id replaces those that were entered under its key.
entered_Replacing(data, cols, row, id) ==
  [k \in DOMAIN data \cup {key_of(cols, row)} |->
     IF k = key_of(cols, row) THEN <<id>> ELSE data[k]]

\* The last loop of execute_insert; what sessions may do to each other in between
\* is in Executor.
entered(data, cols, row, id) ==
  LET key == key_of(cols, row)
  IN  [k \in DOMAIN data \cup {key} |->
         IF k = key THEN Append(lookup_eq(data, key), id) ELSE data[k]]

Insert(row) ==
  /\ Len(table) < MaxRows
  /\ table' = Append(table, row)
  /\ index' = [n \in DOMAIN Indexes |->
                 entered(index[n], Indexes[n], row, Len(table) + 1)]
  /\ asked' = NoQuery
  /\ answer' = <<>>

\* Bound: one query after each INSERT; a query leaves everything as it was.
Select(q) ==
  /\ asked = NoQuery
  /\ asked' = q
  /\ answer' = select(table, index, q)
  /\ UNCHANGED <<table, index>>

Next == \/ \E row \in Rows : Insert(row)
        \/ \E q \in Queries : Select(q)

Spec == Init /\ [][Next]_vars
===============================================================================
