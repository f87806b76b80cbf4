--------------------------- MODULE QueryProperties ----------------------------
(***************************************************************************)
(* What a SELECT should return: SQL's three-valued logic, a declarative    *)
(* LIKE, a lexicographic ORDER BY and pages that fit together.  Where the  *)
(* code departs from SQL the property says so and excludes the case.       *)
(***************************************************************************)
EXTENDS Query

\* A LIKE pattern cuts the text into one piece per pattern character: any piece
\* for a "%", one character for the others.
like_reference(t, p) ==
  \E cut \in [1 .. Len(p) + 1 -> 1 .. Len(t) + 1] :
    /\ cut[1] = 1
    /\ cut[Len(p) + 1] = Len(t) + 1
    /\ \A j \in DOMAIN p :
         IF p[j] = Percent THEN cut[j] <= cut[j + 1]
         ELSE /\ cut[j + 1] = cut[j] + 1
              /\ p[j] \in {Underscore, t[cut[j]]}

val(e, row) == eval_expr(e, row)

-----------------------------------------------------------------------------
(* SQL's truth: "T", "F" or "U" for unknown.                                *)

of(b)      == IF b THEN "T" ELSE "F"
not3(x)    == CASE x = "T" -> "F" [] x = "F" -> "T" [] OTHER -> "U"
and3(x, y) == IF "F" \in {x, y} THEN "F" ELSE IF "U" \in {x, y} THEN "U" ELSE "T"
or3(x, y)  == not3(and3(not3(x), not3(y)))

smaller(a, b) == IF a.ty = "Text" THEN text_less(a.v, b.v)
                                  ELSE halves(a) < halves(b)

compare3(op, a, b) ==
  IF Null \in {a, b} THEN "U"
  ELSE CASE op = "="  -> of(~smaller(a, b) /\ ~smaller(b, a))
         [] op = "!=" -> of(smaller(a, b) \/ smaller(b, a))
         [] op = "<"  -> of(smaller(a, b))
         [] op = ">"  -> of(smaller(b, a))
         [] op = "<=" -> of(~smaller(b, a))
         [] op = ">=" -> of(~smaller(a, b))

like3(a, b) == IF Null \in {a, b} THEN "U"
               ELSE of(like_reference(upper(a.v), upper(b.v)))

\* p.neg negates the clause.
polar(p, x) == IF p.neg THEN not3(x) ELSE x

plain_truth(p, row) ==
  CASE p.ex = "cmp"     -> compare3(p.op, val(p.l, row), val(p.r, row))
    [] p.ex = "like"    -> polar(p, like3(val(p.e, row), val(p.pat, row)))
    [] p.ex = "isnull"  -> polar(p, of(val(p.e, row) = Null))
    [] p.ex = "between" ->
         polar(p, and3(compare3(">=", val(p.e, row), val(p.lo, row)),
                       compare3("<=", val(p.e, row), val(p.hi, row))))
    [] p.ex = "in"      ->
         LET found == {compare3("=", val(p.e, row), val(e, row)) : e \in p.list}
         IN  polar(p, IF "T" \in found THEN "T"
                      ELSE IF "U" \in found THEN "U" ELSE "F")
    [] p.ex = "none"    -> "T"

\* A clause of one predicate, or two under an AND or an OR
plain(p)      == p.ex \in {"cmp", "like", "isnull", "between", "in", "none"}
connective(p) == p.ex \in {"and", "or"} /\ plain(p.l) /\ plain(p.r)

truth(p, row) ==
  CASE p.ex = "and" -> and3(plain_truth(p.l, row), plain_truth(p.r, row))
    [] p.ex = "or"  -> or3(plain_truth(p.l, row), plain_truth(p.r, row))
    [] OTHER        -> plain_truth(p, row)

-----------------------------------------------------------------------------
\* The operands of a clause without a connective
operands(p) ==
  CASE p.ex = "cmp"     -> {p.l, p.r}
    [] p.ex = "like"    -> {p.e, p.pat}
    [] p.ex = "isnull"  -> {p.e}
    [] p.ex = "between" -> {p.e, p.lo, p.hi}
    [] p.ex = "in"      -> {p.e} \cup p.list
    [] p.ex = "none"    -> {}

one_family(kinds) ==
  \/ \E ty \in Types : kinds \subseteq {ty}
  \/ kinds \subseteq {"Int", "Double"}

\* Values of different types are compared as text: SQL's answer is not defined
\* by the order of either type.  An index tells even an Int from a Double.
of_one_type(p, row) ==
  LET kinds == {val(e, row).ty : e \in operands(p)} \ {"Null"}
  IN  /\ one_family(kinds)
      /\ p.ex = "like" => kinds \subseteq {"Text"}
      /\ serving(p) # {} => Cardinality(kinds) <= 1

\* LIKE works on bytes, and "%%" does not match nothing (executor.rs:1870-1880).
like_as_documented(p, row) ==
  p.ex = "like" =>
    /\ \A e \in {p.e, p.pat} : Lead \notin Range(val(e, row).v)
    /\ LET pat == val(p.pat, row).v
       IN  \A j \in 1 .. Len(pat) - 1 : {pat[j], pat[j + 1]} # {Percent}

\* NOT and != take unknown for false, and so return rows that SQL does not.
negative(p) == IF p.ex = "cmp" THEN p.op = "!="
               ELSE p.ex # "none" /\ p.neg

usual(p, row) ==
  /\ of_one_type(p, row)
  /\ like_as_documented(p, row)
  /\ ~(negative(p) /\ plain_truth(p, row) = "U")

unpaged(q) == [q EXCEPT !.offset = 0, !.limit = NoLimit]

answered == asked # NoQuery /\ answer # Panic

\* The ids of a panic stand for no row.
right(p, id) == id \in Range(answer) <=> truth(p, table[id]) = "T"

\* A SELECT with one comparison, LIKE, BETWEEN, IN or IS NULL returns exactly
\* the rows for which SQL calls the clause true, whether an index or a scan
\* served it and whatever the order (executor.rs:783-838, 1678-1896).
SelectRight ==
  LET p == asked.where
  IN  answered /\ asked = unpaged(asked) /\ plain(p) =>
        \A id \in DOMAIN table :
          usual(p, table[id]) => right(p, id)

\* The same of clauses under AND and OR (README.md:212).
ConnectivesSupported ==
  LET p == asked.where
  IN  answered /\ asked = unpaged(asked) /\ connective(p) =>
        \A id \in DOMAIN table :
          (\A q \in {p.l, p.r} : usual(q, table[id])) => right(p, id)

\* In the order of the rows
Rising(s) == \A i, j \in 1 .. Len(s) : i < j => s[i] < s[j]

exact(data, cols, tab) ==
  /\ \A key \in DOMAIN data :
       /\ data[key] \in Seq(1 .. Len(tab))
       /\ Rising(data[key])
       /\ \A i \in 1 .. Len(data[key]) : key_of(cols, tab[data[key][i]]) = key
  /\ \A id \in 1 .. Len(tab) :
       LET ids == lookup_eq(data, key_of(cols, tab[id]))
       IN  \E i \in 1 .. Len(ids) : ids[i] = id

\* INSERT keeps every index exact: under a key it has the ids of the rows with
\* that key, all of them and each once, in the order of the rows
\* (executor.rs:462-500, index.rs:45-54).
IndexExact ==
  /\ DOMAIN index = DOMAIN Indexes
  /\ \A n \in DOMAIN Indexes : exact(index[n], Indexes[n], table)

scan_select(q) ==
  page(sort_rows(table, q.order, retain(table, q.where, scan(table))), q)

\* An index loses no row and changes no order: where the indexed columns hold
\* values of the type of the constant, a SELECT returns through the index what
\* a scan returns (executor.rs:786-825, 892-942).
IndexTransparent ==
  LET p     == asked.where
      conds == eq_conditions(p)
      same_type(id) == \A c \in conds :
                         table[id][c[1]].ty \in {c[2].ty, "Null"}
  IN  /\ answered
      /\ p # NoWhere
      /\ serving(p) # {}
      /\ \A id \in DOMAIN table : same_type(id)
      => answer = scan_select(asked)

\* ORDER BY sorts by the first key, among equals by the second, and leaves
\* the rest in the order of the rows, when a column holds numbers only or texts
\* only and no NULL (executor.rs:1615-1656).
SortedByKeys ==
  LET before_by(key, i, j) == before(key, table[i], table[j])
      orderly(key) == LET kinds == {table[id][key.col].ty : id \in DOMAIN table}
                      IN  one_family(kinds) /\ "Null" \notin kinds
      first_apart(i, j) ==
        {n \in DOMAIN asked.order :
           \/ before_by(asked.order[n], i, j)
           \/ before_by(asked.order[n], j, i)}
      ahead(i, j) == IF first_apart(i, j) = {} THEN i < j
                     ELSE before_by(asked.order[Min(first_apart(i, j))], i, j)
  IN  answered /\ (\A n \in DOMAIN asked.order : orderly(asked.order[n])) =>
        \A m, n \in DOMAIN answer : m < n => ahead(answer[m], answer[n])

\* Pages fit together: what comes before OFFSET, the page, and what comes after
\* OFFSET + LIMIT are the whole answer, no row twice and none skipped
\* (executor.rs:859-873).
PagesFit ==
  answered /\ asked.limit # NoLimit =>
    LET whole  == unpaged(asked)
        rows(q) == select(table, index, q)
        head   == [whole EXCEPT !.limit = asked.offset]
        rest   == [whole EXCEPT !.offset = asked.offset + asked.limit]
    IN  rows(head) \o answer \o rows(rest) = rows(whole)
===============================================================================
