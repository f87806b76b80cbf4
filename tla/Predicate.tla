------------------------------ MODULE Predicate -------------------------------
(***************************************************************************)
(* WHERE clauses: eval_where, eval_expr, like_match and the extraction of  *)
(* index keys (src/src/engine/executor.rs), over the values a SQL literal  *)
(* can give a column (src/src/engine/types.rs).                            *)
(*                                                                         *)
(* A column keeps whatever literal it was given: INSERT does not convert   *)
(* it to the column's type, so values of different types meet.             *)
(***************************************************************************)
EXTENDS Integers, Sequences, SequencesExt, FiniteSetsExt

CONSTANT Columns   \* the columns of the table

(***************************************************************************)
(* A value is its type and what it holds, as a sequence of numbers so that *)
(* values of any two types can be compared: an Int n holds <<n>>, a Double *)
(* holds the number of its halves, a Text its characters.  Characters are  *)
(* numbered in the order of their bytes.  A character outside ASCII is two *)
(* bytes, Lead and Follow.                                                 *)
(***************************************************************************)
Point == -1                      \* "."; the digits are 0 .. 9
Upper == 10 .. 35                \* "A" .. "Z"
Percent == -2
Underscore == 36
Lower == 40 .. 65                \* "a" .. "z"
Lead == 71
Follow == 70

Types == {"Null", "Int", "Double", "Text"}
Null      == [ty |-> "Null", v |-> <<>>]
Int_(n)   == [ty |-> "Int", v |-> <<n>>]
Double(h) == [ty |-> "Double", v |-> <<h>>]
Text(s)   == [ty |-> "Text", v |-> s]

\* What a literal can be: its numbers have no sign.
Value == {Null} \cup [ty : {"Int", "Double"}, v : [1 .. 1 -> Nat]]
                \cup [ty : {"Text"}, v : Seq(Int)]

\* eval_expr and eval_where return Err; eval_where's caller takes it as FALSE.
Err == [ty |-> "Err", v |-> <<>>]

numeric(a) == a.ty \in {"Int", "Double"}
halves(a)  == IF a.ty = "Int" THEN 2 * a.v[1] ELSE a.v[1]

digits[n \in Nat] ==
  IF n < 10 THEN <<n>> ELSE Append(digits[n \div 10], n % 10)

\* Value::to_string, of all values but NULL
to_string(a) ==
  CASE a.ty = "Text"   -> a.v
    [] a.ty = "Int"    -> digits[a.v[1]]
    [] a.ty = "Double" -> digits[a.v[1] \div 2]
                            \o (IF a.v[1] % 2 = 0 THEN <<>> ELSE <<Point, 5>>)

\* The order of str: by the first byte that differs, a prefix first
text_less(s, t) ==
  \E n \in 0 .. Len(s) :
    /\ n < Len(t)
    /\ SubSeq(s, 1, n) = SubSeq(t, 1, n)
    /\ n < Len(s) => s[n + 1] < t[n + 1]

values_equal(a, b) ==
  /\ a.ty # "Null" /\ b.ty # "Null"
  /\ IF numeric(a) /\ numeric(b) THEN halves(a) = halves(b)
                                 ELSE to_string(a) = to_string(b)

\* value_cmp: whether a is less than b.  A Double and a Text, and a NULL and
\* anything, are not comparable: neither is less, nor are they equal.
comparable(a, b) ==
  /\ a.ty # "Null" /\ b.ty # "Null"
  /\ {a.ty, b.ty} # {"Double", "Text"}

less(a, b) ==
  /\ comparable(a, b)
  /\ IF numeric(a) /\ numeric(b) THEN halves(a) < halves(b)
                                 ELSE text_less(to_string(a), to_string(b))

\* ">=" as ">"
not_less_Strict(a, b) == less(b, a)

not_less(a, b) == comparable(a, b) /\ ~less(a, b)

\* as_bool: the values that are true and those that are false.  A Double and
\* a NULL are neither.
is_true(a)  == \/ a.ty = "Int" /\ a.v # <<0>>
               \/ a.ty = "Text" /\ a.v \notin {<<>>, <<0>>}
is_false(a) == \/ a.ty = "Int" /\ a.v = <<0>>
               \/ a.ty = "Text" /\ a.v \in {<<>>, <<0>>}

-----------------------------------------------------------------------------
(* LIKE works on bytes: "_" is one byte, and after a "%" the rest of the   *)
(* text is cut at every byte, which panics inside a character.             *)

boolean(b) == IF b THEN "yes" ELSE "no"

upper(s) == [i \in DOMAIN s |-> IF s[i] \in Lower THEN s[i] - 30 ELSE s[i]]

\* Where the rest of the pattern is tried after a "%" at byte i: at each byte of
\* the rest of the text, but not at its end.
tries(t, i) == i .. Len(t)

\* How each rest of the text, from byte i on, matches a character c of the
\* pattern and what follows it: "yes", "no" or "panic".  rest says it of what
\* follows, if c is not the last one.
matched(t, c, last, rest) ==
  [i \in 1 .. Len(t) + 1 |->
     CASE c = Percent /\ last -> "yes"
       [] c = Percent /\ ~last ->
            LET stops == {k \in tries(t, i) : t[k] = Follow \/ rest[k] # "no"}
            IN  IF stops = {} THEN "no"
                ELSE IF t[Min(stops)] = Follow THEN "panic"
                ELSE rest[Min(stops)]
       [] OTHER -> IF i <= Len(t) /\ c \in {t[i], Underscore}
                   THEN rest[i + 1] ELSE "no"]

\* n counts the characters of the pattern from the last one.
like_match_impl(t, p) ==
  LET rest[n \in 0 .. Len(p)] ==
        IF n = 0 THEN [i \in 1 .. Len(t) + 1 |-> boolean(i > Len(t))]
        ELSE matched(t, p[Len(p) + 1 - n], n = 1, rest[n - 1])
  IN  rest[Len(p)][1]

like_match(a, b) ==
  IF a.ty = "Text" /\ b.ty = "Text"
  THEN like_match_impl(upper(a.v), upper(b.v)) ELSE "no"

-----------------------------------------------------------------------------
(* Expressions: a column, a literal, or a predicate, which eval_expr cannot *)
(* evaluate.                                                                *)

Col(c) == [ex |-> "col", name |-> c]
Lit(a) == [ex |-> "lit", val |-> a]

Cmp(op, l, r)          == [ex |-> "cmp", op |-> op, l |-> l, r |-> r]
And(l, r)              == [ex |-> "and", l |-> l, r |-> r]
Or(l, r)               == [ex |-> "or", l |-> l, r |-> r]
Like(e, pat, neg)      == [ex |-> "like", e |-> e, pat |-> pat, neg |-> neg]
IsNull(e, neg)         == [ex |-> "isnull", e |-> e, neg |-> neg]
Between(e, lo, hi, neg) ==
  [ex |-> "between", e |-> e, lo |-> lo, hi |-> hi, neg |-> neg]
In(e, list, neg)       == [ex |-> "in", e |-> e, list |-> list, neg |-> neg]
NoWhere                == [ex |-> "none"]

Ops == {"=", "!=", "<", ">", "<=", ">="}

Predicates(es) ==
       [ex : {"cmp"}, op : Ops, l : es, r : es]
  \cup [ex : {"and", "or"}, l : es, r : es]
  \cup [ex : {"like"}, e : es, pat : es, neg : BOOLEAN]
  \cup [ex : {"isnull"}, e : es, neg : BOOLEAN]
  \cup [ex : {"between"}, e : es, lo : es, hi : es, neg : BOOLEAN]
  \cup [ex : {"in"}, e : es, list : SUBSET es, neg : BOOLEAN]

\* WHERE clauses.  Bound: connectives are not nested in connectives; an operand
\* that is a predicate is an error however it goes on.
Operands == LET plain == [ex : {"col"}, name : STRING]
                           \cup [ex : {"lit"}, val : Value]
            IN  plain \cup Predicates(plain)
Clauses  == {NoWhere} \cup Operands \cup Predicates(Operands)

\* An unknown column is NULL.
eval_expr(e, row) ==
  CASE e.ex = "col" -> IF e.name \in Columns THEN row[e.name] ELSE Null
    [] e.ex = "lit" -> e.val
    [] OTHER        -> Err

compare(op, a, b) ==
  CASE op = "="  -> values_equal(a, b)
    [] op = "!=" -> ~values_equal(a, b)
    [] op = "<"  -> less(a, b)
    [] op = ">"  -> less(b, a)
    [] op = "<=" -> not_less(b, a)
    [] op = ">=" -> not_less(a, b)

\* AND and OR need both operands to be booleans, whatever the first one is.
connect(op, a, b) ==
  IF \A x \in {a, b} : is_true(x) \/ is_false(x)
  THEN boolean(IF op = "and" THEN is_true(a) /\ is_true(b)
                            ELSE is_true(a) \/ is_true(b))
  ELSE "err"

negate(neg, res) ==
  IF res \in {"yes", "no"} /\ neg THEN boolean(res = "no") ELSE res

\* eval_where: "yes", "no", "err", or "panic".  Each of the operands has to
\* evaluate, but for those of an IN list: one that fails matches nothing.
eval_where(p, row) ==
  LET val(e) == eval_expr(e, row)
      with(es, res) == IF \E e \in es : val(e) = Err THEN "err" ELSE res
  IN  CASE p.ex = "cmp" ->
             with({p.l, p.r}, boolean(compare(p.op, val(p.l), val(p.r))))
        [] p.ex \in {"and", "or"} ->
             with({p.l, p.r}, connect(p.ex, val(p.l), val(p.r)))
        [] p.ex = "like" ->
             with({p.e, p.pat},
                  negate(p.neg, like_match(val(p.e), val(p.pat))))
        [] p.ex = "isnull" ->
             with({p.e}, negate(p.neg, boolean(val(p.e) = Null)))
        [] p.ex = "between" ->
             with({p.e, p.lo, p.hi},
                  negate(p.neg, boolean(/\ not_less(val(p.e), val(p.lo))
                                       /\ not_less(val(p.hi), val(p.e)))))
        [] p.ex = "in" ->
             with({p.e}, negate(p.neg,
                    boolean(\E e \in p.list :
                             /\ val(e) # Err
                             /\ values_equal(val(p.e), val(e)))))
        [] OTHER -> with({p}, boolean(is_true(val(p))))

-----------------------------------------------------------------------------
(* The equalities an index can serve, as pairs of a column and its key.    *)

constant(e) == e.ex = "lit"
equality(l, r) == IF l.ex = "col" /\ constant(r) THEN {<<l.name, r.val>>}
                  ELSE IF r.ex = "col" /\ constant(l) THEN {<<r.name, l.val>>}
                  ELSE {}

\* Any comparison taken for an equality
eq_conditions_AnyOperator(p) ==
  CASE p.ex = "cmp" -> equality(p.l, p.r)
    [] OTHER -> {}

\* extract_eq_conditions, for clauses whose connectives are not nested.  Of
\* two equalities on a column the first one counts.
eq_conditions(p) ==
  LET one(q) == IF q.ex = "cmp" /\ q.op = "=" THEN equality(q.l, q.r) ELSE {}
      left == one(p.l)
  IN  IF p.ex # "and" THEN one(p)
      ELSE left \cup {c \in one(p.r) : \A d \in left : c[1] # d[1]}
===============================================================================
