------------------------------- MODULE MCQuery --------------------------------
(***************************************************************************)
(* SELECTs over rows of numbers, texts, NULLs and mixtures of them.        *)
(***************************************************************************)
EXTENDS QueryProperties

MCColumns == {"a", "b"}

\* "a", "ab", "B", and a character of two bytes
LowerA == 40
LowerB == 41
UpperB == 11
a_  == Text(<<LowerA>>)
ab  == Text(<<LowerA, LowerB>>)
B_  == Text(<<UpperB>>)
umlaut == Text(<<Lead, Follow>>)

row(x, y) == [a |-> x, b |-> y]

MCRows ==
  {row(Int_(2), a_), row(Int_(10), ab), row(Int_(2), B_), row(Int_(0), umlaut),
   row(Double(4), ab), row(Double(5), Null), row(Null, a_),
   row(Text(<<1>>), Text(<<2>>))}

\* The composite index comes first.
MCIndexes == <<<<"a", "b">>, <<"b">>, <<"a">>>>

Everything == [where |-> NoWhere, order |-> <<>>, offset |-> 0,
               limit |-> NoLimit]
Where(p)   == [Everything EXCEPT !.where = p]

A == Col("a")
B == Col("b")

Comparisons ==
  {Cmp(op, A, Lit(x)) : op \in Ops, x \in {Int_(2), Double(4), Text(<<2>>)}}
    \cup {Cmp(op, B, Lit(ab)) : op \in Ops}
    \cup {Cmp(op, Lit(Int_(2)), A) : op \in Ops}
    \cup {Cmp(op, A, Lit(Null)) : op \in {"=", "!="}}
    \cup {Cmp("=", A, B)}

Patterns ==
  {<<>>, <<LowerA>>, <<LowerA, Percent>>, <<Percent, LowerB>>,
   <<Percent, LowerB, Percent>>, <<Underscore>>, <<Underscore, Percent>>,
   <<Percent, Underscore>>, <<LowerA, Percent, LowerB>>,
   <<LowerA, Percent, Percent>>}

Others ==
  {Like(B, Lit(Text(p)), neg) : p \in Patterns, neg \in BOOLEAN}
    \cup {IsNull(A, neg) : neg \in BOOLEAN}
    \cup {Between(A, Lit(Int_(1)), Lit(x), neg) :
            x \in {Int_(2), Double(5), Null}, neg \in BOOLEAN}
    \cup {In(e[1], e[2], neg) :
            e \in {<<A, {Lit(Int_(2)), Lit(Int_(10))}>>, <<A, {Lit(Null)}>>,
                   <<B, {A, Lit(ab)}>>},
            neg \in BOOLEAN}
    \cup {In(B, {Lit(ab), Cmp("=", A, B)}, FALSE)}

EqA == Cmp("=", A, Lit(Int_(2)))
EqB == Cmp("=", B, Lit(ab))

Connectives == {And(EqA, EqB), Or(EqA, EqB), And(A, A), A, And(EqA, EqA)}

Key(c, asc) == [col |-> c, asc |-> asc]

Orders ==
  {[Where(p) EXCEPT !.order = order] :
     p \in {NoWhere, EqA},
     order \in {<<Key("a", x), Key("b", y)>> : x, y \in BOOLEAN}
                 \cup {<<Key("b", FALSE), Key("a", TRUE)>>, <<Key("a", TRUE)>>}}

Pages ==
  {[q EXCEPT !.offset = o, !.limit = l] :
     q \in {Everything, [Everything EXCEPT !.order = <<Key("a", FALSE)>>]},
     o \in 0 .. 2, l \in {NoLimit, 0, 1, 2}}

MCQueries ==
  {Where(p) : p \in Comparisons \cup Others \cup Connectives}
    \cup Orders \cup Pages
===============================================================================
