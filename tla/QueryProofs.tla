----------------------------- MODULE QueryProofs ------------------------------
(***************************************************************************)
(* What a SELECT returns, for any rows, queries and indexes: the clause    *)
(* against three-valued logic, LIKE against its declarative form, the      *)
(* index against the scan, the sort against the lexicographic order, and   *)
(* the pages against the whole.                                            *)
(***************************************************************************)
EXTENDS QueryProperties, NumberProofs

-----------------------------------------------------------------------------
(* Sequences of ids.                                                        *)

\* s holds the elements of t, as many of them.
SameIds(s, t) == Len(s) = Len(t) /\ Range(s) = Range(t)

\* Of two numbers, Min takes the smaller one.
LEMMA MinOfTwo ==
  ASSUME NEW a \in Nat, NEW b \in Nat
  PROVE  Min({a, b}) = IF a <= b THEN a ELSE b
BY DEF Min

\* What is in a sequence
LEMMA RangeIs ==
  ASSUME NEW S, NEW s \in Seq(S)
  PROVE  /\ Range(s) \subseteq S
         /\ \A x : x \in Range(s) <=> \E i \in 1 .. Len(s) : s[i] = x
BY DEF Range

\* A sequence with one element more at its end
LEMMA AppendIs ==
  ASSUME NEW S, NEW s \in Seq(S), NEW x \in S
  PROVE  /\ Append(s, x) \in Seq(S)
         /\ Len(Append(s, x)) = Len(s) + 1
         /\ Append(s, x)[Len(s) + 1] = x
         /\ \A i \in 1 .. Len(s) : Append(s, x)[i] = s[i]
         /\ Range(Append(s, x)) = Range(s) \cup {x}
<1> DEFINE t == Append(s, x)
<1>1. /\ t \in Seq(S) /\ Len(t) = Len(s) + 1 /\ t[Len(s) + 1] = x
      /\ \A i \in 1 .. Len(s) : t[i] = s[i]
  OBVIOUS
<1>2. Len(s) \in Nat
  OBVIOUS
<1> HIDE DEF t
<1>3. ASSUME NEW y \in Range(t)
      PROVE  y \in Range(s) \cup {x}
  <2>1. PICK i \in 1 .. Len(t) : t[i] = y
    BY <1>1, RangeIs
  <2>2. i \in 1 .. Len(s) \/ i = Len(s) + 1
    BY <1>1, <1>2
  <2> QED
    BY <1>1, <2>1, <2>2, RangeIs
<1>4. ASSUME NEW y \in Range(s) \cup {x}
      PROVE  y \in Range(t)
  <2>1. PICK i \in 1 .. Len(t) : t[i] = y
    <3>1. CASE y \in Range(s)
      <4>1. PICK i \in 1 .. Len(s) : s[i] = y
        BY <3>1, RangeIs
      <4>2. i \in 1 .. Len(t)
        BY <1>1, <1>2
      <4> QED
        BY <1>1, <4>1, <4>2
    <3>2. CASE y = x
      BY <1>1, <1>2, <3>2
    <3> QED
      BY <3>1, <3>2
  <2> QED
    BY <1>1, <2>1, RangeIs
<1>5. Range(t) = Range(s) \cup {x}
  BY <1>3, <1>4
<1> QED
  BY <1>1, <1>5 DEF t

\* Two rising sequences with the same elements are the same.
LEMMA RisingAgree ==
  ASSUME NEW m \in Nat, NEW s \in Seq(1 .. m), NEW t \in Seq(1 .. m),
         Rising(s), Rising(t), Range(s) = Range(t)
  PROVE  s = t
<1>1. /\ Len(s) \in Nat /\ Len(t) \in Nat
      /\ \A i \in 1 .. Len(s) : s[i] \in Nat
      /\ \A i \in 1 .. Len(t) : t[i] \in Nat
  <2>1. /\ \A i \in 1 .. Len(s) : s[i] \in 1 .. m
        /\ \A i \in 1 .. Len(t) : t[i] \in 1 .. m
    OBVIOUS
  <2> QED
    BY <2>1
<1>0. /\ \A i \in 1 .. Len(s) : \E j \in 1 .. Len(t) : t[j] = s[i]
      /\ \A i \in 1 .. Len(t) : \E j \in 1 .. Len(s) : s[j] = t[i]
  <2>1. /\ \A x : x \in Range(s) <=> \E j \in 1 .. Len(s) : s[j] = x
        /\ \A x : x \in Range(t) <=> \E j \in 1 .. Len(t) : t[j] = x
    BY RangeIs
  <2> QED
    BY <2>1
<1> DEFINE Same(i) == i \in 1 .. Len(s) /\ i \in 1 .. Len(t) /\ s[i] = t[i]
           S == {n \in Nat : n # 0 /\ (n \in 1 .. Len(s) \/ n \in 1 .. Len(t))
                             /\ ~Same(n)}
<1>2. S = {}
  <2> SUFFICES ASSUME S # {} PROVE FALSE
    OBVIOUS
  <2>1. PICK n \in S : \A k \in S : n <= k
    <3>1. S \in SUBSET Nat
      OBVIOUS
    <3> HIDE DEF S
    <3> QED
      BY <3>1, LeastNatural
  <2>0. n \in Nat
    OBVIOUS
  <2>2. ASSUME NEW k \in 1 .. n - 1 PROVE Same(k)
    <3>1. n \in Nat /\ (n \in 1 .. Len(s) \/ n \in 1 .. Len(t))
      OBVIOUS
    <3>2. k \in Nat /\ k # 0 /\ ~(n <= k)
      BY <3>1
    <3>3. k \in 1 .. Len(s) \/ k \in 1 .. Len(t)
      BY <1>1, <3>1
    <3>4. k \notin S
      BY <2>1, <3>2
    <3> HIDE DEF Same
    <3> QED
      BY <3>2, <3>3, <3>4
  <2>3. CASE n \in 1 .. Len(s)
    <3>1. PICK i \in 1 .. Len(t) : t[i] = s[n]
      BY <1>0, <2>3
    <3>2. i >= n
      <4> SUFFICES ASSUME i < n PROVE FALSE
        BY <1>1
      <4>1. i \in 1 .. n - 1
        BY <1>1
      <4>2. s[i] = s[n] /\ i \in 1 .. Len(s)
        BY <2>2, <3>1, <4>1
      <4> QED
        BY <1>1, <2>3, <4>2 DEF Rising
    <3>3. n \in 1 .. Len(t)
      BY <1>1, <2>3, <3>2
    <3>4. t[n] # s[n]
      BY <2>3, <3>3
    <3>5. t[n] < s[n]
      BY <1>1, <3>1, <3>2, <3>3, <3>4 DEF Rising
    <3>6. PICK j \in 1 .. Len(s) : s[j] = t[n]
      BY <1>0, <3>3
    <3>7. j < n
      <4> SUFFICES ASSUME j >= n PROVE FALSE
        BY <1>1
      <4>1. j = n \/ s[n] < s[j]
        BY <1>1, <2>3 DEF Rising
      <4>2. s[n] \in Nat /\ t[n] \in Nat
        BY <1>1, <2>3, <3>3
      <4>3. ~(s[n] < t[n]) /\ s[n] # t[n]
        <5>1. \A x, y \in Nat : y < x => ~(x < y) /\ x # y
          OBVIOUS
        <5> QED
          BY <3>5, <4>2, <5>1
      <4> QED
        <5>1. s[j] = t[n]
          BY <3>6
        <5>2. CASE j = n
          BY <4>3, <5>1, <5>2
        <5>3. CASE s[n] < s[j]
          BY <4>3, <5>1, <5>3
        <5> QED
          BY <4>1, <5>2, <5>3
    <3>8. t[j] = t[n] /\ j \in 1 .. Len(t)
      <4>1. j \in 1 .. n - 1
        BY <1>1, <3>7
      <4> QED
        BY <2>2, <3>6, <4>1
    <3>9. t[j] < t[n]
      BY <3>3, <3>7, <3>8 DEF Rising
    <3> QED
      BY <1>1, <3>3, <3>8, <3>9
  <2>4. CASE n \notin 1 .. Len(s)
    <3>1. n \in 1 .. Len(t)
      BY <2>4
    <3>2. PICK j \in 1 .. Len(s) : s[j] = t[n]
      BY <1>0, <3>1
    <3>3. j \in 1 .. n - 1
      BY <1>1, <2>4, <3>1
    <3>4. t[j] = t[n] /\ j \in 1 .. Len(t) /\ j < n
      BY <1>1, <2>2, <3>2, <3>3
    <3> QED
      BY <1>1, <3>1, <3>4 DEF Rising
  <2> QED
    BY <2>3, <2>4
<1>3. ASSUME NEW n \in Nat, n # 0
      PROVE  /\ n \in 1 .. Len(s) <=> n \in 1 .. Len(t)
             /\ n \in 1 .. Len(s) => s[n] = t[n]
  BY <1>2, <1>3
<1>4. Len(s) = Len(t)
  <2>1. Len(s) <= Len(t)
    BY <1>1, <1>3
  <2>2. Len(t) <= Len(s)
    BY <1>1, <1>3
  <2> QED
    BY <1>1, <2>1, <2>2
<1>5. \A i \in 1 .. Len(s) : s[i] = t[i]
  BY <1>1, <1>3
<1> HIDE DEF S, Same
<1> QED
  BY <1>4, <1>5

-----------------------------------------------------------------------------
(* retain keeps the ids of the rows for which the clause holds.             *)

\* f[n] is what is kept of the first n ids.
Retains(f, tab, p, ids) ==
  /\ f[0] = <<>>
  /\ \A n \in 1 .. Len(ids) :
       f[n] = IF holds(p, tab[ids[n]]) THEN Append(f[n - 1], ids[n])
              ELSE f[n - 1]

\* retain is the last of these.
LEMMA RetainSteps ==
  ASSUME NEW S, NEW tab, NEW p, NEW ids \in Seq(S)
  PROVE  \E f : /\ Retains(f, tab, p, ids)
                /\ retain(tab, p, ids) = f[Len(ids)]
<1> DEFINE D == Seq(S)
           Step(n, s) == IF holds(p, tab[ids[n]]) THEN Append(s, ids[n]) ELSE s
           step == [n \in 1 .. Len(ids) |-> [s \in D |-> Step(n, s)]]
           kept[n \in 0 .. Len(ids)] ==
             IF n = 0 THEN <<>>
             ELSE IF holds(p, tab[ids[n]]) THEN Append(kept[n - 1], ids[n])
             ELSE kept[n - 1]
           Kept(f) == f = [n \in 0 .. Len(ids) |->
                             IF n = 0 THEN <<>> ELSE Step(n, f[n - 1])]
<1>1. Len(ids) \in Nat /\ <<>> \in D
  OBVIOUS
<1>2. step \in [1 .. Len(ids) -> [D -> D]]
  <2>1. ASSUME NEW n \in 1 .. Len(ids), NEW s \in D
        PROVE  Step(n, s) \in D
    <3>1. ids[n] \in S
      OBVIOUS
    <3> QED
      BY <3>1
  <2> HIDE DEF Step, D
  <2> QED
    BY <2>1
<1>3. PICK f \in [0 .. Len(ids) -> D] : Recursion(f, Len(ids), <<>>, step)
  <2> HIDE DEF step, D
  <2> QED
    BY <1>1, <1>2, RecursionExists
<1>4. \A n \in 0 .. Len(ids) :
        f[n] = IF n = 0 THEN <<>> ELSE Step(n, f[n - 1])
  <2>1. \A n \in 1 .. Len(ids) : f[n - 1] \in D
    <3>1. \A n \in 1 .. Len(ids) : n - 1 \in 0 .. Len(ids)
      BY <1>1
    <3> HIDE DEF D
    <3> QED
      BY <3>1
  <2>2. \A n \in 1 .. Len(ids) : step[n][f[n - 1]] = Step(n, f[n - 1])
    <3> HIDE DEF Step, D
    <3> QED
      BY <2>1
  <2>3. \A n \in 0 .. Len(ids) : n = 0 \/ n \in 1 .. Len(ids)
    BY <1>1
  <2> HIDE DEF Step, step, D
  <2> QED
    BY <1>3, <2>2, <2>3 DEF Recursion
<1>5. Kept(f)
  <2>1. f = [n \in 0 .. Len(ids) |-> f[n]]
    OBVIOUS
  <2> HIDE DEF D, Step
  <2> QED
    BY <1>4, <2>1
<1>6. Kept(kept)
  <2> HIDE DEF D, step
  <2> QED
    BY <1>5
<1>7. retain(tab, p, ids) = kept[Len(ids)]
  BY DEF retain
<1> HIDE DEF kept
<1>8. /\ kept[0] = <<>>
      /\ \A n \in 1 .. Len(ids) : kept[n] = Step(n, kept[n - 1])
  <2>1. \A n \in 1 .. Len(ids) : n \in 0 .. Len(ids) /\ n # 0
    BY <1>1
  <2> HIDE DEF Step
  <2> QED
    BY <1>1, <1>6, <2>1
<1>9. Retains(kept, tab, p, ids)
  BY <1>8 DEF Retains
<1> QED
  BY <1>7, <1>9

\* A rising sequence goes on rising with a greater number.
LEMMA AppendRises ==
  ASSUME NEW S \in SUBSET Nat, NEW s \in Seq(S), Rising(s), NEW x \in S,
         \A y \in Range(s) : y < x
  PROVE  Rising(Append(s, x))
<1> DEFINE t == Append(s, x)
<1>1. /\ Len(t) = Len(s) + 1 /\ t[Len(s) + 1] = x
      /\ \A i \in 1 .. Len(s) : t[i] = s[i]
  BY AppendIs
<1>2. \A i \in 1 .. Len(s) : s[i] < x
  <2>1. \A i \in 1 .. Len(s) : s[i] \in Range(s)
    BY RangeIs
  <2> QED
    BY <2>1
<1>3. Len(s) \in Nat
  OBVIOUS
<1> HIDE DEF t
<1> SUFFICES ASSUME NEW i \in 1 .. Len(t), NEW j \in 1 .. Len(t), i < j
             PROVE  t[i] < t[j]
  BY DEF Rising, t
<1>4. i \in 1 .. Len(s)
  BY <1>1, <1>3
<1>5. CASE j = Len(s) + 1
  BY <1>1, <1>2, <1>4, <1>5
<1>6. CASE j # Len(s) + 1
  <2>1. j \in 1 .. Len(s)
    BY <1>1, <1>3, <1>6
  <2> QED
    BY <1>1, <1>4, <2>1 DEF Rising
<1> QED
  BY <1>5, <1>6

\* s is what is kept of the first n ids.
KeptOf(s, n, S, tab, p, ids) ==
  /\ s \in Seq(S)
  /\ Rising(s)
  /\ \A x : x \in Range(s) <=> /\ \E i \in 1 .. n : ids[i] = x
                               /\ holds(p, tab[x])

\* One id more
LEMMA KeptStep ==
  ASSUME NEW S \in SUBSET Nat, NEW tab, NEW p, NEW ids \in Seq(S), Rising(ids),
         NEW n \in 1 .. Len(ids), NEW s, KeptOf(s, n - 1, S, tab, p, ids)
  PROVE  /\ holds(p, tab[ids[n]])
              => KeptOf(Append(s, ids[n]), n, S, tab, p, ids)
         /\ ~holds(p, tab[ids[n]]) => KeptOf(s, n, S, tab, p, ids)
<1>1. PICK x \in S : x = ids[n]
  <2>1. ids[n] \in S
    OBVIOUS
  <2> QED
    BY <2>1
<1>2. Len(ids) \in Nat
  OBVIOUS
<1>3. \A y : (\E i \in 1 .. n : ids[i] = y)
             <=> y = x \/ \E i \in 1 .. n - 1 : ids[i] = y
  <2>1. \A i \in 1 .. n : i \in 1 .. n - 1 \/ i = n
    BY <1>2
  <2>2. (\A i \in 1 .. n - 1 : i \in 1 .. n) /\ n \in 1 .. n
    BY <1>2
  <2> QED
    BY <1>1, <2>1, <2>2
<1>4. /\ s \in Seq(S) /\ Rising(s)
      /\ \A y : y \in Range(s) <=> /\ \E i \in 1 .. n - 1 : ids[i] = y
                                   /\ holds(p, tab[y])
  BY DEF KeptOf
<1>5. \A y \in Range(s) : y < x
  <2>1. \A i \in 1 .. n - 1 : i \in 1 .. Len(ids) /\ i < n
    BY <1>2
  <2>2. \A i \in 1 .. n - 1 : ids[i] < x
    BY <1>1, <2>1 DEF Rising
  <2> QED
    BY <1>4, <2>2
<1>6. ASSUME holds(p, tab[x])
      PROVE  KeptOf(Append(s, x), n, S, tab, p, ids)
  <2>1. /\ Append(s, x) \in Seq(S)
        /\ Range(Append(s, x)) = Range(s) \cup {x}
    BY <1>4, AppendIs
  <2>2. Rising(Append(s, x))
    BY <1>4, <1>5, AppendRises
  <2> QED
    BY <1>3, <1>4, <1>6, <2>1, <2>2 DEF KeptOf
<1>7. ASSUME ~holds(p, tab[x])
      PROVE  KeptOf(s, n, S, tab, p, ids)
  BY <1>3, <1>4, <1>7 DEF KeptOf
<1> QED
  BY <1>1, <1>6, <1>7

\* What is kept is a part of the ids, in their order: those of the rows for which
\* the clause holds.
LEMMA RetainIs ==
  ASSUME NEW S \in SUBSET Nat, NEW tab, NEW p, NEW ids \in Seq(S), Rising(ids)
  PROVE  /\ retain(tab, p, ids) \in Seq(S)
         /\ Rising(retain(tab, p, ids))
         /\ \A x : x \in Range(retain(tab, p, ids))
                     <=> x \in Range(ids) /\ holds(p, tab[x])
<1>1. PICK f : /\ Retains(f, tab, p, ids)
               /\ retain(tab, p, ids) = f[Len(ids)]
  BY RetainSteps
<1> DEFINE U == {n \in 0 .. Len(ids) : KeptOf(f[n], n, S, tab, p, ids)}
<1>2. Len(ids) \in Nat
  OBVIOUS
<1>3. 0 \in U
  <2>1. f[0] = <<>>
    BY <1>1 DEF Retains
  <2>2. <<>> \in Seq(S) /\ Len(<<>>) = 0
    OBVIOUS
  <2>3. \A x : x \notin Range(<<>>)
    BY DEF Range
  <2>4. \A x : ~\E i \in 1 .. 0 : ids[i] = x
    OBVIOUS
  <2>5. Rising(<<>>)
    BY <2>2 DEF Rising
  <2>6. KeptOf(<<>>, 0, S, tab, p, ids)
    BY <2>2, <2>3, <2>4, <2>5 DEF KeptOf
  <2> QED
    BY <1>2, <2>1, <2>6
<1>4. ASSUME NEW n \in 1 .. Len(ids), n - 1 \in U
      PROVE  n \in U
  <2>1. KeptOf(f[n - 1], n - 1, S, tab, p, ids)
    BY <1>4
  <2>2. f[n] = IF holds(p, tab[ids[n]]) THEN Append(f[n - 1], ids[n])
               ELSE f[n - 1]
    BY <1>1 DEF Retains
  <2>3. KeptOf(f[n], n, S, tab, p, ids)
    BY <2>1, <2>2, KeptStep
  <2> QED
    BY <1>2, <2>3
<1>5. \A n \in 0 .. Len(ids) : n \in U
  <2> HIDE DEF U
  <2> QED
    BY <1>2, <1>3, <1>4, InductionUpTo
<1>6. KeptOf(f[Len(ids)], Len(ids), S, tab, p, ids)
  BY <1>2, <1>5
<1>7. \A x : x \in Range(ids) <=> \E i \in 1 .. Len(ids) : ids[i] = x
  BY RangeIs
<1> QED
  BY <1>1, <1>6, <1>7 DEF KeptOf

-----------------------------------------------------------------------------
(* A row goes in behind the last row that it is not before.                 *)

\* r is ids with id behind the first k.
Inserted(r, k, ids, id) ==
  /\ Len(r) = Len(ids) + 1
  /\ r[k + 1] = id
  /\ \A i \in 1 .. k : r[i] = ids[i]
  /\ \A i \in k + 1 .. Len(ids) : r[i + 1] = ids[i]

\* id is not before the k-th, and before those behind it.
Fits(k, tab, key, ids, id) ==
  /\ k # 0 => ~before(key, tab[id], tab[ids[k]])
  /\ \A i \in k + 1 .. Len(ids) : before(key, tab[id], tab[ids[i]])

\* insert_sorted puts the id behind the last row that it is not before.
LEMMA InsertSortedIs ==
  ASSUME NEW S, NEW tab, NEW key, NEW ids \in Seq(S), NEW id \in S
  PROVE  \E k \in 0 .. Len(ids) :
           /\ insert_sorted(tab, key, ids, id) \in Seq(S)
           /\ Inserted(insert_sorted(tab, key, ids, id), k, ids, id)
           /\ Fits(k, tab, key, ids, id)
<1> DEFINE T == {0} \cup {k \in DOMAIN ids : ~before(key, tab[id], tab[ids[k]])}
<1>1. Len(ids) \in Nat /\ DOMAIN ids = 1 .. Len(ids)
  OBVIOUS
<1>2. T \in SUBSET (0 .. Len(ids)) /\ T # {}
  BY <1>1
<1>3. PICK k : k = Max(T)
  OBVIOUS
<1>4. k \in T /\ \A q \in T : q <= k
  <2> HIDE DEF T
  <2> QED
    BY <1>1, <1>2, <1>3, MaxUpTo
<1>5. k \in 0 .. Len(ids)
  BY <1>2, <1>4
<1>6. Fits(k, tab, key, ids, id)
  <2>1. k # 0 => ~before(key, tab[id], tab[ids[k]])
    BY <1>4
  <2>2. ASSUME NEW i \in k + 1 .. Len(ids)
        PROVE  before(key, tab[id], tab[ids[i]])
    <3>1. i \in DOMAIN ids /\ ~(i <= k)
      BY <1>1, <1>5
    <3> QED
      BY <1>4, <3>1
  <2> QED
    BY <2>1, <2>2 DEF Fits
<1>7. insert_sorted(tab, key, ids, id)
        = SubSeq(ids, 1, (k + 1) - 1) \o <<id>> \o SubSeq(ids, k + 1, Len(ids))
  BY <1>3 DEF insert_sorted, InsertAt
<1> HIDE DEF T
<1>8. PICK a \in Seq(S) : /\ a = SubSeq(ids, 1, (k + 1) - 1) /\ Len(a) = k
                          /\ \A i \in 1 .. k : a[i] = ids[i]
  <2>1. (k + 1) - 1 = k
    BY <1>5
  <2>2. /\ SubSeq(ids, 1, k) \in Seq(S) /\ Len(SubSeq(ids, 1, k)) = k
        /\ \A i \in 1 .. k : SubSeq(ids, 1, k)[i] = ids[i]
    BY <1>1, <1>5
  <2> QED
    BY <2>1, <2>2
<1>9. PICK b \in Seq(S) : /\ b = SubSeq(ids, k + 1, Len(ids))
                          /\ Len(b) = Len(ids) - k
                          /\ \A i \in 1 .. Len(ids) - k : b[i] = ids[i + k]
  <2>1. /\ SubSeq(ids, k + 1, Len(ids)) \in Seq(S)
        /\ Len(SubSeq(ids, k + 1, Len(ids))) = Len(ids) - k
        /\ \A i \in 1 .. Len(ids) - k :
             SubSeq(ids, k + 1, Len(ids))[i] = ids[i + k]
    BY SMTT(40), <1>1, <1>5
  <2> QED
    BY <2>1
<1>10. PICK r : r = insert_sorted(tab, key, ids, id)
  OBVIOUS
<1>11. r = a \o <<id>> \o b
  BY <1>7, <1>8, <1>9, <1>10
<1>12. /\ r \in Seq(S)
       /\ Len(r) = k + 1 + Len(b)
       /\ \A i \in 1 .. k : r[i] = a[i]
       /\ r[k + 1] = id
       /\ \A i \in 1 .. Len(b) : r[k + 1 + i] = b[i]
  BY <1>1, <1>5, <1>8, <1>11
<1>13. Inserted(r, k, ids, id)
  <2>1. ASSUME NEW i \in k + 1 .. Len(ids)
        PROVE  r[i + 1] = ids[i]
    <3>1. /\ i - k \in 1 .. Len(ids) - k
          /\ k + 1 + (i - k) = i + 1 /\ (i - k) + k = i
      BY <1>1, <1>5
    <3> QED
      BY SMTT(40), <1>9, <1>12, <3>1
  <2>2. Len(r) = Len(ids) + 1
    <3>1. k + 1 + (Len(ids) - k) = Len(ids) + 1
      BY <1>1, <1>5
    <3>2. Len(r) = k + 1 + (Len(ids) - k)
      BY <1>9, <1>12
    <3> QED
      BY <3>1, <3>2
  <2>3. \A i \in 1 .. k : r[i] = ids[i]
    BY <1>8, <1>12
  <2> QED
    BY <1>12, <2>1, <2>2, <2>3 DEF Inserted
<1> QED
  BY <1>5, <1>6, <1>10, <1>12, <1>13

\* The ids are those there were and the new one.
LEMMA InsertedRange ==
  ASSUME NEW S, NEW ids \in Seq(S), NEW id \in S, NEW r \in Seq(S),
         NEW k \in 0 .. Len(ids), Inserted(r, k, ids, id)
  PROVE  Range(r) = Range(ids) \cup {id}
<1>1. /\ Len(r) = Len(ids) + 1 /\ r[k + 1] = id
      /\ \A i \in 1 .. k : r[i] = ids[i]
      /\ \A i \in k + 1 .. Len(ids) : r[i + 1] = ids[i]
  BY DEF Inserted
<1>2. Len(ids) \in Nat
  OBVIOUS
<1>3. ASSUME NEW x \in Range(r)
      PROVE  x \in Range(ids) \cup {id}
  <2>1. PICK i \in 1 .. Len(r) : r[i] = x
    BY RangeIs
  <2>2. CASE i \in 1 .. k
    <3>1. i \in 1 .. Len(ids) /\ ids[i] = x
      BY <1>1, <1>2, <2>1, <2>2
    <3> QED
      BY <3>1, RangeIs
  <2>3. CASE i = k + 1
    BY <1>1, <2>1, <2>3
  <2>4. CASE i > k + 1
    <3>1. /\ i - 1 \in k + 1 .. Len(ids) /\ (i - 1) + 1 = i
          /\ i - 1 \in 1 .. Len(ids)
      BY <1>1, <1>2, <2>4
    <3>2. ids[i - 1] = x
      BY <1>1, <2>1, <3>1
    <3> QED
      BY <3>1, <3>2, RangeIs
  <2> QED
    BY <1>1, <1>2, <2>2, <2>3, <2>4
<1>4. ASSUME NEW x \in Range(ids) \cup {id}
      PROVE  x \in Range(r)
  <2>1. PICK i \in 1 .. Len(r) : r[i] = x
    <3>1. CASE x \in Range(ids)
      <4>1. PICK j \in 1 .. Len(ids) : ids[j] = x
        BY <3>1, RangeIs
      <4>2. CASE j <= k
        <5>1. j \in 1 .. k /\ j \in 1 .. Len(r)
          BY <1>1, <1>2, <4>2
        <5> QED
          BY <1>1, <4>1, <5>1
      <4>3. CASE j > k
        <5>1. j \in k + 1 .. Len(ids) /\ j + 1 \in 1 .. Len(r)
          BY <1>1, <1>2, <4>3
        <5> QED
          BY <1>1, <4>1, <5>1
      <4> QED
        BY <1>2, <4>2, <4>3
    <3>2. CASE x = id
      <4>1. k + 1 \in 1 .. Len(r)
        BY <1>1, <1>2
      <4> QED
        BY <1>1, <3>2, <4>1
    <3> QED
      BY <3>1, <3>2
  <2> QED
    BY <2>1, RangeIs
<1> QED
  BY <1>3, <1>4

-----------------------------------------------------------------------------
(* A stable sort: what one key leaves undecided stays in the order it was.  *)

\* R is a set of pairs, of an id and one that may follow it.
Ordered(s, R) == \A i, j \in 1 .. Len(s) : i < j => <<s[i], s[j]>> \in R

\* The comparator is a strict weak order on the rows of these ids.
WeakOrder(S, tab, key) ==
  \A x, y \in S :
    /\ before(key, tab[x], tab[y]) => ~before(key, tab[y], tab[x])
    /\ \A z \in S :
         ~before(key, tab[x], tab[y]) /\ ~before(key, tab[y], tab[z])
           => ~before(key, tab[x], tab[z])

\* The key first, and R among equals
Refined(S, tab, key, R) ==
  {xy \in S \X S : \/ before(key, tab[xy[1]], tab[xy[2]])
                   \/ /\ ~before(key, tab[xy[2]], tab[xy[1]])
                      /\ xy \in R}

\* What it is for a pair to be in Refined
LEMMA RefinedIs ==
  ASSUME NEW S, NEW tab, NEW key, NEW R, NEW x \in S, NEW y \in S
  PROVE  <<x, y>> \in Refined(S, tab, key, R)
           <=> \/ before(key, tab[x], tab[y])
               \/ ~before(key, tab[y], tab[x]) /\ <<x, y>> \in R
BY DEF Refined

\* Inserting an id that follows all others by R keeps the refined order.
LEMMA InsertOrdered ==
  ASSUME NEW S, NEW tab, NEW key, NEW R, WeakOrder(S, tab, key),
         NEW ids \in Seq(S), Ordered(ids, Refined(S, tab, key, R)),
         NEW id \in S, \A x \in Range(ids) : <<x, id>> \in R,
         NEW r \in Seq(S), NEW k \in 0 .. Len(ids),
         Inserted(r, k, ids, id), Fits(k, tab, key, ids, id)
  PROVE  Ordered(r, Refined(S, tab, key, R))
<1> DEFINE Q == Refined(S, tab, key, R)
           b(x, y) == before(key, tab[x], tab[y])
<1>1. /\ Len(r) = Len(ids) + 1 /\ r[k + 1] = id
      /\ \A i \in 1 .. k : r[i] = ids[i]
      /\ \A i \in k + 1 .. Len(ids) : r[i + 1] = ids[i]
  BY DEF Inserted
<1>2. Len(ids) \in Nat /\ \A i \in 1 .. Len(ids) : ids[i] \in S
  OBVIOUS
<1>3. \A i, j \in 1 .. Len(ids) : i < j => <<ids[i], ids[j]>> \in Q
  BY DEF Ordered
<1>4. \A x, y \in S : <<x, y>> \in Q
                         <=> b(x, y) \/ (~b(y, x) /\ <<x, y>> \in R)
  BY RefinedIs
<1>5. /\ \A x, y \in S : b(x, y) => ~b(y, x)
      /\ \A x, y, z \in S : ~b(x, y) /\ ~b(y, z) => ~b(x, z)
  BY DEF WeakOrder
<1>6. /\ k # 0 => ~b(id, ids[k])
      /\ \A i \in k + 1 .. Len(ids) : b(id, ids[i])
  BY DEF Fits
<1> HIDE DEF Q, b
<1>7. ASSUME NEW i \in 1 .. k
      PROVE  <<ids[i], id>> \in Q
  <2>1. k # 0 /\ i \in 1 .. Len(ids) /\ k \in 1 .. Len(ids)
    BY <1>2
  <2>2. ~b(id, ids[i])
    <3>1. CASE i = k
      BY <1>6, <2>1, <3>1
    <3>2. CASE i # k
      <4>1. i < k
        BY <3>2
      <4>2. ~b(ids[k], ids[i])
        BY <1>2, <1>3, <1>4, <1>5, <2>1, <4>1
      <4> QED
        BY <1>2, <1>5, <1>6, <2>1, <4>2
    <3> QED
      BY <3>1, <3>2
  <2>3. <<ids[i], id>> \in R
    <3>1. ids[i] \in Range(ids)
      BY <2>1, RangeIs
    <3> QED
      BY <3>1
  <2> QED
    BY <1>2, <1>4, <2>1, <2>2, <2>3
<1>8. ASSUME NEW i \in k + 1 .. Len(ids)
      PROVE  <<id, ids[i]>> \in Q
  <2>1. i \in 1 .. Len(ids)
    BY <1>2
  <2> QED
    BY <1>2, <1>4, <1>6, <2>1
<1>9. SUFFICES ASSUME NEW i \in 1 .. Len(r), NEW j \in 1 .. Len(r), i < j
               PROVE  <<r[i], r[j]>> \in Q
  BY DEF Ordered, Q
<1>10. CASE j <= k
  <2>1. /\ i \in 1 .. k /\ j \in 1 .. k
        /\ i \in 1 .. Len(ids) /\ j \in 1 .. Len(ids)
    BY <1>2, <1>9, <1>10
  <2> QED
    BY <1>1, <1>3, <1>9, <2>1
<1>11. CASE j = k + 1
  <2>1. i \in 1 .. k
    BY <1>9, <1>11
  <2> QED
    BY <1>1, <1>7, <1>11, <2>1
<1>12. CASE j > k + 1
  <2>1. /\ j - 1 \in k + 1 .. Len(ids) /\ j - 1 \in 1 .. Len(ids)
        /\ (j - 1) + 1 = j
    BY <1>1, <1>2, <1>12
  <2>2. r[j] = ids[j - 1]
    BY <1>1, <2>1
  <2>3. CASE i <= k
    <3>1. i \in 1 .. k /\ i \in 1 .. Len(ids) /\ i < j - 1
      BY <1>2, <1>12, <2>3
    <3> QED
      BY <1>1, <1>3, <2>1, <2>2, <3>1
  <2>4. CASE i = k + 1
    BY <1>1, <1>8, <2>1, <2>2, <2>4
  <2>5. CASE i > k + 1
    <3>1. /\ i - 1 \in k + 1 .. Len(ids) /\ i - 1 \in 1 .. Len(ids)
          /\ (i - 1) + 1 = i /\ i - 1 < j - 1
      BY <1>1, <1>2, <1>9, <2>5
    <3>2. r[i] = ids[i - 1]
      BY <1>1, <3>1
    <3> QED
      BY <1>3, <2>1, <2>2, <3>1, <3>2
  <2> QED
    BY <1>2, <2>3, <2>4, <2>5
<1> QED
  BY <1>2, <1>10, <1>11, <1>12

\* f[n] is the first n ids, sorted.
Sorts(f, tab, key, ids) ==
  /\ f[0] = <<>>
  /\ \A n \in 1 .. Len(ids) :
       f[n] = insert_sorted(tab, key, f[n - 1], ids[n])

\* sort_by inserts one id after the other.
LEMMA SortSteps ==
  ASSUME NEW S, NEW tab, NEW key, NEW ids \in Seq(S)
  PROVE  \E f : /\ Sorts(f, tab, key, ids)
                /\ sort_by(tab, key, ids) = f[Len(ids)]
<1> DEFINE D == Seq(S)
           Step(n, s) == insert_sorted(tab, key, s, ids[n])
           step == [n \in 1 .. Len(ids) |-> [s \in D |-> Step(n, s)]]
           sorted[n \in 0 .. Len(ids)] ==
             IF n = 0 THEN <<>>
             ELSE insert_sorted(tab, key, sorted[n - 1], ids[n])
           Sorted(f) == f = [n \in 0 .. Len(ids) |->
                               IF n = 0 THEN <<>> ELSE Step(n, f[n - 1])]
<1>1. Len(ids) \in Nat /\ <<>> \in D
  OBVIOUS
<1>2. step \in [1 .. Len(ids) -> [D -> D]]
  <2>1. ASSUME NEW n \in 1 .. Len(ids), NEW s \in D
        PROVE  Step(n, s) \in D
    <3>1. ids[n] \in S
      OBVIOUS
    <3> QED
      BY <3>1, InsertSortedIs
  <2> HIDE DEF Step, D
  <2> QED
    BY <2>1
<1>3. PICK f \in [0 .. Len(ids) -> D] : Recursion(f, Len(ids), <<>>, step)
  <2> HIDE DEF step, D
  <2> QED
    BY <1>1, <1>2, RecursionExists
<1>4. \A n \in 0 .. Len(ids) :
        f[n] = IF n = 0 THEN <<>> ELSE Step(n, f[n - 1])
  <2>1. \A n \in 1 .. Len(ids) : f[n - 1] \in D
    <3>1. \A n \in 1 .. Len(ids) : n - 1 \in 0 .. Len(ids)
      BY <1>1
    <3> HIDE DEF D
    <3> QED
      BY <3>1
  <2>2. \A n \in 1 .. Len(ids) : step[n][f[n - 1]] = Step(n, f[n - 1])
    <3> HIDE DEF Step, D
    <3> QED
      BY <2>1
  <2>3. \A n \in 0 .. Len(ids) : n = 0 \/ n \in 1 .. Len(ids)
    BY <1>1
  <2> HIDE DEF Step, step, D
  <2> QED
    BY <1>3, <2>2, <2>3 DEF Recursion
<1>5. Sorted(f)
  <2>1. f = [n \in 0 .. Len(ids) |-> f[n]]
    OBVIOUS
  <2> HIDE DEF D, Step
  <2> QED
    BY <1>4, <2>1
<1>6. Sorted(sorted)
  <2> HIDE DEF D, step
  <2> QED
    BY <1>5
<1>7. sort_by(tab, key, ids) = sorted[Len(ids)]
  BY DEF sort_by
<1> HIDE DEF sorted
<1>8. /\ sorted[0] = <<>>
      /\ \A n \in 1 .. Len(ids) : sorted[n] = Step(n, sorted[n - 1])
  <2>1. \A n \in 1 .. Len(ids) : n \in 0 .. Len(ids) /\ n # 0
    BY <1>1
  <2> HIDE DEF Step
  <2> QED
    BY <1>1, <1>6, <2>1
<1>9. Sorts(sorted, tab, key, ids)
  BY <1>8 DEF Sorts
<1> QED
  BY <1>7, <1>9

\* s is the first n ids, in the order Q if there is one.
SortedOf(s, n, S, ids, has_order, Q) ==
  /\ s \in Seq(S)
  /\ Len(s) = n
  /\ \A x : x \in Range(s) <=> \E i \in 1 .. n : ids[i] = x
  /\ has_order => Ordered(s, Q)

\* One id more.  The ids come in the order R.
LEMMA SortedStep ==
  ASSUME NEW S, NEW tab, NEW key, NEW R, NEW ids \in Seq(S),
         NEW has_order \in BOOLEAN,
         has_order => WeakOrder(S, tab, key) /\ Ordered(ids, R),
         NEW n \in 1 .. Len(ids),
         NEW s, SortedOf(s, n - 1, S, ids, has_order, Refined(S, tab, key, R))
  PROVE  SortedOf(insert_sorted(tab, key, s, ids[n]), n, S, ids, has_order,
                  Refined(S, tab, key, R))
<1>1. PICK x \in S : x = ids[n]
  <2>1. ids[n] \in S
    OBVIOUS
  <2> QED
    BY <2>1
<1>2. Len(ids) \in Nat
  OBVIOUS
<1>3. /\ s \in Seq(S) /\ Len(s) = n - 1
      /\ \A y : y \in Range(s) <=> \E i \in 1 .. n - 1 : ids[i] = y
      /\ has_order => Ordered(s, Refined(S, tab, key, R))
  BY DEF SortedOf
<1>0. PICK r : r = insert_sorted(tab, key, s, x)
  OBVIOUS
<1>4. PICK k \in 0 .. Len(s) : /\ r \in Seq(S)
                               /\ Inserted(r, k, s, x)
                               /\ Fits(k, tab, key, s, x)
  BY <1>0, <1>3, InsertSortedIs
<1>5. Len(r) = n
  <2>1. Len(r) = (n - 1) + 1
    BY <1>3, <1>4 DEF Inserted
  <2> QED
    BY <1>2, <2>1
<1>6. \A y : y \in Range(r) <=> \E i \in 1 .. n : ids[i] = y
  <2>1. Range(r) = Range(s) \cup {x}
    BY <1>3, <1>4, InsertedRange
  <2>2. \A i \in 1 .. n : i \in 1 .. n - 1 \/ i = n
    BY <1>2
  <2>3. (\A i \in 1 .. n - 1 : i \in 1 .. n) /\ n \in 1 .. n
    BY <1>2
  <2> QED
    BY <1>1, <1>3, <2>1, <2>2, <2>3
<1>7. ASSUME has_order
      PROVE  Ordered(r, Refined(S, tab, key, R))
  <2>1. \A y \in Range(s) : <<y, x>> \in R
    <3>1. \A i \in 1 .. n - 1 : i \in 1 .. Len(ids) /\ i < n
      BY <1>2
    <3>2. \A i \in 1 .. n - 1 : <<ids[i], x>> \in R
      BY <1>1, <1>7, <3>1 DEF Ordered
    <3> QED
      BY <1>3, <3>2
  <2> QED
    BY <1>3, <1>4, <1>7, <2>1, InsertOrdered
<1> QED
  BY <1>0, <1>1, <1>4, <1>5, <1>6, <1>7 DEF SortedOf

\* sort_by returns the ids it is given; when the comparator is a weak order and
\* they come in an order, they leave in that order refined.
LEMMA SortByIs ==
  ASSUME NEW S, NEW tab, NEW key, NEW R, NEW ids \in Seq(S)
  PROVE  /\ sort_by(tab, key, ids) \in Seq(S)
         /\ SameIds(sort_by(tab, key, ids), ids)
         /\ WeakOrder(S, tab, key) /\ Ordered(ids, R)
              => Ordered(sort_by(tab, key, ids), Refined(S, tab, key, R))
<1>1. PICK f : /\ Sorts(f, tab, key, ids)
               /\ sort_by(tab, key, ids) = f[Len(ids)]
  BY SortSteps
<1>2. PICK ord \in BOOLEAN : ord = (WeakOrder(S, tab, key) /\ Ordered(ids, R))
  OBVIOUS
<1>3. PICK Q : Q = Refined(S, tab, key, R)
  OBVIOUS
<1> DEFINE U == {n \in 0 .. Len(ids) : SortedOf(f[n], n, S, ids, ord, Q)}
<1>4. Len(ids) \in Nat
  OBVIOUS
<1>5. 0 \in U
  <2>1. f[0] = <<>>
    BY <1>1 DEF Sorts
  <2>2. <<>> \in Seq(S) /\ Len(<<>>) = 0
    OBVIOUS
  <2>3. \A x : x \notin Range(<<>>)
    BY DEF Range
  <2>4. \A x : ~\E i \in 1 .. 0 : ids[i] = x
    OBVIOUS
  <2>5. Ordered(<<>>, Q)
    BY <2>2 DEF Ordered
  <2>6. SortedOf(<<>>, 0, S, ids, ord, Q)
    BY <2>2, <2>3, <2>4, <2>5 DEF SortedOf
  <2> QED
    BY <1>4, <2>1, <2>6
<1>6. ASSUME NEW n \in 1 .. Len(ids), n - 1 \in U
      PROVE  n \in U
  <2>1. SortedOf(f[n - 1], n - 1, S, ids, ord, Q)
    BY <1>6
  <2>2. f[n] = insert_sorted(tab, key, f[n - 1], ids[n])
    BY <1>1 DEF Sorts
  <2>3. SortedOf(f[n], n, S, ids, ord, Q)
    BY <1>2, <1>3, <2>1, <2>2, SortedStep
  <2> QED
    BY <1>4, <2>3
<1>7. \A n \in 0 .. Len(ids) : n \in U
  <2> HIDE DEF U
  <2> QED
    BY <1>4, <1>5, <1>6, InductionUpTo
<1>8. SortedOf(f[Len(ids)], Len(ids), S, ids, ord, Q)
  BY <1>4, <1>7
<1>9. \A x : x \in Range(ids) <=> \E i \in 1 .. Len(ids) : ids[i] = x
  BY RangeIs
<1>10. Range(f[Len(ids)]) = Range(ids)
  BY <1>8, <1>9 DEF SortedOf
<1> QED
  BY <1>1, <1>2, <1>3, <1>8, <1>10 DEF SortedOf, SameIds

\* f[n] is the ids sorted by the last n keys.
RowsSorts(f, tab, order, ids) ==
  /\ f[0] = ids
  /\ \A n \in 1 .. Len(order) :
       f[n] = sort_by(tab, order[Len(order) + 1 - n], f[n - 1])

\* sort_rows sorts by one key after the other, from the last one.
LEMMA RowsSortSteps ==
  ASSUME NEW S, NEW K, NEW tab, NEW order \in Seq(K), NEW ids \in Seq(S)
  PROVE  \E f : /\ RowsSorts(f, tab, order, ids)
                /\ sort_rows(tab, order, ids) = f[Len(order)]
<1> DEFINE D == Seq(S)
           Step(n, s) == sort_by(tab, order[Len(order) + 1 - n], s)
           step == [n \in 1 .. Len(order) |-> [s \in D |-> Step(n, s)]]
           sorted[n \in 0 .. Len(order)] ==
             IF n = 0 THEN ids
             ELSE sort_by(tab, order[Len(order) + 1 - n], sorted[n - 1])
           Sorted(f) == f = [n \in 0 .. Len(order) |->
                               IF n = 0 THEN ids ELSE Step(n, f[n - 1])]
<1>1. Len(order) \in Nat /\ ids \in D
  OBVIOUS
<1>2. step \in [1 .. Len(order) -> [D -> D]]
  <2>1. ASSUME NEW n \in 1 .. Len(order), NEW s \in D
        PROVE  Step(n, s) \in D
    BY SortByIs
  <2> HIDE DEF Step, D
  <2> QED
    BY <2>1
<1>3. PICK f \in [0 .. Len(order) -> D] : Recursion(f, Len(order), ids, step)
  <2> HIDE DEF step, D
  <2> QED
    BY <1>1, <1>2, RecursionExists
<1>4. \A n \in 0 .. Len(order) :
        f[n] = IF n = 0 THEN ids ELSE Step(n, f[n - 1])
  <2>1. \A n \in 1 .. Len(order) : f[n - 1] \in D
    <3>1. \A n \in 1 .. Len(order) : n - 1 \in 0 .. Len(order)
      BY <1>1
    <3> HIDE DEF D
    <3> QED
      BY <3>1
  <2>2. \A n \in 1 .. Len(order) : step[n][f[n - 1]] = Step(n, f[n - 1])
    <3> HIDE DEF Step, D
    <3> QED
      BY <2>1
  <2>3. \A n \in 0 .. Len(order) : n = 0 \/ n \in 1 .. Len(order)
    BY <1>1
  <2> HIDE DEF Step, step, D
  <2> QED
    BY <1>3, <2>2, <2>3 DEF Recursion
<1>5. Sorted(f)
  <2>1. f = [n \in 0 .. Len(order) |-> f[n]]
    OBVIOUS
  <2> HIDE DEF D, Step
  <2> QED
    BY <1>4, <2>1
<1>6. Sorted(sorted)
  <2> HIDE DEF D, step
  <2> QED
    BY <1>5
<1>7. sort_rows(tab, order, ids) = sorted[Len(order)]
  BY DEF sort_rows
<1> HIDE DEF sorted
<1>8. /\ sorted[0] = ids
      /\ \A n \in 1 .. Len(order) : sorted[n] = Step(n, sorted[n - 1])
  <2>1. \A n \in 1 .. Len(order) : n \in 0 .. Len(order) /\ n # 0
    BY <1>1
  <2> HIDE DEF Step
  <2> QED
    BY <1>1, <1>6, <2>1
<1>9. RowsSorts(sorted, tab, order, ids)
  BY <1>8 DEF RowsSorts
<1> QED
  BY <1>7, <1>9

\* The keys from the m-th on that tell x from y
apart_from(m, tab, order, x, y) ==
  {n \in m .. Len(order) : \/ before(order[n], tab[x], tab[y])
                          \/ before(order[n], tab[y], tab[x])}

\* x comes ahead of y by the keys from the m-th on, or it is the smaller id.
Ahead(m, tab, order, x, y) ==
  IF apart_from(m, tab, order, x, y) = {} THEN x < y
  ELSE before(order[Min(apart_from(m, tab, order, x, y))], tab[x], tab[y])

Aheads(m, S, tab, order) == {xy \in S \X S : Ahead(m, tab, order, xy[1], xy[2])}

\* One key more, in front of the others
LEMMA AheadStep ==
  ASSUME NEW S, NEW K, NEW tab, NEW order \in Seq(K), NEW m \in 1 .. Len(order)
  PROVE  Refined(S, tab, order[m], Aheads(m + 1, S, tab, order))
           \subseteq Aheads(m, S, tab, order)
<1> SUFFICES ASSUME NEW x \in S, NEW y \in S,
                    <<x, y>> \in Refined(S, tab, order[m],
                                        Aheads(m + 1, S, tab, order))
             PROVE  Ahead(m, tab, order, x, y)
  BY DEF Refined, Aheads
<1> DEFINE b(n) == before(order[n], tab[x], tab[y])
           c(n) == before(order[n], tab[y], tab[x])
<1>1. Len(order) \in Nat
  OBVIOUS
<1>2. PICK A : A = apart_from(m, tab, order, x, y)
  OBVIOUS
<1>3. PICK B : B = apart_from(m + 1, tab, order, x, y)
  OBVIOUS
<1>4. /\ A = {n \in m .. Len(order) : b(n) \/ c(n)}
      /\ B = {n \in m + 1 .. Len(order) : b(n) \/ c(n)}
  BY <1>2, <1>3 DEF apart_from
<1>5. b(m) \/ (~c(m) /\ Ahead(m + 1, tab, order, x, y))
  BY DEF Refined, Aheads
<1> HIDE DEF b, c
<1>6. CASE b(m)
  <2>1. m \in A /\ \A q \in A : m <= q
    BY <1>1, <1>4, <1>6
  <2>2. Min(A) = m
    <3>1. A \in SUBSET (0 .. Len(order)) /\ A # {}
      BY <1>1, <1>4, <2>1
    <3>2. Min(A) \in A /\ \A q \in A : Min(A) <= q
      BY <1>1, <3>1, MinUpTo
    <3>3. Min(A) <= m /\ m <= Min(A)
      BY <2>1, <3>2
    <3>4. Min(A) \in Nat
      <4>1. \A q \in A : q \in Nat
        BY <1>1, <3>1
      <4> QED
        BY <3>2, <4>1
    <3> QED
      BY <1>1, <3>3, <3>4
  <2>3. A # {} /\ b(Min(A))
    BY <1>6, <2>1, <2>2
  <2> QED
    BY <1>2, <2>3 DEF Ahead, b
<1>7. CASE ~b(m)
  <2>1. A = B
    <3>1. \A n : n \in m .. Len(order) <=> n = m \/ n \in m + 1 .. Len(order)
      BY <1>1
    <3> QED
      BY <1>4, <1>5, <1>7, <3>1
  <2> QED
    BY <1>2, <1>3, <1>5, <1>7, <2>1 DEF Ahead
<1> QED
  BY <1>6, <1>7

\* sort_rows returns the ids it is given; rising ids leave in the lexicographic
\* order of the keys, the smaller id first among equals.
LEMMA SortRowsIs ==
  ASSUME NEW S, NEW K, NEW tab, NEW order \in Seq(K), NEW ids \in Seq(S)
  PROVE  /\ sort_rows(tab, order, ids) \in Seq(S)
         /\ SameIds(sort_rows(tab, order, ids), ids)
         /\ (/\ Rising(ids)
             /\ \A m \in 1 .. Len(order) : WeakOrder(S, tab, order[m]))
              => Ordered(sort_rows(tab, order, ids), Aheads(1, S, tab, order))
<1>1. PICK f : /\ RowsSorts(f, tab, order, ids)
               /\ sort_rows(tab, order, ids) = f[Len(order)]
  BY RowsSortSteps
<1>2. PICK ord \in BOOLEAN :
        ord = (/\ Rising(ids)
               /\ \A m \in 1 .. Len(order) : WeakOrder(S, tab, order[m]))
  OBVIOUS
<1> DEFINE L == Len(order)
           Good(n) == /\ f[n] \in Seq(S)
                      /\ SameIds(f[n], ids)
                      /\ ord => Ordered(f[n], Aheads(L + 1 - n, S, tab, order))
           U == {n \in 0 .. L : Good(n)}
<1>3. L \in Nat
  OBVIOUS
<1>4. 0 \in U
  <2>1. f[0] = ids
    BY <1>1 DEF RowsSorts
  <2>2. ASSUME ord
        PROVE  Ordered(ids, Aheads(L + 1, S, tab, order))
    <3>1. \A x, y : apart_from(L + 1, tab, order, x, y) = {}
      <4>1. L + 1 .. L = {}
        BY <1>3
      <4> QED
        BY <4>1 DEF apart_from
    <3>2. ASSUME NEW i \in 1 .. Len(ids), NEW j \in 1 .. Len(ids), i < j
          PROVE  <<ids[i], ids[j]>> \in Aheads(L + 1, S, tab, order)
      <4>1. ids[i] \in S /\ ids[j] \in S
        OBVIOUS
      <4>2. ids[i] < ids[j]
        BY <1>2, <2>2, <3>2 DEF Rising
      <4>3. Ahead(L + 1, tab, order, ids[i], ids[j])
        BY <3>1, <4>2 DEF Ahead
      <4> QED
        BY <4>1, <4>3 DEF Aheads
    <3> QED
      BY <3>2 DEF Ordered
  <2>3. L + 1 - 0 = L + 1
    BY <1>3
  <2>4. SameIds(ids, ids)
    BY DEF SameIds
  <2>5. Good(0)
    BY <2>1, <2>2, <2>3, <2>4
  <2> HIDE DEF Good
  <2> QED
    BY <1>3, <2>5
<1>5. ASSUME NEW n \in 1 .. L, n - 1 \in U
      PROVE  n \in U
  <2>1. Good(n - 1)
    BY <1>5
  <2>2. PICK m \in 1 .. L : m = L + 1 - n /\ L + 1 - (n - 1) = m + 1
    <3>1. L + 1 - n \in 1 .. L /\ L + 1 - (n - 1) = (L + 1 - n) + 1
      BY <1>3
    <3> QED
      BY <3>1
  <2>3. PICK s \in Seq(S) : s = f[n - 1]
    BY <2>1
  <2>4. SameIds(s, ids) /\ (ord => Ordered(s, Aheads(m + 1, S, tab, order)))
    BY <2>1, <2>2, <2>3
  <2>5. PICK t : t = f[n]
    OBVIOUS
  <2>6. t = sort_by(tab, order[m], s)
    BY <1>1, <2>2, <2>3, <2>5 DEF RowsSorts
  <2> HIDE DEF U, Good
  <2>7. /\ t \in Seq(S) /\ SameIds(t, s)
        /\ ord => Ordered(t, Refined(S, tab, order[m],
                                     Aheads(m + 1, S, tab, order)))
    BY <1>2, <2>4, <2>6, SortByIs
  <2>8. ord => Ordered(t, Aheads(m, S, tab, order))
    BY <2>7, AheadStep DEF Ordered
  <2>9. SameIds(t, ids)
    BY <2>4, <2>7 DEF SameIds
  <2>10. Good(n)
    BY <2>2, <2>5, <2>7, <2>8, <2>9 DEF Good
  <2> QED
    BY <1>3, <2>10 DEF U
<1>6. \A n \in 0 .. L : n \in U
  <2> HIDE DEF U, L
  <2> QED
    BY <1>3, <1>4, <1>5, InductionUpTo
<1>7. Good(L)
  BY <1>3, <1>6
<1>8. L + 1 - L = 1
  BY <1>3
<1> QED
  BY <1>1, <1>2, <1>7, <1>8

-----------------------------------------------------------------------------
(* The order of texts: by the first byte that differs, a prefix first.      *)

\* s and t agree on n bytes, and then s ends or has the smaller byte.
LessAt(n, s, t) ==
  /\ n <= Len(s) /\ n < Len(t)
  /\ \A i \in 1 .. n : s[i] = t[i]
  /\ n < Len(s) => s[n + 1] < t[n + 1]

\* text_less compares at the first place where the texts differ.
LEMMA TextLessIs ==
  ASSUME NEW s \in Seq(Int), NEW t \in Seq(Int)
  PROVE  text_less(s, t) <=> \E n \in Nat : LessAt(n, s, t)
<1>1. Len(s) \in Nat /\ Len(t) \in Nat
  OBVIOUS
<1>2. ASSUME NEW n \in Nat, n <= Len(s), n <= Len(t)
      PROVE  SubSeq(s, 1, n) = SubSeq(t, 1, n)
               <=> \A i \in 1 .. n : s[i] = t[i]
  <2>1. /\ \A i \in 1 .. n : SubSeq(s, 1, n)[i] = s[i]
        /\ \A i \in 1 .. n : SubSeq(t, 1, n)[i] = t[i]
        /\ Len(SubSeq(s, 1, n)) = n /\ Len(SubSeq(t, 1, n)) = n
        /\ SubSeq(s, 1, n) \in Seq(Int) /\ SubSeq(t, 1, n) \in Seq(Int)
    BY SMTT(40), <1>2
  <2>2. PICK a \in Seq(Int) : a = SubSeq(s, 1, n)
    BY <2>1
  <2>3. PICK b \in Seq(Int) : b = SubSeq(t, 1, n)
    BY <2>1
  <2>4. /\ Len(a) = n /\ Len(b) = n
        /\ \A i \in 1 .. n : a[i] = s[i] /\ b[i] = t[i]
    BY <2>1, <2>2, <2>3
  <2>5. a = b <=> \A i \in 1 .. n : a[i] = b[i]
    BY <2>4
  <2> QED
    BY <2>2, <2>3, <2>4, <2>5
<1>3. ASSUME text_less(s, t)
      PROVE  \E n \in Nat : LessAt(n, s, t)
  <2>1. PICK n \in 0 .. Len(s) : /\ n < Len(t)
                                 /\ SubSeq(s, 1, n) = SubSeq(t, 1, n)
                                 /\ n < Len(s) => s[n + 1] < t[n + 1]
    BY <1>3 DEF text_less
  <2>2. n \in Nat /\ n <= Len(s) /\ n <= Len(t)
    BY <1>1, <2>1
  <2>3. \A i \in 1 .. n : s[i] = t[i]
    BY <1>2, <2>1, <2>2
  <2> QED
    BY <2>1, <2>2, <2>3 DEF LessAt
<1>4. ASSUME NEW n \in Nat, LessAt(n, s, t)
      PROVE  text_less(s, t)
  <2>1. /\ n <= Len(s) /\ n < Len(t) /\ n <= Len(t)
        /\ \A i \in 1 .. n : s[i] = t[i]
        /\ n < Len(s) => s[n + 1] < t[n + 1]
    BY <1>1, <1>4 DEF LessAt
  <2>2. SubSeq(s, 1, n) = SubSeq(t, 1, n)
    BY <1>2, <2>1
  <2>3. n \in 0 .. Len(s)
    BY <1>1, <2>1
  <2> QED
    BY <2>1, <2>2, <2>3 DEF text_less
<1> QED
  BY <1>3, <1>4

\* Two texts are the same or one is less.
LEMMA TextTotal ==
  ASSUME NEW s \in Seq(Int), NEW t \in Seq(Int), s # t
  PROVE  text_less(s, t) \/ text_less(t, s)
<1>1. /\ Len(s) \in Nat /\ Len(t) \in Nat
      /\ \A i \in 1 .. Len(s) : s[i] \in Int
      /\ \A i \in 1 .. Len(t) : t[i] \in Int
  OBVIOUS
<1> DEFINE Apart(n) == n >= Len(s) \/ n >= Len(t) \/ s[n + 1] # t[n + 1]
           S == {n \in Nat : Apart(n)}
<1>2. PICK n \in S : \A m \in S : n <= m
  <2>1. S \in SUBSET Nat /\ Len(s) \in S
    BY <1>1
  <2> HIDE DEF S
  <2> QED
    BY <2>1, LeastNatural
<1>3. n \in Nat /\ Apart(n) /\ \A m \in Nat : m < n => ~Apart(m)
  <2>1. \A m \in Nat : m < n => ~(n <= m)
    OBVIOUS
  <2> HIDE DEF Apart
  <2> QED
    BY <1>2, <2>1
<1>4. ASSUME NEW i \in 1 .. n
      PROVE  i <= Len(s) /\ i <= Len(t) /\ s[i] = t[i]
  <2>1. i - 1 \in Nat /\ i - 1 < n /\ (i - 1) + 1 = i
    BY <1>3
  <2>2. ~Apart(i - 1)
    <3> HIDE DEF Apart
    <3> QED
      BY <1>3, <2>1
  <2> QED
    BY <1>1, <2>1, <2>2
<1>5. n <= Len(s) /\ n <= Len(t)
  <2>1. CASE n = 0
    BY <1>1, <2>1
  <2>2. CASE n # 0
    <3>1. n \in 1 .. n
      BY <1>3, <2>2
    <3> QED
      BY <1>4, <3>1
  <2> QED
    BY <2>1, <2>2
<1>6. CASE n = Len(s) /\ n = Len(t)
  <2>1. \A i \in 1 .. Len(s) : s[i] = t[i]
    BY <1>4, <1>6
  <2>2. Len(s) = Len(t)
    BY <1>6
  <2> HIDE DEF S, Apart
  <2>3. s = t
    BY SMTT(40), <2>1, <2>2
  <2> QED
    BY <2>3
<1>7. CASE n = Len(s) /\ n # Len(t)
  <2>1. LessAt(n, s, t)
    BY <1>1, <1>3, <1>4, <1>5, <1>7 DEF LessAt
  <2> QED
    BY <1>3, <2>1, TextLessIs
<1>8. CASE n # Len(s) /\ n = Len(t)
  <2>1. LessAt(n, t, s)
    BY <1>1, <1>3, <1>4, <1>5, <1>8 DEF LessAt
  <2> QED
    BY <1>3, <2>1, TextLessIs
<1>9. CASE n # Len(s) /\ n # Len(t)
  <2>1. n < Len(s) /\ n < Len(t)
    BY <1>1, <1>3, <1>5, <1>9
  <2>2. /\ s[n + 1] # t[n + 1] /\ s[n + 1] \in Int /\ t[n + 1] \in Int
    BY <1>1, <1>3, <2>1
  <2>3. CASE s[n + 1] < t[n + 1]
    <3>1. LessAt(n, s, t)
      BY <1>4, <1>5, <2>1, <2>3 DEF LessAt
    <3> QED
      BY <1>3, <3>1, TextLessIs
  <2>4. CASE t[n + 1] < s[n + 1]
    <3>1. LessAt(n, t, s)
      BY <1>4, <1>5, <2>1, <2>4 DEF LessAt
    <3> QED
      BY <1>3, <3>1, TextLessIs
  <2> QED
    BY <2>2, <2>3, <2>4
<1> QED
  BY <1>6, <1>7, <1>8, <1>9

\* And not both.
LEMMA TextAsymmetric ==
  ASSUME NEW s \in Seq(Int), NEW t \in Seq(Int), text_less(s, t)
  PROVE  ~text_less(t, s)
<1> SUFFICES ASSUME text_less(t, s) PROVE FALSE
  OBVIOUS
<1>1. PICK n \in Nat : LessAt(n, s, t)
  BY TextLessIs
<1>2. PICK m \in Nat : LessAt(m, t, s)
  BY TextLessIs
<1>3. /\ Len(s) \in Nat /\ Len(t) \in Nat
      /\ \A i \in 1 .. Len(s) : s[i] \in Int
      /\ \A i \in 1 .. Len(t) : t[i] \in Int
  OBVIOUS
<1>4. /\ n <= Len(s) /\ n < Len(t) /\ (n < Len(s) => s[n + 1] < t[n + 1])
      /\ m <= Len(t) /\ m < Len(s) /\ (m < Len(t) => t[m + 1] < s[m + 1])
      /\ \A i \in 1 .. n : s[i] = t[i]
      /\ \A i \in 1 .. m : t[i] = s[i]
  BY <1>1, <1>2 DEF LessAt
<1>5. CASE n < m
  <2>1. n < Len(s) /\ n + 1 \in 1 .. m /\ n + 1 \in 1 .. Len(s)
    BY <1>3, <1>4, <1>5
  <2>2. s[n + 1] < t[n + 1] /\ t[n + 1] = s[n + 1] /\ s[n + 1] \in Int
    BY <1>3, <1>4, <2>1
  <2> QED
    BY <2>2
<1>6. CASE m < n
  <2>1. m < Len(t) /\ m + 1 \in 1 .. n /\ m + 1 \in 1 .. Len(t)
    BY <1>3, <1>4, <1>6
  <2>2. t[m + 1] < s[m + 1] /\ t[m + 1] = s[m + 1] /\ t[m + 1] \in Int
    BY <1>3, <1>4, <2>1
  <2> QED
    BY <2>2
<1>7. CASE m = n
  <2>1. /\ n < Len(s) /\ m < Len(t)
        /\ n + 1 \in 1 .. Len(s) /\ n + 1 \in 1 .. Len(t)
    BY <1>3, <1>4, <1>7
  <2>2. /\ s[n + 1] < t[n + 1] /\ t[n + 1] < s[n + 1]
        /\ s[n + 1] \in Int /\ t[n + 1] \in Int
    BY <1>3, <1>4, <1>7, <2>1
  <2>3. \A a, b \in Int : ~(a < b /\ b < a)
    OBVIOUS
  <2> QED
    BY <2>2, <2>3
<1> QED
  BY <1>5, <1>6, <1>7

\* Less is transitive.
LEMMA TextTransitive ==
  ASSUME NEW s \in Seq(Int), NEW t \in Seq(Int), NEW u \in Seq(Int),
         text_less(s, t), text_less(t, u)
  PROVE  text_less(s, u)
<1>1. PICK n \in Nat : LessAt(n, s, t)
  BY TextLessIs
<1>2. PICK m \in Nat : LessAt(m, t, u)
  BY TextLessIs
<1>3. /\ Len(s) \in Nat /\ Len(t) \in Nat /\ Len(u) \in Nat
      /\ \A i \in 1 .. Len(s) : s[i] \in Int
      /\ \A i \in 1 .. Len(t) : t[i] \in Int
      /\ \A i \in 1 .. Len(u) : u[i] \in Int
  OBVIOUS
<1>4. /\ n <= Len(s) /\ n < Len(t) /\ (n < Len(s) => s[n + 1] < t[n + 1])
      /\ m <= Len(t) /\ m < Len(u) /\ (m < Len(t) => t[m + 1] < u[m + 1])
      /\ \A i \in 1 .. n : s[i] = t[i]
      /\ \A i \in 1 .. m : t[i] = u[i]
  BY <1>1, <1>2 DEF LessAt
<1>5. CASE n < m
  <2>1. n < Len(u) /\ \A i \in 1 .. n : i \in 1 .. m
    BY <1>3, <1>4, <1>5
  <2>2. t[n + 1] = u[n + 1]
    <3>1. n + 1 \in 1 .. m
      BY <1>5
    <3> QED
      BY <1>4, <3>1
  <2>3. LessAt(n, s, u)
    BY <1>4, <2>1, <2>2 DEF LessAt
  <2> QED
    BY <2>3, TextLessIs
<1>6. CASE m < n
  <2>1. m < Len(s) /\ m < Len(t) /\ \A i \in 1 .. m : i \in 1 .. n
    BY SMTT(40), <1>3, <1>4, <1>6
  <2>2. s[m + 1] = t[m + 1]
    <3>1. m + 1 \in 1 .. n
      BY <1>6
    <3> QED
      BY <1>4, <3>1
  <2>3. m <= Len(s)
    BY <1>3, <2>1
  <2>4. LessAt(m, s, u)
    BY <1>4, <2>1, <2>2, <2>3 DEF LessAt
  <2> QED
    BY <2>4, TextLessIs
<1>7. CASE m = n
  <2>1. n < Len(s) => s[n + 1] < u[n + 1]
    <3> SUFFICES ASSUME n < Len(s) PROVE s[n + 1] < u[n + 1]
      OBVIOUS
    <3>1. /\ n + 1 \in 1 .. Len(s) /\ n + 1 \in 1 .. Len(t)
          /\ n + 1 \in 1 .. Len(u)
      BY SMTT(40), <1>3, <1>4, <1>7
    <3>2. /\ s[n + 1] < t[n + 1] /\ t[n + 1] < u[n + 1]
      BY <1>4, <1>7
    <3>3. \A a, b, c \in Int : a < b /\ b < c => a < c
      OBVIOUS
    <3> QED
      BY <1>3, <3>1, <3>2, <3>3
  <2>2. LessAt(n, s, u)
    BY <1>4, <1>7, <2>1 DEF LessAt
  <2> QED
    BY <2>2, TextLessIs
<1> QED
  BY <1>5, <1>6, <1>7

-----------------------------------------------------------------------------
(* Values: within the numbers, and within the texts, less is an order.      *)

\* What the values of each type hold
LEMMA ValueIs ==
  ASSUME NEW a \in Value
  PROVE  /\ a.ty \in Types
         /\ a.ty = "Null" <=> a = Null
         /\ a.ty \in {"Int", "Double"} => /\ a.v[1] \in Nat
                                         /\ a = [ty |-> a.ty, v |-> <<a.v[1]>>]
         /\ a.ty = "Text" => a.v \in Seq(Int) /\ a = Text(a.v)
<1>1. CASE a = Null
  BY <1>1 DEF Null, Types
<1>2. CASE a \in [ty : {"Int", "Double"}, v : [1 .. 1 -> Nat]]
  <2>1. /\ a.ty \in {"Int", "Double"} /\ a.v \in [1 .. 1 -> Nat]
        /\ a = [ty |-> a.ty, v |-> a.v]
    BY <1>2
  <2>2. a.v[1] \in Nat /\ a.v = <<a.v[1]>>
    BY <2>1
  <2>3. a.ty # "Null" /\ a # Null /\ a.ty # "Text"
    BY <2>1 DEF Null
  <2> QED
    BY <2>1, <2>2, <2>3 DEF Types
<1>3. CASE a \in [ty : {"Text"}, v : Seq(Int)]
  BY <1>3 DEF Types, Null, Text
<1> QED
  BY <1>1, <1>2, <1>3 DEF Value

Number(a) == a \in Value /\ a.ty \in {"Int", "Double"}
AText(a)  == a \in Value /\ a.ty = "Text"

\* Numbers: the code's order and equality are those of their halves.
LEMMA NumberOrder ==
  ASSUME NEW a, NEW b, Number(a), Number(b)
  PROVE  /\ halves(a) \in Nat
         /\ comparable(a, b)
         /\ less(a, b) <=> smaller(a, b)
         /\ smaller(a, b) <=> halves(a) < halves(b)
         /\ values_equal(a, b) <=> ~smaller(a, b) /\ ~smaller(b, a)
<1>1. a.v[1] \in Nat /\ b.v[1] \in Nat
  BY ValueIs DEF Number
<1>2. halves(a) \in Nat /\ halves(b) \in Nat
  BY <1>1 DEF halves
<1>3. numeric(a) /\ numeric(b) /\ comparable(a, b)
  BY DEF Number, numeric, comparable
<1>4. a.ty # "Text" /\ b.ty # "Text" /\ a.ty # "Null" /\ b.ty # "Null"
  BY DEF Number
<1>5. /\ less(a, b) <=> halves(a) < halves(b)
      /\ smaller(a, b) <=> halves(a) < halves(b)
      /\ smaller(b, a) <=> halves(b) < halves(a)
      /\ values_equal(a, b) <=> halves(a) = halves(b)
  BY <1>3, <1>4 DEF less, smaller, values_equal
<1> QED
  BY <1>2, <1>3, <1>5

\* Texts: the code's order and equality are those of their characters.
LEMMA TextOrder ==
  ASSUME NEW a, NEW b, AText(a), AText(b)
  PROVE  /\ comparable(a, b)
         /\ less(a, b) <=> smaller(a, b)
         /\ smaller(a, b) <=> text_less(a.v, b.v)
         /\ values_equal(a, b) <=> a.v = b.v
         /\ values_equal(a, b) <=> ~smaller(a, b) /\ ~smaller(b, a)
<1>1. /\ a.ty = "Text" /\ b.ty = "Text"
      /\ a.v \in Seq(Int) /\ b.v \in Seq(Int)
  BY ValueIs DEF AText
<1>2. to_string(a) = a.v /\ to_string(b) = b.v
  BY <1>1 DEF to_string
<1>3. ~numeric(a) /\ ~numeric(b) /\ comparable(a, b)
  BY SMTT(40), <1>1 DEF numeric, comparable
<1>4. /\ less(a, b) <=> text_less(a.v, b.v)
      /\ smaller(a, b) <=> text_less(a.v, b.v)
      /\ smaller(b, a) <=> text_less(b.v, a.v)
      /\ values_equal(a, b) <=> a.v = b.v
  BY <1>1, <1>2, <1>3 DEF less, smaller, values_equal
<1>5. ~text_less(a.v, a.v)
  BY <1>1, TextAsymmetric
<1>6. a.v # b.v => text_less(a.v, b.v) \/ text_less(b.v, a.v)
  BY <1>1, TextTotal
<1> QED
  BY <1>3, <1>4, <1>5, <1>6

\* The order of numbers is a weak order: 2 and 2.0 are equal.
LEMMA NumbersWeak ==
  ASSUME NEW a, NEW b, NEW c, Number(a), Number(b), Number(c)
  PROVE  /\ less(a, b) => ~less(b, a)
         /\ ~less(a, b) /\ ~less(b, c) => ~less(a, c)
<1>1. PICK x \in Nat, y \in Nat, z \in Nat :
        x = halves(a) /\ y = halves(b) /\ z = halves(c)
  BY NumberOrder
<1>2. /\ less(a, b) <=> x < y
      /\ less(b, a) <=> y < x
      /\ less(b, c) <=> y < z
      /\ less(a, c) <=> x < z
  BY <1>1, NumberOrder
<1> QED
  BY <1>2

\* The order of texts is a weak order.
LEMMA TextsWeak ==
  ASSUME NEW a, NEW b, NEW c, AText(a), AText(b), AText(c)
  PROVE  /\ less(a, b) => ~less(b, a)
         /\ ~less(a, b) /\ ~less(b, c) => ~less(a, c)
<1>1. a.v \in Seq(Int) /\ b.v \in Seq(Int) /\ c.v \in Seq(Int)
  BY ValueIs DEF AText
<1>2. /\ less(a, b) <=> text_less(a.v, b.v)
      /\ less(b, a) <=> text_less(b.v, a.v)
      /\ less(b, c) <=> text_less(b.v, c.v)
      /\ less(a, c) <=> text_less(a.v, c.v)
  BY TextOrder
<1>3. text_less(a.v, b.v) => ~text_less(b.v, a.v)
  BY <1>1, TextAsymmetric
<1>4. ASSUME ~text_less(a.v, b.v), ~text_less(b.v, c.v), text_less(a.v, c.v)
      PROVE  FALSE
  <2>1. CASE a.v = b.v
    BY <1>4, <2>1
  <2>2. CASE text_less(b.v, a.v)
    BY <1>1, <1>4, <2>2, TextTransitive
  <2> QED
    BY <1>1, <1>4, <2>1, <2>2, TextTotal
<1> QED
  BY <1>2, <1>3, <1>4

\* The types of a family: texts only, or numbers only
LEMMA OneFamilyIs ==
  ASSUME NEW kinds, one_family(kinds), "Null" \notin kinds
  PROVE  kinds \subseteq {"Text"} \/ kinds \subseteq {"Int", "Double"}
BY DEF one_family, Types

\* A column of numbers only, or of texts only, gives a weak order, whichever the
\* direction.
LEMMA OrderlyKey ==
  ASSUME NEW S, NEW tab, NEW key \in OrderKey,
         \A x \in S : tab[x] \in [Columns -> Value],
         one_family({tab[x][key.col].ty : x \in S}),
         "Null" \notin {tab[x][key.col].ty : x \in S}
  PROVE  WeakOrder(S, tab, key)
<1> DEFINE val_(x) == tab[x][key.col]
           kinds == {val_(x).ty : x \in S}
<1>1. key.col \in Columns
  BY DEF OrderKey
<1>2. \A x \in S : val_(x) \in Value
  BY <1>1
<1>3. \/ \A x \in S : Number(val_(x))
      \/ \A x \in S : AText(val_(x))
  <2>1. kinds \subseteq {"Text"} \/ kinds \subseteq {"Int", "Double"}
    BY OneFamilyIs
  <2>2. \A x \in S : val_(x).ty \in kinds
    OBVIOUS
  <2> HIDE DEF kinds, val_
  <2> QED
    BY <1>2, <2>1, <2>2 DEF Number, AText
<1>4. \A x, y \in S : before(key, tab[x], tab[y])
                       <=> IF key.asc THEN less(val_(x), val_(y))
                                      ELSE less(val_(y), val_(x))
  BY DEF before
<1>5. ASSUME NEW x \in S, NEW y \in S, NEW z \in S
      PROVE  /\ less(val_(x), val_(y)) => ~less(val_(y), val_(x))
             /\ ~less(val_(x), val_(y)) /\ ~less(val_(y), val_(z))
                  => ~less(val_(x), val_(z))
  <2> HIDE DEF val_
  <2> QED
    BY <1>3, NumbersWeak, TextsWeak
<1> HIDE DEF val_
<1> QED
  BY <1>4, <1>5 DEF WeakOrder

-----------------------------------------------------------------------------
(* The indexes stay exact, and an answer is what select gives.              *)

\* The ids of a smaller table are ids of a larger one.
LEMMA MoreIds ==
  ASSUME NEW m \in Nat, NEW s \in Seq(1 .. m)
  PROVE  s \in Seq(1 .. m + 1)
<1>1. \A i \in 1 .. Len(s) : s[i] \in 1 .. m
  OBVIOUS
<1>2. s = [i \in 1 .. Len(s) |-> s[i]] /\ Len(s) \in Nat
  OBVIOUS
<1>3. \A i \in 1 .. m : i \in 1 .. m + 1
  OBVIOUS
<1>4. [i \in 1 .. Len(s) |-> s[i]] \in Seq(1 .. m + 1)
  BY <1>1, <1>2, <1>3
<1> QED
  BY <1>2, <1>4

\* What an index has under a key, or would have
LEMMA LookupIs ==
  ASSUME NEW data, NEW cols, NEW tab, exact(data, cols, tab), NEW key
  PROVE  /\ lookup_eq(data, key) \in Seq(1 .. Len(tab))
         /\ Rising(lookup_eq(data, key))
         /\ \A i \in 1 .. Len(lookup_eq(data, key)) :
              key_of(cols, tab[lookup_eq(data, key)[i]]) = key
<1>1. CASE key \in DOMAIN data
  BY <1>1 DEF exact, lookup_eq
<1>2. CASE key \notin DOMAIN data
  <2>1. lookup_eq(data, key) = <<>>
    BY <1>2 DEF lookup_eq
  <2>2. <<>> \in Seq(1 .. Len(tab)) /\ Rising(<<>>)
    BY DEF Rising
  <2> QED
    BY <2>1, <2>2
<1> QED
  BY <1>1, <1>2

\* A row that is entered leaves an index exact.
LEMMA EntersExact ==
  ASSUME NEW data, NEW cols, NEW R, NEW tab \in Seq(R), NEW row \in R,
         exact(data, cols, tab)
  PROVE  exact(entered(data, cols, row, Len(tab) + 1), cols, Append(tab, row))
<1> DEFINE id  == Len(tab) + 1
           key == key_of(cols, row)
           old == lookup_eq(data, key)
           new == entered(data, cols, row, id)
           ext == Append(tab, row)
           ids == Append(old, id)
<1>1. /\ old \in Seq(1 .. Len(tab)) /\ Rising(old)
      /\ \A i \in 1 .. Len(old) : key_of(cols, tab[old[i]]) = key
  BY LookupIs
<1>2. /\ Len(tab) \in Nat /\ Len(ext) = id /\ ext[id] = row
      /\ \A i \in 1 .. Len(tab) : ext[i] = tab[i]
  BY AppendIs
<1>3. /\ DOMAIN new = DOMAIN data \cup {key}
      /\ new[key] = ids
      /\ \A k \in DOMAIN data : k # key => new[k] = data[k]
  BY DEF entered
<1>4. /\ ids \in Seq(1 .. id) /\ Len(ids) = Len(old) + 1
      /\ ids[Len(old) + 1] = id
      /\ \A i \in 1 .. Len(old) : ids[i] = old[i]
      /\ Rising(ids) /\ Len(old) \in Nat
  <2>1. old \in Seq(1 .. id) /\ id \in 1 .. id
    BY <1>1, <1>2, MoreIds
  <2>2. \A y \in Range(old) : y < id
    BY <1>1, <1>2, RangeIs
  <2>3. 1 .. id \in SUBSET Nat
    BY <1>2
  <2> HIDE DEF id, old
  <2>4. Rising(ids)
    BY <1>1, <2>1, <2>2, <2>3, AppendRises
  <2> QED
    BY <2>1, <2>4, AppendIs
<1>5. \A k \in DOMAIN data :
        /\ data[k] \in Seq(1 .. Len(tab)) /\ Rising(data[k])
        /\ \A i \in 1 .. Len(data[k]) : key_of(cols, tab[data[k][i]]) = k
  BY DEF exact
<1>6. \A x \in 1 .. Len(tab) :
        \E i \in 1 .. Len(lookup_eq(data, key_of(cols, tab[x]))) :
          lookup_eq(data, key_of(cols, tab[x]))[i] = x
  BY DEF exact
<1>7. ASSUME NEW k \in DOMAIN new
      PROVE  /\ new[k] \in Seq(1 .. id)
             /\ Rising(new[k])
             /\ \A i \in 1 .. Len(new[k]) : key_of(cols, ext[new[k][i]]) = k
  <2>1. CASE k = key
    <3>1. ASSUME NEW i \in 1 .. Len(ids)
          PROVE  key_of(cols, ext[ids[i]]) = key
      <4>1. CASE i = Len(old) + 1
        BY <1>2, <1>4, <4>1
      <4>2. CASE i \in 1 .. Len(old)
        <5>1. ids[i] = old[i] /\ old[i] \in 1 .. Len(tab)
          BY <1>1, <1>4, <4>2
        <5> QED
          BY <1>1, <1>2, <4>2, <5>1
      <4> HIDE DEF ids, old
      <4>3. i = Len(old) + 1 \/ i \in 1 .. Len(old)
        BY <1>4
      <4> QED
        BY <4>1, <4>2, <4>3
    <3> HIDE DEF ids, new, id, ext, key
    <3> QED
      BY <1>3, <1>4, <2>1, <3>1
  <2>2. CASE k # key
    <3>1. k \in DOMAIN data /\ new[k] = data[k]
      BY <1>3, <2>2
    <3>2. data[k] \in Seq(1 .. id)
      BY <1>2, <1>5, <3>1, MoreIds
    <3>3. ASSUME NEW i \in 1 .. Len(data[k])
          PROVE  key_of(cols, ext[data[k][i]]) = k
      <4>1. data[k][i] \in 1 .. Len(tab)
        <5>1. data[k] \in Seq(1 .. Len(tab))
          BY <1>5, <3>1
        <5> QED
          BY <5>1
      <4> QED
        BY <1>2, <1>5, <3>1, <4>1
    <3> HIDE DEF new, ext, id
    <3> QED
      BY <1>5, <3>1, <3>2, <3>3
  <2> QED
    BY <2>1, <2>2
<1>8. ASSUME NEW x \in 1 .. id
      PROVE  \E i \in 1 .. Len(lookup_eq(new, key_of(cols, ext[x]))) :
               lookup_eq(new, key_of(cols, ext[x]))[i] = x
  <2> DEFINE k == key_of(cols, ext[x])
  <2>1. CASE x = id
    <3>1. k = key
      BY <1>2, <2>1
    <3>2. lookup_eq(new, k) = ids
      BY <1>3, <3>1 DEF lookup_eq
    <3>3. Len(old) + 1 \in 1 .. Len(ids)
      BY <1>4
    <3> HIDE DEF ids, k, id, new
    <3> QED
      BY <1>4, <2>1, <3>2, <3>3 DEF k
  <2>2. CASE x # id
    <3>1. x \in 1 .. Len(tab)
      BY <1>2, <2>2
    <3>2. k = key_of(cols, tab[x])
      BY <1>2, <3>1
    <3>3. PICK i \in 1 .. Len(lookup_eq(data, k)) : lookup_eq(data, k)[i] = x
      BY <1>6, <3>1, <3>2
    <3>4. CASE k = key
      <4>1. lookup_eq(new, k) = ids /\ lookup_eq(data, k) = old
        BY <1>3, <3>4 DEF lookup_eq
      <4> HIDE DEF ids, k, old, id, new
      <4>2. i \in 1 .. Len(ids) /\ ids[i] = x
        BY <1>4, <3>3, <4>1
      <4> QED
        BY <4>1, <4>2 DEF k
    <3>5. CASE k # key
      <4>1. k \in DOMAIN data
        <5>1. k \notin DOMAIN data => lookup_eq(data, k) = <<>>
          BY DEF lookup_eq
        <5> HIDE DEF k
        <5> QED
          BY <3>3, <5>1
      <4>2. lookup_eq(new, k) = lookup_eq(data, k)
        BY <1>3, <3>5, <4>1 DEF lookup_eq
      <4> HIDE DEF k, new
      <4> QED
        BY <3>3, <4>2 DEF k
    <3> QED
      BY <3>4, <3>5
  <2> QED
    BY <2>1, <2>2
<1> HIDE DEF new, ext, id
<1>9. exact(new, cols, ext)
  BY <1>2, <1>7, <1>8 DEF exact
<1> QED
  BY <1>9 DEF new, ext, id

\* The table is a table of rows, the indexes are exact, and the answer is that of
\* the query to the table and the indexes as they are.
QueryInv ==
  /\ table \in Seq([Columns -> Value])
  /\ IndexExact
  /\ asked \in Queries \cup {NoQuery}
  /\ asked # NoQuery => answer = select(table, index, asked)

\* An empty table has empty indexes.
LEMMA QueryInit == Init => QueryInv
<1> SUFFICES ASSUME Init PROVE QueryInv
  OBVIOUS
<1>1. /\ table = <<>> /\ asked = NoQuery
      /\ index = [n \in DOMAIN Indexes |-> [key \in {} |-> <<>>]]
  BY DEF Init
<1>2. \A n \in DOMAIN Indexes : exact(index[n], Indexes[n], table)
  <2> SUFFICES ASSUME NEW n \in DOMAIN Indexes
               PROVE  exact(index[n], Indexes[n], table)
    OBVIOUS
  <2>1. index[n] = [key \in {} |-> <<>>]
    BY <1>1
  <2>2. DOMAIN index[n] = {}
    BY <2>1
  <2>3. 1 .. Len(table) = {}
    BY <1>1
  <2> QED
    BY <2>2, <2>3 DEF exact
<1> QED
  BY <1>1, <1>2 DEF QueryInv, IndexExact

\* An INSERT enters the row in every index.
LEMMA QueryInsert ==
  ASSUME QueryInv, NEW row \in Rows, Insert(row)
  PROVE  QueryInv'
<1>1. row \in [Columns -> Value]
  BY QueryAssumption
<1>2. /\ table \in Seq([Columns -> Value]) /\ DOMAIN index = DOMAIN Indexes
      /\ \A n \in DOMAIN Indexes : exact(index[n], Indexes[n], table)
  BY DEF QueryInv, IndexExact
<1>3. /\ table' = Append(table, row) /\ asked' = NoQuery
      /\ index' = [n \in DOMAIN Indexes |->
                     entered(index[n], Indexes[n], row, Len(table) + 1)]
  BY DEF Insert
<1>4. table' \in Seq([Columns -> Value])
  BY <1>1, <1>2, <1>3, AppendIs
<1>5. \A n \in DOMAIN Indexes : exact(index'[n], Indexes[n], table')
  <2> SUFFICES ASSUME NEW n \in DOMAIN Indexes
               PROVE  exact(index'[n], Indexes[n], table')
    OBVIOUS
  <2>1. exact(entered(index[n], Indexes[n], row, Len(table) + 1), Indexes[n],
              Append(table, row))
    BY <1>1, <1>2, EntersExact
  <2> QED
    BY <1>3, <2>1
<1>6. DOMAIN index' = DOMAIN Indexes
  BY <1>3
<1> QED
  BY <1>3, <1>4, <1>5, <1>6 DEF QueryInv, IndexExact

\* A SELECT changes no row and no index.
LEMMA QuerySelect ==
  ASSUME QueryInv, NEW q \in Queries, Select(q)
  PROVE  QueryInv'
<1>1. /\ asked' = q /\ answer' = select(table, index, q)
      /\ table' = table /\ index' = index
  BY DEF Select
<1>2. answer' = select(table', index', asked')
  BY <1>1
<1>3. table' \in Seq([Columns -> Value]) /\ IndexExact'
  BY <1>1 DEF QueryInv, IndexExact
<1> QED
  BY <1>1, <1>2, <1>3 DEF QueryInv

\* The invariant from which the four properties of answers follow
THEOREM QueryInvariant == Spec => []QueryInv
<1>1. Init => QueryInv
  BY QueryInit
<1>2. QueryInv /\ [Next]_vars => QueryInv'
  <2> SUFFICES ASSUME QueryInv, [Next]_vars PROVE QueryInv'
    OBVIOUS
  <2>1. ASSUME NEW row \in Rows, Insert(row) PROVE QueryInv'
    BY <2>1, QueryInsert
  <2>2. ASSUME NEW q \in Queries, Select(q) PROVE QueryInv'
    BY <2>2, QuerySelect
  <2>3. CASE UNCHANGED vars
    <3>1. /\ table' = table /\ index' = index /\ asked' = asked
          /\ answer' = answer
      BY <2>3 DEF vars
    <3> QED
      BY <3>1 DEF QueryInv, IndexExact
  <2> QED
    BY <2>1, <2>2, <2>3 DEF Next
<1> QED
  BY <1>1, <1>2, PTL DEF Spec

\* INSERT keeps every index exact, for any rows and indexes
\* (executor.rs:462-500).
THEOREM IndexesExact == Spec => []IndexExact
<1>1. QueryInv => IndexExact
  BY DEF QueryInv
<1> QED
  BY <1>1, QueryInvariant, PTL

\* What a SELECT looks at: ids of rows, in the order of the rows
LEMMA CandidatesIs ==
  ASSUME QueryInv, NEW p
  PROVE  /\ candidates(table, index, p) \in Seq(1 .. Len(table))
         /\ Rising(candidates(table, index, p))
<1>1. Len(table) \in Nat /\ DOMAIN table = 1 .. Len(table)
  BY DEF QueryInv
<1>2. /\ scan(table) \in Seq(1 .. Len(table))
      /\ Rising(scan(table))
  BY <1>1 DEF scan, Rising
<1>3. CASE p = NoWhere \/ serving(p) = {}
  BY <1>2, <1>3 DEF candidates
<1>4. CASE ~(p = NoWhere \/ serving(p) = {})
  <2> DEFINE n == Min(serving(p))
             key == lookup_key(Indexes[n], eq_conditions(p))
  <2>1. n \in DOMAIN Indexes
    <3>1. Indexes \in Seq(Seq(Columns) \ {<<>>})
      BY QueryAssumption
    <3>2. Len(Indexes) \in Nat /\ DOMAIN Indexes = 1 .. Len(Indexes)
      BY <3>1
    <3>3. serving(p) \in SUBSET (0 .. Len(Indexes))
      BY <3>2 DEF serving
    <3>4. n \in serving(p)
      BY <1>4, <3>2, <3>3, MinUpTo
    <3> QED
      BY <3>4 DEF serving
  <2>2. exact(index[n], Indexes[n], table)
    BY <2>1 DEF QueryInv, IndexExact
  <2>3. candidates(table, index, p) = lookup_eq(index[n], key)
    BY <1>4 DEF candidates
  <2> HIDE DEF n, key
  <2> QED
    BY <2>2, <2>3, LookupIs
<1> QED
  BY <1>3, <1>4

-----------------------------------------------------------------------------
(* Pages.                                                                   *)

\* The elements of a sequence after the first a, up to the b-th one
Part(s, a, b) == [i \in 1 .. b - a |-> s[a + i]]

\* SubSeq takes a part.
LEMMA SubSeqIs ==
  ASSUME NEW S, NEW s \in Seq(S), NEW a \in Nat, NEW b \in 0 .. Len(s)
  PROVE  SubSeq(s, a + 1, b) = Part(s, a, b)
<1>1. Len(s) \in Nat
  OBVIOUS
<1>2. DOMAIN SubSeq(s, a + 1, b) = 1 .. b - a
  BY <1>1
<1>3. \A i \in 1 .. b - a : SubSeq(s, a + 1, b)[i] = s[a + i]
  BY <1>1
<1>4. SubSeq(s, a + 1, b) = [i \in 1 .. b - a |-> SubSeq(s, a + 1, b)[i]]
  BY <1>1, <1>2
<1> QED
  BY <1>3, <1>4 DEF Part

\* A part of a sequence is a sequence of its own.
LEMMA PartIs ==
  ASSUME NEW S, NEW s \in Seq(S), NEW b \in 0 .. Len(s), NEW a \in 0 .. b
  PROVE  /\ Part(s, a, b) \in Seq(S)
         /\ Len(Part(s, a, b)) = b - a
         /\ \A i \in 1 .. b - a : Part(s, a, b)[i] = s[a + i]
<1>1. Len(s) \in Nat /\ a \in Nat /\ b \in Nat /\ b - a \in Nat
  OBVIOUS
<1>2. \A i \in 1 .. b - a : a + i \in 1 .. Len(s)
  BY <1>1
<1>3. \A i \in 1 .. b - a : s[a + i] \in S
  BY <1>2
<1>4. Part(s, a, b) \in Seq(S)
  BY <1>1, <1>3 DEF Part
<1> QED
  BY <1>1, <1>4 DEF Part

\* Where the page of a query starts and ends in an answer of n rows
PageStart(q, n) == IF q.offset <= n THEN q.offset ELSE n
PageEnd(q, n)   == IF q.limit = NoLimit \/ n <= q.offset + q.limit THEN n
                   ELSE q.offset + q.limit

APage(q) == q.offset \in Nat /\ q.limit \in Nat \cup {NoLimit}

\* A page starts in the answer and ends in it, after its start.
LEMMA PageBounds ==
  ASSUME NEW q, APage(q), NEW n \in Nat
  PROVE  PageEnd(q, n) \in 0 .. n /\ PageStart(q, n) \in 0 .. PageEnd(q, n)
BY DEF APage, PageEnd, PageStart, NoLimit

\* OFFSET and LIMIT cut a part out of an answer.
LEMMA PageIs ==
  ASSUME NEW S, NEW ids \in Seq(S), NEW q, APage(q)
  PROVE  page(ids, q) = Part(ids, PageStart(q, Len(ids)), PageEnd(q, Len(ids)))
<1>1. PICK n \in Nat : n = Len(ids)
  OBVIOUS
<1>2. PICK o \in Nat : o = q.offset
  BY DEF APage
<1>3. PICK rest : rest = SubSeq(ids, o + 1, n)
  OBVIOUS
<1>4. rest = Part(ids, o, n)
  <2>1. n \in 0 .. Len(ids)
    BY <1>1
  <2> QED
    BY <1>3, <2>1, SubSeqIs
<1>5. page(ids, q) = IF q.limit = NoLimit THEN rest
                     ELSE SubSeq(rest, 1, Min({q.limit, Len(rest)}))
  BY <1>1, <1>2, <1>3 DEF page
<1>6. CASE n <= o
  <2>1. 1 .. n - o = {} /\ 1 .. n - n = {}
    BY <1>6
  <2>2. rest = <<>> /\ Part(ids, n, n) = <<>>
    BY <1>4, <2>1 DEF Part
  <2>3. PageStart(q, n) = n
    BY <1>2, <1>6 DEF PageStart
  <2>4. CASE q.limit = NoLimit
    BY <1>1, <1>5, <2>2, <2>3, <2>4 DEF PageEnd
  <2>5. CASE q.limit # NoLimit
    <3>1. PICK l \in Nat : l = q.limit
      BY <2>5 DEF APage
    <3>2. Min({l, 0}) = 0
      BY MinOfTwo
    <3>3. Len(rest) = 0 /\ SubSeq(rest, 1, 0) = <<>>
      BY <2>2
    <3>4. page(ids, q) = <<>>
      BY <1>5, <2>5, <3>1, <3>2, <3>3
    <3>5. PageEnd(q, n) = n
      BY <1>2, <1>6, <2>5, <3>1 DEF PageEnd
    <3> QED
      BY <1>1, <2>2, <2>3, <3>4, <3>5
  <2> QED
    BY <2>4, <2>5
<1>7. CASE o < n
  <2>1. PageStart(q, n) = o /\ o \in 0 .. n
    BY <1>2, <1>7 DEF PageStart
  <2>2. CASE q.limit = NoLimit
    BY <1>1, <1>4, <1>5, <2>1, <2>2 DEF PageEnd
  <2>3. CASE q.limit # NoLimit
    <3>0. PICK l \in Nat : l = q.limit
      BY <2>3 DEF APage
    <3>1. /\ rest \in Seq(S) /\ Len(rest) = n - o
          /\ \A i \in 1 .. n - o : rest[i] = ids[o + i]
      <4>1. n \in 0 .. Len(ids)
        BY <1>1
      <4> QED
        BY <1>4, <2>1, <4>1, PartIs
    <3>2. PICK m \in 0 .. n - o : /\ m = Min({l, Len(rest)})
                                 /\ m = IF l <= n - o THEN l ELSE n - o
      <4>1. n - o \in Nat
        BY <1>7
      <4>2. Min({l, n - o}) = IF l <= n - o THEN l ELSE n - o
        BY <4>1, MinOfTwo
      <4>3. (IF l <= n - o THEN l ELSE n - o) \in 0 .. n - o
        BY <4>1
      <4> QED
        BY <3>1, <4>2, <4>3
    <3>3. PageEnd(q, n) = o + m
      <4>1. PageEnd(q, n) = IF n <= o + l THEN n ELSE o + l
        BY <1>2, <2>3, <3>0 DEF PageEnd
      <4>2. (IF n <= o + l THEN n ELSE o + l)
              = o + (IF l <= n - o THEN l ELSE n - o)
        BY <1>7
      <4> QED
        BY <3>2, <4>1, <4>2
    <3>4. page(ids, q) = SubSeq(rest, 0 + 1, m)
      <4>1. page(ids, q) = SubSeq(rest, 1, Min({l, Len(rest)}))
        BY <1>5, <2>3, <3>0
      <4>2. SubSeq(rest, 1, Min({l, Len(rest)})) = SubSeq(rest, 1, m)
        BY <3>2
      <4>3. 0 + 1 = 1
        OBVIOUS
      <4> QED
        BY <4>1, <4>2, <4>3
    <3>5. SubSeq(rest, 0 + 1, m) = Part(rest, 0, m)
      BY <3>1, <3>2, SubSeqIs
    <3>6. \A i \in 1 .. m : rest[0 + i] = ids[o + i]
      <4>1. \A i \in 1 .. m : i \in 1 .. n - o /\ 0 + i = i
        BY <3>2
      <4> QED
        BY <3>1, <4>1
    <3>7. m - 0 = m /\ (o + m) - o = m
      BY <3>2
    <3>8. Part(rest, 0, m) = Part(ids, o, o + m)
      BY <3>6, <3>7 DEF Part
    <3> QED
      BY <1>1, <2>1, <3>3, <3>4, <3>5, <3>8
  <2> QED
    BY <2>2, <2>3
<1> QED
  BY <1>6, <1>7

\* One sequence after another
LEMMA ConcatIs ==
  ASSUME NEW S, NEW s \in Seq(S), NEW t \in Seq(S)
  PROVE  /\ s \o t \in Seq(S)
         /\ Len(s \o t) = Len(s) + Len(t)
         /\ \A i \in 1 .. Len(s) : (s \o t)[i] = s[i]
         /\ \A i \in 1 .. Len(t) : (s \o t)[Len(s) + i] = t[i]
OBVIOUS

\* A part, and the part that follows it
LEMMA PartsMeet ==
  ASSUME NEW S, NEW s \in Seq(S), NEW c \in 0 .. Len(s), NEW b \in 0 .. c,
         NEW a \in 0 .. b
  PROVE  Part(s, a, b) \o Part(s, b, c) = Part(s, a, c)
<1>1. /\ Len(s) \in Nat /\ a \in Nat /\ b \in Nat /\ c \in Nat
      /\ b \in 0 .. Len(s) /\ a \in 0 .. c
  OBVIOUS
<1>2. PICK p : p = Part(s, a, b)
  OBVIOUS
<1>3. PICK r : r = Part(s, b, c)
  OBVIOUS
<1>4. PICK w : w = Part(s, a, c)
  OBVIOUS
<1>5. /\ p \in Seq(S) /\ Len(p) = b - a
      /\ \A i \in 1 .. b - a : p[i] = s[a + i]
  BY <1>1, <1>2, PartIs
<1>6. /\ r \in Seq(S) /\ Len(r) = c - b
      /\ \A i \in 1 .. c - b : r[i] = s[b + i]
  BY <1>1, <1>3, PartIs
<1>7. /\ w \in Seq(S) /\ Len(w) = c - a
      /\ \A i \in 1 .. c - a : w[i] = s[a + i]
  BY <1>1, <1>4, PartIs
<1>8. PICK u : u = p \o r
  OBVIOUS
<1>9. /\ u \in Seq(S) /\ Len(u) = Len(p) + Len(r)
      /\ \A i \in 1 .. Len(p) : u[i] = p[i]
      /\ \A i \in 1 .. Len(r) : u[Len(p) + i] = r[i]
  <2>1. p \in Seq(S) /\ r \in Seq(S)
    BY <1>5, <1>6
  <2>2. /\ p \o r \in Seq(S)
        /\ Len(p \o r) = Len(p) + Len(r)
        /\ \A i \in 1 .. Len(p) : (p \o r)[i] = p[i]
        /\ \A i \in 1 .. Len(r) : (p \o r)[Len(p) + i] = r[i]
    BY <2>1, ConcatIs
  <2> QED
    BY <1>8, <2>2
<1>10. Len(u) = c - a
  BY <1>1, <1>5, <1>6, <1>9
<1>11. ASSUME NEW i \in 1 .. c - a PROVE u[i] = w[i]
  <2>1. CASE i <= b - a
    <3>1. i \in 1 .. b - a
      BY <1>1, <2>1
    <3> QED
      BY <1>5, <1>7, <1>9, <3>1
  <2>2. CASE ~(i <= b - a)
    <3>1. PICK j \in 1 .. c - b : j = i - (b - a)
      BY <1>1, <2>2
    <3>2. i = (b - a) + j /\ b + j = a + i
      BY <1>1, <3>1
    <3>3. u[i] = r[j]
      BY <1>5, <1>6, <1>9, <3>2
    <3> QED
      BY <1>6, <1>7, <3>2, <3>3
  <2> QED
    BY <2>1, <2>2
<1>12. u = w
  BY <1>7, <1>9, <1>10, <1>11
<1> QED
  BY <1>2, <1>3, <1>4, <1>8, <1>12

\* All parts
LEMMA WholePart ==
  ASSUME NEW S, NEW s \in Seq(S)
  PROVE  Part(s, 0, Len(s)) = s
<1>1. Len(s) \in Nat /\ Len(s) \in 0 .. Len(s) /\ 0 \in 0 .. Len(s)
  OBVIOUS
<1>2. /\ Part(s, 0, Len(s)) \in Seq(S) /\ Len(Part(s, 0, Len(s))) = Len(s) - 0
      /\ \A i \in 1 .. Len(s) - 0 : Part(s, 0, Len(s))[i] = s[0 + i]
  BY <1>1, PartIs
<1>3. Len(s) - 0 = Len(s) /\ \A i \in 1 .. Len(s) : 0 + i = i
  BY <1>1
<1> QED
  BY <1>2, <1>3

-----------------------------------------------------------------------------
(* What a query selects before it is cut into a page.                       *)

AllOf(q) ==
  sort_rows(table, q.order,
            retain(table, q.where, candidates(table, index, q.where)))

Panics(q) ==
  /\ q.where # NoWhere
  /\ \E id \in Range(candidates(table, index, q.where)) :
       eval_where(q.where, table[id]) = "panic"

AQuery(q) == /\ q.where \in Clauses
             /\ q.order \in Seq(OrderKey)
             /\ q.offset \in Nat
             /\ q.limit \in Nat \cup {NoLimit}

\* What was answered is a query, and the answer is select's.
LEMMA AskedIs ==
  ASSUME QueryInv, answered
  PROVE  /\ AQuery(asked)
         /\ answer = select(table, index, asked)
         /\ asked \in [where: Clauses, order: Seq(OrderKey), offset: Nat,
                       limit: Nat \cup {NoLimit}]
<1>1. asked \in Queries
  BY DEF QueryInv, answered
<1>2. asked \in [where: Clauses, order: Seq(OrderKey), offset: Nat,
                 limit: Nat \cup {NoLimit}]
  BY <1>1, QueryAssumption
<1> QED
  BY <1>2 DEF QueryInv, answered, AQuery

\* select panics, or gives a page of all that it found.
LEMMA SelectIs ==
  ASSUME NEW q
  PROVE  select(table, index, q) = IF Panics(q) THEN Panic ELSE page(AllOf(q), q)
BY DEF select, Panics, AllOf

\* All that a query finds: the candidates that the clause retains, sorted
LEMMA AllOfIs ==
  ASSUME QueryInv, NEW q, AQuery(q)
  PROVE  /\ AllOf(q) \in Seq(1 .. Len(table))
         /\ \A x : x \in Range(AllOf(q))
                     <=> /\ x \in Range(candidates(table, index, q.where))
                         /\ holds(q.where, table[x])
         /\ (\A m \in 1 .. Len(q.order) :
               WeakOrder(1 .. Len(table), table, q.order[m]))
              => Ordered(AllOf(q),
                         Aheads(1, 1 .. Len(table), table, q.order))
<1> DEFINE S == 1 .. Len(table)
           found == candidates(table, index, q.where)
           kept == retain(table, q.where, found)
<1>1. found \in Seq(S) /\ Rising(found)
  BY CandidatesIs
<1>2. S \in SUBSET Nat
  <2>1. Len(table) \in Nat
    BY DEF QueryInv
  <2> QED
    BY <2>1
<1>3. q.order \in Seq(OrderKey)
  BY DEF AQuery
<1> HIDE DEF S, found
<1>4. /\ kept \in Seq(S) /\ Rising(kept)
      /\ \A x : x \in Range(kept)
                  <=> x \in Range(found) /\ holds(q.where, table[x])
  BY <1>1, <1>2, RetainIs
<1> HIDE DEF kept
<1>5. AllOf(q) = sort_rows(table, q.order, kept)
  BY DEF AllOf, kept, found
<1>6. /\ sort_rows(table, q.order, kept) \in Seq(S)
      /\ SameIds(sort_rows(table, q.order, kept), kept)
      /\ Rising(kept) /\ (\A m \in 1 .. Len(q.order) :
                            WeakOrder(S, table, q.order[m]))
           => Ordered(sort_rows(table, q.order, kept),
                      Aheads(1, S, table, q.order))
  BY <1>3, <1>4, SortRowsIs
<1> QED
  BY <1>4, <1>5, <1>6 DEF SameIds, S, found

-----------------------------------------------------------------------------
\* Pages fit together, for any rows, indexes and queries.
LEMMA PagesFitStep ==
  ASSUME QueryInv
  PROVE  PagesFit
<1> SUFFICES ASSUME answered, asked.limit # NoLimit
             PROVE  LET whole  == unpaged(asked)
                        rows(q) == select(table, index, q)
                        head   == [whole EXCEPT !.limit = asked.offset]
                        rest   == [whole EXCEPT
                                     !.offset = asked.offset + asked.limit]
                    IN  rows(head) \o answer \o rows(rest) = rows(whole)
  BY DEF PagesFit
<1>1. /\ AQuery(asked) /\ answer = select(table, index, asked)
      /\ asked \in [where: Clauses, order: Seq(OrderKey), offset: Nat,
                    limit: Nat \cup {NoLimit}]
  BY AskedIs
<1>2. PICK o \in Nat : o = asked.offset
  BY <1>1 DEF AQuery
<1>3. PICK l \in Nat : l = asked.limit
  BY <1>1 DEF AQuery
<1>4. PICK whole : whole = unpaged(asked)
  OBVIOUS
<1>5. PICK head : head = [whole EXCEPT !.limit = asked.offset]
  OBVIOUS
<1>6. PICK rest : rest = [whole EXCEPT !.offset = asked.offset + asked.limit]
  OBVIOUS
<1>7. /\ whole.where = asked.where /\ whole.order = asked.order
      /\ whole.offset = 0 /\ whole.limit = NoLimit
      /\ whole \in [where: Clauses, order: Seq(OrderKey), offset: Nat,
                    limit: Nat \cup {NoLimit}]
  BY <1>1, <1>4 DEF unpaged
<1>8. /\ head.where = asked.where /\ head.order = asked.order
      /\ head.offset = 0 /\ head.limit = o
  BY <1>2, <1>5, <1>7
<1>9. /\ rest.where = asked.where /\ rest.order = asked.order
      /\ rest.offset = o + l /\ rest.limit = NoLimit
  BY <1>2, <1>3, <1>6, <1>7
<1>10. PICK all : all = AllOf(asked)
  OBVIOUS
<1>11. /\ AllOf(whole) = all /\ AllOf(head) = all /\ AllOf(rest) = all
       /\ Panics(whole) = Panics(asked) /\ Panics(head) = Panics(asked)
       /\ Panics(rest) = Panics(asked)
  BY <1>7, <1>8, <1>9, <1>10 DEF AllOf, Panics
<1>12. ~Panics(asked)
  BY <1>1, SelectIs DEF answered
<1>13. /\ answer = page(all, asked)
       /\ select(table, index, whole) = page(all, whole)
       /\ select(table, index, head) = page(all, head)
       /\ select(table, index, rest) = page(all, rest)
  BY <1>1, <1>10, <1>11, <1>12, SelectIs
<1>14. PICK n \in Nat : n = Len(all)
  BY <1>1, <1>10, AllOfIs
<1>15. all \in Seq(1 .. Len(table))
  BY <1>1, <1>10, AllOfIs
<1>16. APage(asked) /\ APage(whole) /\ APage(head) /\ APage(rest)
  BY <1>1, <1>7, <1>8, <1>9 DEF APage, AQuery
<1>17. PICK b \in 0 .. n : b = PageEnd(asked, n)
  BY <1>14, <1>16, PageBounds
<1>18. PICK a \in 0 .. b : a = PageStart(asked, n)
  BY <1>14, <1>16, <1>17, PageBounds
<1>20. /\ PageStart(whole, n) = 0 /\ PageEnd(whole, n) = n
       /\ PageStart(head, n) = 0 /\ PageEnd(rest, n) = n
  BY <1>7, <1>8, <1>9 DEF PageStart, PageEnd
<1>21. PageEnd(head, n) = a
  <2>1. o # NoLimit
    BY DEF NoLimit
  <2>2. PageEnd(head, n) = IF n <= 0 + o THEN n ELSE 0 + o
    BY <1>8, <2>1 DEF PageEnd
  <2>3. a = IF o <= n THEN o ELSE n
    BY <1>2, <1>18 DEF PageStart
  <2>4. (IF n <= 0 + o THEN n ELSE 0 + o) = IF o <= n THEN o ELSE n
    OBVIOUS
  <2> QED
    BY <2>2, <2>3, <2>4
<1>22. PageStart(rest, n) = b
  <2>1. PageStart(rest, n) = IF o + l <= n THEN o + l ELSE n
    BY <1>9 DEF PageStart
  <2>2. b = IF n <= o + l THEN n ELSE o + l
    BY <1>2, <1>3, <1>17 DEF PageEnd
  <2>3. (IF n <= o + l THEN n ELSE o + l) = IF o + l <= n THEN o + l ELSE n
    OBVIOUS
  <2> QED
    BY <2>1, <2>2, <2>3
<1>23. /\ answer = Part(all, a, b)
       /\ select(table, index, whole) = Part(all, 0, n)
       /\ select(table, index, head) = Part(all, 0, a)
       /\ select(table, index, rest) = Part(all, b, n)
  BY <1>13, <1>14, <1>15, <1>16, <1>17, <1>18, <1>20, <1>21, <1>22, PageIs
<1>24. /\ b \in 0 .. Len(all) /\ n \in 0 .. Len(all) /\ 0 \in 0 .. a
       /\ 0 \in 0 .. b
  BY <1>14
<1>25. Part(all, 0, a) \o Part(all, a, b) = Part(all, 0, b)
  BY <1>15, <1>18, <1>24, PartsMeet
<1>26. Part(all, 0, b) \o Part(all, b, n) = Part(all, 0, n)
  <2>1. b \in 0 .. n
    OBVIOUS
  <2> QED
    BY <1>15, <1>24, <2>1, PartsMeet
<1>27. select(table, index, head) \o answer \o select(table, index, rest)
         = select(table, index, whole)
  BY <1>23, <1>25, <1>26
<1> QED
  BY <1>4, <1>5, <1>6, <1>27

\* The pages of an answer fit together, for any rows, offset and limit
\* (executor.rs:859-873).
THEOREM PagesAlwaysFit == Spec => []PagesFit
BY QueryInvariant, PagesFitStep, PTL

\* An answer is a part of all that was found.
LEMMA AnswerIs ==
  ASSUME QueryInv, answered
  PROVE  /\ AllOf(asked) \in Seq(1 .. Len(table))
         /\ ~Panics(asked)
         /\ \E b \in 0 .. Len(AllOf(asked)) : \E a \in 0 .. b :
              /\ answer = Part(AllOf(asked), a, b)
              /\ asked = unpaged(asked) => a = 0 /\ b = Len(AllOf(asked))
<1>1. AQuery(asked) /\ answer = select(table, index, asked)
  BY AskedIs
<1>2. ~Panics(asked)
  BY <1>1, SelectIs DEF answered
<1>3. answer = page(AllOf(asked), asked)
  BY <1>1, <1>2, SelectIs
<1>4. AllOf(asked) \in Seq(1 .. Len(table))
  BY <1>1, AllOfIs
<1>5. APage(asked)
  BY <1>1 DEF APage, AQuery
<1>6. PICK n \in Nat : n = Len(AllOf(asked))
  BY <1>4
<1>7. PICK b \in 0 .. n : b = PageEnd(asked, n)
  BY <1>5, <1>6, PageBounds
<1>8. PICK a \in 0 .. b : a = PageStart(asked, n)
  BY <1>5, <1>6, <1>7, PageBounds
<1>9. answer = Part(AllOf(asked), a, b)
  BY <1>3, <1>4, <1>5, <1>6, <1>7, <1>8, PageIs
<1>10. ASSUME asked = unpaged(asked) PROVE a = 0 /\ b = n
  <2>1. asked \in [where: Clauses, order: Seq(OrderKey), offset: Nat,
                   limit: Nat \cup {NoLimit}]
    BY AskedIs
  <2>2. asked.offset = 0 /\ asked.limit = NoLimit
    BY <1>10, <2>1 DEF unpaged
  <2> QED
    BY <1>7, <1>8, <2>2 DEF PageStart, PageEnd
<1> QED
  BY <1>2, <1>4, <1>6, <1>7, <1>8, <1>9, <1>10

-----------------------------------------------------------------------------
\* The answer is sorted, for any rows, keys and indexes.
LEMMA SortedStepIs ==
  ASSUME QueryInv
  PROVE  SortedByKeys
<1> DEFINE before_by(key, i, j) == before(key, table[i], table[j])
           orderly(key) ==
             LET kinds == {table[id][key.col].ty : id \in DOMAIN table}
             IN  one_family(kinds) /\ "Null" \notin kinds
           first_apart(i, j) ==
             {n \in DOMAIN asked.order :
                \/ before_by(asked.order[n], i, j)
                \/ before_by(asked.order[n], j, i)}
           ahead(i, j) == IF first_apart(i, j) = {} THEN i < j
                          ELSE before_by(asked.order[Min(first_apart(i, j))],
                                         i, j)
<1> SUFFICES ASSUME answered,
                    \A n \in DOMAIN asked.order : orderly(asked.order[n])
             PROVE  \A m, n \in DOMAIN answer :
                      m < n => ahead(answer[m], answer[n])
  BY DEF SortedByKeys
<1>1. AQuery(asked)
  BY AskedIs
<1>2. asked.order \in Seq(OrderKey) /\ DOMAIN asked.order = 1 .. Len(asked.order)
  BY <1>1 DEF AQuery
<1>3. DOMAIN table = 1 .. Len(table) /\ table \in Seq([Columns -> Value])
  BY DEF QueryInv
<1> DEFINE S == 1 .. Len(table)
<1>4. \A m \in 1 .. Len(asked.order) : WeakOrder(S, table, asked.order[m])
  <2> SUFFICES ASSUME NEW m \in 1 .. Len(asked.order)
               PROVE  WeakOrder(S, table, asked.order[m])
    OBVIOUS
  <2>1. PICK key \in OrderKey : key = asked.order[m]
    BY <1>2
  <2>2. orderly(key)
    BY <1>2, <2>1
  <2>3. /\ one_family({table[x][key.col].ty : x \in S})
        /\ "Null" \notin {table[x][key.col].ty : x \in S}
    BY <1>3, <2>2
  <2>4. \A x \in S : table[x] \in [Columns -> Value]
    BY <1>3
  <2> HIDE DEF S
  <2>5. WeakOrder(S, table, key)
    BY <2>3, <2>4, OrderlyKey
  <2> QED
    BY <2>1, <2>5
<1>5. PICK all : all = AllOf(asked)
  OBVIOUS
<1>6. Ordered(all, Aheads(1, S, table, asked.order))
  BY <1>1, <1>4, <1>5, AllOfIs
<1>7. all \in Seq(S) /\ Len(all) \in Nat
  BY <1>5, AnswerIs
<1>8. PICK b \in 0 .. Len(all) : \E a \in 0 .. b : answer = Part(all, a, b)
  BY <1>5, AnswerIs
<1>8a. PICK a \in 0 .. b : answer = Part(all, a, b)
  BY <1>8
<1>9. DOMAIN answer = 1 .. b - a
  BY <1>8a DEF Part
<1> SUFFICES ASSUME NEW m \in 1 .. b - a, NEW n \in 1 .. b - a, m < n
             PROVE  ahead(answer[m], answer[n])
  BY <1>9
<1>10. /\ a + m \in 1 .. Len(all) /\ a + n \in 1 .. Len(all)
       /\ a + m < a + n
  BY <1>7
<1>11. answer[m] = all[a + m] /\ answer[n] = all[a + n]
  BY <1>8a DEF Part
<1>12. PICK x : x = answer[m]
  OBVIOUS
<1>13. PICK y : y = answer[n]
  OBVIOUS
<1>14. <<x, y>> \in Aheads(1, S, table, asked.order)
  BY <1>6, <1>10, <1>11, <1>12, <1>13 DEF Ordered
<1>15. Ahead(1, table, asked.order, x, y)
  BY <1>14 DEF Aheads
<1>16. first_apart(x, y) = apart_from(1, table, asked.order, x, y)
  BY <1>2 DEF apart_from
<1>17. ahead(x, y)
  BY <1>15, <1>16 DEF Ahead
<1> QED
  BY <1>12, <1>13, <1>17

\* ORDER BY sorts by the first key, then by the others, and is stable, for any
\* rows and any number of keys (executor.rs:1615-1656).
THEOREM AlwaysSorted == Spec => []SortedByKeys
BY QueryInvariant, SortedStepIs, PTL

-----------------------------------------------------------------------------
(* Clauses and their operands.                                              *)

\* The parts of a clause are of this set.
PartsIn(p, es) ==
  /\ p.ex = "cmp" => p.op \in Ops /\ p.l \in es /\ p.r \in es
  /\ p.ex \in {"and", "or"} => p.l \in es /\ p.r \in es
  /\ p.ex = "like" => p.e \in es /\ p.pat \in es /\ p.neg \in BOOLEAN
  /\ p.ex = "isnull" => p.e \in es /\ p.neg \in BOOLEAN
  /\ p.ex = "between" => /\ p.e \in es /\ p.lo \in es /\ p.hi \in es
                         /\ p.neg \in BOOLEAN
  /\ p.ex = "in" => p.e \in es /\ p.list \in SUBSET es /\ p.neg \in BOOLEAN

\* A predicate over a set of operands has its operands in the set.
LEMMA PredicateIs ==
  ASSUME NEW es, NEW p \in Predicates(es)
  PROVE  /\ p.ex \in {"cmp", "and", "or", "like", "isnull", "between", "in"}
         /\ PartsIn(p, es)
<1>1. CASE p \in [ex : {"cmp"}, op : Ops, l : es, r : es]
  BY <1>1 DEF PartsIn
<1>2. CASE p \in [ex : {"and", "or"}, l : es, r : es]
  BY <1>2 DEF PartsIn
<1>3. CASE p \in [ex : {"like"}, e : es, pat : es, neg : BOOLEAN]
  BY <1>3 DEF PartsIn
<1>4. CASE p \in [ex : {"isnull"}, e : es, neg : BOOLEAN]
  BY <1>4 DEF PartsIn
<1>5. CASE p \in [ex : {"between"}, e : es, lo : es, hi : es, neg : BOOLEAN]
  BY <1>5 DEF PartsIn
<1>6. CASE p \in [ex : {"in"}, e : es, list : SUBSET es, neg : BOOLEAN]
  BY <1>6 DEF PartsIn
<1> QED
  BY <1>1, <1>2, <1>3, <1>4, <1>5, <1>6 DEF Predicates

Plain == [ex : {"col"}, name : STRING] \cup [ex : {"lit"}, val : Value]

\* A literal holds a value.
LEMMA OperandIs ==
  ASSUME NEW e \in Operands
  PROVE  /\ e.ex = "lit" => e.val \in Value
         /\ e.ex \in {"col", "lit", "cmp", "and", "or", "like", "isnull",
                      "between", "in"}
<1>1. e \in Plain \/ e \in Predicates(Plain)
  BY DEF Operands, Plain
<1>2. CASE e \in Plain
  BY <1>2 DEF Plain
<1>3. CASE e \in Predicates(Plain)
  <2>1. e.ex \in {"cmp", "and", "or", "like", "isnull", "between", "in"}
    BY <1>3, PredicateIs
  <2> QED
    BY <2>1
<1> QED
  BY <1>1, <1>2, <1>3

\* The parts of a clause are operands.
LEMMA ClauseIs ==
  ASSUME NEW p \in Clauses
  PROVE  /\ PartsIn(p, Operands)
         /\ p.ex \in {"none", "col", "lit", "cmp", "and", "or", "like",
                      "isnull", "between", "in"}
         /\ p.ex = "none" <=> p = NoWhere
<1>1. \/ p = NoWhere \/ p \in Plain \/ p \in Predicates(Plain)
      \/ p \in Predicates(Operands)
  BY DEF Clauses, Operands, Plain
<1>2. CASE p = NoWhere
  BY <1>2 DEF NoWhere, PartsIn
<1>3. CASE p \in Plain
  <2>1. p.ex \in {"col", "lit"}
    BY <1>3 DEF Plain
  <2> QED
    BY <2>1 DEF NoWhere, PartsIn
<1>4. ASSUME NEW es, es \subseteq Operands, p \in Predicates(es)
      PROVE  /\ PartsIn(p, Operands)
             /\ p.ex \in {"cmp", "and", "or", "like", "isnull", "between", "in"}
  <2>1. /\ PartsIn(p, es)
        /\ p.ex \in {"cmp", "and", "or", "like", "isnull", "between", "in"}
    BY <1>4, PredicateIs
  <2> QED
    BY <1>4, <2>1 DEF PartsIn
<1>5. Plain \subseteq Operands
  BY DEF Operands, Plain
<1>6. CASE p \in Predicates(Plain) \/ p \in Predicates(Operands)
  <2>1. /\ PartsIn(p, Operands)
        /\ p.ex \in {"cmp", "and", "or", "like", "isnull", "between", "in"}
    <3> HIDE DEF Plain
    <3> QED
      BY <1>4, <1>5, <1>6
  <2> QED
    BY <2>1 DEF NoWhere
<1> QED
  BY <1>1, <1>2, <1>3, <1>6

\* A value that is not NULL
LEMMA SameTypeEqual ==
  ASSUME NEW a \in Value, NEW b \in Value, a.ty = b.ty, values_equal(a, b)
  PROVE  a = b
<1>1. a.ty # "Null" /\ a.ty \in Types
  BY ValueIs DEF values_equal
<1>2. CASE a.ty \in {"Int", "Double"}
  <2>1. /\ a.v[1] \in Nat /\ a = [ty |-> a.ty, v |-> <<a.v[1]>>]
        /\ b.v[1] \in Nat /\ b = [ty |-> b.ty, v |-> <<b.v[1]>>]
    BY <1>2, ValueIs
  <2>2. halves(a) = halves(b)
    BY <1>2 DEF values_equal, numeric
  <2>3. a.v[1] = b.v[1]
    BY <1>2, <2>1, <2>2 DEF halves
  <2> QED
    BY <2>1, <2>3
<1>3. CASE a.ty = "Text"
  <2>1. AText(a) /\ AText(b)
    BY <1>3 DEF AText
  <2>2. a.v = b.v
    BY <2>1, TextOrder
  <2>3. a = Text(a.v) /\ b = Text(b.v)
    BY <1>3, ValueIs
  <2> QED
    BY <2>2, <2>3
<1> QED
  BY <1>1, <1>2, <1>3 DEF Types

\* values_equal does not mind the order of its operands.
LEMMA EqualSymmetric ==
  ASSUME NEW a, NEW b, values_equal(a, b)
  PROVE  values_equal(b, a)
BY DEF values_equal

\* What a clause needs to be true
LEMMA TrueIs ==
  ASSUME NEW p, NEW row, eval_where(p, row) = "yes"
  PROVE  /\ p.ex = "cmp" => /\ eval_expr(p.l, row) # Err
                           /\ eval_expr(p.r, row) # Err
                           /\ compare(p.op, eval_expr(p.l, row),
                                      eval_expr(p.r, row))
         /\ p.ex = "and" => /\ eval_expr(p.l, row) # Err
                           /\ eval_expr(p.r, row) # Err
<1>1. ASSUME p.ex = "cmp"
      PROVE  /\ eval_expr(p.l, row) # Err
             /\ eval_expr(p.r, row) # Err
             /\ compare(p.op, eval_expr(p.l, row), eval_expr(p.r, row))
  BY <1>1 DEF eval_where, boolean
<1>2. ASSUME p.ex = "and"
      PROVE  /\ eval_expr(p.l, row) # Err
             /\ eval_expr(p.r, row) # Err
  BY <1>2 DEF eval_where
<1> QED
  BY <1>1, <1>2

\* The conditions of a clause that is true of a row: one equality of a column and
\* a constant.
LEMMA ConditionsAre ==
  ASSUME NEW p \in Clauses, eq_conditions(p) # {}, NEW row,
         eval_where(p, row) = "yes"
  PROVE  \E c : \E k \in Value :
           /\ eq_conditions(p) = {<<c, k>>}
           /\ c \in Columns => values_equal(row[c], k)
<1> DEFINE one(q) == IF q.ex = "cmp" /\ q.op = "=" THEN equality(q.l, q.r)
                     ELSE {}
<1>1. p.ex # "and"
  <2> SUFFICES ASSUME p.ex = "and" PROVE FALSE
    OBVIOUS
  <2>1. one(p.l) # {} \/ one(p.r) # {}
    BY DEF eq_conditions
  <2>2. p.l.ex = "cmp" \/ p.r.ex = "cmp"
    BY <2>1
  <2>3. eval_expr(p.l, row) = Err \/ eval_expr(p.r, row) = Err
    BY <2>2 DEF eval_expr
  <2> QED
    BY <2>3, TrueIs
<1>2. eq_conditions(p) = one(p)
  BY <1>1 DEF eq_conditions
<1>3. p.ex = "cmp" /\ p.op = "=" /\ eq_conditions(p) = equality(p.l, p.r)
  BY <1>2
<1>4. p.l \in Operands /\ p.r \in Operands
  BY <1>3, ClauseIs DEF PartsIn
<1>5. values_equal(eval_expr(p.l, row), eval_expr(p.r, row))
  BY <1>3, TrueIs DEF compare
<1>6. CASE p.l.ex = "col" /\ p.r.ex = "lit"
  <2>1. equality(p.l, p.r) = {<<p.l.name, p.r.val>>}
    BY <1>6 DEF equality, constant
  <2>2. p.r.val \in Value
    BY <1>4, <1>6, OperandIs
  <2>3. /\ p.l.name \in Columns => eval_expr(p.l, row) = row[p.l.name]
        /\ eval_expr(p.r, row) = p.r.val
    BY <1>6 DEF eval_expr
  <2> QED
    BY <1>3, <1>5, <2>1, <2>2, <2>3
<1>7. CASE ~(p.l.ex = "col" /\ p.r.ex = "lit")
  <2>1. /\ p.r.ex = "col" /\ p.l.ex = "lit"
        /\ equality(p.l, p.r) = {<<p.r.name, p.l.val>>}
    BY <1>3, <1>7 DEF equality, constant
  <2>2. p.l.val \in Value
    BY <1>4, <2>1, OperandIs
  <2>3. /\ p.r.name \in Columns => eval_expr(p.r, row) = row[p.r.name]
        /\ eval_expr(p.l, row) = p.l.val
    BY <2>1 DEF eval_expr
  <2>4. values_equal(eval_expr(p.r, row), eval_expr(p.l, row))
    BY <1>5, EqualSymmetric
  <2> QED
    BY <1>3, <2>1, <2>2, <2>3, <2>4
<1> QED
  BY <1>6, <1>7

\* A row of the table for which the clause is true is among those that the index
\* finds, where its values are of the types of the constants.
LEMMA IndexFinds ==
  ASSUME QueryInv, NEW p \in Clauses, p # NoWhere, serving(p) # {},
         NEW id \in 1 .. Len(table), eval_where(p, table[id]) = "yes",
         \A c \in eq_conditions(p) :
           c[1] \in Columns => table[id][c[1]].ty \in {c[2].ty, "Null"}
  PROVE  id \in Range(candidates(table, index, p))
<1>1. Indexes \in Seq(Seq(Columns) \ {<<>>}) /\ Len(Indexes) \in Nat
      /\ DOMAIN Indexes = 1 .. Len(Indexes)
  BY QueryAssumption
<1>2. PICK n \in DOMAIN Indexes : n = Min(serving(p)) /\ n \in serving(p)
  <2>1. serving(p) \in SUBSET (0 .. Len(Indexes))
    BY <1>1 DEF serving
  <2>2. Min(serving(p)) \in serving(p)
    BY <1>1, <2>1, MinUpTo
  <2> QED
    BY <2>2 DEF serving
<1>3. PICK cols : cols = Indexes[n]
  OBVIOUS
<1>4. /\ cols \in Seq(Columns) /\ DOMAIN cols = 1 .. Len(cols)
      /\ 1 \in DOMAIN cols /\ Len(cols) \in Nat
  <2>1. cols \in Seq(Columns) \ {<<>>}
    BY <1>1, <1>3
  <2> QED
    BY <2>1
<1>5. PICK conds : conds = eq_conditions(p)
  OBVIOUS
<1>6. \A i \in DOMAIN cols : \E c \in conds : c[1] = cols[i]
  BY <1>2, <1>3, <1>5 DEF serving, serves
<1>7. conds # {}
  BY <1>4, <1>6
<1>8. PICK c : \E k \in Value : /\ conds = {<<c, k>>}
                                /\ c \in Columns => values_equal(table[id][c], k)
  BY <1>5, <1>7, ConditionsAre
<1>9. PICK k \in Value : /\ conds = {<<c, k>>}
                         /\ c \in Columns => values_equal(table[id][c], k)
  BY <1>8
<1>10. \A i \in DOMAIN cols : cols[i] = c
  BY <1>6, <1>9
<1>11. c \in Columns
  BY <1>4, <1>10
<1>12. table[id] \in [Columns -> Value]
  BY DEF QueryInv
<1>13. table[id][c] = k
  <2>1. values_equal(table[id][c], k) /\ table[id][c] \in Value
    BY <1>9, <1>11, <1>12
  <2>2. table[id][c].ty # "Null"
    BY <2>1 DEF values_equal
  <2>3. table[id][c].ty = k.ty
    BY <1>5, <1>9, <1>11, <2>2
  <2> QED
    BY <2>1, <2>3, SameTypeEqual
<1>14. lookup_key(cols, conds) = key_of(cols, table[id])
  <2>1. ASSUME NEW i \in DOMAIN cols
        PROVE  (CHOOSE d \in conds : d[1] = cols[i])[2] = k
    <3> DEFINE d == CHOOSE e \in conds : e[1] = cols[i]
    <3>1. d \in conds
      BY <1>6
    <3> HIDE DEF d
    <3>2. d = <<c, k>>
      BY <1>9, <3>1
    <3>3. d[2] = k
      BY <3>2
    <3> QED
      BY <3>3 DEF d
  <2>3. \A i \in DOMAIN cols : table[id][cols[i]] = k
    BY <1>10, <1>13
  <2> QED
    BY <2>1, <2>3 DEF lookup_key, key_of
<1>15. PICK ids : ids = lookup_eq(index[n], key_of(cols, table[id]))
  OBVIOUS
<1>16. candidates(table, index, p) = ids
  BY <1>2, <1>3, <1>5, <1>14, <1>15 DEF candidates
<1>17. exact(index[n], cols, table)
  BY <1>3 DEF QueryInv, IndexExact
<1>18. \E i \in 1 .. Len(ids) : ids[i] = id
  BY <1>15, <1>17 DEF exact
<1>19. ids \in Seq(1 .. Len(table))
  BY <1>15, <1>17, LookupIs
<1> QED
  BY <1>16, <1>18, <1>19, RangeIs

\* The scan finds every row.
LEMMA ScanIs ==
  ASSUME QueryInv
  PROVE  /\ scan(table) \in Seq(1 .. Len(table)) /\ Rising(scan(table))
         /\ Range(scan(table)) = 1 .. Len(table)
<1>1. Len(table) \in Nat /\ DOMAIN table = 1 .. Len(table)
  BY DEF QueryInv
<1>2. scan(table) = [i \in 1 .. Len(table) |-> i]
  BY <1>1 DEF scan
<1>3. /\ scan(table) \in Seq(1 .. Len(table)) /\ Len(scan(table)) = Len(table)
      /\ \A i \in 1 .. Len(table) : scan(table)[i] = i
  BY <1>1, <1>2
<1>4. Rising(scan(table))
  BY <1>3 DEF Rising
<1>5. Range(scan(table)) = 1 .. Len(table)
  BY <1>3, RangeIs
<1> QED
  BY <1>3, <1>4, <1>5

\* An answer through an index is that of a scan.
LEMMA IndexStep ==
  ASSUME QueryInv
  PROVE  IndexTransparent
<1> SUFFICES ASSUME answered, asked.where # NoWhere, serving(asked.where) # {},
                    \A id \in DOMAIN table :
                      \A c \in eq_conditions(asked.where) :
                        table[id][c[1]].ty \in {c[2].ty, "Null"}
             PROVE  answer = scan_select(asked)
  BY DEF IndexTransparent
<1>1. PICK p : p = asked.where
  OBVIOUS
<1>2. p \in Clauses /\ AQuery(asked)
  BY <1>1, AskedIs DEF AQuery
<1>3. PICK found : found = candidates(table, index, p)
  OBVIOUS
<1>4. found \in Seq(1 .. Len(table)) /\ Rising(found)
  BY <1>3, CandidatesIs
<1>5. PICK m \in Nat : m = Len(table) /\ DOMAIN table = 1 .. m
  BY DEF QueryInv
<1>6. 1 .. m \in SUBSET Nat
  OBVIOUS
<1>7. PICK kept : kept = retain(table, p, found)
  OBVIOUS
<1>8. PICK whole : whole = retain(table, p, scan(table))
  OBVIOUS
<1>9. /\ kept \in Seq(1 .. m) /\ Rising(kept)
      /\ \A x : x \in Range(kept) <=> x \in Range(found) /\ holds(p, table[x])
  BY <1>4, <1>5, <1>6, <1>7, RetainIs
<1>10. scan(table) \in Seq(1 .. m) /\ Rising(scan(table))
       /\ Range(scan(table)) = 1 .. m
  BY <1>5, ScanIs
<1>11. /\ whole \in Seq(1 .. m) /\ Rising(whole)
       /\ \A x : x \in Range(whole) <=> x \in 1 .. m /\ holds(p, table[x])
  BY <1>6, <1>8, <1>10, RetainIs
<1>12. ASSUME NEW x, holds(p, table[x]), x \in 1 .. m
       PROVE  x \in Range(found)
  <2>1. eval_where(p, table[x]) = "yes"
    BY <1>1, <1>12 DEF holds
  <2>2. \A c \in eq_conditions(p) : table[x][c[1]].ty \in {c[2].ty, "Null"}
    BY <1>1, <1>5, <1>12
  <2> QED
    BY <1>1, <1>2, <1>3, <1>5, <1>12, <2>1, <2>2, IndexFinds
<1>13. Range(found) \subseteq 1 .. m
  BY <1>4, <1>5, RangeIs
<1>14. Range(kept) = Range(whole)
  BY <1>9, <1>11, <1>12, <1>13
<1>15. kept = whole
  BY <1>9, <1>11, <1>14, RisingAgree
<1>16. answer = page(AllOf(asked), asked)
  <2>1. answer = select(table, index, asked) /\ ~Panics(asked)
    BY AskedIs, AnswerIs
  <2> QED
    BY <2>1, SelectIs
<1> QED
  BY <1>1, <1>3, <1>7, <1>8, <1>15, <1>16 DEF AllOf, scan_select

\* Through an index a SELECT returns what a scan returns, for any rows, clauses
\* and indexes (executor.rs:786-825, 892-942).
THEOREM IndexAlwaysTransparent == Spec => []IndexTransparent
BY QueryInvariant, IndexStep, PTL

-----------------------------------------------------------------------------
(* LIKE: the recursion on the pattern against the pieces of the text.       *)

\* How a rest of the text may match
Matches == {"yes", "no", "panic"}

\* The first of some places in the rest of a text
LEMMA StopIs ==
  ASSUME NEW t \in Seq(Int), NEW i \in 1 .. Len(t) + 1,
         NEW S \in SUBSET (i .. Len(t)), S # {}
  PROVE  /\ Min(S) \in S /\ Min(S) \in i .. Len(t)
         /\ Min(S) \in 1 .. Len(t) + 1
<1>1. Len(t) \in Nat
  OBVIOUS
<1>2. S \in SUBSET (0 .. Len(t))
  BY <1>1
<1>3. PICK k \in S : k = Min(S)
  BY <1>1, <1>2, MinUpTo
<1>4. k \in i .. Len(t) /\ k \in 1 .. Len(t) + 1
  BY <1>1
<1> QED
  BY <1>3, <1>4

\* What one character of the pattern, with what follows it, matches
Leads(new, t, c, last, rest) ==
  \A i \in 1 .. Len(t) + 1 :
    /\ c = Percent /\ last => new[i] = "yes"
    /\ c = Percent /\ ~last /\ new[i] = "no"
         => \A k \in i .. Len(t) : rest[k] = "no"
    /\ c = Percent /\ ~last /\ new[i] = "yes"
         => \E k \in i .. Len(t) : rest[k] = "yes"
    /\ c # Percent => new[i] = IF i <= Len(t) /\ c \in {t[i], Underscore}
                               THEN rest[i + 1] ELSE "no"

\* matched gives one of the outcomes for each rest of the text.
LEMMA MatchedIs ==
  ASSUME NEW t \in Seq(Int), NEW c, NEW last \in BOOLEAN,
         NEW rest \in [1 .. Len(t) + 1 -> Matches]
  PROVE  /\ matched(t, c, last, rest) \in [1 .. Len(t) + 1 -> Matches]
         /\ Leads(matched(t, c, last, rest), t, c, last, rest)
<1> DEFINE stops(i) == {k \in tries(t, i) : t[k] = Follow \/ rest[k] # "no"}
           new == matched(t, c, last, rest)
           m == Len(t) + 1
           Value_(i) ==
             CASE c = Percent /\ last -> "yes"
               [] c = Percent /\ ~last ->
                    IF stops(i) = {} THEN "no"
                    ELSE IF t[Min(stops(i))] = Follow THEN "panic"
                    ELSE rest[Min(stops(i))]
               [] OTHER -> IF i <= Len(t) /\ c \in {t[i], Underscore}
                           THEN rest[i + 1] ELSE "no"
<1>1. Len(t) \in Nat
  OBVIOUS
<1>2. new = [i \in 1 .. m |-> Value_(i)]
  BY DEF matched
<1>3. ASSUME NEW i \in 1 .. m
      PROVE  /\ stops(i) \in SUBSET (i .. Len(t))
             /\ stops(i) # {} => /\ Min(stops(i)) \in stops(i)
                                 /\ Min(stops(i)) \in i .. Len(t)
                                 /\ Min(stops(i)) \in 1 .. m
  <2>1. stops(i) \in SUBSET (i .. Len(t))
    BY DEF tries
  <2> HIDE DEF stops
  <2> QED
    BY <2>1, StopIs
<1>4. ASSUME NEW i \in 1 .. m, c = Percent, last
      PROVE  Value_(i) = "yes"
  BY <1>4
<1>5. ASSUME NEW i \in 1 .. m, c = Percent, ~last
      PROVE  Value_(i) = IF stops(i) = {} THEN "no"
                         ELSE IF t[Min(stops(i))] = Follow THEN "panic"
                         ELSE rest[Min(stops(i))]
  <2> HIDE DEF stops
  <2> QED
    BY <1>5
<1>6. ASSUME NEW i \in 1 .. m, c # Percent
      PROVE  Value_(i) = IF i <= Len(t) /\ c \in {t[i], Underscore}
                         THEN rest[i + 1] ELSE "no"
  BY <1>6
<1>7. \A i \in 1 .. m : i <= Len(t) => i + 1 \in 1 .. m
  BY <1>1
<1>8. ASSUME NEW i \in 1 .. m
      PROVE  Value_(i) \in Matches
  <2>1. CASE c = Percent /\ last
    BY <1>4, <2>1 DEF Matches
  <2>2. CASE c = Percent /\ ~last
    <3> HIDE DEF stops, Value_
    <3>1. CASE stops(i) = {}
      BY <1>5, <2>2, <3>1 DEF Matches
    <3>2. CASE stops(i) # {}
      <4>1. rest[Min(stops(i))] \in Matches
        BY <1>3, <3>2
      <4> QED
        BY <1>5, <2>2, <3>2, <4>1 DEF Matches
    <3> QED
      BY <3>1, <3>2
  <2>3. CASE c # Percent
    <3> HIDE DEF Value_
    <3>1. i <= Len(t) => rest[i + 1] \in Matches
      BY <1>7
    <3> QED
      BY <1>6, <2>3, <3>1 DEF Matches
  <2> QED
    BY <2>1, <2>2, <2>3
<1>9. ASSUME NEW i \in 1 .. m, c = Percent, ~last, Value_(i) = "no"
      PROVE  \A k \in i .. Len(t) : rest[k] = "no"
  <2> HIDE DEF Value_
  <2>1. stops(i) = {}
    <3> SUFFICES ASSUME stops(i) # {} PROVE FALSE
      OBVIOUS
    <3>1. PICK k : k = Min(stops(i))
      OBVIOUS
    <3>2. t[k] # Follow /\ rest[k] = "no"
      <4> HIDE DEF stops
      <4> QED
        BY <1>5, <1>9, <3>1
    <3>3. k \in stops(i)
      <4> HIDE DEF stops
      <4> QED
        BY <1>3, <3>1
    <3> QED
      BY <3>2, <3>3
  <2> QED
    BY <2>1 DEF tries
<1>10. ASSUME NEW i \in 1 .. m, c = Percent, ~last, Value_(i) = "yes"
       PROVE  \E k \in i .. Len(t) : rest[k] = "yes"
  <2> HIDE DEF Value_, stops
  <2> QED
    BY <1>3, <1>5, <1>10
<1>11. new \in [1 .. m -> Matches] /\ \A i \in 1 .. m : new[i] = Value_(i)
  <2> HIDE DEF Value_, new, m
  <2> QED
    BY <1>2, <1>8
<1> HIDE DEF Value_, new
<1>12. /\ new \in [1 .. Len(t) + 1 -> Matches]
       /\ \A i \in 1 .. Len(t) + 1 :
            /\ c = Percent /\ last => new[i] = "yes"
            /\ c = Percent /\ ~last /\ new[i] = "no"
                 => \A k \in i .. Len(t) : rest[k] = "no"
            /\ c = Percent /\ ~last /\ new[i] = "yes"
                 => \E k \in i .. Len(t) : rest[k] = "yes"
            /\ c # Percent => new[i] = IF i <= Len(t) /\ c \in {t[i], Underscore}
                                       THEN rest[i + 1] ELSE "no"
  BY <1>4, <1>6, <1>9, <1>10, <1>11
<1> QED
  BY <1>12 DEF new, Leads

\* f[n] says how the rests of the text match the last n characters.
MatchRows(f, t, p) ==
  /\ f[0] = [i \in 1 .. Len(t) + 1 |-> boolean(i > Len(t))]
  /\ \A n \in 1 .. Len(p) :
       f[n] = matched(t, p[Len(p) + 1 - n], n = 1, f[n - 1])

\* like_match_impl takes the characters of the pattern from the last one.
LEMMA LikeRows ==
  ASSUME NEW t \in Seq(Int), NEW p \in Seq(Int)
  PROVE  \E f : /\ MatchRows(f, t, p)
                /\ like_match_impl(t, p) = f[Len(p)][1]
<1> DEFINE D == [1 .. Len(t) + 1 -> Matches]
           base == [i \in 1 .. Len(t) + 1 |-> boolean(i > Len(t))]
           Step(n, r) == matched(t, p[Len(p) + 1 - n], n = 1, r)
           step == [n \in 1 .. Len(p) |-> [r \in D |-> Step(n, r)]]
           rest[n \in 0 .. Len(p)] ==
             IF n = 0 THEN [i \in 1 .. Len(t) + 1 |-> boolean(i > Len(t))]
             ELSE matched(t, p[Len(p) + 1 - n], n = 1, rest[n - 1])
           Rows_(f) == f = [n \in 0 .. Len(p) |->
                              IF n = 0 THEN base ELSE Step(n, f[n - 1])]
<1>1. Len(p) \in Nat /\ base \in D
  BY DEF boolean, Matches
<1>2. step \in [1 .. Len(p) -> [D -> D]]
  <2>1. ASSUME NEW n \in 1 .. Len(p), NEW r \in D
        PROVE  Step(n, r) \in D
    <3>1. PICK last \in BOOLEAN : last = (n = 1)
      OBVIOUS
    <3>2. \A c : matched(t, c, last, r) \in D
      BY MatchedIs
    <3> QED
      BY <3>1, <3>2
  <2> HIDE DEF Step, D
  <2> QED
    BY <2>1
<1>3. PICK f \in [0 .. Len(p) -> D] : Recursion(f, Len(p), base, step)
  <2> HIDE DEF step, D, base
  <2> QED
    BY <1>1, <1>2, RecursionExists
<1>4. \A n \in 0 .. Len(p) :
        f[n] = IF n = 0 THEN base ELSE Step(n, f[n - 1])
  <2>1. \A n \in 1 .. Len(p) : f[n - 1] \in D
    <3>1. \A n \in 1 .. Len(p) : n - 1 \in 0 .. Len(p)
      BY <1>1
    <3> HIDE DEF D
    <3> QED
      BY <3>1
  <2>2. \A n \in 1 .. Len(p) : step[n][f[n - 1]] = Step(n, f[n - 1])
    <3> HIDE DEF Step, D
    <3> QED
      BY <2>1
  <2>3. \A n \in 0 .. Len(p) : n = 0 \/ n \in 1 .. Len(p)
    BY <1>1
  <2> HIDE DEF Step, step, D, base
  <2> QED
    BY <1>3, <2>2, <2>3 DEF Recursion
<1>5. Rows_(f)
  <2>1. f = [n \in 0 .. Len(p) |-> f[n]]
    OBVIOUS
  <2> HIDE DEF D, Step, base
  <2> QED
    BY <1>4, <2>1
<1>6. Rows_(rest)
  <2> HIDE DEF D, step
  <2> QED
    BY <1>5
<1>7. like_match_impl(t, p) = rest[Len(p)][1]
  BY DEF like_match_impl
<1> HIDE DEF rest
<1>7a. \A n \in 0 .. Len(p) :
         rest[n] = IF n = 0 THEN base ELSE Step(n, rest[n - 1])
  <2> HIDE DEF Step, base
  <2> QED
    BY <1>6
<1>8. /\ rest[0] = base
      /\ \A n \in 1 .. Len(p) : rest[n] = Step(n, rest[n - 1])
  <2>1. \A n \in 1 .. Len(p) : n \in 0 .. Len(p) /\ n # 0
    BY <1>1
  <2> HIDE DEF Step, base
  <2> QED
    BY <1>1, <1>7a, <2>1
<1>9. MatchRows(rest, t, p)
  BY <1>8 DEF MatchRows
<1> QED
  BY <1>7, <1>9

\* The k-th character of the pattern matches the piece between its cuts.
Piece(t, p, cut, k) ==
  IF p[k] = Percent THEN cut[k] <= cut[k + 1]
  ELSE cut[k + 1] = cut[k] + 1 /\ p[k] \in {Underscore, t[cut[k]]}

Cuts(t, p, i, j) ==
  {cut \in [1 .. Len(p) + 1 -> 1 .. Len(t) + 1] :
     /\ cut[j] = i
     /\ cut[Len(p) + 1] = Len(t) + 1
     /\ \A k \in j .. Len(p) : Piece(t, p, cut, k)}

\* The pattern from its j-th character on matches the text from byte i on.
Ref(t, p, i, j) == Cuts(t, p, i, j) # {}

\* An empty pattern matches the empty rest.
LEMMA RefEnd ==
  ASSUME NEW t \in Seq(Int), NEW p \in Seq(Int), NEW i \in 1 .. Len(t) + 1
  PROVE  Ref(t, p, i, Len(p) + 1) <=> i = Len(t) + 1
<1>1. Len(t) \in Nat /\ Len(p) \in Nat
  OBVIOUS
<1>2. ASSUME i = Len(t) + 1
      PROVE  Ref(t, p, i, Len(p) + 1)
  <2> DEFINE cut == [k \in 1 .. Len(p) + 1 |-> Len(t) + 1]
  <2>1. /\ cut \in [1 .. Len(p) + 1 -> 1 .. Len(t) + 1]
        /\ cut[Len(p) + 1] = Len(t) + 1
    BY <1>1
  <2>2. Len(p) + 1 .. Len(p) = {}
    BY <1>1
  <2> HIDE DEF cut
  <2>3. cut \in Cuts(t, p, i, Len(p) + 1)
    BY <1>2, <2>1, <2>2 DEF Cuts
  <2> QED
    BY <2>3 DEF Ref
<1>3. ASSUME Ref(t, p, i, Len(p) + 1)
      PROVE  i = Len(t) + 1
  BY <1>3 DEF Ref, Cuts
<1> QED
  BY <1>2, <1>3

\* One character more, in front: what it takes
LEMMA RefStep ==
  ASSUME NEW t \in Seq(Int), NEW p \in Seq(Int), NEW i \in 1 .. Len(t) + 1,
         NEW j \in 1 .. Len(p)
  PROVE  Ref(t, p, i, j) <=>
           \E k \in 1 .. Len(t) + 1 :
             /\ Ref(t, p, k, j + 1)
             /\ IF p[j] = Percent THEN i <= k
                ELSE k = i + 1 /\ p[j] \in {Underscore, t[i]}
<1>1. Len(t) \in Nat /\ Len(p) \in Nat
  OBVIOUS
<1>2. /\ j \in 1 .. Len(p) + 1 /\ j + 1 \in 1 .. Len(p) + 1 /\ j # j + 1
      /\ j # Len(p) + 1
      /\ \A k \in j + 1 .. Len(p) : /\ k \in j .. Len(p) /\ k # j /\ k + 1 # j
                                    /\ k \in 1 .. Len(p) + 1
                                    /\ k + 1 \in 1 .. Len(p) + 1
      /\ \A k \in j .. Len(p) : k = j \/ k \in j + 1 .. Len(p)
      /\ j \in j .. Len(p)
  BY <1>1
<1>3. ASSUME Ref(t, p, i, j)
      PROVE  \E k \in 1 .. Len(t) + 1 :
               /\ Ref(t, p, k, j + 1)
               /\ IF p[j] = Percent THEN i <= k
                  ELSE k = i + 1 /\ p[j] \in {Underscore, t[i]}
  <2>1. PICK cut : cut \in Cuts(t, p, i, j)
    BY <1>3 DEF Ref
  <2>2. /\ cut \in [1 .. Len(p) + 1 -> 1 .. Len(t) + 1]
        /\ cut[j] = i /\ cut[Len(p) + 1] = Len(t) + 1
        /\ \A k \in j .. Len(p) : Piece(t, p, cut, k)
    BY <2>1 DEF Cuts
  <2>3. cut[j + 1] \in 1 .. Len(t) + 1
    BY <1>2, <2>2
  <2>4. cut \in Cuts(t, p, cut[j + 1], j + 1)
    BY <1>2, <2>2 DEF Cuts
  <2>5. Piece(t, p, cut, j)
    BY <1>2, <2>2
  <2> QED
    BY <2>2, <2>3, <2>4, <2>5 DEF Piece, Ref
<1>4. ASSUME NEW k \in 1 .. Len(t) + 1, Ref(t, p, k, j + 1),
             IF p[j] = Percent THEN i <= k
             ELSE k = i + 1 /\ p[j] \in {Underscore, t[i]}
      PROVE  Ref(t, p, i, j)
  <2>1. PICK cut : cut \in Cuts(t, p, k, j + 1)
    BY <1>4 DEF Ref
  <2>2. /\ cut \in [1 .. Len(p) + 1 -> 1 .. Len(t) + 1]
        /\ cut[j + 1] = k /\ cut[Len(p) + 1] = Len(t) + 1
        /\ \A m \in j + 1 .. Len(p) : Piece(t, p, cut, m)
    BY <2>1 DEF Cuts
  <2> DEFINE new == [cut EXCEPT ![j] = i]
  <2>3. /\ new \in [1 .. Len(p) + 1 -> 1 .. Len(t) + 1]
        /\ new[j] = i
        /\ \A m \in 1 .. Len(p) + 1 : m # j => new[m] = cut[m]
    BY <1>2, <2>2
  <2> HIDE DEF new
  <2>4. new[Len(p) + 1] = Len(t) + 1
    <3>1. Len(p) + 1 \in 1 .. Len(p) + 1
      BY <1>1
    <3> QED
      BY <1>2, <2>2, <2>3, <3>1
  <2>5. new[j + 1] = k
    BY <1>2, <2>2, <2>3
  <2>6. Piece(t, p, new, j)
    BY <1>4, <2>3, <2>5 DEF Piece
  <2>7. ASSUME NEW m \in j + 1 .. Len(p)
        PROVE  Piece(t, p, new, m)
    <3>1. new[m] = cut[m] /\ new[m + 1] = cut[m + 1]
      BY <1>2, <2>3
    <3>2. Piece(t, p, cut, m)
      BY <2>2
    <3> QED
      BY <3>1, <3>2 DEF Piece
  <2>8. \A m \in j .. Len(p) : Piece(t, p, new, m)
    BY <1>2, <2>6, <2>7
  <2>9. new \in Cuts(t, p, i, j)
    BY <2>3, <2>4, <2>8 DEF Cuts
  <2> QED
    BY <2>9 DEF Ref
<1> QED
  BY <1>3, <1>4

\* The declarative LIKE, in these terms
LEMMA ReferenceIs ==
  ASSUME NEW t \in Seq(Int), NEW p \in Seq(Int)
  PROVE  like_reference(t, p) <=> Ref(t, p, 1, 1)
<1>1. DOMAIN p = 1 .. Len(p)
  OBVIOUS
<1> QED
  BY <1>1 DEF like_reference, Ref, Cuts, Piece

\* A row of the recursion says what the reference says, but where it panics.
SaysRef(r, t, p, j) ==
  \A i \in 1 .. Len(t) + 1 :
    /\ r[i] = "yes" => Ref(t, p, i, j)
    /\ r[i] = "no" => ~Ref(t, p, i, j)

\* The empty pattern, in the recursion
LEMMA LastRow ==
  ASSUME NEW t \in Seq(Int), NEW p \in Seq(Int)
  PROVE  SaysRef([i \in 1 .. Len(t) + 1 |-> boolean(i > Len(t))], t, p,
                 Len(p) + 1)
<1>1. Len(t) \in Nat
  OBVIOUS
<1>2. ASSUME NEW i \in 1 .. Len(t) + 1
      PROVE  /\ boolean(i > Len(t)) = "yes" => i = Len(t) + 1
             /\ boolean(i > Len(t)) = "no" => i # Len(t) + 1
  BY <1>1 DEF boolean
<1> QED
  BY <1>2, RefEnd DEF SaysRef

NoTwins(p) == \A j \in 1 .. Len(p) - 1 : {p[j], p[j + 1]} # {Percent}

\* One character more: the recursion goes on saying what the reference says.
LEMMA RowStep ==
  ASSUME NEW t \in Seq(Int), NEW p \in Seq(Int), NoTwins(p),
         NEW j \in 1 .. Len(p), NEW r \in [1 .. Len(t) + 1 -> Matches],
         SaysRef(r, t, p, j + 1),
         NEW last \in BOOLEAN, last <=> j = Len(p)
  PROVE  SaysRef(matched(t, p[j], last, r), t, p, j)
<1>1. Len(t) \in Nat /\ Len(p) \in Nat
  OBVIOUS
<1>2. PICK new : new = matched(t, p[j], last, r)
  OBVIOUS
<1> SUFFICES ASSUME NEW i \in 1 .. Len(t) + 1
             PROVE  /\ new[i] = "yes" => Ref(t, p, i, j)
                    /\ new[i] = "no" => ~Ref(t, p, i, j)
  BY <1>2 DEF SaysRef
<1>3. /\ p[j] = Percent /\ last => new[i] = "yes"
      /\ p[j] = Percent /\ ~last /\ new[i] = "no"
           => \A k \in i .. Len(t) : r[k] = "no"
      /\ p[j] = Percent /\ ~last /\ new[i] = "yes"
           => \E k \in i .. Len(t) : r[k] = "yes"
      /\ p[j] # Percent => new[i] = IF i <= Len(t) /\ p[j] \in {t[i], Underscore}
                                    THEN r[i + 1] ELSE "no"
  <2>1. PICK c : c = p[j]
    OBVIOUS
  <2>2. Leads(matched(t, c, last, r), t, c, last, r)
    BY MatchedIs
  <2>3. new = matched(t, c, last, r)
    BY <1>2, <2>1
  <2>4. Leads(new, t, c, last, r)
    BY <2>2, <2>3
  <2> QED
    BY <2>1, <2>4 DEF Leads
<1>4. CASE p[j] = Percent /\ last
  <2>1. Ref(t, p, Len(t) + 1, Len(p) + 1)
    <3>1. Len(t) + 1 \in 1 .. Len(t) + 1
      BY <1>1
    <3> QED
      BY <3>1, RefEnd
  <2>2. i <= Len(t) + 1 /\ Len(t) + 1 \in 1 .. Len(t) + 1
    BY <1>1
  <2>3. Ref(t, p, i, j)
    BY <1>4, <2>1, <2>2, RefStep
  <2> QED
    BY <1>3, <1>4, <2>3
<1>5. CASE p[j] = Percent /\ ~last
  <2>1. \A k \in i .. Len(t) : k \in 1 .. Len(t) + 1 /\ i <= k
    BY <1>1
  <2>2. ASSUME new[i] = "yes" PROVE Ref(t, p, i, j)
    <3>1. PICK k \in i .. Len(t) : r[k] = "yes"
      BY <1>3, <1>5, <2>2
    <3>2. Ref(t, p, k, j + 1)
      BY <2>1, <3>1 DEF SaysRef
    <3> QED
      BY <1>5, <2>1, <3>2, RefStep
  <2>3. ASSUME new[i] = "no", Ref(t, p, i, j) PROVE FALSE
    <3>1. PICK k \in 1 .. Len(t) + 1 : Ref(t, p, k, j + 1) /\ i <= k
      BY <1>5, <2>3, RefStep
    <3>2. CASE k <= Len(t)
      <4>1. k \in i .. Len(t)
        BY <1>1, <3>1, <3>2
      <4>2. r[k] = "no"
        BY <1>3, <1>5, <2>3, <4>1
      <4> QED
        BY <3>1, <4>2 DEF SaysRef
    <3>3. CASE k = Len(t) + 1
      <4>1. j + 1 \in 1 .. Len(p) /\ j \in 1 .. Len(p) - 1
        BY <1>1, <1>5
      <4>2. p[j + 1] # Percent
        BY <1>5, <4>1 DEF NoTwins
      <4>3. \E m \in 1 .. Len(t) + 1 : m = k + 1
        BY <3>1, <4>1, <4>2, RefStep
      <4> QED
        BY <1>1, <3>3, <4>3
    <3>4. k <= Len(t) \/ k = Len(t) + 1
      <4>1. \A m \in Nat : \A q \in 1 .. m + 1 : q <= m \/ q = m + 1
        OBVIOUS
      <4> QED
        BY <1>1, <4>1
    <3> QED
      BY <3>2, <3>3, <3>4
  <2> QED
    BY <2>2, <2>3
<1>6. CASE p[j] # Percent
  <2>1. i <= Len(t) <=> i + 1 \in 1 .. Len(t) + 1
    BY <1>1
  <2>2. Ref(t, p, i, j) <=> /\ i <= Len(t) /\ Ref(t, p, i + 1, j + 1)
                            /\ p[j] \in {Underscore, t[i]}
    BY <1>6, <2>1, RefStep
  <2>3. CASE i <= Len(t) /\ p[j] \in {t[i], Underscore}
    <3>1. new[i] = r[i + 1]
      BY <1>3, <1>6, <2>3
    <3>2. /\ r[i + 1] = "yes" => Ref(t, p, i + 1, j + 1)
          /\ r[i + 1] = "no" => ~Ref(t, p, i + 1, j + 1)
      BY <2>1, <2>3 DEF SaysRef
    <3> QED
      BY <2>2, <2>3, <3>1, <3>2
  <2>4. CASE ~(i <= Len(t) /\ p[j] \in {t[i], Underscore})
    <3>1. new[i] = "no"
      BY <1>3, <1>6, <2>4
    <3> QED
      BY <2>2, <2>4, <3>1
  <2> QED
    BY <2>3, <2>4
<1> QED
  BY <1>4, <1>5, <1>6

\* LIKE finds a match where there is one, for any text and any pattern without
\* two "%" in a row, unless it panics.
LEMMA LikeIs ==
  ASSUME NEW t \in Seq(Int), NEW p \in Seq(Int), NoTwins(p)
  PROVE  /\ like_match_impl(t, p) \in Matches
         /\ like_match_impl(t, p) = "yes" => like_reference(t, p)
         /\ like_match_impl(t, p) = "no" => ~like_reference(t, p)
<1>1. Len(t) \in Nat /\ Len(p) \in Nat
  OBVIOUS
<1>2. PICK f : MatchRows(f, t, p) /\ like_match_impl(t, p) = f[Len(p)][1]
  BY LikeRows
<1> DEFINE D == [1 .. Len(t) + 1 -> Matches]
           Good(n) == f[n] \in D /\ SaysRef(f[n], t, p, Len(p) + 1 - n)
           S == {n \in 0 .. Len(p) : Good(n)}
<1>3. 0 \in S
  <2>1. f[0] = [i \in 1 .. Len(t) + 1 |-> boolean(i > Len(t))]
    BY <1>2 DEF MatchRows
  <2>2. f[0] \in D
    BY <2>1 DEF boolean, Matches
  <2>3. SaysRef(f[0], t, p, Len(p) + 1)
    BY <2>1, LastRow
  <2>4. Len(p) + 1 - 0 = Len(p) + 1 /\ 0 \in 0 .. Len(p)
    BY <1>1
  <2> HIDE DEF D
  <2> QED
    BY <2>2, <2>3, <2>4
<1>4. ASSUME NEW n \in 1 .. Len(p), n - 1 \in S
      PROVE  n \in S
  <2>1. PICK j \in 1 .. Len(p) : j = Len(p) + 1 - n
    <3>1. \A m \in Nat : \A q \in 1 .. m : m + 1 - q \in 1 .. m
      OBVIOUS
    <3> QED
      BY <1>1, <3>1
  <2>2. j + 1 = Len(p) + 1 - (n - 1) /\ n \in 0 .. Len(p)
    BY <1>1, <2>1
  <2>3. PICK r \in D : r = f[n - 1] /\ SaysRef(r, t, p, j + 1)
    BY <1>4, <2>2
  <2>4. PICK last \in BOOLEAN : last <=> n = 1
    OBVIOUS
  <2>5. last <=> j = Len(p)
    BY <1>1, <2>1, <2>4
  <2>6. f[n] = matched(t, p[j], last, r)
    <3>1. f[n] = matched(t, p[Len(p) + 1 - n], n = 1, f[n - 1])
      BY <1>2 DEF MatchRows
    <3>2. last = (n = 1)
      BY <2>4
    <3> QED
      BY <2>1, <2>3, <3>1, <3>2
  <2>7. SaysRef(matched(t, p[j], last, r), t, p, j)
    BY <2>3, <2>5, RowStep
  <2>8. matched(t, p[j], last, r) \in D
    BY MatchedIs
  <2> HIDE DEF D
  <2> QED
    BY <2>1, <2>2, <2>6, <2>7, <2>8
<1>5. Len(p) \in S
  <2> HIDE DEF S
  <2>1. \A n \in 0 .. Len(p) : n \in S
    BY <1>1, <1>3, <1>4, InductionUpTo
  <2> QED
    BY <1>1, <2>1
<1>6. 1 \in 1 .. Len(t) + 1 /\ Len(p) + 1 - Len(p) = 1
  BY <1>1
<1>7. f[Len(p)] \in D /\ SaysRef(f[Len(p)], t, p, 1)
  <2> HIDE DEF D
  <2> QED
    BY <1>5, <1>6
<1>8. /\ f[Len(p)][1] \in Matches
      /\ f[Len(p)][1] = "yes" => Ref(t, p, 1, 1)
      /\ f[Len(p)][1] = "no" => ~Ref(t, p, 1, 1)
  BY <1>6, <1>7 DEF SaysRef
<1> QED
  BY <1>2, <1>8, ReferenceIs

-----------------------------------------------------------------------------
(* The code's truth against SQL's.                                          *)

\* Two values that are each a number or NULL, or each a text or NULL
Kin(a, b) ==
  /\ a \in Value /\ b \in Value
  /\ \/ \A x \in {a, b} : x = Null \/ Number(x)
     \/ \A x \in {a, b} : x = Null \/ AText(x)

\* Of two such values that are not NULL, the code and SQL find the same smaller.
LEMMA OrderIs ==
  ASSUME NEW a, NEW b, Kin(a, b), a # Null, b # Null
  PROVE  /\ a.ty # "Null" /\ b.ty # "Null"
         /\ comparable(a, b) /\ comparable(b, a)
         /\ less(a, b) <=> smaller(a, b)
         /\ less(b, a) <=> smaller(b, a)
         /\ values_equal(a, b) <=> ~smaller(a, b) /\ ~smaller(b, a)
<1>1. a.ty # "Null" /\ b.ty # "Null"
  BY ValueIs DEF Kin
<1>2. CASE Number(a) /\ Number(b)
  BY <1>1, <1>2, NumberOrder
<1>3. CASE AText(a) /\ AText(b)
  BY <1>1, <1>3, TextOrder
<1> QED
  BY <1>2, <1>3 DEF Kin

\* A NULL is neither equal nor less nor comparable.
LEMMA NullIs ==
  ASSUME NEW a, NEW b, Null \in {a, b}
  PROVE  ~values_equal(a, b) /\ ~comparable(a, b) /\ ~less(a, b) /\ ~less(b, a)
BY DEF values_equal, comparable, less, Null

\* A comparison is true where SQL calls it so, but for "!=" with NULL.
LEMMA CompareIs ==
  ASSUME NEW a, NEW b, Kin(a, b), NEW op \in Ops
  PROVE  /\ compare3(op, a, b) \in {"T", "F", "U"}
         /\ compare3(op, a, b) = "U" <=> Null \in {a, b}
         /\ op # "!=" \/ Null \notin {a, b}
              => (compare(op, a, b) <=> compare3(op, a, b) = "T")
<1>1. CASE Null \in {a, b}
  <2>1. compare3(op, a, b) = "U"
    BY <1>1 DEF compare3
  <2>2. op # "!=" => ~compare(op, a, b)
    <3>1. /\ ~values_equal(a, b) /\ ~less(a, b) /\ ~less(b, a)
          /\ ~not_less(a, b) /\ ~not_less(b, a)
      BY <1>1, NullIs DEF not_less
    <3>2. op \in {"=", "<", ">", "<=", ">="} => ~compare(op, a, b)
      BY <3>1 DEF compare
    <3> QED
      BY <3>2 DEF Ops
  <2> QED
    BY <1>1, <2>1, <2>2
<1>2. CASE Null \notin {a, b}
  <2>1. /\ comparable(a, b) /\ comparable(b, a)
        /\ less(a, b) <=> smaller(a, b)
        /\ less(b, a) <=> smaller(b, a)
        /\ values_equal(a, b) <=> ~smaller(a, b) /\ ~smaller(b, a)
    BY <1>2, OrderIs
  <2>2. CASE op = "="
    BY <1>2, <2>1, <2>2 DEF compare, compare3, of
  <2>3. CASE op = "!="
    BY <1>2, <2>1, <2>3 DEF compare, compare3, of
  <2>4. CASE op = "<"
    BY <1>2, <2>1, <2>4 DEF compare, compare3, of
  <2>5. CASE op = ">"
    BY <1>2, <2>1, <2>5 DEF compare, compare3, of
  <2>6. CASE op = "<="
    BY <1>2, <2>1, <2>6 DEF compare, compare3, of, not_less
  <2>7. CASE op = ">="
    BY <1>2, <2>1, <2>7 DEF compare, compare3, of, not_less
  <2> QED
    BY <2>2, <2>3, <2>4, <2>5, <2>6, <2>7 DEF Ops
<1> QED
  BY <1>1, <1>2

\* An error is no value.
LEMMA ErrIs == Err \notin Value /\ Err.ty = "Err" /\ Null # Err
BY ValueIs DEF Err, Types, Null

\* The operands of a clause whose values are of one family: values, any two of
\* which can be compared.
LEMMA OperandsAre ==
  ASSUME NEW p \in Clauses, plain(p), NEW row \in [Columns -> Value],
         of_one_type(p, row)
  PROVE  /\ \A e \in operands(p) : /\ eval_expr(e, row) \in Value
                                   /\ eval_expr(e, row) # Err
         /\ \A e, f \in operands(p) : Kin(eval_expr(e, row), eval_expr(f, row))
<1> DEFINE kinds == {val(e, row).ty : e \in operands(p)} \ {"Null"}
<1>1. one_family(kinds)
  BY DEF of_one_type
<1>2. operands(p) \subseteq Operands
  <2>1. PartsIn(p, Operands) /\ p.ex \in {"cmp", "like", "isnull", "between",
                                         "in", "none"}
    BY ClauseIs DEF plain
  <2> QED
    BY <2>1 DEF operands, PartsIn
<1>3. ASSUME NEW e \in operands(p)
      PROVE  eval_expr(e, row) \in Value \cup {Err}
  <2>1. e.ex = "lit" => e.val \in Value
    BY <1>2, OperandIs
  <2>2. Null \in Value
    BY DEF Value
  <2> QED
    BY <2>1, <2>2 DEF eval_expr
<1>4. "Err" \notin kinds
  BY <1>1 DEF one_family, Types
<1>5. ASSUME NEW e \in operands(p)
      PROVE  eval_expr(e, row) \in Value /\ eval_expr(e, row) # Err
  <2>1. eval_expr(e, row).ty # "Err"
    BY <1>4 DEF val
  <2> QED
    BY <1>3, <2>1, ErrIs
<1>6. kinds \subseteq {"Text"} \/ kinds \subseteq {"Int", "Double"}
  <2>1. "Null" \notin kinds
    OBVIOUS
  <2> HIDE DEF kinds
  <2> QED
    BY <1>1, <2>1, OneFamilyIs
<1>7. ASSUME NEW e \in operands(p)
      PROVE  \/ eval_expr(e, row) = Null
             \/ eval_expr(e, row).ty \in kinds
  BY <1>5, ValueIs DEF val
<1> HIDE DEF kinds
<1>8. CASE kinds \subseteq {"Text"}
  BY <1>5, <1>7, <1>8 DEF Kin, AText
<1>9. CASE kinds \subseteq {"Int", "Double"}
  BY <1>5, <1>7, <1>9 DEF Kin, Number
<1> QED
  BY <1>5, <1>6, <1>8, <1>9

\* A negation turns "yes" and "no" as not3 turns "T" and "F".
LEMMA NegateIs ==
  ASSUME NEW p, p.neg \in BOOLEAN, NEW res, NEW x, res \in {"yes", "no"},
         x \in {"T", "F", "U"}, res = "yes" <=> x = "T",
         p.neg => polar(p, x) # "U"
  PROVE  negate(p.neg, res) = "yes" <=> polar(p, x) = "T"
BY DEF negate, polar, not3, boolean

\* Comparisons
LEMMA EvalCmp ==
  ASSUME NEW p \in Clauses, p.ex = "cmp", NEW row \in [Columns -> Value],
         usual(p, row)
  PROVE  /\ eval_where(p, row) \in {"yes", "no"}
         /\ eval_where(p, row) = "yes" <=> plain_truth(p, row) = "T"
<1>1. p.op \in Ops /\ p.l \in operands(p) /\ p.r \in operands(p)
  BY ClauseIs DEF PartsIn, operands
<1>2. PICK a : a = eval_expr(p.l, row)
  OBVIOUS
<1>3. PICK b : b = eval_expr(p.r, row)
  OBVIOUS
<1>4. a # Err /\ b # Err /\ Kin(a, b)
  BY <1>1, <1>2, <1>3, OperandsAre DEF usual, plain
<1>5. eval_where(p, row) = boolean(compare(p.op, a, b))
  BY <1>2, <1>3, <1>4 DEF eval_where
<1>6. plain_truth(p, row) = compare3(p.op, a, b)
  BY <1>2, <1>3 DEF plain_truth, val
<1>7. p.op = "!=" => compare3(p.op, a, b) # "U"
  BY <1>6 DEF usual, negative
<1>8. compare(p.op, a, b) <=> compare3(p.op, a, b) = "T"
  BY <1>1, <1>4, <1>7, CompareIs
<1> QED
  BY <1>5, <1>6, <1>8 DEF boolean

\* IS NULL and IS NOT NULL
LEMMA EvalIsNull ==
  ASSUME NEW p \in Clauses, p.ex = "isnull", NEW row \in [Columns -> Value],
         usual(p, row)
  PROVE  /\ eval_where(p, row) \in {"yes", "no"}
         /\ eval_where(p, row) = "yes" <=> plain_truth(p, row) = "T"
<1>1. p.e \in operands(p) /\ p.neg \in BOOLEAN
  BY ClauseIs DEF PartsIn, operands
<1>2. PICK a : a = eval_expr(p.e, row)
  OBVIOUS
<1>3. a # Err
  BY <1>1, <1>2, OperandsAre DEF usual, plain
<1>4. eval_where(p, row) = negate(p.neg, boolean(a = Null))
  BY <1>2, <1>3 DEF eval_where
<1>5. plain_truth(p, row) = polar(p, of(a = Null))
  BY <1>2 DEF plain_truth, val
<1> QED
  BY <1>1, <1>4, <1>5 DEF negate, boolean, polar, of, not3

\* BETWEEN and NOT BETWEEN
LEMMA EvalBetween ==
  ASSUME NEW p \in Clauses, p.ex = "between", NEW row \in [Columns -> Value],
         usual(p, row)
  PROVE  /\ eval_where(p, row) \in {"yes", "no"}
         /\ eval_where(p, row) = "yes" <=> plain_truth(p, row) = "T"
<1>1. /\ p.e \in operands(p) /\ p.lo \in operands(p) /\ p.hi \in operands(p)
      /\ p.neg \in BOOLEAN
  BY ClauseIs DEF PartsIn, operands
<1>2. PICK a : a = eval_expr(p.e, row)
  OBVIOUS
<1>3. PICK lo : lo = eval_expr(p.lo, row)
  OBVIOUS
<1>4. PICK hi : hi = eval_expr(p.hi, row)
  OBVIOUS
<1>5. a # Err /\ lo # Err /\ hi # Err /\ Kin(a, lo) /\ Kin(a, hi)
  BY <1>1, <1>2, <1>3, <1>4, OperandsAre DEF usual, plain
<1>6. PICK res : res = boolean(not_less(a, lo) /\ not_less(hi, a))
  OBVIOUS
<1>7. eval_where(p, row) = negate(p.neg, res)
  BY <1>2, <1>3, <1>4, <1>5, <1>6 DEF eval_where
<1>8. PICK x : x = and3(compare3(">=", a, lo), compare3("<=", a, hi))
  OBVIOUS
<1>9. plain_truth(p, row) = polar(p, x)
  BY <1>2, <1>3, <1>4, <1>8 DEF plain_truth, val
<1>10. /\ compare3(">=", a, lo) \in {"T", "F", "U"}
       /\ compare(">=", a, lo) <=> compare3(">=", a, lo) = "T"
       /\ compare3("<=", a, hi) \in {"T", "F", "U"}
       /\ compare("<=", a, hi) <=> compare3("<=", a, hi) = "T"
  <2>1. ">=" \in Ops /\ "<=" \in Ops /\ ">=" # "!=" /\ "<=" # "!="
    BY DEF Ops
  <2> QED
    BY <1>5, <2>1, CompareIs
<1>11. /\ compare(">=", a, lo) = not_less(a, lo)
       /\ compare("<=", a, hi) = not_less(hi, a)
  BY DEF compare
<1>12. /\ x \in {"T", "F", "U"} /\ res \in {"yes", "no"}
       /\ res = "yes" <=> x = "T"
  BY <1>6, <1>8, <1>10, <1>11 DEF and3, boolean
<1>13. p.neg => polar(p, x) # "U"
  BY <1>9 DEF usual, negative
<1>14. negate(p.neg, res) = "yes" <=> polar(p, x) = "T"
  BY <1>1, <1>12, <1>13, NegateIs
<1> QED
  BY <1>7, <1>9, <1>12, <1>14 DEF negate, boolean

\* IN and NOT IN
LEMMA EvalIn ==
  ASSUME NEW p \in Clauses, p.ex = "in", NEW row \in [Columns -> Value],
         usual(p, row)
  PROVE  /\ eval_where(p, row) \in {"yes", "no"}
         /\ eval_where(p, row) = "yes" <=> plain_truth(p, row) = "T"
<1>1. /\ p.e \in operands(p) /\ p.list \subseteq operands(p)
      /\ p.neg \in BOOLEAN
  BY ClauseIs DEF PartsIn, operands
<1>2. PICK a : a = eval_expr(p.e, row)
  OBVIOUS
<1>3. /\ a # Err
      /\ \A e \in p.list : /\ eval_expr(e, row) # Err
                           /\ Kin(a, eval_expr(e, row))
  BY <1>1, <1>2, OperandsAre DEF usual, plain
<1>4. PICK res : res = boolean(\E e \in p.list :
                                 values_equal(a, eval_expr(e, row)))
  OBVIOUS
<1>5. eval_where(p, row) = negate(p.neg, res)
  BY <1>2, <1>3, <1>4 DEF eval_where
<1>6. PICK found : found = {compare3("=", a, eval_expr(e, row)) : e \in p.list}
  OBVIOUS
<1>7. PICK x : x = IF "T" \in found THEN "T"
                   ELSE IF "U" \in found THEN "U" ELSE "F"
  OBVIOUS
<1>8. plain_truth(p, row) = polar(p, x)
  BY <1>2, <1>6, <1>7 DEF plain_truth, val
<1>9. \A e \in p.list : values_equal(a, eval_expr(e, row))
                          <=> compare3("=", a, eval_expr(e, row)) = "T"
  <2>1. "=" \in Ops /\ "=" # "!="
    BY DEF Ops
  <2>2. \A e \in p.list : compare("=", a, eval_expr(e, row))
                            <=> compare3("=", a, eval_expr(e, row)) = "T"
    BY <1>3, <2>1, CompareIs
  <2> QED
    BY <2>2 DEF compare
<1>10. "T" \in found <=> \E e \in p.list : values_equal(a, eval_expr(e, row))
  BY <1>6, <1>9
<1>11. x \in {"T", "F", "U"} /\ (x = "T" <=> "T" \in found)
  BY <1>7
<1>12. res \in {"yes", "no"} /\ (res = "yes" <=> x = "T")
  BY <1>4, <1>10, <1>11 DEF boolean
<1>13. p.neg => polar(p, x) # "U"
  BY <1>8 DEF usual, negative
<1>14. negate(p.neg, res) = "yes" <=> polar(p, x) = "T"
  BY <1>1, <1>11, <1>12, <1>13, NegateIs
<1> QED
  BY <1>5, <1>8, <1>12, <1>14 DEF negate, boolean

\* In capitals, a "%" is what it was, and so is all that is not.
LEMMA UpperIs ==
  ASSUME NEW s \in Seq(Int)
  PROVE  /\ upper(s) \in Seq(Int)
         /\ NoTwins(s) => NoTwins(upper(s))
<1>1. /\ Len(s) \in Nat /\ DOMAIN s = 1 .. Len(s)
      /\ \A i \in 1 .. Len(s) : s[i] \in Int
  OBVIOUS
<1>2. \A c \in Int : /\ (IF c \in Lower THEN c - 30 ELSE c) \in Int
                     /\ (IF c \in Lower THEN c - 30 ELSE c) = Percent
                          <=> c = Percent
  BY DEF Lower, Percent
<1>3. /\ upper(s) \in Seq(Int) /\ Len(upper(s)) = Len(s)
      /\ \A i \in 1 .. Len(s) : upper(s)[i] = Percent <=> s[i] = Percent
  <2> DEFINE cap(c) == IF c \in Lower THEN c - 30 ELSE c
  <2>1. upper(s) = [i \in 1 .. Len(s) |-> cap(s[i])]
    BY <1>1 DEF upper
  <2>2. \A i \in 1 .. Len(s) : /\ cap(s[i]) \in Int
                               /\ cap(s[i]) = Percent <=> s[i] = Percent
    BY <1>1, <1>2
  <2> HIDE DEF cap
  <2>3. upper(s) \in Seq(Int) /\ Len(upper(s)) = Len(s)
    BY <1>1, <2>1, <2>2
  <2>4. \A i \in 1 .. Len(s) : upper(s)[i] = cap(s[i])
    BY <2>1
  <2> QED
    BY <2>2, <2>3, <2>4
<1>4. ASSUME NoTwins(s), NEW j \in 1 .. Len(s) - 1
      PROVE  {upper(s)[j], upper(s)[j + 1]} # {Percent}
  <2>1. j \in 1 .. Len(s) /\ j + 1 \in 1 .. Len(s)
    BY <1>1
  <2>2. {s[j], s[j + 1]} # {Percent}
    BY <1>4 DEF NoTwins
  <2>3. s[j] # Percent \/ s[j + 1] # Percent
    BY <2>2
  <2>4. upper(s)[j] # Percent \/ upper(s)[j + 1] # Percent
    BY <1>3, <2>1, <2>3
  <2> QED
    BY <2>4
<1> QED
  BY <1>3, <1>4 DEF NoTwins

\* LIKE and NOT LIKE, but for a panic
LEMMA EvalLike ==
  ASSUME NEW p \in Clauses, p.ex = "like", NEW row \in [Columns -> Value],
         usual(p, row), eval_where(p, row) # "panic"
  PROVE  /\ eval_where(p, row) \in {"yes", "no"}
         /\ eval_where(p, row) = "yes" <=> plain_truth(p, row) = "T"
<1>1. p.e \in operands(p) /\ p.pat \in operands(p) /\ p.neg \in BOOLEAN
  BY ClauseIs DEF PartsIn, operands
<1>2. PICK a : a = eval_expr(p.e, row)
  OBVIOUS
<1>3. PICK b : b = eval_expr(p.pat, row)
  OBVIOUS
<1>4. a # Err /\ b # Err /\ a \in Value /\ b \in Value
  BY <1>1, <1>2, <1>3, OperandsAre DEF usual, plain
<1>5. /\ a = Null \/ a.ty = "Text"
      /\ b = Null \/ b.ty = "Text"
  <2>1. {val(e, row).ty : e \in operands(p)} \ {"Null"} \subseteq {"Text"}
    BY DEF usual, of_one_type
  <2>2. a.ty \in {"Null", "Text"} /\ b.ty \in {"Null", "Text"}
    BY <1>1, <1>2, <1>3, <2>1 DEF val
  <2> QED
    BY <1>4, <2>2, ValueIs
<1>6. PICK res : res = like_match(a, b)
  OBVIOUS
<1>7. eval_where(p, row) = negate(p.neg, res)
  BY <1>2, <1>3, <1>4, <1>6 DEF eval_where
<1>8. PICK x : x = like3(a, b)
  OBVIOUS
<1>9. plain_truth(p, row) = polar(p, x)
  BY <1>2, <1>3, <1>8 DEF plain_truth, val
<1>10. res # "panic"
  BY <1>7 DEF negate
<1>11. /\ res \in {"yes", "no"} /\ x \in {"T", "F", "U"}
       /\ res = "yes" <=> x = "T"
  <2>1. CASE Null \in {a, b}
    <3>1. res = "no"
      BY <1>6, <2>1 DEF like_match, Null
    <3>2. x = "U"
      BY <1>8, <2>1 DEF like3
    <3> QED
      BY <3>1, <3>2
  <2>2. CASE Null \notin {a, b}
    <3>1. a.ty = "Text" /\ b.ty = "Text" /\ a.v \in Seq(Int) /\ b.v \in Seq(Int)
      BY <1>4, <1>5, <2>2, ValueIs
    <3>2. NoTwins(b.v)
      BY <1>3 DEF usual, like_as_documented, NoTwins, val
    <3>3. PICK t \in Seq(Int) : t = upper(a.v)
      BY <3>1, UpperIs
    <3>4. PICK q \in Seq(Int) : q = upper(b.v) /\ NoTwins(q)
      BY <3>1, <3>2, UpperIs
    <3>5. res = like_match_impl(t, q)
      BY <1>6, <3>1, <3>3, <3>4 DEF like_match
    <3>6. /\ res \in Matches
          /\ res = "yes" => like_reference(t, q)
          /\ res = "no" => ~like_reference(t, q)
      BY <3>4, <3>5, LikeIs
    <3>7. x = of(like_reference(t, q))
      BY <1>8, <2>2, <3>3, <3>4 DEF like3
    <3> QED
      BY <1>10, <3>6, <3>7 DEF of, Matches
  <2> QED
    BY <2>1, <2>2
<1>12. p.neg => polar(p, x) # "U"
  BY <1>9 DEF usual, negative
<1>13. negate(p.neg, res) = "yes" <=> polar(p, x) = "T"
  BY <1>1, <1>11, <1>12, NegateIs
<1> QED
  BY <1>7, <1>9, <1>11, <1>13 DEF negate, boolean

\* A clause that does not panic is true of the rows of which SQL calls it true.
LEMMA EvalRight ==
  ASSUME NEW p \in Clauses, plain(p), p # NoWhere,
         NEW row \in [Columns -> Value], usual(p, row),
         eval_where(p, row) # "panic"
  PROVE  eval_where(p, row) = "yes" <=> truth(p, row) = "T"
<1>1. p.ex \in {"cmp", "like", "isnull", "between", "in"}
  BY ClauseIs DEF plain
<1>2. truth(p, row) = plain_truth(p, row)
  BY <1>1 DEF truth
<1>3. eval_where(p, row) = "yes" <=> plain_truth(p, row) = "T"
  BY <1>1, EvalCmp, EvalLike, EvalIsNull, EvalBetween, EvalIn
<1> QED
  BY <1>2, <1>3

\* An index serves comparisons, which never panic.
LEMMA ServedNoPanic ==
  ASSUME QueryInv, NEW p \in Clauses, plain(p), serving(p) # {}, NEW row
  PROVE  /\ p.ex = "cmp" /\ p.op = "=" /\ eq_conditions(p) = equality(p.l, p.r)
         /\ equality(p.l, p.r) # {}
         /\ eval_where(p, row) # "panic"
<1>1. PICK n \in DOMAIN Indexes : serves(Indexes[n], eq_conditions(p))
  BY DEF serving
<1>2. Indexes[n] \in Seq(Columns) \ {<<>>}
  BY QueryAssumption
<1>3. 1 \in DOMAIN Indexes[n]
  BY <1>2
<1>4. eq_conditions(p) # {}
  BY <1>1, <1>3 DEF serves
<1>5. p.ex # "and"
  BY DEF plain
<1>6. p.ex = "cmp" /\ p.op = "=" /\ eq_conditions(p) = equality(p.l, p.r)
  BY <1>4, <1>5 DEF eq_conditions
<1>7. eval_where(p, row) # "panic"
  BY <1>6 DEF eval_where, boolean
<1> QED
  BY <1>4, <1>6, <1>7

\* Two values of one type at most
LEMMA OneTypeIs ==
  ASSUME NEW kinds, NEW x \in kinds, NEW y \in kinds, IsFiniteSet(kinds),
         Cardinality(kinds) <= 1
  PROVE  x = y
<1> SUFFICES ASSUME x # y PROVE FALSE
  OBVIOUS
<1>1. {x, y} \subseteq kinds
  OBVIOUS
<1>2. IsFiniteSet({x}) /\ Cardinality({x}) = 1
  BY FS_Singleton
<1>3. {x, y} = {x} \cup {y} /\ y \notin {x}
  OBVIOUS
<1>4. Cardinality({x, y}) = 2
  BY <1>2, <1>3, FS_AddElement
<1>5. Cardinality({x, y}) <= Cardinality(kinds)
  BY <1>1, FS_Subset
<1>6. Cardinality(kinds) \in Nat
  BY FS_CardinalityType
<1> QED
  BY <1>4, <1>5, <1>6

\* A row that an index serves: its value is of the type of the constant.
LEMMA ServedTypes ==
  ASSUME QueryInv, NEW p \in Clauses, plain(p), serving(p) # {},
         NEW row, of_one_type(p, row), eval_where(p, row) = "yes"
  PROVE  \A c \in eq_conditions(p) :
           c[1] \in Columns => row[c[1]].ty \in {c[2].ty, "Null"}
<1>1. /\ p.ex = "cmp" /\ p.op = "=" /\ eq_conditions(p) = equality(p.l, p.r)
      /\ equality(p.l, p.r) # {}
  BY ServedNoPanic
<1>2. PICK a : a = eval_expr(p.l, row)
  OBVIOUS
<1>3. PICK b : b = eval_expr(p.r, row)
  OBVIOUS
<1>4. values_equal(a, b)
  BY <1>1, <1>2, <1>3, TrueIs DEF compare
<1>5. a.ty # "Null" /\ b.ty # "Null"
  BY <1>4 DEF values_equal
<1>6. PICK kinds : kinds = {val(e, row).ty : e \in operands(p)} \ {"Null"}
  OBVIOUS
<1>7. operands(p) = {p.l, p.r}
  BY <1>1 DEF operands
<1>8. kinds = {a.ty, b.ty}
  BY <1>2, <1>3, <1>5, <1>6, <1>7 DEF val
<1>9. Cardinality(kinds) <= 1
  BY <1>6 DEF of_one_type
<1>10. IsFiniteSet(kinds)
  <2>1. IsFiniteSet({a.ty})
    BY FS_Singleton
  <2>2. IsFiniteSet({a.ty} \cup {b.ty})
    BY <2>1, FS_AddElement
  <2>3. kinds = {a.ty} \cup {b.ty}
    BY <1>8
  <2> QED
    BY <2>2, <2>3
<1>11. a.ty = b.ty
  BY <1>8, <1>9, <1>10, OneTypeIs
<1>12. CASE p.l.ex = "col" /\ p.r.ex = "lit"
  <2>1. equality(p.l, p.r) = {<<p.l.name, p.r.val>>}
    BY <1>12 DEF equality, constant
  <2>2. p.l.name \in Columns => a = row[p.l.name]
    BY <1>2, <1>12 DEF eval_expr
  <2>3. b = p.r.val
    BY <1>3, <1>12 DEF eval_expr
  <2> QED
    BY <1>1, <1>11, <2>1, <2>2, <2>3
<1>13. CASE ~(p.l.ex = "col" /\ p.r.ex = "lit")
  <2>1. /\ p.r.ex = "col" /\ p.l.ex = "lit"
        /\ equality(p.l, p.r) = {<<p.r.name, p.l.val>>}
    BY <1>1, <1>13 DEF equality, constant
  <2>2. p.r.name \in Columns => b = row[p.r.name]
    BY <1>3, <2>1 DEF eval_expr
  <2>3. a = p.l.val
    BY <1>2, <2>1 DEF eval_expr
  <2> QED
    BY <1>1, <1>11, <2>1, <2>2, <2>3
<1> QED
  BY <1>12, <1>13

\* A SELECT returns the rows for which SQL calls the clause true, for any rows,
\* clauses of one predicate and indexes.
LEMMA SelectStep ==
  ASSUME QueryInv
  PROVE  SelectRight
<1> SUFFICES ASSUME answered, asked = unpaged(asked), plain(asked.where),
                    NEW id \in DOMAIN table, usual(asked.where, table[id])
             PROVE  right(asked.where, id)
  BY DEF SelectRight
<1>1. PICK p : p = asked.where
  OBVIOUS
<1>2. p \in Clauses /\ AQuery(asked)
  BY <1>1, AskedIs DEF AQuery
<1>3. PICK row \in [Columns -> Value] : row = table[id]
  BY DEF QueryInv
<1>4. id \in 1 .. Len(table)
  BY DEF QueryInv
<1>5. PICK all : all = AllOf(asked)
  OBVIOUS
<1>6. answer = all
  <2>1. all \in Seq(1 .. Len(table))
    BY <1>5, AnswerIs
  <2>2. answer = Part(all, 0, Len(all))
    BY <1>5, AnswerIs
  <2> QED
    BY <2>1, <2>2, WholePart
<1>7. PICK found : found = candidates(table, index, p)
  OBVIOUS
<1>8. id \in Range(answer) <=> id \in Range(found) /\ holds(p, row)
  BY <1>1, <1>2, <1>3, <1>5, <1>6, <1>7, AllOfIs
<1>9. right(p, id) <=> (id \in Range(answer) <=> truth(p, row) = "T")
  BY <1>3 DEF right
<1>10. plain(p) /\ usual(p, row)
  BY <1>1, <1>3
<1>11. p = NoWhere \/ serving(p) = {} => id \in Range(found)
  BY <1>4, <1>7, ScanIs DEF candidates
<1>12. CASE p = NoWhere
  <2>1. holds(p, row)
    BY <1>12 DEF holds
  <2>2. truth(p, row) = "T"
    BY <1>12 DEF truth, plain_truth, NoWhere
  <2> QED
    BY <1>1, <1>8, <1>9, <1>11, <1>12, <2>1, <2>2
<1>13. CASE p # NoWhere
  <2>1. holds(p, row) <=> eval_where(p, row) = "yes"
    BY <1>13 DEF holds
  <2>2. CASE serving(p) = {}
    <3>1. id \in Range(found)
      BY <1>11, <2>2
    <3>2. eval_where(p, row) # "panic"
      <4>1. ~Panics(asked)
        BY AnswerIs
      <4> QED
        BY <1>1, <1>3, <1>7, <1>13, <3>1, <4>1 DEF Panics
    <3>3. eval_where(p, row) = "yes" <=> truth(p, row) = "T"
      BY <1>2, <1>10, <1>13, <3>2, EvalRight
    <3> QED
      BY <1>1, <1>8, <1>9, <2>1, <3>1, <3>3
  <2>3. CASE serving(p) # {}
    <3>1. eval_where(p, row) # "panic"
      BY <1>2, <1>10, <2>3, ServedNoPanic
    <3>2. eval_where(p, row) = "yes" <=> truth(p, row) = "T"
      BY <1>2, <1>10, <1>13, <3>1, EvalRight
    <3>3. ASSUME eval_where(p, row) = "yes" PROVE id \in Range(found)
      <4>1. of_one_type(p, row)
        BY <1>10 DEF usual
      <4>2. \A c \in eq_conditions(p) :
              c[1] \in Columns => table[id][c[1]].ty \in {c[2].ty, "Null"}
        BY <1>2, <1>3, <1>10, <2>3, <3>3, <4>1, ServedTypes
      <4>3. eval_where(p, table[id]) = "yes"
        BY <1>3, <3>3
      <4> QED
        BY <1>2, <1>4, <1>7, <1>13, <2>3, <4>2, <4>3, IndexFinds
    <3> QED
      BY <1>1, <1>8, <1>9, <2>1, <3>2, <3>3
  <2> QED
    BY <2>2, <2>3
<1> QED
  BY <1>12, <1>13

\* A SELECT with one predicate returns exactly the rows for which SQL calls it
\* true, for any rows, texts, patterns, lists and indexes (executor.rs:783-838,
\* 1678-1896).
THEOREM SelectAlwaysRight == Spec => []SelectRight
BY QueryInvariant, SelectStep, PTL
===============================================================================
