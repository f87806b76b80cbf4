------------------------------ MODULE NumberProofs -----------------------------
(***************************************************************************)
(* Induction over numbers, the least and the greatest of a set of numbers, *)
(* and functions defined by recursion over numbers.  The library's         *)
(* theorems on induction take the formula as a parameter; here it is a set *)
(* of numbers.                                                             *)
(***************************************************************************)
EXTENDS Integers, FiniteSetsExt, FiniteSetTheorems, TLAPS

-----------------------------------------------------------------------------
(* Natural numbers and finite sets.                                         *)

\* Every set of natural numbers has a least element.
LEMMA LeastNatural ==
  ASSUME NEW S \in SUBSET Nat, S # {}
  PROVE  \E n \in S : \A m \in S : n <= m
<1> DEFINE I(n) == 0 .. n
           T    == {I(n) : n \in S}
<1>1. T # {}
  OBVIOUS
<1>2. T \subseteq FiniteSubsetsOf(Nat)
  <2>1. \A n \in S : IsFiniteSet(I(n)) /\ I(n) \in SUBSET Nat
    BY FS_Interval
  <2> QED
    BY <2>1 DEF FiniteSubsetsOf
<1>3. PICK x \in T : \A y \in T : <<y, x>> \notin StrictSubsetOrdering(Nat)
  <2> HIDE DEF T
  <2> QED
    BY <1>1, <1>2, FS_StrictSubsetOrderingWellFounded, WFMin
<1>4. PICK n \in S : x = I(n)
  OBVIOUS
<1>5. ASSUME NEW m \in S, m < n
      PROVE  FALSE
  <2>1. I(m) \in SUBSET Nat /\ I(n) \in SUBSET Nat
    OBVIOUS
  <2>2. I(m) \subseteq I(n) /\ I(m) # I(n)
    BY <1>5
  <2>3. <<I(m), I(n)>> \in StrictSubsetOrdering(Nat)
    BY <2>1, <2>2 DEF StrictSubsetOrdering
  <2> QED
    BY <2>3, <1>3, <1>4
<1> QED
  BY <1>5

\* Induction over the natural numbers, for a set that holds 0 and with a number
\* the next one.
LEMMA NatSetInduction ==
  ASSUME NEW S, 0 \in S, \A n \in Nat : n \in S => n + 1 \in S
  PROVE  Nat \subseteq S
<1>1. SUFFICES ASSUME Nat \ S # {} PROVE FALSE
  OBVIOUS
<1>2. PICK n \in Nat \ S : \A m \in Nat \ S : n <= m
  BY <1>1, LeastNatural
<1>3. n # 0
  OBVIOUS
<1>4. n - 1 \in Nat /\ n - 1 \in S
  BY <1>2, <1>3
<1> QED
  BY <1>4

\* Induction from 0 up to n
LEMMA InductionUpTo ==
  ASSUME NEW n \in Nat, NEW S, 0 \in S,
         \A i \in 1 .. n : i - 1 \in S => i \in S
  PROVE  \A i \in 0 .. n : i \in S
<1> DEFINE U == {i \in Nat : i <= n => i \in S}
<1>1. 0 \in U
  OBVIOUS
<1>2. ASSUME NEW i \in Nat, i \in U
      PROVE  i + 1 \in U
  <2>1. i + 1 <= n => i \in S /\ i + 1 \in 1 .. n /\ (i + 1) - 1 = i
    BY <1>2
  <2> QED
    BY <2>1
<1>3. Nat \subseteq U
  <2> HIDE DEF U
  <2> QED
    BY <1>1, <1>2, NatSetInduction
<1> QED
  BY <1>3

\* A finite set of natural numbers has a greatest element, which is its Max.
LEMMA MaxOfFinite ==
  ASSUME NEW S \in SUBSET Nat, S # {}, IsFiniteSet(S)
  PROVE  Max(S) \in S /\ \A m \in S : m <= Max(S)
<1> DEFINE I(n) == {m \in S : n <= m}
           T    == {I(n) : n \in S}
<1>1. T # {}
  OBVIOUS
<1>2. T \subseteq FiniteSubsetsOf(S)
  <2>1. \A n \in S : I(n) \in SUBSET S
    OBVIOUS
  <2>2. \A n \in S : IsFiniteSet(I(n))
    BY <2>1, FS_Subset
  <2> QED
    BY <2>1, <2>2 DEF FiniteSubsetsOf
<1>3. PICK x \in T : \A y \in T : <<y, x>> \notin StrictSubsetOrdering(S)
  <2> HIDE DEF T
  <2> QED
    BY <1>1, <1>2, FS_StrictSubsetOrderingWellFounded, WFMin
<1>4. PICK n \in S : x = I(n)
  OBVIOUS
<1>5. ASSUME NEW m \in S, n < m
      PROVE  FALSE
  <2>1. I(m) \in SUBSET S /\ I(n) \in SUBSET S
    OBVIOUS
  <2>2. I(m) \subseteq I(n) /\ n \in I(n) /\ n \notin I(m)
    <3>1. S \subseteq Nat
      OBVIOUS
    <3>2. \A k \in S : m <= k => n <= k
      BY <1>5, <3>1
    <3>3. n \in Nat /\ m \in Nat /\ n <= n /\ ~(m <= n)
      BY <1>5, <3>1
    <3> QED
      BY <3>2, <3>3
  <2>3. <<I(m), I(n)>> \in StrictSubsetOrdering(S)
    BY <2>1, <2>2 DEF StrictSubsetOrdering
  <2> QED
    BY <2>3, <1>3, <1>4
<1>6. \A m \in S : n >= m
  BY <1>5
<1> QED
  BY <1>6 DEF Max

-----------------------------------------------------------------------------
(* Numbers up to a bound.                                                   *)

\* A set of numbers up to n has a greatest one.
LEMMA GreatestUpTo ==
  ASSUME NEW n \in Nat, NEW S \in SUBSET (0 .. n), S # {}
  PROVE  \E p \in S : \A q \in S : q <= p
<1> DEFINE I(p) == 0 .. n - p
           T    == {I(p) : p \in S}
<1>1. T # {}
  OBVIOUS
<1>2. T \subseteq FiniteSubsetsOf(Nat)
  <2>1. \A p \in S : IsFiniteSet(I(p)) /\ I(p) \in SUBSET Nat
    BY FS_Interval
  <2> QED
    BY <2>1 DEF FiniteSubsetsOf
<1>3. PICK x \in T : \A y \in T : <<y, x>> \notin StrictSubsetOrdering(Nat)
  <2> HIDE DEF T
  <2> QED
    BY <1>1, <1>2, FS_StrictSubsetOrderingWellFounded, WFMin
<1>4. PICK p \in S : x = I(p)
  OBVIOUS
<1>5. ASSUME NEW q \in S, p < q
      PROVE  FALSE
  <2>1. p \in 0 .. n /\ q \in 0 .. n
    OBVIOUS
  <2>2. I(q) \subseteq I(p) /\ n - p \in I(p) /\ n - p \notin I(q)
    BY <1>5, <2>1
  <2>3. I(q) \subseteq Nat /\ I(p) \subseteq Nat
    BY <2>1
  <2>4. <<I(q), I(p)>> \in StrictSubsetOrdering(Nat)
    BY <2>2, <2>3 DEF StrictSubsetOrdering
  <2> QED
    BY <2>4, <1>3, <1>4
<1>6. \A q \in S : q \in Int /\ p \in Int
  OBVIOUS
<1> QED
  BY <1>5, <1>6

\* The least number of a set is its Min.
LEMMA MinUpTo ==
  ASSUME NEW n \in Nat, NEW S \in SUBSET (0 .. n), S # {}
  PROVE  Min(S) \in S /\ \A q \in S : Min(S) <= q
<1> DEFINE T == {n - p : p \in S}
<1>1. T \in SUBSET (0 .. n)
  OBVIOUS
<1>2. T # {}
  OBVIOUS
<1>3. PICK t \in T : \A q \in T : q <= t
  <2> HIDE DEF T
  <2> QED
    BY <1>1, <1>2, GreatestUpTo
<1>4. PICK p \in S : t = n - p
  OBVIOUS
<1>5. \A q \in S : p <= q
  <2> SUFFICES ASSUME NEW q \in S PROVE p <= q
    OBVIOUS
  <2>1. n - q \in T /\ n - q <= n - p
    BY <1>3, <1>4
  <2> QED
    BY <2>1
<1> QED
  BY <1>5 DEF Min

\* Induction from n down to 1
LEMMA DownInduction ==
  ASSUME NEW n \in Nat, NEW S,
         \A pos \in 1 .. n : (\A q \in pos + 1 .. n : q \in S) => pos \in S
  PROVE  \A pos \in 1 .. n : pos \in S
<1> DEFINE bad == {pos \in 0 .. n : pos # 0 /\ pos \notin S}
<1>1. SUFFICES ASSUME bad # {} PROVE FALSE
  OBVIOUS
<1>2. PICK pos \in bad : \A q \in bad : q <= pos
  <2>1. bad \in SUBSET (0 .. n)
    OBVIOUS
  <2> HIDE DEF bad
  <2> QED
    BY <1>1, <2>1, GreatestUpTo
<1>3. pos \in 1 .. n /\ pos \notin S
  OBVIOUS
<1>4. \A q \in pos + 1 .. n : q \in S
  BY <1>2
<1> QED
  BY <1>3, <1>4

\* Induction from 1 up to n
LEMMA UpInduction ==
  ASSUME NEW n \in Nat, NEW S, 1 \in S,
         \A i \in 1 .. n : i < n /\ i \in S => i + 1 \in S
  PROVE  \A i \in 1 .. n : i \in S
<1> DEFINE U == {p \in 1 .. n : n + 1 - p \in S}
<1>1. \A p \in 1 .. n : (\A q \in p + 1 .. n : q \in U) => p \in U
  <2> SUFFICES ASSUME NEW p \in 1 .. n, \A q \in p + 1 .. n : q \in U
               PROVE  n + 1 - p \in S
    OBVIOUS
  <2>1. CASE p = n
    BY <2>1
  <2>2. CASE p # n
    <3>1. p + 1 \in p + 1 .. n
      BY <2>2
    <3>2. n + 1 - (p + 1) \in S
      BY <3>1
    <3> DEFINE i == n + 1 - (p + 1)
    <3>3. i \in 1 .. n /\ i < n /\ i + 1 = n + 1 - p
      BY <2>2
    <3> HIDE DEF i
    <3> QED
      BY <3>2, <3>3 DEF i
  <2> QED
    BY <2>1, <2>2
<1>2. \A p \in 1 .. n : p \in U
  <2> HIDE DEF U
  <2> QED
    BY <1>1, DownInduction
<1> SUFFICES ASSUME NEW i \in 1 .. n PROVE i \in S
  OBVIOUS
<1>3. n + 1 - i \in 1 .. n /\ n + 1 - (n + 1 - i) = i
  OBVIOUS
<1> QED
  BY <1>2, <1>3

\* The greatest number of a set is its Max.
LEMMA MaxUpTo ==
  ASSUME NEW n \in Nat, NEW S \in SUBSET (0 .. n), S # {}
  PROVE  Max(S) \in S /\ \A q \in S : q <= Max(S)
<1>1. PICK p \in S : \A q \in S : q <= p
  BY GreatestUpTo
<1>2. \A q \in S : p >= q
  BY <1>1
<1> QED
  BY <1>2 DEF Max

-----------------------------------------------------------------------------
(* Recursion.                                                               *)

\* f is base at 0 and, at each number up to n, what the step of that number makes
\* of the value before.
Recursion(f, n, base, step) ==
  f[0] = base /\ \A i \in 1 .. n : f[i] = step[i][f[i - 1]]

\* There is such a function, with its values where the steps have theirs.
LEMMA RecursionExists ==
  ASSUME NEW n \in Nat, NEW D, NEW base \in D, NEW step \in [1 .. n -> [D -> D]]
  PROVE  \E f \in [0 .. n -> D] : Recursion(f, n, base, step)
<1> DEFINE Upto(f, k) == /\ f \in [0 .. n -> D]
                         /\ f[0] = base
                         /\ \A i \in 1 .. k : f[i] = step[i][f[i - 1]]
           S == {k \in Nat : k <= n => \E f : Upto(f, k)}
<1>1. 0 \in S
  <2> DEFINE f == [i \in 0 .. n |-> base]
  <2>1. Upto(f, 0)
    OBVIOUS
  <2> QED
    BY <2>1
<1>2. ASSUME NEW k \in Nat, k \in S
      PROVE  k + 1 \in S
  <2> SUFFICES ASSUME k + 1 <= n PROVE \E f : Upto(f, k + 1)
    OBVIOUS
  <2>1. PICK f : Upto(f, k)
    BY <1>2
  <2> DEFINE x == step[k + 1][f[k]]
             g == [f EXCEPT ![k + 1] = x]
  <2>2. x \in D
    <3>1. k \in 0 .. n /\ k + 1 \in 1 .. n
      OBVIOUS
    <3> QED
      BY <2>1, <3>1
  <2>3. g \in [0 .. n -> D] /\ g[0] = base
    BY <2>1, <2>2
  <2>4. ASSUME NEW i \in 1 .. k + 1
        PROVE  g[i] = step[i][g[i - 1]]
    <3>1. i \in 0 .. n /\ i - 1 \in 0 .. n /\ i - 1 # k + 1
      OBVIOUS
    <3>2. g[i - 1] = f[i - 1]
      BY <2>1, <3>1
    <3>3. CASE i = k + 1
      BY <2>1, <3>1, <3>2, <3>3
    <3>4. CASE i # k + 1
      <4>1. i \in 1 .. k
        BY <3>4
      <4>2. g[i] = f[i]
        BY <2>1, <3>1, <3>4
      <4> QED
        BY <2>1, <3>2, <4>1, <4>2
    <3> QED
      BY <3>3, <3>4
  <2> HIDE DEF g
  <2> QED
    BY <2>3, <2>4
<1>3. n \in S
  <2> HIDE DEF S
  <2> QED
    BY <1>1, <1>2, NatSetInduction
<1>4. PICK f : Upto(f, n)
  BY <1>3
<1> QED
  BY <1>4 DEF Recursion
===============================================================================
