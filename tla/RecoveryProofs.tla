---------------------------- MODULE RecoveryProofs ----------------------------
(***************************************************************************)
(* What a restart finds, whatever the statements, the sessions and the     *)
(* instant of the crash.                                                   *)
(***************************************************************************)
EXTENDS RecoveryInvariant, DmlProofs

-----------------------------------------------------------------------------
(* replay, entry by entry.                                                  *)

\* g is what the first n entries of the log make of cs, for every n up to k.
Replays(g, cs, log, k) ==
  g = [n \in 0 .. k |-> IF n = 0 THEN cs ELSE apply_entry(g[n - 1], log[n])]

\* The function replay is defined by exists.
LEMMA ReplaysExist ==
  ASSUME NEW cs, NEW log, NEW k \in Nat
  PROVE  \E g : Replays(g, cs, log, k)
<1> DEFINE S == {n \in Nat : \E g : Replays(g, cs, log, n)}
<1>1. 0 \in S
  <2> DEFINE g == [n \in 0 .. 0 |-> cs]
  <2>1. Replays(g, cs, log, 0)
    BY DEF Replays
  <2> QED
    BY <2>1
<1>2. ASSUME NEW n \in Nat, n \in S
      PROVE  n + 1 \in S
  <2>1. PICK g : Replays(g, cs, log, n)
    BY <1>2
  <2> DEFINE h == [i \in 0 .. n + 1 |->
                     IF i = n + 1 THEN apply_entry(g[n], log[n + 1]) ELSE g[i]]
  <2>2. DOMAIN g = 0 .. n
    BY <2>1 DEF Replays
  <2>3. \A i \in 0 .. n : g[i] = IF i = 0 THEN cs
                                 ELSE apply_entry(g[i - 1], log[i])
    BY <2>1 DEF Replays
  <2>4. \A i \in 0 .. n + 1 : h[i] = IF i = 0 THEN cs
                                     ELSE apply_entry(h[i - 1], log[i])
    BY <2>3
  <2>5. Replays(h, cs, log, n + 1)
    BY <2>4 DEF Replays
  <2> QED
    BY <2>5
<1> HIDE DEF S
<1>3. Nat \subseteq S
  BY <1>1, <1>2, NatSetInduction
<1> QED
  BY <1>3 DEF S

\* Two logs begin with the same m entries.
BeginAlike(log, other, m) == \A i \in 1 .. m : log[i] = other[i]

\* Logs that begin alike replay alike that far.
LEMMA ReplaysAgree ==
  ASSUME NEW cs, NEW log, NEW other, NEW g, NEW h,
         NEW j \in Nat, NEW k \in Nat, NEW m \in Nat, m <= j, m <= k,
         Replays(g, cs, log, j), Replays(h, cs, other, k),
         BeginAlike(log, other, m)
  PROVE  \A n \in 0 .. m : g[n] = h[n]
<1> USE DEF BeginAlike
<1> DEFINE S == {n \in Nat : n <= m => g[n] = h[n]}
<1>1. /\ g[0] = cs /\ h[0] = cs
      /\ \A n \in 1 .. j : g[n] = apply_entry(g[n - 1], log[n])
      /\ \A n \in 1 .. k : h[n] = apply_entry(h[n - 1], other[n])
  BY DEF Replays
<1>2. 0 \in S
  BY <1>1
<1>3. ASSUME NEW n \in Nat, n \in S
      PROVE  n + 1 \in S
  <2> SUFFICES ASSUME n + 1 <= m PROVE g[n + 1] = h[n + 1]
    OBVIOUS
  <2>1. n + 1 \in 1 .. m /\ n + 1 \in 1 .. j /\ n + 1 \in 1 .. k
    OBVIOUS
  <2>2. g[n] = h[n] /\ log[n + 1] = other[n + 1]
    BY <1>3, <2>1
  <2>3. (n + 1) - 1 = n
    OBVIOUS
  <2> QED
    BY <1>1, <2>1, <2>2, <2>3
<1> HIDE DEF S
<1>4. Nat \subseteq S
  BY <1>2, <1>3, NatSetInduction
<1> QED
  BY <1>4 DEF S

\* w is where a replay of the log from cs is behind its first n entries, for
\* every n up to k.
Walks(w, cs, log, k) ==
  w = [n \in 0 .. k |->
         IF n = 0 THEN [cs |-> cs, next |-> 1]
         ELSE LET before == w[n - 1]
              IN  IF before.next = n
                  THEN [cs   |-> effect(before.cs, log, n),
                        next |-> behind(log, n)]
                  ELSE before]

\* The function walk is defined by exists.
LEMMA WalksExist ==
  ASSUME NEW cs, NEW log, NEW k \in Nat
  PROVE  \E w : Walks(w, cs, log, k)
<1> DEFINE on(b, n) == IF b.next = n
                       THEN [cs   |-> effect(b.cs, log, n),
                             next |-> behind(log, n)]
                       ELSE b
           start == [cs |-> cs, next |-> 1]
<1>1. \A w, n : Walks(w, cs, log, n) <=>
                w = [i \in 0 .. n |-> IF i = 0 THEN start
                                      ELSE on(w[i - 1], i)]
  BY DEF Walks
<1> HIDE DEF on, start
<1> DEFINE S == {n \in Nat : \E w : Walks(w, cs, log, n)}
<1>2. 0 \in S
  <2> DEFINE w == [n \in 0 .. 0 |-> start]
  <2>1. w = [i \in 0 .. 0 |-> IF i = 0 THEN start ELSE on(w[i - 1], i)]
    OBVIOUS
  <2> HIDE DEF w
  <2> QED
    BY <1>1, <2>1
<1>3. ASSUME NEW n \in Nat, n \in S
      PROVE  n + 1 \in S
  <2>1. PICK w : Walks(w, cs, log, n)
    BY <1>3
  <2>2. w = [i \in 0 .. n |-> IF i = 0 THEN start ELSE on(w[i - 1], i)]
    BY <1>1, <2>1
  <2> DEFINE h == [i \in 0 .. n + 1 |->
                     IF i = n + 1 THEN on(w[n], n + 1) ELSE w[i]]
  <2>3. \A i \in 0 .. n : w[i] = IF i = 0 THEN start ELSE on(w[i - 1], i)
    BY <2>2
  <2>4. \A i \in 0 .. n + 1 : h[i] = IF i = 0 THEN start
                                     ELSE on(h[i - 1], i)
    BY <2>3
  <2>5. h = [i \in 0 .. n + 1 |-> IF i = 0 THEN start ELSE on(h[i - 1], i)]
    BY <2>4
  <2> HIDE DEF h
  <2>6. Walks(h, cs, log, n + 1)
    BY <1>1, <2>5
  <2> QED
    BY <2>6
<1> HIDE DEF S
<1>4. Nat \subseteq S
  BY <1>2, <1>3, NatSetInduction
<1> QED
  BY <1>4 DEF S

\* walk is the value of that function at the end of the log.
LEMMA WalkIs ==
  ASSUME NEW cs, NEW log, Len(log) \in Nat
  PROVE  \E w : Walks(w, cs, log, Len(log)) /\ walk(cs, log) = w[Len(log)]
<1> DEFINE upto[n \in 0 .. Len(log)] ==
             IF n = 0 THEN [cs |-> cs, next |-> 1]
             ELSE LET before == upto[n - 1]
                  IN  IF before.next = n
                      THEN [cs   |-> effect(before.cs, log, n),
                            next |-> behind(log, n)]
                      ELSE before
<1>1. walk(cs, log) = upto[Len(log)]
  BY DEF walk
<1>2. \E w : Walks(w, cs, log, Len(log))
  BY WalksExist
<1>3. Walks(upto, cs, log, Len(log))
  BY <1>2 DEF Walks
<1> HIDE DEF upto
<1> QED
  BY <1>1, <1>3

\* What it is at 0, and what each entry makes of it
LEMMA WalkSteps ==
  ASSUME NEW w, NEW cs, NEW log, NEW k \in Nat, Walks(w, cs, log, k)
  PROVE  /\ w[0] = [cs |-> cs, next |-> 1]
         /\ \A n \in 1 .. k :
              w[n] = IF w[n - 1].next = n
                     THEN [cs   |-> effect(w[n - 1].cs, log, n),
                           next |-> behind(log, n)]
                     ELSE w[n - 1]
  BY DEF Walks

\* The replay of a log without torn entries applies them one by one.
LEMMA ReplayIs ==
  ASSUME NEW cs, NEW log, NEW T, log \in Seq(T), whole(log)
  PROVE  \E g : /\ Replays(g, cs, log, Len(log))
                /\ replay(cs, log) = g[Len(log)]
<1> DEFINE N == Len(log)
<1>1. N \in Nat /\ \A n \in 1 .. N : log[n].type # "Torn"
  BY DEF whole
<1> HIDE DEF N
<1>2. PICK w : Walks(w, cs, log, N) /\ walk(cs, log) = w[N]
  BY <1>1, WalkIs DEF N
<1>3. PICK g : Replays(g, cs, log, N)
  BY <1>1, ReplaysExist
<1>4. /\ w[0] = [cs |-> cs, next |-> 1]
      /\ \A n \in 1 .. N :
           w[n] = IF w[n - 1].next = n
                  THEN [cs   |-> effect(w[n - 1].cs, log, n),
                        next |-> behind(log, n)]
                  ELSE w[n - 1]
  BY <1>1, <1>2, WalkSteps
<1>5. g[0] = cs /\ \A n \in 1 .. N : g[n] = apply_entry(g[n - 1], log[n])
  BY <1>1, <1>3 DEF Replays
<1> DEFINE S == {n \in Nat : n <= N => w[n] = [cs |-> g[n], next |-> n + 1]}
<1>6. 0 \in S
  BY <1>4, <1>5
<1>7. ASSUME NEW n \in Nat, n \in S
      PROVE  n + 1 \in S
  <2> SUFFICES ASSUME n + 1 <= N
               PROVE  w[n + 1] = [cs |-> g[n + 1], next |-> n + 1 + 1]
    OBVIOUS
  <2>1. n + 1 \in 1 .. N /\ n + 1 - 1 = n /\ n <= N
    BY <1>1
  <2>2. w[n] = [cs |-> g[n], next |-> n + 1]
    BY <1>7, <2>1
  <2>3. w[n + 1] = [cs   |-> effect(w[n].cs, log, n + 1),
                    next |-> behind(log, n + 1)]
    BY <1>4, <2>1, <2>2
  <2>4. /\ effect(w[n].cs, log, n + 1) = apply_entry(g[n], log[n + 1])
        /\ behind(log, n + 1) = n + 1 + 1
    BY <1>1, <2>1, <2>2 DEF effect, behind
  <2>5. g[n + 1] = apply_entry(g[n], log[n + 1])
    BY <1>5, <2>1
  <2> QED
    BY <2>3, <2>4, <2>5
<1>8. w[N].cs = g[N]
  <2> HIDE DEF S
  <2>1. Nat \subseteq S
    BY <1>6, <1>7, NatSetInduction
  <2>2. w[N] = [cs |-> g[N], next |-> N + 1]
    BY <1>1, <2>1 DEF S
  <2> QED
    BY <2>2
<1>9. replay(cs, log) = g[N]
  BY <1>2, <1>8 DEF replay
<1> QED
  BY <1>3, <1>9 DEF N

\* An empty log changes nothing.
LEMMA ReplayEmpty ==
  ASSUME NEW cs
  PROVE  replay(cs, <<>>) = cs
<1> DEFINE log == << >>
<1>1. Len(log) = 0
  OBVIOUS
<1> HIDE DEF log
<1>2. PICK w : Walks(w, cs, log, 0) /\ walk(cs, log) = w[0]
  BY <1>1, WalkIs
<1>3. w[0] = [cs |-> cs, next |-> 1]
  BY <1>2, WalkSteps
<1>4. replay(cs, log) = cs
  BY <1>2, <1>3 DEF replay
<1> QED
  BY <1>4 DEF log

\* The last entry of a whole log is applied to what the others leave.
LEMMA ReplayAppend ==
  ASSUME NEW cs, NEW log, NEW T, log \in Seq(T), NEW e \in T,
         whole(log), e.type # "Torn"
  PROVE  replay(cs, Append(log, e)) = apply_entry(replay(cs, log), e)
<1> DEFINE longer == Append(log, e)
           n == Len(log)
<1>1. /\ longer \in Seq(T) /\ Len(longer) = n + 1 /\ n \in Nat
      /\ \A i \in 1 .. n : log[i] = longer[i]
      /\ longer[n + 1] = e
  OBVIOUS
<1>2. whole(longer)
  BY <1>1 DEF whole
<1> HIDE DEF longer, n
<1>3. PICK g : Replays(g, cs, longer, n + 1) /\ replay(cs, longer) = g[n + 1]
  BY <1>1, <1>2, ReplayIs
<1>4. PICK h : Replays(h, cs, log, n) /\ replay(cs, log) = h[n]
  BY ReplayIs DEF n
<1>5. g[n] = h[n]
  <2>1. n \in Nat /\ n + 1 \in Nat /\ n <= n /\ n <= n + 1 /\ n \in 0 .. n
    BY <1>1
  <2>2. \A i \in 0 .. n : h[i] = g[i]
    <3>1. /\ Replays(h, cs, log, n) /\ Replays(g, cs, longer, n + 1)
          /\ \A i \in 1 .. n : log[i] = longer[i]
      BY <1>1, <1>3, <1>4
    <3> DEFINE k == n + 1
    <3>2. Replays(g, cs, longer, k) /\ k \in Nat /\ n <= k
      BY <2>1, <3>1
    <3>3. /\ n \in Nat /\ n <= n /\ Replays(h, cs, log, n)
          /\ BeginAlike(log, longer, n)
      BY <2>1, <3>1 DEF BeginAlike
    <3> HIDE DEF k
    <3> QED
      BY <3>2, <3>3, ReplaysAgree
  <2> QED
    BY <2>1, <2>2
<1>6. g[n + 1] = apply_entry(g[n], e)
  BY <1>1, <1>3 DEF Replays
<1> QED
  BY <1>3, <1>4, <1>5, <1>6 DEF longer

\* A torn entry behind a log changes nothing of its replay, but for what it
\* supplies to one that lacked only these bytes.
LEMMA ReplayTorn ==
  ASSUME NEW cs, NEW log \in Seq(Entry), NEW e \in TornEntry, ~Completes(log)
  PROVE  replay(cs, Append(log, e)) = replay(cs, log)
<1> DEFINE longer == Append(log, e)
           N == Len(log)
<1>1. /\ Len(longer) = N + 1 /\ N \in Nat
      /\ \A i \in 1 .. N : longer[i] = log[i] /\ log[i] \in Entry
      /\ longer[N + 1] = e /\ DOMAIN log = 1 .. N
  OBVIOUS
<1>2. e.type = "Torn" /\ e.needs \in Nat
  BY DEF TornEntry
<1> HIDE DEF longer, N
<1>3. ASSUME NEW i \in 1 .. N
      PROVE  log[i].type = "Torn" =>
               /\ log[i].needs \in Nat
               /\ supplied(longer, i) <=> supplied(log, i)
  <2> SUFFICES ASSUME log[i].type = "Torn"
               PROVE  /\ log[i].needs \in Nat
                      /\ supplied(longer, i) <=> supplied(log, i)
    OBVIOUS
  <2> DEFINE m == log[i].needs
  <2>1. m \in Nat
    BY <1>1 DEF Entry, WholeEntry, TornEntry
  <2>2. m # N + 1 - i
    BY <1>1 DEF Completes, N
  <2>3. longer[i].needs = m
    BY <1>1
  <2>4. /\ supplied(longer, i) <=> m # 0 /\ i + m <= N + 1
        /\ supplied(log, i) <=> m # 0 /\ i + m <= N
    BY <1>1, <2>3 DEF supplied, N
  <2> HIDE DEF m
  <2>5. i + m <= N + 1 <=> i + m <= N
    BY <1>1, <2>1, <2>2
  <2> QED
    BY <2>1, <2>4, <2>5 DEF m
<1>4. ASSUME NEW i \in 1 .. N, NEW x
      PROVE  /\ effect(x, longer, i) = effect(x, log, i)
             /\ behind(longer, i) = behind(log, i)
  BY <1>1, <1>3 DEF effect, behind
<1>5. ~supplied(longer, N + 1)
  <2>1. supplied(longer, N + 1) => e.needs # 0 /\ N + 1 + e.needs <= N + 1
    BY <1>1 DEF supplied
  <2> QED
    BY <1>1, <1>2, <2>1
<1>6. \A x : effect(x, longer, N + 1) = x
  BY <1>1, <1>2, <1>5 DEF effect
<1>7. PICK w : Walks(w, cs, log, N) /\ walk(cs, log) = w[N]
  BY <1>1, WalkIs DEF N
<1>8. PICK v : Walks(v, cs, longer, N + 1) /\ walk(cs, longer) = v[N + 1]
  BY <1>1, WalkIs
<1>9. /\ w[0] = [cs |-> cs, next |-> 1]
      /\ \A n \in 1 .. N :
           w[n] = IF w[n - 1].next = n
                  THEN [cs   |-> effect(w[n - 1].cs, log, n),
                        next |-> behind(log, n)]
                  ELSE w[n - 1]
  BY <1>1, <1>7, WalkSteps
<1>10. /\ v[0] = [cs |-> cs, next |-> 1]
       /\ \A n \in 1 .. N + 1 :
            v[n] = IF v[n - 1].next = n
                   THEN [cs   |-> effect(v[n - 1].cs, longer, n),
                         next |-> behind(longer, n)]
                   ELSE v[n - 1]
  <2>1. N + 1 \in Nat
    BY <1>1
  <2> QED
    BY <1>8, <2>1, WalkSteps
<1> DEFINE S == {n \in Nat : n <= N => v[n] = w[n]}
<1>11. 0 \in S
  BY <1>9, <1>10
<1>12. ASSUME NEW n \in Nat, n \in S
       PROVE  n + 1 \in S
  <2> SUFFICES ASSUME n + 1 <= N PROVE v[n + 1] = w[n + 1]
    OBVIOUS
  <2>1. n + 1 \in 1 .. N /\ n + 1 \in 1 .. N + 1 /\ n + 1 - 1 = n /\ n <= N
    BY <1>1
  <2>2. v[n] = w[n]
    BY <1>12, <2>1
  <2>3. /\ effect(w[n].cs, longer, n + 1) = effect(w[n].cs, log, n + 1)
        /\ behind(longer, n + 1) = behind(log, n + 1)
    BY <1>4, <2>1
  <2>4. w[n + 1] = IF w[n].next = n + 1
                   THEN [cs   |-> effect(w[n].cs, log, n + 1),
                         next |-> behind(log, n + 1)]
                   ELSE w[n]
    BY <1>9, <2>1
  <2>5. v[n + 1] = IF v[n].next = n + 1
                   THEN [cs   |-> effect(v[n].cs, longer, n + 1),
                         next |-> behind(longer, n + 1)]
                   ELSE v[n]
    BY <1>10, <2>1
  <2> QED
    BY <2>2, <2>3, <2>4, <2>5
<1>13. v[N] = w[N]
  <2> HIDE DEF S
  <2>1. Nat \subseteq S
    BY <1>11, <1>12, NatSetInduction
  <2> QED
    BY <1>1, <2>1 DEF S
<1>14. v[N + 1].cs = v[N].cs
  <2> DEFINE k == N + 1
  <2>1. k \in 1 .. N + 1 /\ k - 1 = N
    BY <1>1
  <2>2. \A x : effect(x, longer, k) = x
    BY <1>6
  <2> HIDE DEF k
  <2>3. v[k] = IF v[k - 1].next = k
               THEN [cs   |-> effect(v[k - 1].cs, longer, k),
                     next |-> behind(longer, k)]
               ELSE v[k - 1]
    BY <1>10, <2>1
  <2>4. CASE v[k - 1].next = k
    <3>1. v[k] = [cs   |-> effect(v[k - 1].cs, longer, k),
                  next |-> behind(longer, k)]
      BY <2>3, <2>4
    <3>2. v[k].cs = effect(v[k - 1].cs, longer, k)
      BY <3>1
    <3>3. v[k].cs = v[k - 1].cs
      BY <2>2, <3>2
    <3> QED
      BY <2>1, <3>3 DEF k
  <2>5. CASE v[k - 1].next # k
    <3>1. v[k] = v[k - 1]
      BY <2>3, <2>5
    <3> QED
      BY <2>1, <3>1 DEF k
  <2> QED
    BY <2>4, <2>5
<1> QED
  BY <1>7, <1>8, <1>13, <1>14 DEF replay, longer

-----------------------------------------------------------------------------
(* A replay gives a catalog and a storage that are in order.                *)

\* The row map of a file or a snapshot, and the next id after it
map_of(R) == [id \in {r[1] : r \in R} |-> (CHOOSE r \in R : r[1] = id)[2]]

next_after(n, R) == Max({n} \cup {r[1] + 1 : r \in R})

\* Rows with ids are the rows of a map.
LEMMA MapOfRows ==
  ASSUME NEW R \in RowVec
  PROVE  /\ IsRowMap(map_of(R))
         /\ rows_vec(map_of(R)) = R
         /\ row_set(map_of(R)) = {r[2] : r \in R}
<1> DEFINE m == map_of(R)
           f == [r \in R |-> r[1]]
<1>1. /\ R \subseteq RowId \X Row /\ IsFiniteSet(R)
      /\ \A p, q \in R : p[1] = q[1] => p = q
  BY DEF RowVec
<1>2. DOMAIN m = {r[1] : r \in R} /\ m = [id \in DOMAIN m |-> m[id]]
  BY DEF map_of
<1>3. \A r \in R : /\ r[1] \in DOMAIN m /\ m[r[1]] = r[2]
                   /\ r[1] \in RowId /\ r[2] \in Row /\ r = <<r[1], r[2]>>
  BY <1>1 DEF map_of
<1>4. \A id \in DOMAIN m : \E r \in R : r[1] = id
  BY <1>2
<1>5. IsFiniteSet(DOMAIN m)
  <2>1. f \in Surjection(R, DOMAIN m)
    BY <1>2 DEF Surjection
  <2> HIDE DEF f, m
  <2> QED
    BY <1>1, <2>1, FS_Surjection
<1> HIDE DEF m
<1>6. IsRowMap(m)
  BY <1>2, <1>3, <1>4, <1>5 DEF IsRowMap
<1>7. rows_vec(m) = R
  BY <1>3, <1>4 DEF rows_vec
<1>8. row_set(m) = {r[2] : r \in R}
  BY <1>3, <1>4 DEF row_set
<1> QED
  BY <1>6, <1>7, <1>8 DEF m

\* next_after is past every id.
LEMMA NextAfter ==
  ASSUME NEW R \in RowVec, NEW n \in Nat \ {0}
  PROVE  /\ next_after(n, R) \in Nat \ {0}
         /\ n <= next_after(n, R)
         /\ \A id \in DOMAIN map_of(R) : id < next_after(n, R)
<1> DEFINE past == {r[1] + 1 : r \in R}
           f == [r \in R |-> r[1] + 1]
           S == {n} \cup past
<1>1. R \subseteq RowId \X Row /\ IsFiniteSet(R)
  BY DEF RowVec
<1>2. IsFiniteSet(past)
  <2>1. f \in Surjection(R, past)
    BY DEF Surjection
  <2> HIDE DEF f, past
  <2> QED
    BY <1>1, <2>1, FS_Surjection
<1>3. past \in SUBSET Nat
  BY <1>1 DEF RowId
<1>4. \A id \in DOMAIN map_of(R) : id \in Nat /\ id + 1 \in past
  BY <1>1 DEF map_of, RowId
<1> HIDE DEF past
<1>5. IsFiniteSet(S)
  <2>1. IsFiniteSet(past \cup {n}) /\ S = past \cup {n}
    BY <1>2, FS_AddElement
  <2> QED
    BY <2>1
<1>6. S \in SUBSET Nat /\ S # {}
  BY <1>3
<1>7. Max(S) \in S /\ \A m \in S : m <= Max(S)
  BY <1>5, <1>6, MaxOfFinite
<1>8. next_after(n, R) = Max(S)
  BY DEF next_after, past
<1> DEFINE x == Max(S)
<1>9. x \in Nat /\ n <= x /\ \A m \in past : m <= x
  BY <1>6, <1>7
<1> HIDE DEF x
<1>10. \A id \in DOMAIN map_of(R) : id < x
  BY <1>4, <1>9
<1> QED
  BY <1>8, <1>9, <1>10 DEF x

\* Row ids are below the next one.
ids_below(st) ==
  \A t \in DOMAIN st.tables : \A id \in DOMAIN st.tables[t] : id < st.next_ids[t]

\* A catalog and a storage in order
InOrder(cs) == /\ cs = [catalog |-> cs.catalog, storage |-> cs.storage]
               /\ cs.catalog \in CatalogType /\ WellFormed(cs.catalog)
               /\ StorageType(cs.storage) /\ ids_below(cs.storage)

\* An empty table has no rows.
LEMMA EmptyRows ==
  /\ IsRowMap(EmptyMap) /\ DOMAIN EmptyMap = {} /\ row_set(EmptyMap) = {}
<1>1. DOMAIN EmptyMap = {} /\ EmptyMap = [x \in DOMAIN EmptyMap |-> EmptyMap[x]]
  BY DEF EmptyMap
<1>2. IsFiniteSet(DOMAIN EmptyMap)
  BY <1>1, FS_EmptySet
<1> QED
  BY <1>1, <1>2 DEF IsRowMap, row_set

\* A snapshot replaces the rows of its table and touches no other.
LEMMA SnapshotRows ==
  ASSUME NEW st, StorageType(st), ids_below(st), NEW t \in Tables,
         NEW R \in RowVec, NEW r, r = apply_snapshot(st, t, R)
  PROVE  /\ StorageType(r) /\ ids_below(r)
         /\ row_set(rows_of(r, t)) = {x[2] : x \in R}
         /\ \A u \in Tables : u # t => rows_of(r, u) = rows_of(st, u)
<1> DEFINE cleared == IF t \in DOMAIN st.tables THEN with_rows(st, t, EmptyMap)
                                                ELSE st
           m == map_of(R)
<1>1. r = IF R = {} THEN cleared ELSE insert_rows_with_ids(cleared, t, R)
  BY DEF apply_snapshot, with_rows
<1>2. /\ StorageType(cleared) /\ cleared.next_ids = st.next_ids
      /\ DOMAIN cleared.tables = DOMAIN st.tables
      /\ rows_of(cleared, t) = EmptyMap
      /\ \A u \in DOMAIN st.tables : u # t => cleared.tables[u] = st.tables[u]
  <2>1. CASE t \in DOMAIN st.tables
    <3> DEFINE c == with_rows(st, t, EmptyMap)
    <3>1. /\ StorageType(c) /\ c.tables = [st.tables EXCEPT ![t] = EmptyMap]
          /\ c.next_ids = st.next_ids
      BY <2>1, EmptyRows, ReplaceRows
    <3>2. cleared = c
      BY <2>1
    <3>3. DOMAIN c.tables = DOMAIN st.tables /\ c.tables[t] = EmptyMap
      BY <2>1, <3>1 DEF StorageType
    <3>4. \A u \in DOMAIN st.tables : u # t => c.tables[u] = st.tables[u]
      BY <3>1 DEF StorageType
    <3> HIDE DEF c, cleared
    <3> QED
      BY <2>1, <3>1, <3>2, <3>3, <3>4 DEF rows_of
  <2>2. CASE t \notin DOMAIN st.tables
    BY <2>2 DEF rows_of
  <2> QED
    BY <2>1, <2>2
<1>3. /\ IsRowMap(m) /\ row_set(m) = {x[2] : x \in R}
      /\ R = {} => DOMAIN m = {}
  BY MapOfRows DEF map_of
<1> DEFINE n == st.next_ids[t]
<1>4. n \in Nat \ {0}
  BY DEF StorageType
<1>5. /\ next_after(n, R) \in Nat \ {0}
      /\ \A id \in DOMAIN m : id < next_after(n, R)
  BY <1>4, NextAfter
<1> HIDE DEF cleared, n
<1>6. CASE R = {}
  <2>1. r = cleared
    BY <1>1, <1>6
  <2>2. row_set(rows_of(r, t)) = {}
    BY <1>2, <2>1, EmptyRows
  <2>3. \A u \in Tables : u # t => rows_of(r, u) = rows_of(st, u)
    BY <1>2, <2>1 DEF rows_of
  <2>4. ids_below(r)
    <3> SUFFICES ASSUME NEW u \in DOMAIN r.tables, NEW id \in DOMAIN r.tables[u]
                 PROVE  id < r.next_ids[u]
      BY DEF ids_below
    <3>1. u # t
      BY <1>2, <2>1, EmptyRows DEF rows_of
    <3> QED
      BY <1>2, <2>1, <3>1 DEF ids_below
  <2> QED
    BY <1>2, <1>6, <2>1, <2>2, <2>3, <2>4
<1>7. CASE R # {}
  <2>1. /\ r.tables = put(cleared.tables, t, over(m, rows_of(cleared, t)))
        /\ r.next_ids = [cleared.next_ids EXCEPT ![t] = next_after(@, R)]
        /\ r.index_data = cleared.index_data
        /\ DOMAIN r = DOMAIN cleared
    BY <1>1, <1>2, <1>7
       DEF insert_rows_with_ids, StorageType, map_of, next_after
  <2>2. over(m, rows_of(cleared, t)) = m
    <3>1. m = [k \in DOMAIN m |-> m[k]]
      BY <1>3 DEF IsRowMap
    <3> HIDE DEF m
    <3> QED
      BY <1>2, <3>1, EmptyRows DEF over
  <2> HIDE DEF m
  <2>3. r.tables = put(cleared.tables, t, m)
    BY <2>1, <2>2
  <2>4. /\ DOMAIN r.tables = DOMAIN st.tables \cup {t}
        /\ r.tables = [u \in DOMAIN r.tables |-> r.tables[u]]
        /\ r.tables[t] = m
        /\ \A u \in DOMAIN st.tables : u # t => r.tables[u] = st.tables[u]
    BY <1>2, <2>3 DEF put
  <2>5. r.next_ids = [st.next_ids EXCEPT ![t] = next_after(n, R)]
    BY <1>2, <2>1 DEF n
  <2>6. r.next_ids \in [Tables -> Nat \ {0}]
    BY <1>5, <2>5 DEF StorageType
  <2>7. StorageType(r)
    BY <1>2, <1>3, <2>1, <2>4, <2>6 DEF StorageType
  <2>8. ids_below(r)
    <3> SUFFICES ASSUME NEW u \in DOMAIN r.tables, NEW id \in DOMAIN r.tables[u]
                 PROVE  id < r.next_ids[u]
      BY DEF ids_below
    <3>1. CASE u = t
      <4>1. id \in DOMAIN m /\ r.next_ids[t] = next_after(n, R)
        BY <2>4, <2>5, <3>1 DEF StorageType
      <4> QED
        BY <1>5, <3>1, <4>1
    <3>2. CASE u # t
      BY <2>4, <2>5, <3>2 DEF ids_below, StorageType
    <3> QED
      BY <3>1, <3>2
  <2>9. \A u \in Tables : u # t => rows_of(r, u) = rows_of(st, u)
    BY <2>4 DEF rows_of
  <2>10. rows_of(r, t) = m
    BY <2>4 DEF rows_of
  <2> QED
    BY <1>3, <2>7, <2>8, <2>9, <2>10
<1> QED
  BY <1>6, <1>7

\* The rows of an InsertRows entry are added to those of the table.
LEMMA InsertRowsSet ==
  ASSUME NEW st, StorageType(st), ids_below(st), NEW t \in Tables,
         NEW rs \in Seq(Row), NEW r, r = insert_new_rows(st, t, rs)
  PROVE  /\ StorageType(r) /\ ids_below(r)
         /\ row_set(rows_of(r, t)) =
              row_set(rows_of(st, t)) \cup {rs[i] : i \in 1 .. Len(rs)}
         /\ \A u \in Tables : u # t => rows_of(r, u) = rows_of(st, u)
<1> DEFINE n   == st.next_ids[t]
           new == [id \in new_ids(st, t, Len(rs)) |-> rs[id - n + 1]]
           m   == over(new, rows_of(st, t))
<1>1. /\ StorageType(r)
      /\ r.next_ids = [st.next_ids EXCEPT ![t] = @ + Len(rs)]
      /\ DOMAIN r.tables = DOMAIN st.tables \cup {t}
      /\ \A u \in DOMAIN st.tables : u # t => r.tables[u] = st.tables[u]
      /\ DOMAIN r.tables[t] = DOMAIN rows_of(st, t) \cup new_ids(st, t, Len(rs))
  BY InsertNewRows
<1>2. n \in Nat \ {0} /\ Len(rs) \in Nat
  BY DEF StorageType
<1>3. \A id \in DOMAIN rows_of(st, t) : id \in Nat /\ id < n
  <2>1. t \in DOMAIN st.tables => \A id \in DOMAIN st.tables[t] : id < n
    BY DEF ids_below
  <2>2. IsRowMap(rows_of(st, t))
    BY RowsOfType
  <2> QED
    BY <2>1, <2>2, EmptyRows DEF rows_of, IsRowMap, RowId
<1>4. r.tables[t] = m
  BY DEF insert_new_rows, put, StorageType
<1>5. rows_of(r, t) = m
  BY <1>1, <1>4 DEF rows_of
<1>6. DOMAIN new = n .. n + Len(rs) - 1
  BY DEF new_ids
<1>7. /\ \A id \in DOMAIN rows_of(st, t) :
           id \in DOMAIN m /\ m[id] = rows_of(st, t)[id]
      /\ \A i \in 1 .. Len(rs) :
           n + i - 1 \in DOMAIN m /\ m[n + i - 1] = rs[i]
      /\ \A id \in DOMAIN m :
           \/ id \in DOMAIN rows_of(st, t) /\ m[id] = rows_of(st, t)[id]
           \/ id - n + 1 \in 1 .. Len(rs) /\ m[id] = rs[id - n + 1]
  <2>1. \A id \in DOMAIN rows_of(st, t) : id \notin DOMAIN new
    BY <1>2, <1>3, <1>6
  <2>2. \A i \in 1 .. Len(rs) : /\ n + i - 1 \in DOMAIN new
                                /\ (n + i - 1) - n + 1 = i
    BY <1>2, <1>6
  <2>3. \A id \in DOMAIN new : id - n + 1 \in 1 .. Len(rs)
    BY <1>2, <1>6
  <2>4. DOMAIN m = DOMAIN new \cup DOMAIN rows_of(st, t)
    BY DEF over
  <2>5. \A id \in DOMAIN new : m[id] = rs[id - n + 1]
    BY DEF over
  <2>6. \A id \in DOMAIN rows_of(st, t) : id \notin DOMAIN new
                                            => m[id] = rows_of(st, t)[id]
    BY DEF over
  <2> HIDE DEF m, new
  <2> QED
    BY <2>1, <2>2, <2>3, <2>4, <2>5, <2>6
<1> HIDE DEF m
<1>8. row_set(m) = row_set(rows_of(st, t)) \cup {rs[i] : i \in 1 .. Len(rs)}
  <2>1. ASSUME NEW x \in row_set(m)
        PROVE  x \in row_set(rows_of(st, t)) \cup {rs[i] : i \in 1 .. Len(rs)}
    <3>1. PICK id \in DOMAIN m : x = m[id]
      BY <2>1 DEF row_set
    <3>2. CASE id \in DOMAIN rows_of(st, t) /\ m[id] = rows_of(st, t)[id]
      BY <3>1, <3>2 DEF row_set
    <3>3. CASE id - n + 1 \in 1 .. Len(rs) /\ m[id] = rs[id - n + 1]
      BY <3>1, <3>3
    <3> QED
      BY <1>7, <3>2, <3>3
  <2>2. row_set(rows_of(st, t)) \subseteq row_set(m)
    BY <1>7 DEF row_set
  <2>3. {rs[i] : i \in 1 .. Len(rs)} \subseteq row_set(m)
    BY <1>7 DEF row_set
  <2> QED
    BY <2>1, <2>2, <2>3
<1>9. ids_below(r)
  <2> SUFFICES ASSUME NEW u \in DOMAIN r.tables, NEW id \in DOMAIN r.tables[u]
               PROVE  id < r.next_ids[u]
    BY DEF ids_below
  <2>1. CASE u = t
    <3>1. id \in DOMAIN rows_of(st, t) \/ id \in n .. n + Len(rs) - 1
      BY <1>1, <2>1 DEF new_ids
    <3>2. r.next_ids[t] = n + Len(rs)
      BY <1>1 DEF StorageType
    <3> QED
      BY <1>2, <1>3, <2>1, <3>1, <3>2
  <2>2. CASE u # t
    BY <1>1, <2>2 DEF ids_below, StorageType
  <2> QED
    BY <2>1, <2>2
<1>10. \A u \in Tables : u # t => rows_of(r, u) = rows_of(st, u)
  BY <1>1 DEF rows_of
<1> QED
  BY <1>1, <1>5, <1>8, <1>9, <1>10

\* What an entry may be, and its fields
LEMMA EntryFields ==
  ASSUME NEW e \in Entry, e.type # "Torn"
  PROVE  /\ e.type \in {"CreateTable", "DropTable", "InsertRows",
                        "TableSnapshot", "CreateIndex", "DropIndex"}
         /\ e.tbl \in Tables
         /\ e.type = "InsertRows" => e.rows \in Seq(Row)
         /\ e.type = "TableSnapshot" => e.rows \in RowVec
         /\ e.type = "CreateIndex" => e.db \in DBs /\ e.def \in IndexDef
         /\ e.type = "DropIndex" => e.db \in DBs /\ e.name \in IndexNames
  BY DEF Entry, WholeEntry, TornEntry

\* A torn entry is an entry, and what it is completed to is a whole one.
LEMMA TornFields ==
  /\ \A e \in TornEntry :
       e \in Entry /\ e.type = "Torn" /\ e.makes \in WholeEntry \cup {Nothing}
  /\ \A e \in Entry : e.type = "Torn" => e \in TornEntry
  /\ \A e \in WholeEntry : e \in Entry /\ e.type # "Torn"
<1>1. \A e \in WholeEntry : e.type # "Torn"
  BY DEF WholeEntry
<1>2. \A e \in TornEntry :
        e.type = "Torn" /\ e.makes \in WholeEntry \cup {Nothing}
  BY DEF TornEntry
<1> QED
  BY <1>1, <1>2 DEF Entry

\* What apply_entry does, by the type of the entry.
LEMMA ApplyEntry ==
  ASSUME NEW cs, cs = [catalog |-> cs.catalog, storage |-> cs.storage], NEW e
  PROVE  /\ e.type = "CreateTable" =>
              apply_entry(cs, e) = apply_create_table(cs, e.tbl)
         /\ e.type = "DropTable" =>
              apply_entry(cs, e) = apply_drop_table(cs, e.tbl)
         /\ e.type = "InsertRows" =>
              apply_entry(cs, e) =
                [catalog |-> cs.catalog,
                 storage |-> insert_new_rows(cs.storage, e.tbl, e.rows)]
         /\ e.type = "TableSnapshot" =>
              apply_entry(cs, e) =
                [catalog |-> cs.catalog,
                 storage |-> apply_snapshot(cs.storage, e.tbl, e.rows)]
         /\ e.type = "CreateIndex" =>
              apply_entry(cs, e) =
                [catalog |-> apply_create_index(cs.catalog, e.db, e.tbl, e.def),
                 storage |-> cs.storage]
         /\ e.type = "DropIndex" =>
              apply_entry(cs, e) =
                [catalog |-> apply_drop_index(cs.catalog, e.db, e.tbl, e.name),
                 storage |-> cs.storage]
<1>1. \A x : [cs EXCEPT !.storage = x] = [catalog |-> cs.catalog, storage |-> x]
  OBVIOUS
<1>2. \A x : [cs EXCEPT !.catalog = x] = [catalog |-> x, storage |-> cs.storage]
  OBVIOUS
<1>3. CASE e.type = "CreateTable"
  BY <1>3 DEF apply_entry
<1>4. CASE e.type = "DropTable"
  BY <1>4 DEF apply_entry
<1>5. CASE e.type = "InsertRows"
  BY <1>1, <1>5 DEF apply_entry
<1>6. CASE e.type = "TableSnapshot"
  BY <1>1, <1>6 DEF apply_entry
<1>7. CASE e.type = "CreateIndex"
  BY <1>2, <1>7 DEF apply_entry
<1>8. CASE e.type = "DropIndex"
  BY <1>2, <1>8 DEF apply_entry
<1> QED
  BY <1>3, <1>4, <1>5, <1>6, <1>7, <1>8

\* An entry leaves catalog and storage in order and the databases alone.
LEMMA EntryInOrder ==
  ASSUME NEW cs, InOrder(cs), NEW e \in Entry, e.type # "Torn"
  PROVE  /\ InOrder(apply_entry(cs, e))
         /\ apply_entry(cs, e).catalog.dbs = cs.catalog.dbs
<1> DEFINE r  == apply_entry(cs, e)
           c  == cs.catalog
           st == cs.storage
<1>1. /\ cs = [catalog |-> c, storage |-> st]
      /\ c \in CatalogType /\ WellFormed(c) /\ StorageType(st) /\ ids_below(st)
  BY DEF InOrder
<1>2. /\ e.type \in {"CreateTable", "DropTable", "InsertRows",
                     "TableSnapshot", "CreateIndex", "DropIndex"}
      /\ e.tbl \in Tables
  BY EntryFields
<1>3. DefaultDb \in DBs
  BY TypesAssumption
<1>4. \A x, y : /\ x \in CatalogType /\ WellFormed(x)
                /\ StorageType(y) /\ ids_below(y)
                => InOrder([catalog |-> x, storage |-> y])
  BY DEF InOrder
<1>5. CASE e.type = "CreateTable"
  <2> DEFINE new == create_table(c, DefaultDb, e.tbl)
  <2>1. r = IF create_table_ok(c, DefaultDb, e.tbl)
            THEN [catalog |-> new, storage |-> st] ELSE cs
    BY <1>1, <1>5, ApplyEntry DEF apply_create_table
  <2>2. create_table_ok(c, DefaultDb, e.tbl)
          => new \in CatalogType /\ WellFormed(new)
    BY <1>1, <1>2, <1>3, CreateTableType, CreateTableWellFormed
  <2>3. new.dbs = c.dbs
    BY <1>1 DEF create_table, CatalogType
  <2> HIDE DEF new, r, c, st
  <2> QED
    BY <1>1, <1>4, <2>1, <2>2, <2>3 DEF c, r, st
<1>6. CASE e.type = "DropTable"
  <2> DEFINE new == drop_table(c, DefaultDb, e.tbl)
             rest == clear_table(st, e.tbl)
  <2>1. r = IF drop_table_ok(c, DefaultDb, e.tbl)
            THEN [catalog |-> new, storage |-> rest] ELSE cs
    BY <1>1, <1>6, ApplyEntry DEF apply_drop_table
  <2>2. new \in CatalogType /\ WellFormed(new)
    BY <1>1, <1>2, <1>3, DropTableType, DropTableWellFormed
  <2>3. new.dbs = c.dbs
    BY <1>1 DEF drop_table, CatalogType
  <2>4. /\ StorageType(rest)
        /\ DOMAIN rest.tables = DOMAIN st.tables \ {e.tbl}
        /\ \A u \in DOMAIN rest.tables : rest.tables[u] = st.tables[u]
        /\ rest.next_ids = [st.next_ids EXCEPT ![e.tbl] = 1]
    BY <1>1, <1>2, ClearTable
  <2>5. ids_below(rest)
    BY <1>1, <2>4 DEF ids_below, StorageType
  <2> HIDE DEF new, rest, r, c, st
  <2> QED
    BY <1>1, <1>4, <2>1, <2>2, <2>3, <2>4, <2>5 DEF c, r, st
<1>7. CASE e.type = "InsertRows"
  <2> DEFINE new == insert_new_rows(st, e.tbl, e.rows)
  <2>1. r = [catalog |-> c, storage |-> new]
    BY <1>1, <1>7, ApplyEntry
  <2>2. e.rows \in Seq(Row)
    BY <1>7, EntryFields
  <2>3. StorageType(new) /\ ids_below(new)
    BY <1>1, <1>2, <2>2, InsertRowsSet
  <2> HIDE DEF new, r, c, st
  <2> QED
    BY <1>1, <1>4, <2>1, <2>3 DEF c, r
<1>8. CASE e.type = "TableSnapshot"
  <2> DEFINE new == apply_snapshot(st, e.tbl, e.rows)
  <2>1. r = [catalog |-> c, storage |-> new]
    BY <1>1, <1>8, ApplyEntry
  <2>2. e.rows \in RowVec
    BY <1>8, EntryFields
  <2>3. StorageType(new) /\ ids_below(new)
    BY <1>1, <1>2, <2>2, SnapshotRows
  <2> HIDE DEF new, r, c, st
  <2> QED
    BY <1>1, <1>4, <2>1, <2>3 DEF c, r
<1>9. CASE e.type = "CreateIndex"
  <2> DEFINE new == apply_create_index(c, e.db, e.tbl, e.def)
  <2>1. r = [catalog |-> new, storage |-> st]
    BY <1>1, <1>9, ApplyEntry
  <2>2. e.db \in DBs /\ e.def \in IndexDef
    BY <1>9, EntryFields
  <2>3. new \in CatalogType /\ WellFormed(new)
    BY <1>1, <1>2, <2>2, CreateIndexType, CreateIndexWellFormed
       DEF apply_create_index
  <2>4. new.dbs = c.dbs
    BY <1>1 DEF apply_create_index, create_index, CatalogType
  <2> HIDE DEF new, r, c, st
  <2> QED
    BY <1>1, <1>4, <2>1, <2>3, <2>4 DEF c, r
<1>10. CASE e.type = "DropIndex"
  <2> DEFINE new == apply_drop_index(c, e.db, e.tbl, e.name)
  <2>1. r = [catalog |-> new, storage |-> st]
    BY <1>1, <1>10, ApplyEntry
  <2>2. e.db \in DBs /\ e.name \in IndexNames
    BY <1>10, EntryFields
  <2>3. new \in CatalogType /\ WellFormed(new)
    BY <1>1, <1>2, <2>2, DropIndexType, DropIndexWellFormed
       DEF apply_drop_index
  <2>4. new.dbs = c.dbs
    BY <1>1 DEF apply_drop_index, drop_index, CatalogType
  <2> HIDE DEF new, r, c, st
  <2> QED
    BY <1>1, <1>4, <2>1, <2>3, <2>4 DEF c, r
<1> QED
  BY <1>2, <1>5, <1>6, <1>7, <1>8, <1>9, <1>10

\* So does what a replay makes of the n-th entry of a log, torn or not.
LEMMA EffectInOrder ==
  ASSUME NEW cs, InOrder(cs), NEW log, NEW n, log[n] \in Entry
  PROVE  /\ InOrder(effect(cs, log, n))
         /\ effect(cs, log, n).catalog.dbs = cs.catalog.dbs
<1> DEFINE e == log[n]
<1>1. CASE e.type # "Torn"
  <2>1. effect(cs, log, n) = apply_entry(cs, e)
    BY <1>1 DEF effect
  <2> HIDE DEF e
  <2> QED
    BY <1>1, <2>1, EntryInOrder DEF e
<1>2. CASE e.type = "Torn"
  <2> DEFINE f == e.makes
  <2>1. f = Nothing \/ (f \in Entry /\ f.type # "Torn")
    BY <1>2, TornFields
  <2>2. \/ effect(cs, log, n) = cs
        \/ f # Nothing /\ effect(cs, log, n) = apply_entry(cs, f)
    BY <1>2 DEF effect
  <2> HIDE DEF e, f
  <2> QED
    BY <2>1, <2>2, EntryInOrder
<1> QED
  BY <1>1, <1>2

\* And a replay of any log.
LEMMA ReplayInOrder ==
  ASSUME NEW cs, InOrder(cs), NEW log \in Seq(Entry)
  PROVE  InOrder(replay(cs, log)) /\ replay(cs, log).catalog.dbs = cs.catalog.dbs
<1> DEFINE k == Len(log)
<1>1. k \in Nat /\ \A i \in 1 .. k : log[i] \in Entry
  OBVIOUS
<1> HIDE DEF k
<1>2. PICK w : Walks(w, cs, log, k) /\ walk(cs, log) = w[k]
  BY <1>1, WalkIs DEF k
<1>3. /\ w[0] = [cs |-> cs, next |-> 1]
      /\ \A n \in 1 .. k :
           w[n] = IF w[n - 1].next = n
                  THEN [cs   |-> effect(w[n - 1].cs, log, n),
                        next |-> behind(log, n)]
                  ELSE w[n - 1]
  BY <1>1, <1>2, WalkSteps
<1> DEFINE S == {n \in Nat : n <= k => /\ InOrder(w[n].cs)
                                       /\ w[n].cs.catalog.dbs = cs.catalog.dbs}
<1>4. 0 \in S
  BY <1>3
<1>5. ASSUME NEW n \in Nat, n \in S
      PROVE  n + 1 \in S
  <2> SUFFICES ASSUME n + 1 <= k
               PROVE  /\ InOrder(w[n + 1].cs)
                      /\ w[n + 1].cs.catalog.dbs = cs.catalog.dbs
    OBVIOUS
  <2>1. n + 1 \in 1 .. k /\ n + 1 - 1 = n /\ n <= k
    BY <1>1
  <2>2. w[n + 1].cs = w[n].cs \/ w[n + 1].cs = effect(w[n].cs, log, n + 1)
    <3>1. w[n + 1] = IF w[n].next = n + 1
                     THEN [cs   |-> effect(w[n].cs, log, n + 1),
                           next |-> behind(log, n + 1)]
                     ELSE w[n]
      BY <1>3, <2>1
    <3>2. CASE w[n].next = n + 1
      <4>1. w[n + 1] = [cs   |-> effect(w[n].cs, log, n + 1),
                        next |-> behind(log, n + 1)]
        BY <3>1, <3>2
      <4> QED
        BY <4>1
    <3>3. CASE w[n].next # n + 1
      BY <3>1, <3>3
    <3> QED
      BY <3>2, <3>3
  <2>3. /\ log[n + 1] \in Entry
        /\ InOrder(w[n].cs) /\ w[n].cs.catalog.dbs = cs.catalog.dbs
    BY <1>1, <1>5, <2>1
  <2> QED
    BY <2>2, <2>3, EffectInOrder
<1>6. k \in S
  <2> HIDE DEF S
  <2>1. Nat \subseteq S
    BY <1>4, <1>5, NatSetInduction
  <2> QED
    BY <1>1, <2>1
<1> QED
  BY <1>1, <1>2, <1>6 DEF replay

-----------------------------------------------------------------------------
(* What a start makes of the files.                                         *)

\* A start before it has built the indexes
started(d) == IF d.catalog = NoFile THEN fresh ELSE replay(loaded_of(d), d.wal)

\* A server that has never run is in order and has no rows.
LEMMA FreshInOrder ==
  InOrder(fresh) /\ \A t \in Tables : row_set(rows_of(new_storage, t)) = {}
<1>1. new_storage.tables = EmptyMap
  BY DEF new_storage
<1>2. DOMAIN new_storage.tables = {}
  BY <1>1, EmptyRows
<1>3. ids_below(new_storage) /\ \A t : rows_of(new_storage, t) = EmptyMap
  BY <1>2 DEF ids_below, rows_of
<1> QED
  BY <1>3, NewCatalog, NewStorageType, EmptyRows DEF InOrder, fresh

\* A table file is loaded when the catalog has its table.
LEMMA LoadTables ==
  ASSUME NEW c \in CatalogType, NEW files \in [Tables -> {NoFile} \cup RowVec],
         NEW st, st = load_tables(c, files)
  PROVE  /\ StorageType(st) /\ ids_below(st)
         /\ \A t \in Tables : row_set(rows_of(st, t)) =
              IF \E dt \in c.tables : dt[2] = t THEN file_rows(files[t]) ELSE {}
<1> DEFINE named  == {dt[2] : dt \in c.tables}
           loaded == {t \in named : files[t] # NoFile}
           nexts  == [t \in Tables |-> IF t \in loaded
                                       THEN next_after(1, files[t]) ELSE 1]
           maps   == [t \in loaded |-> map_of(files[t])]
<1>1. st = [new_storage EXCEPT !.tables = maps, !.next_ids = nexts]
  BY DEF load_tables, map_of, next_after
<1>2. named \subseteq Tables
  BY DEF CatalogType
<1>3. \A t \in loaded : t \in Tables /\ files[t] \in RowVec
  BY <1>2
<1>4. \A t \in named : t \notin loaded <=> files[t] = NoFile
  OBVIOUS
<1>5. \A t : t \in named <=> \E dt \in c.tables : dt[2] = t
  OBVIOUS
<1> HIDE DEF named, loaded
<1>6. /\ st.tables = maps /\ st.next_ids = nexts
      /\ st.index_data = EmptyMap
      /\ DOMAIN st = {"tables", "next_ids", "index_data"}
  BY <1>1 DEF new_storage
<1>7. \A t \in loaded :
        /\ IsRowMap(maps[t])
        /\ row_set(maps[t]) = {r[2] : r \in files[t]}
        /\ nexts[t] \in Nat \ {0}
        /\ \A id \in DOMAIN maps[t] : id < nexts[t]
  <2> SUFFICES ASSUME NEW t \in loaded
               PROVE  /\ IsRowMap(maps[t])
                      /\ row_set(maps[t]) = {r[2] : r \in files[t]}
                      /\ nexts[t] \in Nat \ {0}
                      /\ \A id \in DOMAIN maps[t] : id < nexts[t]
    OBVIOUS
  <2>1. t \in Tables /\ files[t] \in RowVec /\ 1 \in Nat \ {0}
    BY <1>3
  <2>2. maps[t] = map_of(files[t]) /\ nexts[t] = next_after(1, files[t])
    BY <2>1
  <2> DEFINE R == files[t]
  <2> HIDE DEF maps, nexts, R
  <2>3. IsRowMap(map_of(R)) /\ row_set(map_of(R)) = {r[2] : r \in R}
    BY <2>1, MapOfRows DEF R
  <2>4. /\ next_after(1, R) \in Nat \ {0}
        /\ \A id \in DOMAIN map_of(R) : id < next_after(1, R)
    BY <2>1, NextAfter DEF R
  <2> QED
    BY <2>2, <2>3, <2>4 DEF R
<1>8. nexts \in [Tables -> Nat \ {0}]
  <2>0. \A t \in Tables : t \notin loaded => nexts[t] = 1
    OBVIOUS
  <2>1. \A t \in Tables : nexts[t] \in Nat \ {0}
    <3> HIDE DEF nexts
    <3> QED
      BY <1>7, <2>0
  <2> QED
    BY <2>1
<1>9. StorageType(st)
  <2>1. /\ DOMAIN maps = loaded /\ loaded \subseteq Tables
        /\ maps = [t \in DOMAIN maps |-> maps[t]]
    BY <1>3
  <2>2. DOMAIN st.index_data = {} /\ st.index_data = [k \in DOMAIN st.index_data |->
                                                        st.index_data[k]]
    BY <1>6 DEF EmptyMap
  <2> HIDE DEF maps, nexts
  <2> QED
    BY <1>6, <1>7, <1>8, <2>1, <2>2 DEF StorageType
<1>10. ids_below(st)
  BY <1>3, <1>6, <1>7 DEF ids_below
<1>11. ASSUME NEW t \in Tables
       PROVE  row_set(rows_of(st, t)) =
                IF t \in named THEN file_rows(files[t]) ELSE {}
  <2>1. CASE t \in loaded
    <3>1. rows_of(st, t) = maps[t]
      BY <1>6, <2>1 DEF rows_of
    <3>2. t \in named /\ files[t] # NoFile
      BY <2>1 DEF loaded
    <3> HIDE DEF maps
    <3> QED
      BY <1>7, <2>1, <3>1, <3>2 DEF file_rows
  <2>2. CASE t \notin loaded
    <3>1. rows_of(st, t) = EmptyMap
      BY <1>6, <2>2 DEF rows_of
    <3> QED
      BY <1>4, <2>2, <3>1, EmptyRows DEF file_rows
  <2> QED
    BY <2>1, <2>2
<1> QED
  BY <1>5, <1>9, <1>10, <1>11

\* A start gives a catalog and a storage that are in order, from any files.
LEMMA RecoverInOrder ==
  ASSUME NEW d \in DiskType, FiledWellFormed(d)
  PROVE  /\ InOrder(started(d))
         /\ InOrder(recover(d))
         /\ recover(d).catalog = started(d).catalog
         /\ recover(d).storage.tables = started(d).storage.tables
<1> DEFINE cs == started(d)
<1>1. /\ d.wal \in Seq(Entry)
      /\ d.tables \in [Tables -> {NoFile} \cup RowVec]
      /\ d.catalog # NoFile => d.catalog \in CatalogType
  BY DEF DiskType
<1>2. InOrder(fresh)
  BY FreshInOrder
<1>3. d.catalog # NoFile => InOrder(loaded_of(d))
  BY <1>1, LoadTables DEF FiledWellFormed, InOrder, loaded_of
<1>4. InOrder(cs)
  BY <1>1, <1>2, <1>3, ReplayInOrder DEF started
<1>5. recover(d) = [cs EXCEPT !.storage = rebuild_indexes(cs.catalog, @)]
  BY DEF recover, started, loaded_of, fresh
<1> HIDE DEF cs
<1>6. recover(d) = [catalog |-> cs.catalog,
                    storage |-> rebuild_indexes(cs.catalog, cs.storage)]
  BY <1>4, <1>5 DEF InOrder
<1> DEFINE st == rebuild_indexes(cs.catalog, cs.storage)
<1>7. /\ StorageType(st) /\ st.tables = cs.storage.tables
      /\ st.next_ids = cs.storage.next_ids
  BY <1>4, RebuildIndexesType DEF InOrder
<1> HIDE DEF st
<1>8. ids_below(st)
  BY <1>4, <1>7 DEF InOrder, ids_below
<1> QED
  BY <1>4, <1>6, <1>7, <1>8 DEF InOrder, cs, st

\* An append that a crash cuts short changes nothing of what a start finds,
\* unless it completes one that an earlier crash cut short.
LEMMA TornRecover ==
  ASSUME NEW d \in DiskType, NEW e \in TornEntry, ~Completes(d.wal)
  PROVE  recover([d EXCEPT !.wal = Append(@, e)]) = recover(d)
<1> DEFINE x == [d EXCEPT !.wal = Append(@, e)]
<1>1. /\ d.wal \in Seq(Entry)
      /\ x.wal = Append(d.wal, e) /\ x.catalog = d.catalog
      /\ x.tables = d.tables
  BY DEF DiskType
<1>2. replay(loaded_of(d), x.wal) = replay(loaded_of(d), d.wal)
  <2> HIDE DEF x
  <2> QED
    BY <1>1, ReplayTorn
<1> HIDE DEF x
<1>3. started(x) = started(d)
  BY <1>1, <1>2 DEF started, loaded_of
<1>4. \A y : recover(y) = [started(y) EXCEPT !.storage =
                             rebuild_indexes(started(y).catalog, @)]
  BY DEF recover, started, loaded_of, fresh
<1> QED
  BY <1>3, <1>4 DEF x

-----------------------------------------------------------------------------
(* A server that crashes stays well typed and its catalog together: the     *)
(* inductive invariant says that what is in memory and in the files is in   *)
(* order, and that recovered is what a start makes of the files.            *)

RecoveryInv ==
  /\ TypeOK /\ CatalogWellFormed /\ IdsBelow
  /\ FiledWellFormed(disk)
  /\ recovered = recover(disk)

\* A server starts in order.
LEMMA RecoveryInitInv ==
  ASSUME RecoveryInit
  PROVE  RecoveryInv
<1>1. Init /\ TypeOK
  BY InitType DEF RecoveryInit
<1>2. CatalogWellFormed
  BY <1>1, ExecutorAssumption DEF Init, CatalogWellFormed
<1>3. IdsBelow
  <2>1. StorageType(new_storage) /\ DOMAIN new_storage.tables = {}
    BY NewStorageType DEF new_storage, EmptyMap
  <2> QED
    BY <1>1, <2>1, RebuildIndexesType, ExecutorAssumption DEF Init, IdsBelow
<1>4. FiledWellFormed(disk)
  BY <1>1, ExecutorAssumption DEF Init, FiledWellFormed
<1> QED
  BY <1>1, <1>2, <1>3, <1>4 DEF RecoveryInit, RecoveryInv

\* A step of a session files no catalog but the one in memory.
LEMMA StepFiled ==
  ASSUME RecoveryInv, [Next]_vars
  PROVE  FiledWellFormed(disk')
<1>1. CASE UNCHANGED vars
  BY <1>1 DEF vars, RecoveryInv
<1>2. ASSUME NEW s \in Sessions, Begin(s) \/ Step(s)
      PROVE  FiledWellFormed(disk')
  <2>1. SaveCatalog(s) \/ DropTableSave(s) \/ disk'.catalog = disk.catalog
    BY <1>2, CatalogFileSteps DEF RecoveryInv
  <2>2. \/ disk'.catalog = disk.catalog
        \/ disk' = save_catalog(disk, catalog)
    BY <2>1 DEF SaveCatalog, DropTableSave
  <2>3. disk \in DiskType /\ WellFormed(catalog) /\ FiledWellFormed(disk)
    BY DEF RecoveryInv, TypeOK, SharedType, CatalogWellFormed
  <2>4. save_catalog(disk, catalog).catalog = catalog
    BY <2>3 DEF save_catalog, DiskType
  <2> QED
    BY <2>2, <2>3, <2>4 DEF FiledWellFormed
<1> QED
  BY <1>1, <1>2 DEF Next, AllDone

\* A crash leaves the files, but for a torn entry at the end of the log, and
\* what a start finds in them unless this entry completes another.
LEMMA CrashFiles ==
  ASSUME RecoveryInv, CrashRestart
  PROVE  /\ disk' \in DiskType /\ FiledWellFormed(disk')
         /\ recovered' = recover(disk')
         /\ recovered' = recovered \/ Completes(disk.wal)
<1>1. disk \in DiskType /\ FiledWellFormed(disk) /\ recovered = recover(disk)
  BY DEF RecoveryInv, TypeOK, SharedType
<1>2. recovered' = recover(disk')
  BY <1>1 DEF CrashRestart, Recovered
<1>3. CASE UNCHANGED disk
  BY <1>1, <1>2, <1>3
<1>4. CASE TornAppend
  <2>1. PICK e \in TornEntry : Log(e)
    BY <1>4, RecoveryAssumption DEF TornAppend
  <2>2. disk' = [disk EXCEPT !.wal = Append(@, e)]
    BY <2>1 DEF Log
  <2>3. e \in Entry
    BY TornFields
  <2>4. disk' \in DiskType
    BY <1>1, <2>1, <2>3, LogType
  <2>5. recover(disk') = recover(disk) \/ Completes(disk.wal)
    BY <1>1, <2>2, TornRecover
  <2>6. FiledWellFormed(disk')
    BY <1>1, <2>2 DEF FiledWellFormed, DiskType
  <2> QED
    BY <1>1, <1>2, <2>4, <2>5, <2>6
<1> QED
  BY <1>3, <1>4 DEF CrashRestart

\* A start after a crash is in order.
LEMMA CrashInv ==
  ASSUME RecoveryInv, CrashRestart
  PROVE  RecoveryInv'
<1>1. /\ disk' \in DiskType /\ FiledWellFormed(disk')
      /\ recovered' = recover(disk')
  BY CrashFiles
<1>2. InOrder(recovered')
  BY <1>1, RecoverInOrder
<1>3. catalog' = recovered'.catalog /\ storage' = recovered'.storage
  BY DEF CrashRestart
<1>4. CatalogWellFormed' /\ IdsBelow'
  BY <1>2, <1>3 DEF InOrder, ids_below, CatalogWellFormed, IdsBelow
<1>5. SharedType'
  BY <1>1, <1>2, <1>3 DEF CrashRestart, InOrder, SharedType
<1>6. ControlType'
  BY LabelsOfOps DEF CrashRestart, RecoveryInv, TypeOK, ControlType
<1>7. LocalsType'
  BY DEF CrashRestart, LocalsType
<1>8. ResultType'
  BY Statuses DEF CrashRestart, ResultType
<1>9. issued' \in 0 .. MaxStatements
  BY DEF CrashRestart, RecoveryInv, TypeOK
<1> QED
  BY <1>1, <1>4, <1>5, <1>6, <1>7, <1>8, <1>9 DEF RecoveryInv, TypeOK

\* Every step keeps the server in order.
LEMMA RecoveryNextInv ==
  ASSUME RecoveryInv, [RecoveryNext]_rvars
  PROVE  RecoveryInv'
<1>1. CASE CrashRestart
  BY <1>1, CrashInv
<1>2. CASE [Next]_vars /\ Recovered
  <2>1. TypeOK' /\ CatalogWellFormed' /\ IdsBelow'
    BY <1>2, NextType, NextWellFormed, NextIdsBelow DEF RecoveryInv
  <2>2. FiledWellFormed(disk')
    BY <1>2, StepFiled
  <2>3. recovered' = recover(disk')
    BY <1>2 DEF Recovered, RecoveryInv
  <2> QED
    BY <2>1, <2>2, <2>3 DEF RecoveryInv
<1>3. CASE UNCHANGED rvars
  <2>1. UNCHANGED vars /\ recovered' = recovered /\ disk' = disk
    BY <1>3 DEF rvars, vars
  <2>2. [Next]_vars /\ Recovered
    BY <2>1 DEF Recovered
  <2> QED
    BY <1>2, <2>2
<1> QED
  BY <1>1, <1>2, <1>3 DEF RecoveryNext

\* The invariant holds.
LEMMA RecoveryInvHolds == RecoverySpec => []RecoveryInv
<1>1. RecoveryInit => RecoveryInv
  BY RecoveryInitInv
<1>2. RecoveryInv /\ [RecoveryNext]_rvars => RecoveryInv'
  BY RecoveryNextInv
<1> QED
  BY <1>1, <1>2, PTL DEF RecoverySpec

\* A server that crashes and starts again, between any two steps of its
\* sessions and in the middle of a log append, stays well typed.
THEOREM RecoveryTypeCorrect == RecoverySpec => []TypeOK
<1>1. RecoveryInv => TypeOK
  BY DEF RecoveryInv
<1> QED
  BY <1>1, RecoveryInvHolds, PTL

\* The catalog a start builds from the files holds together, and stays so.
THEOREM RecoveryWellFormed == RecoverySpec => []CatalogWellFormed
<1>1. RecoveryInv => CatalogWellFormed
  BY DEF RecoveryInv
<1> QED
  BY <1>1, RecoveryInvHolds, PTL

\* A crash in the middle of a log append changes what a restart finds only by
\* completing an append that an earlier crash cut short; any other crash
\* changes nothing of it (wal.rs:131-155).
THEOREM CrashesKeepContents == RecoverySpec => CrashKeepsContents
<1>1. RecoveryInv /\ [RecoveryNext]_rvars
        => [crashes' # crashes => \/ contents(recovered') = contents(recovered)
                                  \/ Completes(disk.wal)]_rvars
  <2> SUFFICES ASSUME RecoveryInv, RecoveryNext, crashes' # crashes
               PROVE  \/ contents(recovered') = contents(recovered)
                      \/ Completes(disk.wal)
    BY DEF rvars
  <2>1. CrashRestart
    BY DEF RecoveryNext
  <2> QED
    BY <2>1, CrashFiles
<1> QED
  BY <1>1, RecoveryInvHolds, PTL DEF RecoverySpec, CrashKeepsContents

-----------------------------------------------------------------------------
(* One database.  What an entry does to a table t of it: whether the table  *)
(* is there, its index definitions, and the set of its rows.                *)

on(e, type, t) == e.type = type /\ e.tbl = t

there_after(cs, e, t) ==
  on(e, "CreateTable", t) \/ (there(cs, t) /\ ~on(e, "DropTable", t))

defs_after(cs, e, t) ==
  IF on(e, "DropTable", t) THEN {}
  ELSE IF on(e, "CreateIndex", t)
       THEN IF there(cs, t) /\ \A d \in defs_in(cs, t) : d.name # e.def.name
            THEN defs_in(cs, t) \cup {e.def} ELSE defs_in(cs, t)
  ELSE IF on(e, "DropIndex", t)
       THEN {d \in defs_in(cs, t) : d.name # e.name}
  ELSE defs_in(cs, t)

rows_after(cs, e, t) ==
  IF on(e, "DropTable", t) /\ there(cs, t) THEN {}
  ELSE IF on(e, "InsertRows", t)
       THEN rows_in(cs, t) \cup {e.rows[i] : i \in 1 .. Len(e.rows)}
  ELSE IF on(e, "TableSnapshot", t) THEN {r[2] : r \in e.rows}
  ELSE rows_in(cs, t)

\* In order, and with its one database
Sound(cs) == InOrder(cs) /\ cs.catalog.dbs = {DefaultDb}

\* A table that is not there has no index definitions.
LEMMA NoTableNoDefs ==
  ASSUME OneDatabase, NEW cs, Sound(cs), NEW t \in Tables, ~there(cs, t)
  PROVE  defs_in(cs, t) = {}
<1>1. <<DefaultDb, t>> \in DBs \X Tables
  BY DEF OneDatabase
<1>2. WellFormed(cs.catalog)
  BY DEF Sound, InOrder
<1> QED
  BY <1>1, <1>2 DEF WellFormed, there, defs_in

\* The effect of an entry on a table
LEMMA EntryEffect ==
  ASSUME OneDatabase, NEW cs, Sound(cs), NEW e \in Entry, e.type # "Torn",
         NEW r, r = apply_entry(cs, e), NEW t \in Tables
  PROVE  /\ Sound(r)
         /\ there(r, t) <=> there_after(cs, e, t)
         /\ defs_in(r, t) = defs_after(cs, e, t)
         /\ rows_in(r, t) = rows_after(cs, e, t)
<1> DEFINE c  == cs.catalog
           st == cs.storage
           dt == <<DefaultDb, t>>
           on_dt == <<DefaultDb, e.tbl>>
<1>1. /\ cs = [catalog |-> c, storage |-> st]
      /\ c \in CatalogType /\ WellFormed(c) /\ StorageType(st) /\ ids_below(st)
      /\ c.dbs = {DefaultDb} /\ InOrder(cs)
  BY DEF Sound, InOrder
<1>2. /\ e.type \in {"CreateTable", "DropTable", "InsertRows",
                     "TableSnapshot", "CreateIndex", "DropIndex"}
      /\ e.tbl \in Tables
  BY EntryFields
<1>3. Sound(r)
  BY <1>1, EntryInOrder DEF Sound
<1>4. /\ dt \in DBs \X Tables /\ on_dt \in DBs \X Tables
      /\ dt = on_dt <=> e.tbl = t
  BY <1>2 DEF OneDatabase
<1>5. /\ c.indexes \in [DBs \X Tables -> SUBSET IndexDef]
      /\ c.tables \subseteq DBs \X Tables
  BY <1>1 DEF CatalogType
<1>6. CASE e.type = "CreateTable"
  <2> DEFINE new == create_table(c, DefaultDb, e.tbl)
  <2>1. r = IF on_dt \in c.tables THEN cs ELSE [catalog |-> new, storage |-> st]
    BY <1>1, <1>6, ApplyEntry
       DEF apply_create_table, create_table_ok, table_exists
  <2>2. new.tables = c.tables \cup {on_dt} /\ new.indexes = c.indexes
    BY <1>1 DEF create_table, CatalogType
  <2> HIDE DEF new
  <2>3. there(r, t) <=> there(cs, t) \/ e.tbl = t
    BY <1>4, <2>1, <2>2 DEF there
  <2>4. defs_in(r, t) = defs_in(cs, t) /\ rows_in(r, t) = rows_in(cs, t)
    BY <2>1, <2>2 DEF defs_in, rows_in
  <2> QED
    BY <1>3, <1>6, <2>3, <2>4
       DEF there_after, defs_after, rows_after, on
<1>7. CASE e.type = "DropTable"
  <2> DEFINE new  == drop_table(c, DefaultDb, e.tbl)
             rest == clear_table(st, e.tbl)
  <2>1. r = IF on_dt \in c.tables THEN [catalog |-> new, storage |-> rest]
                                  ELSE cs
    BY <1>1, <1>7, ApplyEntry
       DEF apply_drop_table, drop_table_ok, table_exists
  <2>2. /\ new.tables = c.tables \ {on_dt}
        /\ new.indexes = [c.indexes EXCEPT ![on_dt] = {}]
    BY <1>1 DEF drop_table, CatalogType
  <2>3. /\ StorageType(rest)
        /\ DOMAIN rest.tables = DOMAIN st.tables \ {e.tbl}
        /\ \A u \in DOMAIN rest.tables : rest.tables[u] = st.tables[u]
        /\ rest.next_ids = [st.next_ids EXCEPT ![e.tbl] = 1]
    BY <1>1, <1>2, ClearTable
  <2>4. rows_of(rest, t) = IF e.tbl = t THEN EmptyMap ELSE rows_of(st, t)
    <3> HIDE DEF rest
    <3> QED
      BY <2>3 DEF rows_of
  <2> HIDE DEF new, rest
  <2>5. CASE on_dt \in c.tables
    <3>1. there(r, t) <=> there(cs, t) /\ e.tbl # t
      BY <1>4, <2>1, <2>2, <2>5 DEF there
    <3>2. defs_in(r, t) = IF e.tbl = t THEN {} ELSE defs_in(cs, t)
      <4>1. new.indexes[dt] = IF dt = on_dt THEN {} ELSE c.indexes[dt]
        <5> HIDE DEF dt, on_dt
        <5> QED
          BY <1>4, <1>5, <2>2
      <4>2. r.catalog = new
        BY <2>1, <2>5
      <4> QED
        BY <1>4, <4>1, <4>2 DEF defs_in
    <3>3. rows_in(r, t) = IF e.tbl = t THEN {} ELSE rows_in(cs, t)
      BY <2>1, <2>4, <2>5, EmptyRows DEF rows_in
    <3>4. e.tbl = t => there(cs, t)
      BY <2>5 DEF there
    <3> QED
      BY <1>3, <1>7, <3>1, <3>2, <3>3, <3>4
         DEF there_after, defs_after, rows_after, on
  <2>6. CASE on_dt \notin c.tables
    <3>1. r = cs /\ (e.tbl = t => ~there(cs, t))
      BY <2>1, <2>6 DEF there
    <3>2. e.tbl = t => defs_in(cs, t) = {}
      BY <3>1, NoTableNoDefs
    <3> QED
      BY <1>3, <1>7, <3>1, <3>2
         DEF there_after, defs_after, rows_after, on
  <2> QED
    BY <2>5, <2>6
<1>8. CASE e.type = "InsertRows"
  <2> DEFINE new == insert_new_rows(st, e.tbl, e.rows)
  <2>1. r = [catalog |-> c, storage |-> new]
    BY <1>1, <1>8, ApplyEntry
  <2>2. e.rows \in Seq(Row)
    BY <1>8, EntryFields
  <2>3. /\ row_set(rows_of(new, e.tbl)) = row_set(rows_of(st, e.tbl))
             \cup {e.rows[i] : i \in 1 .. Len(e.rows)}
        /\ \A u \in Tables : u # e.tbl => rows_of(new, u) = rows_of(st, u)
    BY <1>1, <1>2, <2>2, InsertRowsSet
  <2> HIDE DEF new
  <2>4. rows_in(r, t) =
          IF e.tbl = t
          THEN rows_in(cs, t) \cup {e.rows[i] : i \in 1 .. Len(e.rows)}
          ELSE rows_in(cs, t)
    BY <2>1, <2>3 DEF rows_in
  <2>5. (there(r, t) <=> there(cs, t)) /\ defs_in(r, t) = defs_in(cs, t)
    BY <2>1 DEF there, defs_in
  <2> QED
    BY <1>3, <1>8, <2>4, <2>5 DEF there_after, defs_after, rows_after, on
<1>9. CASE e.type = "TableSnapshot"
  <2> DEFINE new == apply_snapshot(st, e.tbl, e.rows)
  <2>1. r = [catalog |-> c, storage |-> new]
    BY <1>1, <1>9, ApplyEntry
  <2>2. e.rows \in RowVec
    BY <1>9, EntryFields
  <2>3. /\ row_set(rows_of(new, e.tbl)) = {x[2] : x \in e.rows}
        /\ \A u \in Tables : u # e.tbl => rows_of(new, u) = rows_of(st, u)
    BY <1>1, <1>2, <2>2, SnapshotRows
  <2> HIDE DEF new
  <2>4. rows_in(r, t) = IF e.tbl = t THEN {x[2] : x \in e.rows}
                                     ELSE rows_in(cs, t)
    BY <2>1, <2>3 DEF rows_in
  <2>5. (there(r, t) <=> there(cs, t)) /\ defs_in(r, t) = defs_in(cs, t)
    BY <2>1 DEF there, defs_in
  <2> QED
    BY <1>3, <1>9, <2>4, <2>5 DEF there_after, defs_after, rows_after, on
<1>10. CASE e.type = "CreateIndex"
  <2> DEFINE new == apply_create_index(c, e.db, e.tbl, e.def)
             free == /\ on_dt \in c.tables
                     /\ \A d \in c.indexes[on_dt] : d.name # e.def.name
  <2>1. r = [catalog |-> new, storage |-> st]
    BY <1>1, <1>10, ApplyEntry
  <2>2. e.db = DefaultDb
    BY <1>10, EntryFields DEF OneDatabase
  <2>3. create_index_ok(c, DefaultDb, e.tbl, e.def) <=> free
    BY DEF create_index_ok, table_exists, has_index, get_table_indexes
  <2>4. /\ new.tables = c.tables
        /\ new.indexes = IF free
                         THEN [c.indexes EXCEPT ![on_dt] = @ \cup {e.def}]
                         ELSE c.indexes
    BY <1>1, <2>2, <2>3 DEF apply_create_index, create_index, CatalogType
  <2> HIDE DEF new
  <2>5. (there(r, t) <=> there(cs, t)) /\ rows_in(r, t) = rows_in(cs, t)
    BY <2>1, <2>4 DEF there, rows_in
  <2>6. defs_in(r, t) = IF e.tbl = t /\ free THEN defs_in(cs, t) \cup {e.def}
                                             ELSE defs_in(cs, t)
    <3>1. new.indexes[dt] = IF dt = on_dt /\ free
                            THEN c.indexes[dt] \cup {e.def} ELSE c.indexes[dt]
      <4> HIDE DEF dt, on_dt, free
      <4> QED
        BY <1>4, <1>5, <2>4
    <3> HIDE DEF free
    <3> QED
      BY <1>4, <2>1, <3>1 DEF defs_in
  <2>7. e.tbl = t => (free <=> /\ there(cs, t)
                               /\ \A d \in defs_in(cs, t) :
                                    d.name # e.def.name)
    BY DEF there, defs_in
  <2> HIDE DEF free
  <2> QED
    BY <1>3, <1>10, <2>5, <2>6, <2>7
       DEF there_after, defs_after, rows_after, on
<1>11. CASE e.type = "DropIndex"
  <2> DEFINE new  == apply_drop_index(c, e.db, e.tbl, e.name)
             left == {d \in c.indexes[on_dt] : d.name # e.name}
  <2>1. r = [catalog |-> new, storage |-> st]
    BY <1>1, <1>11, ApplyEntry
  <2>2. e.db = DefaultDb
    BY <1>11, EntryFields DEF OneDatabase
  <2>3. /\ new.tables = c.tables
        /\ new.indexes[dt] = IF e.tbl = t THEN left ELSE c.indexes[dt]
    <3>1. CASE drop_index_ok(c, DefaultDb, e.tbl, e.name)
      <4>1. new = drop_index(c, DefaultDb, e.tbl, e.name)
        BY <2>2, <3>1 DEF apply_drop_index
      <4>2. /\ new.tables = c.tables
            /\ new.indexes = [c.indexes EXCEPT ![on_dt] =
                                {d \in @ : d.name # e.name}]
        BY <1>1, <4>1 DEF drop_index, CatalogType
      <4> QED
        BY <1>4, <1>5, <4>2
    <3>2. CASE ~drop_index_ok(c, DefaultDb, e.tbl, e.name)
      <4>1. new = c
        BY <2>2, <3>2 DEF apply_drop_index
      <4>2. \A d \in c.indexes[on_dt] : d.name # e.name
        BY <3>2 DEF drop_index_ok, has_index, get_table_indexes
      <4>3. left = c.indexes[on_dt]
        BY <4>2
      <4> QED
        BY <1>4, <4>1, <4>3
    <3> QED
      BY <3>1, <3>2
  <2> HIDE DEF new
  <2>4. (there(r, t) <=> there(cs, t)) /\ rows_in(r, t) = rows_in(cs, t)
    BY <2>1, <2>3 DEF there, rows_in
  <2>5. defs_in(r, t) = IF e.tbl = t THEN left ELSE defs_in(cs, t)
    BY <2>1, <2>3 DEF defs_in
  <2>6. e.tbl = t => left = {d \in defs_in(cs, t) : d.name # e.name}
    BY DEF defs_in
  <2> HIDE DEF left
  <2> QED
    BY <1>3, <1>11, <2>4, <2>5, <2>6
       DEF there_after, defs_after, rows_after, on
<1> QED
  BY <1>2, <1>6, <1>7, <1>8, <1>9, <1>10, <1>11

-----------------------------------------------------------------------------
(* What the log says: the catalog and storage after each of its entries,    *)
(* from a server that has never run.                                        *)

\* A replay goes through sound catalogs and storages, by the effects of the
\* entries.
LEMMA ReplayEffects ==
  ASSUME OneDatabase, NEW log \in Seq(Entry), whole(log),
         NEW cs, Sound(cs), NEW g, Replays(g, cs, log, Len(log))
  PROVE  /\ \A n \in 0 .. Len(log) : Sound(g[n])
         /\ \A n \in 1 .. Len(log), t \in Tables :
              /\ there(g[n], t) <=> there_after(g[n - 1], log[n], t)
              /\ defs_in(g[n], t) = defs_after(g[n - 1], log[n], t)
              /\ rows_in(g[n], t) = rows_after(g[n - 1], log[n], t)
<1> DEFINE N == Len(log)
<1>1. /\ N \in Nat
      /\ \A n \in 1 .. N : log[n] \in Entry /\ log[n].type # "Torn"
  BY DEF whole
<1>2. /\ g[0] = cs
      /\ \A n \in 1 .. N : g[n] = apply_entry(g[n - 1], log[n])
  BY <1>1 DEF Replays
<1> HIDE DEF N
<1> DEFINE S == {n \in Nat : n <= N => Sound(g[n])}
<1>3. 0 \in S
  BY <1>2
<1>4. ASSUME NEW n \in Nat, n \in S
      PROVE  n + 1 \in S
  <2> SUFFICES ASSUME n + 1 <= N
               PROVE  Sound(g[n + 1])
    OBVIOUS
  <2>1. n + 1 \in 1 .. N /\ n + 1 - 1 = n /\ n <= N
    BY <1>1
  <2>2. /\ g[n + 1] = apply_entry(g[n], log[n + 1])
        /\ log[n + 1] \in Entry /\ log[n + 1].type # "Torn"
    BY <1>1, <1>2, <2>1
  <2>3. InOrder(g[n]) /\ g[n].catalog.dbs = {DefaultDb}
    BY <1>4, <2>1 DEF Sound
  <2> QED
    BY <2>2, <2>3, EntryInOrder DEF Sound
<1>5. \A n \in 0 .. N : Sound(g[n])
  <2> HIDE DEF S
  <2>1. Nat \subseteq S
    BY <1>3, <1>4, NatSetInduction
  <2> QED
    BY <1>1, <2>1 DEF S
<1>6. ASSUME NEW n \in 1 .. N, NEW t \in Tables
      PROVE  /\ there(g[n], t) <=> there_after(g[n - 1], log[n], t)
             /\ defs_in(g[n], t) = defs_after(g[n - 1], log[n], t)
             /\ rows_in(g[n], t) = rows_after(g[n - 1], log[n], t)
  <2>1. n - 1 \in 0 .. N
    BY <1>1
  <2>2. /\ Sound(g[n - 1]) /\ g[n] = apply_entry(g[n - 1], log[n])
        /\ log[n] \in Entry /\ log[n].type # "Torn"
    BY <1>1, <1>2, <1>5, <2>1
  <2> DEFINE x == g[n - 1]
             e == log[n]
  <2> HIDE DEF x, e
  <2> QED
    BY <2>2, EntryEffect DEF x, e
<1> QED
  BY <1>5, <1>6 DEF N

\* A server that has never run is sound; no table is there.
LEMMA FreshSound ==
  /\ Sound(fresh)
  /\ \A t \in Tables : ~there(fresh, t) /\ rows_in(fresh, t) = {}
<1>1. fresh.catalog = new_catalog /\ fresh.storage = new_storage
  BY DEF fresh
<1>2. new_catalog.dbs = {DefaultDb} /\ new_catalog.tables = {}
  BY DEF new_catalog
<1> QED
  BY <1>1, <1>2, FreshInOrder DEF Sound, there, rows_in

\* The history of a log is a replay of it.
LEMMA HistoryReplays ==
  ASSUME NEW log, NEW T, log \in Seq(T)
  PROVE  /\ Replays(history(log), fresh, log, Len(log))
         /\ history(log)[0] = fresh
         /\ \A n \in 1 .. Len(log) :
              history(log)[n] = apply_entry(history(log)[n - 1], log[n])
<1>1. Len(log) \in Nat
  OBVIOUS
<1>2. \E g : Replays(g, fresh, log, Len(log))
  BY <1>1, ReplaysExist
<1>3. Replays(history(log), fresh, log, Len(log))
  <2> DEFINE after[n \in 0 .. Len(log)] ==
               IF n = 0 THEN fresh ELSE apply_entry(after[n - 1], log[n])
  <2>1. Replays(after, fresh, log, Len(log))
    BY <1>2 DEF Replays
  <2> QED
    BY <2>1 DEF history
<1> DEFINE h == history(log)
           N == Len(log)
<1>4. h = [n \in 0 .. N |-> IF n = 0 THEN fresh
                            ELSE apply_entry(h[n - 1], log[n])]
  BY <1>3 DEF Replays
<1> HIDE DEF h, N
<1>5. h[0] = fresh /\ \A n \in 1 .. N : h[n] = apply_entry(h[n - 1], log[n])
  BY <1>1, <1>4 DEF N
<1> QED
  BY <1>3, <1>5 DEF h, N

\* An append leaves the history and adds to it.
LEMMA HistoryAppend ==
  ASSUME NEW log, NEW T, log \in Seq(T), NEW e \in T
  PROVE  /\ \A n \in 0 .. Len(log) :
              history(Append(log, e))[n] = history(log)[n]
         /\ last(Append(log, e)) = apply_entry(last(log), e)
<1> DEFINE longer == Append(log, e)
           N == Len(log)
<1>1. /\ longer \in Seq(T) /\ Len(longer) = N + 1 /\ N \in Nat
      /\ \A i \in 1 .. N : log[i] = longer[i]
      /\ longer[N + 1] = e
  OBVIOUS
<1> HIDE DEF longer
<1>2. Replays(history(log), fresh, log, N)
  BY HistoryReplays
<1>3. /\ Replays(history(longer), fresh, longer, N + 1)
      /\ \A n \in 1 .. N + 1 :
           history(longer)[n] = apply_entry(history(longer)[n - 1], longer[n])
  BY <1>1, HistoryReplays
<1> HIDE DEF N
<1>4. N + 1 \in Nat /\ N <= N /\ N <= N + 1
  BY <1>1
<1>5. \A n \in 0 .. N : history(log)[n] = history(longer)[n]
  <2> DEFINE g == history(log)
             h == history(longer)
             k == N + 1
  <2>1. /\ Replays(g, fresh, log, N) /\ Replays(h, fresh, longer, k)
        /\ N \in Nat /\ k \in Nat /\ N <= N /\ N <= k
        /\ BeginAlike(log, longer, N)
    BY <1>1, <1>2, <1>3, <1>4 DEF BeginAlike
  <2> HIDE DEF g, h, k
  <2>2. \A n \in 0 .. N : g[n] = h[n]
    BY <2>1, ReplaysAgree
  <2> QED
    BY <2>2 DEF g, h
<1>6. N + 1 \in 1 .. N + 1 /\ N + 1 - 1 = N /\ N \in 0 .. N
  BY <1>1
<1>7. history(longer)[N + 1] = apply_entry(history(longer)[N], e)
  BY <1>1, <1>3, <1>6
<1>8. last(longer) = apply_entry(history(log)[N], e)
  BY <1>1, <1>5, <1>6, <1>7 DEF last
<1> QED
  BY <1>5, <1>8 DEF longer, N, last

\* An accepted entry, not torn, keeps a whole log whole and a legal log legal.
LEMMA LegalAppend ==
  ASSUME NEW log \in Seq(Entry), whole(log), Legal(log),
         NEW e \in Entry, e.type # "Torn", LegalEntry(last(log), e)
  PROVE  whole(Append(log, e)) /\ Legal(Append(log, e))
<1> DEFINE longer == Append(log, e)
           N == Len(log)
<1>1. /\ Len(longer) = N + 1 /\ N \in Nat /\ longer \in Seq(Entry)
      /\ \A i \in 1 .. N : longer[i] = log[i]
      /\ longer[N + 1] = e
  OBVIOUS
<1>2. \A n \in 0 .. N : history(longer)[n] = history(log)[n]
  BY HistoryAppend
<1> HIDE DEF longer
<1>3. whole(longer)
  BY <1>1 DEF whole
<1>4. Legal(longer)
  <2> SUFFICES ASSUME NEW n \in 1 .. N + 1
               PROVE  LegalEntry(history(longer)[n - 1], longer[n])
    BY <1>1 DEF Legal
  <2>1. CASE n \in 1 .. N
    <3>1. n - 1 \in 0 .. N /\ longer[n] = log[n]
      BY <1>1, <2>1
    <3>2. history(longer)[n - 1] = history(log)[n - 1]
      BY <1>2, <3>1
    <3> QED
      BY <2>1, <3>1, <3>2 DEF Legal
  <2>2. CASE n = N + 1
    <3>1. n - 1 = N /\ N \in 0 .. N /\ longer[n] = e
      BY <1>1, <2>2
    <3>2. history(longer)[n - 1] = last(log)
      BY <1>2, <3>1 DEF last
    <3> QED
      BY <3>1, <3>2
  <2> QED
    BY <1>1, <2>1, <2>2
<1> QED
  BY <1>3, <1>4 DEF longer

-----------------------------------------------------------------------------
(* Convergence.  A start replays the whole log over files that have seen a  *)
(* part of it already: the catalog file that of one instant, each table     *)
(* file that of another.  The replay arrives all the same at what the log   *)
(* says.  Until it has come to the instant of the file it is between two    *)
(* states: a is what the log says so far, b is where the replay is, and c   *)
(* is what the file says.                                                   *)

named(cs, t, name) == {d \in defs_in(cs, t) : d.name = name}

BetweenCatalogs(a, b, c, t) ==
  /\ there(a, t) => there(b, t)
  /\ there(b, t) => there(a, t) \/ there(c, t)
  /\ \A name \in IndexNames : \/ named(b, t, name) = named(a, t, name)
                              \/ named(b, t, name) = named(c, t, name)

BetweenRows(a, b, c, t) ==
  /\ rows_in(a, t) \subseteq rows_in(b, t)
  /\ rows_in(b, t) \subseteq rows_in(a, t) \cup rows_in(c, t)

\* The state of t after entry e
Follows(x, y, e, t) ==
  /\ there(y, t) <=> there_after(x, e, t)
  /\ defs_in(y, t) = defs_after(x, e, t)
  /\ rows_in(y, t) = rows_after(x, e, t)

\* Index definitions have names.
LEMMA DefsTyped ==
  ASSUME OneDatabase, NEW cs, Sound(cs), NEW t \in Tables
  PROVE  \A d \in defs_in(cs, t) : d \in IndexDef /\ d.name \in IndexNames
<1>1. cs.catalog.indexes \in [DBs \X Tables -> SUBSET IndexDef]
  BY DEF Sound, InOrder, CatalogType
<1>2. <<DefaultDb, t>> \in DBs \X Tables
  BY DEF OneDatabase
<1>3. defs_in(cs, t) \in SUBSET IndexDef
  BY <1>1, <1>2 DEF defs_in
<1> QED
  BY <1>3 DEF IndexDef

\* An accepted entry keeps the replay between the log and the catalog file.
LEMMA BetweenCatalogsStep ==
  ASSUME OneDatabase, NEW t \in Tables, NEW e \in Entry, e.type # "Torn",
         NEW a, NEW b, NEW c, Sound(a), Sound(b), BetweenCatalogs(a, b, c, t),
         LegalEntry(a, e),
         NEW x, NEW y, Follows(a, x, e, t), Follows(b, y, e, t)
  PROVE  BetweenCatalogs(x, y, c, t)
<1>1. /\ there(x, t) <=> there_after(a, e, t)
      /\ there(y, t) <=> there_after(b, e, t)
      /\ defs_in(x, t) = defs_after(a, e, t)
      /\ defs_in(y, t) = defs_after(b, e, t)
  BY DEF Follows
<1>2. /\ there(x, t) => there(y, t)
      /\ there(y, t) => there(x, t) \/ there(c, t)
  BY <1>1 DEF BetweenCatalogs, there_after
<1>3. ASSUME NEW name \in IndexNames
      PROVE  \/ named(y, t, name) = named(x, t, name)
             \/ named(y, t, name) = named(c, t, name)
  <2>1. \/ named(b, t, name) = named(a, t, name)
        \/ named(b, t, name) = named(c, t, name)
    BY DEF BetweenCatalogs
  <2>2. CASE on(e, "DropTable", t)
    <3>1. defs_in(x, t) = {} /\ defs_in(y, t) = {}
      BY <1>1, <2>2 DEF defs_after
    <3> QED
      BY <3>1 DEF named
  <2>3. CASE on(e, "CreateIndex", t)
    <3>1. there(a, t) /\ \A d \in defs_in(a, t) : d.name # e.def.name
      BY <2>3 DEF LegalEntry, on
    <3>2. there(b, t)
      BY <3>1 DEF BetweenCatalogs
    <3>3. ~on(e, "DropTable", t)
      BY <2>3 DEF on
    <3>4. defs_in(x, t) = defs_in(a, t) \cup {e.def}
      BY <1>1, <2>3, <3>1, <3>3 DEF defs_after
    <3>5. \/ /\ \A d \in defs_in(b, t) : d.name # e.def.name
             /\ defs_in(y, t) = defs_in(b, t) \cup {e.def}
          \/ /\ \E d \in defs_in(b, t) : d.name = e.def.name
             /\ defs_in(y, t) = defs_in(b, t)
      BY <1>1, <2>3, <3>2, <3>3 DEF defs_after
    <3>6. CASE name # e.def.name
      <4>1. named(x, t, name) = named(a, t, name)
        BY <3>4, <3>6 DEF named
      <4>2. named(y, t, name) = named(b, t, name)
        BY <3>5, <3>6 DEF named
      <4> QED
        BY <2>1, <4>1, <4>2
    <3>7. CASE name = e.def.name
      <4>1. named(a, t, name) = {} /\ named(x, t, name) = {e.def}
        BY <3>1, <3>4, <3>7 DEF named
      <4>2. CASE \A d \in defs_in(b, t) : d.name # e.def.name
        <5>1. defs_in(y, t) = defs_in(b, t) \cup {e.def}
          BY <3>5, <4>2
        <5>2. named(y, t, name) = {e.def}
          BY <3>7, <4>2, <5>1 DEF named
        <5> QED
          BY <4>1, <5>2
      <4>3. CASE \E d \in defs_in(b, t) : d.name = e.def.name
        <5>1. named(y, t, name) = named(b, t, name)
          BY <3>5, <4>3 DEF named
        <5>2. named(b, t, name) # {}
          BY <3>7, <4>3 DEF named
        <5> QED
          BY <2>1, <4>1, <5>1, <5>2
      <4> QED
        BY <4>2, <4>3
    <3> QED
      BY <3>6, <3>7
  <2>4. CASE on(e, "DropIndex", t)
    <3>1. ~on(e, "DropTable", t) /\ ~on(e, "CreateIndex", t)
      BY <2>4 DEF on
    <3>2. /\ defs_in(x, t) = {d \in defs_in(a, t) : d.name # e.name}
          /\ defs_in(y, t) = {d \in defs_in(b, t) : d.name # e.name}
      BY <1>1, <2>4, <3>1 DEF defs_after
    <3>3. CASE name = e.name
      <4>1. named(x, t, name) = {} /\ named(y, t, name) = {}
        BY <3>2, <3>3 DEF named
      <4> QED
        BY <4>1
    <3>4. CASE name # e.name
      <4>1. named(x, t, name) = named(a, t, name)
        BY <3>2, <3>4 DEF named
      <4>2. named(y, t, name) = named(b, t, name)
        BY <3>2, <3>4 DEF named
      <4> QED
        BY <2>1, <4>1, <4>2
    <3> QED
      BY <3>3, <3>4
  <2>5. CASE /\ ~on(e, "DropTable", t) /\ ~on(e, "CreateIndex", t)
             /\ ~on(e, "DropIndex", t)
    <3>1. defs_in(x, t) = defs_in(a, t) /\ defs_in(y, t) = defs_in(b, t)
      BY <1>1, <2>5 DEF defs_after
    <3> QED
      BY <2>1, <3>1 DEF named
  <2> QED
    BY <2>2, <2>3, <2>4, <2>5
<1> QED
  BY <1>2, <1>3 DEF BetweenCatalogs

\* At the instant of the catalog file the replay has what the log says.
LEMMA CatalogsMeet ==
  ASSUME OneDatabase, NEW t \in Tables, NEW a, NEW b, Sound(a), Sound(b),
         BetweenCatalogs(a, b, a, t)
  PROVE  SameCatalogs(a, b, t)
<1>1. there(a, t) <=> there(b, t)
  BY DEF BetweenCatalogs
<1>2. \A name \in IndexNames : named(b, t, name) = named(a, t, name)
  BY DEF BetweenCatalogs
<1>3. /\ \A d \in defs_in(a, t) : d.name \in IndexNames
      /\ \A d \in defs_in(b, t) : d.name \in IndexNames
  BY DefsTyped
<1>4. \A d : /\ d \in defs_in(a, t) => d \in named(a, t, d.name)
             /\ d \in defs_in(b, t) => d \in named(b, t, d.name)
             /\ d \in named(a, t, d.name) => d \in defs_in(a, t)
             /\ d \in named(b, t, d.name) => d \in defs_in(b, t)
  BY DEF named
<1>5. defs_in(a, t) = defs_in(b, t)
  BY <1>2, <1>3, <1>4
<1> QED
  BY <1>1, <1>5 DEF SameCatalogs

\* From there on both take the same steps.
LEMMA SameCatalogsStep ==
  ASSUME NEW t, NEW e, NEW a, NEW b, SameCatalogs(a, b, t),
         NEW x, NEW y, Follows(a, x, e, t), Follows(b, y, e, t)
  PROVE  SameCatalogs(x, y, t)
<1>1. there(x, t) <=> there(y, t)
  BY DEF SameCatalogs, Follows, there_after
<1>2. defs_after(a, e, t) = defs_after(b, e, t)
  BY DEF SameCatalogs, defs_after
<1> QED
  BY <1>1, <1>2 DEF SameCatalogs, Follows

\* The rows of the replay are between the log and the table file; and a table
\* that is not there has no rows in the log.
LEMMA BetweenRowsStep ==
  ASSUME NEW t, NEW e, NEW a, NEW b,
         there(a, t) => there(b, t), ~there(a, t) => rows_in(a, t) = {},
         LegalEntry(a, e),
         NEW x, NEW y, Follows(a, x, e, t), Follows(b, y, e, t)
  PROVE  /\ ~there(x, t) => rows_in(x, t) = {}
         /\ \A c : BetweenRows(a, b, c, t) => BetweenRows(x, y, c, t)
         /\ rows_in(a, t) = rows_in(b, t) => rows_in(x, t) = rows_in(y, t)
<1>1. /\ there(x, t) <=> there_after(a, e, t)
      /\ rows_in(x, t) = rows_after(a, e, t)
      /\ rows_in(y, t) = rows_after(b, e, t)
  BY DEF Follows
<1>2. CASE on(e, "DropTable", t)
  <2>1. ~on(e, "InsertRows", t) /\ ~on(e, "TableSnapshot", t)
    BY <1>2 DEF on
  <2>2. rows_in(x, t) = {}
    BY <1>1, <1>2, <2>1 DEF rows_after
  <2>3. there(a, t) => rows_in(y, t) = {}
    BY <1>1, <1>2, <2>1 DEF rows_after
  <2>4. rows_in(y, t) = {} \/ rows_in(y, t) = rows_in(b, t)
    BY <1>1, <1>2, <2>1 DEF rows_after
  <2> QED
    BY <2>2, <2>3, <2>4 DEF BetweenRows
<1>3. CASE on(e, "InsertRows", t)
  <2> DEFINE new == {e.rows[i] : i \in 1 .. Len(e.rows)}
  <2>1. ~on(e, "DropTable", t) /\ there(a, t)
    BY <1>3 DEF on, LegalEntry
  <2>2. /\ rows_in(x, t) = rows_in(a, t) \cup new
        /\ rows_in(y, t) = rows_in(b, t) \cup new
    BY <1>1, <1>3, <2>1 DEF rows_after
  <2>3. there(x, t)
    BY <1>1, <2>1 DEF there_after
  <2> HIDE DEF new
  <2> QED
    BY <2>2, <2>3 DEF BetweenRows
<1>4. CASE on(e, "TableSnapshot", t)
  <2> DEFINE new == {r[2] : r \in e.rows}
  <2>1. ~on(e, "DropTable", t) /\ ~on(e, "InsertRows", t) /\ there(a, t)
    BY <1>4 DEF on, LegalEntry
  <2>2. rows_in(x, t) = new /\ rows_in(y, t) = new
    BY <1>1, <1>4, <2>1 DEF rows_after
  <2>3. there(x, t)
    BY <1>1, <2>1 DEF there_after
  <2> HIDE DEF new
  <2> QED
    BY <2>2, <2>3 DEF BetweenRows
<1>5. CASE /\ ~on(e, "DropTable", t) /\ ~on(e, "InsertRows", t)
           /\ ~on(e, "TableSnapshot", t)
  <2>1. rows_in(x, t) = rows_in(a, t) /\ rows_in(y, t) = rows_in(b, t)
    BY <1>1, <1>5 DEF rows_after
  <2>2. there(a, t) => there(x, t)
    BY <1>1, <1>5 DEF there_after
  <2> QED
    BY <2>1, <2>2 DEF BetweenRows
<1> QED
  BY <1>2, <1>3, <1>4, <1>5

\* Induction in two phases: one property up to m, another from m on.
LEMMA TwoPhases ==
  ASSUME NEW N \in Nat, NEW m \in 0 .. N, NEW P, NEW Q,
         0 \in P, \A n \in 0 .. m - 1 : n \in P => n + 1 \in P,
         m \in P => m \in Q,
         \A n \in m .. N - 1 : n \in Q => n + 1 \in Q
  PROVE  N \in Q
<1> DEFINE S == {n \in Nat : /\ n <= m => n \in P
                             /\ m <= n /\ n <= N => n \in Q}
<1>1. 0 \in S
  OBVIOUS
<1>2. ASSUME NEW n \in Nat, n \in S
      PROVE  n + 1 \in S
  <2>1. n + 1 <= m => n + 1 \in P
    BY <1>2
  <2>2. m <= n + 1 /\ n + 1 <= N => n + 1 \in Q
    BY <1>2, <2>1
  <2> QED
    BY <2>1, <2>2
<1> HIDE DEF S
<1>3. Nat \subseteq S
  BY <1>1, <1>2, NatSetInduction
<1> QED
  BY <1>3 DEF S

\* A replay of a whole and legal log, over a catalog that the log had at one
\* instant and rows that were in the table at another, gives what the log says.
LEMMA ReplayConverges ==
  ASSUME OneDatabase, NEW log \in Seq(Entry), whole(log), Legal(log),
         NEW cs, Sound(cs), NEW t \in Tables,
         NEW m \in 0 .. Len(log), SameCatalogs(history(log)[m], cs, t),
         NEW k \in 0 .. Len(log),
         rows_in(cs, t) \subseteq rows_in(history(log)[k], t)
  PROVE  AlikeAt(replay(cs, log), last(log), t)
<1> DEFINE N == Len(log)
           h == history(log)
<1>1. /\ N \in Nat
      /\ \A n \in 1 .. N : log[n] \in Entry /\ log[n].type # "Torn"
  BY DEF whole
<1>2. PICK g : Replays(g, cs, log, N) /\ replay(cs, log) = g[N]
  BY ReplayIs
<1>3. Replays(h, fresh, log, N) /\ Sound(fresh) /\ h[0] = fresh
  BY HistoryReplays, FreshSound
<1>4. /\ \A n \in 0 .. N : Sound(h[n])
      /\ \A n \in 1 .. N : Follows(h[n - 1], h[n], log[n], t)
  <2> HIDE DEF h
  <2> QED
    BY <1>3, ReplayEffects DEF Follows
<1>5. /\ \A n \in 0 .. N : Sound(g[n])
      /\ \A n \in 1 .. N : Follows(g[n - 1], g[n], log[n], t)
  BY <1>2, ReplayEffects DEF Follows
<1>6. g[0] = cs
  BY <1>1, <1>2 DEF Replays
<1>7. \A n \in 1 .. N : LegalEntry(h[n - 1], log[n])
  BY DEF Legal
<1>8. SameCatalogs(h[m], g[0], t) /\ rows_in(g[0], t) \subseteq rows_in(h[k], t)
  BY <1>6
<1> HIDE DEF N, h
<1>9. m \in 0 .. N /\ k \in 0 .. N
  BY DEF N
<1> DEFINE step(n) == /\ log[n + 1] \in Entry /\ log[n + 1].type # "Torn"
                      /\ Sound(h[n]) /\ Sound(g[n])
                      /\ LegalEntry(h[n], log[n + 1])
                      /\ Follows(h[n], h[n + 1], log[n + 1], t)
                      /\ Follows(g[n], g[n + 1], log[n + 1], t)
<1>10. ASSUME NEW n \in 0 .. N - 1
       PROVE  step(n)
  <2>1. n + 1 \in 1 .. N /\ n + 1 - 1 = n /\ n \in 0 .. N
    BY <1>1
  <2> QED
    BY <1>1, <1>4, <1>5, <1>7, <2>1
<1> HIDE DEF step
<1>11. SameCatalogs(h[N], g[N], t)
  <2> DEFINE P == {n \in Nat : BetweenCatalogs(h[n], g[n], h[m], t)}
             Q == {n \in Nat : SameCatalogs(h[n], g[n], t)}
  <2>1. 0 \in P
    <3>1. ~there(h[0], t)
      BY <1>3, FreshSound
    <3>2. /\ there(h[m], t) <=> there(g[0], t)
          /\ defs_in(h[m], t) = defs_in(g[0], t)
      BY <1>8 DEF SameCatalogs
    <3> QED
      BY <3>1, <3>2 DEF BetweenCatalogs, named
  <2>2. ASSUME NEW n \in 0 .. m - 1, n \in P
        PROVE  n + 1 \in P
    <3>1. n \in 0 .. N - 1 /\ n + 1 \in Nat
      BY <1>1, <1>9
    <3>2. BetweenCatalogs(h[n + 1], g[n + 1], h[m], t)
      BY <1>10, <2>2, <3>1, BetweenCatalogsStep DEF step
    <3> QED
      BY <3>1, <3>2
  <2>3. m \in P => m \in Q
    <3>1. Sound(h[m]) /\ Sound(g[m])
      BY <1>4, <1>5, <1>9
    <3> QED
      BY <3>1, CatalogsMeet
  <2>4. ASSUME NEW n \in m .. N - 1, n \in Q
        PROVE  n + 1 \in Q
    <3>1. n \in 0 .. N - 1 /\ n + 1 \in Nat
      BY <1>1, <1>9
    <3>2. SameCatalogs(h[n + 1], g[n + 1], t)
      BY <1>10, <2>4, <3>1, SameCatalogsStep DEF step
    <3> QED
      BY <3>1, <3>2
  <2> HIDE DEF P, Q
  <2>5. N \in Q
    BY <1>1, <1>9, <2>1, <2>2, <2>3, <2>4, TwoPhases
  <2> QED
    BY <2>5 DEF Q
<1> DEFINE Gone(n) == /\ there(h[n], t) => there(g[n], t)
                      /\ ~there(h[n], t) => rows_in(h[n], t) = {}
<1>12. ASSUME NEW n \in 0 .. N - 1, Gone(n)
       PROVE  Gone(n + 1)
  <2>1. there(h[n + 1], t) => there(g[n + 1], t)
    BY <1>10, <1>12 DEF step, Follows, there_after
  <2>2. ~there(h[n + 1], t) => rows_in(h[n + 1], t) = {}
    <3> DEFINE a == h[n]
               b == g[n]
               e == log[n + 1]
               x == h[n + 1]
               y == g[n + 1]
    <3>1. /\ there(a, t) => there(b, t)
          /\ ~there(a, t) => rows_in(a, t) = {}
          /\ LegalEntry(a, e) /\ Follows(a, x, e, t) /\ Follows(b, y, e, t)
      BY <1>10, <1>12 DEF step
    <3> HIDE DEF a, b, e, x, y
    <3>2. ~there(x, t) => rows_in(x, t) = {}
      BY <3>1, BetweenRowsStep
    <3> QED
      BY <3>2 DEF x
  <2> QED
    BY <2>1, <2>2
<1>13. rows_in(h[N], t) = rows_in(g[N], t)
  <2> DEFINE P == {n \in Nat : Gone(n) /\ BetweenRows(h[n], g[n], h[k], t)}
             Q == {n \in Nat : Gone(n) /\ rows_in(h[n], t) = rows_in(g[n], t)}
  <2>1. 0 \in P
    <3>1. ~there(h[0], t) /\ rows_in(h[0], t) = {}
      BY <1>3, FreshSound
    <3> QED
      BY <1>8, <3>1 DEF BetweenRows
  <2>2. ASSUME NEW n \in 0 .. k - 1, n \in P
        PROVE  n + 1 \in P
    <3>1. n \in 0 .. N - 1 /\ n + 1 \in Nat
      BY <1>1, <1>9
    <3>2. Gone(n + 1)
      BY <1>12, <2>2, <3>1
    <3>3. \A c : BetweenRows(h[n], g[n], c, t)
                 => BetweenRows(h[n + 1], g[n + 1], c, t)
      <4> DEFINE a == h[n]
                 b == g[n]
                 e == log[n + 1]
                 x == h[n + 1]
                 y == g[n + 1]
      <4>1. /\ there(a, t) => there(b, t)
            /\ ~there(a, t) => rows_in(a, t) = {}
            /\ LegalEntry(a, e) /\ Follows(a, x, e, t) /\ Follows(b, y, e, t)
        BY <1>10, <2>2, <3>1 DEF step
      <4> HIDE DEF a, b, e, x, y
      <4>2. \A c : BetweenRows(a, b, c, t) => BetweenRows(x, y, c, t)
        BY <4>1, BetweenRowsStep
      <4> QED
        BY <4>2 DEF a, b, x, y
    <3>4. BetweenRows(h[n + 1], g[n + 1], h[k], t)
      BY <2>2, <3>3
    <3> QED
      BY <3>1, <3>2, <3>4
  <2>3. k \in P => k \in Q
    BY DEF BetweenRows
  <2>4. ASSUME NEW n \in k .. N - 1, n \in Q
        PROVE  n + 1 \in Q
    <3>1. n \in 0 .. N - 1 /\ n + 1 \in Nat
      BY <1>1, <1>9
    <3>2. Gone(n + 1)
      BY <1>12, <2>4, <3>1
    <3>3. rows_in(h[n + 1], t) = rows_in(g[n + 1], t)
      BY <1>10, <2>4, <3>1, BetweenRowsStep DEF step
    <3> QED
      BY <3>1, <3>2, <3>3
  <2> HIDE DEF P, Q
  <2>5. N \in Q
    BY <1>1, <1>9, <2>1, <2>2, <2>3, <2>4, TwoPhases
  <2> QED
    BY <2>5 DEF Q
<1>14. last(log) = h[N]
  BY DEF last, h, N
<1> QED
  BY <1>2, <1>11, <1>13, <1>14 DEF AlikeAt, SameCatalogs

-----------------------------------------------------------------------------
(* What a start makes of a log and of files that are no newer.              *)

\* What the log says is sound, and a table that is not there has no rows in it.
LEMMA LastSound ==
  ASSUME OneDatabase, NEW log \in Seq(Entry), whole(log), Legal(log)
  PROVE  /\ Sound(last(log))
         /\ \A t \in Tables : ~there(last(log), t) => rows_in(last(log), t) = {}
<1> DEFINE N == Len(log)
           h == history(log)
<1>1. /\ N \in Nat
      /\ Replays(h, fresh, log, N) /\ Sound(fresh) /\ h[0] = fresh
  BY HistoryReplays, FreshSound
<1>2. /\ \A n \in 0 .. N : Sound(h[n])
      /\ \A n \in 1 .. N, t \in Tables :
           /\ there(h[n], t) <=> there_after(h[n - 1], log[n], t)
           /\ rows_in(h[n], t) = rows_after(h[n - 1], log[n], t)
  <2> HIDE DEF h
  <2> QED
    BY <1>1, ReplayEffects
<1>3. \A n \in 1 .. N : LegalEntry(h[n - 1], log[n])
  BY DEF Legal
<1> HIDE DEF N, h
<1>4. ASSUME NEW t \in Tables
      PROVE  ~there(h[N], t) => rows_in(h[N], t) = {}
  <2> DEFINE S == {n \in Nat : n <= N /\ ~there(h[n], t)
                                 => rows_in(h[n], t) = {}}
  <2>1. 0 \in S
    BY <1>1, FreshSound
  <2>2. ASSUME NEW n \in Nat, n \in S
        PROVE  n + 1 \in S
    <3> SUFFICES ASSUME n + 1 <= N, ~there(h[n + 1], t)
                 PROVE  rows_in(h[n + 1], t) = {}
      OBVIOUS
    <3> DEFINE a == h[n]
               e == log[n + 1]
    <3>1. n + 1 \in 1 .. N /\ n + 1 - 1 = n /\ n <= N
      BY <1>1
    <3>2. /\ ~there_after(a, e, t) /\ rows_in(h[n + 1], t) = rows_after(a, e, t)
          /\ LegalEntry(a, e)
          /\ ~there(a, t) => rows_in(a, t) = {}
      BY <1>2, <1>3, <2>2, <3>1
    <3> HIDE DEF a, e
    <3> QED
      BY <3>2 DEF there_after, rows_after, LegalEntry, on
  <2> HIDE DEF S
  <2>3. Nat \subseteq S
    BY <2>1, <2>2, NatSetInduction
  <2> QED
    BY <1>1, <2>3 DEF S
<1>5. last(log) = h[N] /\ N \in 0 .. N
  BY <1>1 DEF last, h, N
<1> QED
  BY <1>2, <1>4, <1>5

\* Being alike depends on the tables, the definitions and the rows only.
LEMMA AlikeFields ==
  ASSUME NEW x, NEW y, NEW z, x.catalog.tables = y.catalog.tables,
         x.catalog.indexes = y.catalog.indexes,
         x.storage.tables = y.storage.tables
  PROVE  /\ Alike(x, y)
         /\ \A t : AlikeAt(x, z, t) <=> AlikeAt(y, z, t)
         /\ Alike(x, z) <=> Alike(y, z)
<1>1. \A t : there(x, t) = there(y, t) /\ defs_in(x, t) = defs_in(y, t)
  BY DEF there, defs_in
<1>2. \A t : rows_in(x, t) = rows_in(y, t)
  BY DEF rows_in, rows_of
<1>3. \A t : AlikeAt(x, y, t) /\ (AlikeAt(x, z, t) <=> AlikeAt(y, z, t))
  BY <1>1, <1>2 DEF AlikeAt
<1> QED
  BY <1>3 DEF Alike

\* A start finds what the log says, whenever each file was written.
LEMMA RecoverConverges ==
  ASSUME OneDatabase, NEW d \in DiskType, Consistent(d)
  PROVE  Sound(recover(d)) /\ Alike(recover(d), last(d.wal))
<1> DEFINE cs == loaded_of(d)
<1>1. /\ d.wal \in Seq(Entry) /\ d.catalog \in CatalogType
      /\ d.tables \in [Tables -> {NoFile} \cup RowVec]
      /\ WellFormed(d.catalog) /\ d.catalog.dbs = {DefaultDb}
      /\ d.catalog # NoFile
  BY DEF DiskType, Consistent, Filed, FiledWellFormed
<1>2. cs = [catalog |-> d.catalog, storage |-> load_tables(d.catalog, d.tables)]
  BY DEF loaded_of
<1>3. /\ StorageType(cs.storage) /\ ids_below(cs.storage)
      /\ \A t \in Tables :
           rows_in(cs, t) = file_rows(d.tables[t]) \/ rows_in(cs, t) = {}
  BY <1>1, <1>2, LoadTables DEF rows_in
<1>4. Sound(cs)
  BY <1>1, <1>2, <1>3 DEF Sound, InOrder
<1>5. /\ started(d) = replay(cs, d.wal)
      /\ InOrder(recover(d))
      /\ recover(d).catalog = started(d).catalog
      /\ recover(d).storage.tables = started(d).storage.tables
  BY <1>1, RecoverInOrder DEF started, Consistent
<1>6. \A t \in Tables : \E m \in 0 .. Len(d.wal) :
        SameCatalogs(history(d.wal)[m], cs, t)
  BY DEF Consistent, Filed
<1>7. \A t \in Tables : \E k \in 0 .. Len(d.wal) :
        rows_in(cs, t) \subseteq rows_in(history(d.wal)[k], t)
  <2> SUFFICES ASSUME NEW t \in Tables
               PROVE  \E k \in 0 .. Len(d.wal) :
                        rows_in(cs, t) \subseteq rows_in(history(d.wal)[k], t)
    OBVIOUS
  <2>1. CASE rows_in(cs, t) = file_rows(d.tables[t])
    BY <2>1 DEF Consistent, Filed
  <2>2. CASE rows_in(cs, t) = {}
    <3>1. 0 \in 0 .. Len(d.wal) /\ history(d.wal)[0] = fresh
      BY <1>1, HistoryReplays
    <3> QED
      BY <2>2, <3>1, FreshSound
  <2> QED
    BY <1>3, <2>1, <2>2
<1> HIDE DEF cs
<1>8. /\ Sound(started(d))
      /\ \A t \in Tables : AlikeAt(started(d), last(d.wal), t)
  <2>1. Sound(started(d))
    BY <1>1, <1>4, <1>5, ReplayInOrder DEF Sound
  <2>2. ASSUME NEW t \in Tables
        PROVE  AlikeAt(started(d), last(d.wal), t)
    <3> DEFINE log == d.wal
    <3>1. /\ log \in Seq(Entry) /\ whole(log) /\ Legal(log)
          /\ started(d) = replay(cs, log)
      BY <1>1, <1>5 DEF Consistent
    <3>2. PICK m \in 0 .. Len(log) : SameCatalogs(history(log)[m], cs, t)
      BY <1>6
    <3>3. PICK k \in 0 .. Len(log) :
            rows_in(cs, t) \subseteq rows_in(history(log)[k], t)
      BY <1>7
    <3> HIDE DEF log
    <3>4. AlikeAt(replay(cs, log), last(log), t)
      BY <1>4, <3>1, <3>2, <3>3, ReplayConverges
    <3> QED
      BY <3>1, <3>4 DEF log
  <2> QED
    BY <2>1, <2>2
<1>9. Alike(started(d), last(d.wal))
  BY <1>8 DEF Alike
<1> QED
  BY <1>5, <1>8, <1>9, AlikeFields DEF Sound

\* An entry keeps alike what is alike.
LEMMA EntryAlike ==
  ASSUME OneDatabase, NEW x, NEW y, Sound(x), Sound(y), Alike(x, y),
         NEW e \in Entry, e.type # "Torn"
  PROVE  /\ Sound(apply_entry(x, e)) /\ Sound(apply_entry(y, e))
         /\ Alike(apply_entry(x, e), apply_entry(y, e))
<1> DEFINE a == apply_entry(x, e)
           b == apply_entry(y, e)
<1>1. Sound(a) /\ Sound(b)
  <2>1. InOrder(x) /\ InOrder(y)
    BY DEF Sound
  <2> QED
    BY <2>1, EntryInOrder DEF Sound
<1>2. ASSUME NEW t \in Tables
      PROVE  AlikeAt(a, b, t)
  <2>1. AlikeAt(x, y, t)
    BY DEF Alike
  <2>2. /\ there(a, t) <=> there_after(x, e, t)
        /\ defs_in(a, t) = defs_after(x, e, t)
        /\ rows_in(a, t) = rows_after(x, e, t)
    <3> HIDE DEF a
    <3> QED
      BY EntryEffect DEF a
  <2>3. /\ there(b, t) <=> there_after(y, e, t)
        /\ defs_in(b, t) = defs_after(y, e, t)
        /\ rows_in(b, t) = rows_after(y, e, t)
    <3> HIDE DEF b
    <3> QED
      BY EntryEffect DEF b
  <2> HIDE DEF a, b
  <2>4. there_after(x, e, t) <=> there_after(y, e, t)
    BY <2>1 DEF AlikeAt, there_after
  <2>5. defs_after(x, e, t) = defs_after(y, e, t)
    BY <2>1 DEF AlikeAt, defs_after
  <2>6. rows_after(x, e, t) = rows_after(y, e, t)
    BY <2>1 DEF AlikeAt, rows_after
  <2> QED
    BY <2>2, <2>3, <2>4, <2>5, <2>6 DEF AlikeAt
<1> QED
  BY <1>1, <1>2 DEF Alike

\* What one of two that are alike accepts, the other accepts.
LEMMA LegalAlike ==
  ASSUME NEW x, NEW y, Alike(x, y), NEW e, e.tbl \in Tables
  PROVE  LegalEntry(x, e) <=> LegalEntry(y, e)
<1>1. AlikeAt(x, y, e.tbl)
  BY DEF Alike
<1> QED
  BY <1>1 DEF AlikeAt, LegalEntry

\* An accepted entry, logged, keeps the files consistent.
LEMMA LogConsistent ==
  ASSUME NEW d \in DiskType, Consistent(d), NEW e \in Entry, e.type # "Torn",
         LegalEntry(last(d.wal), e),
         NEW x, x.wal = Append(d.wal, e), x.catalog = d.catalog,
         x.tables = d.tables
  PROVE  Consistent(x)
<1> DEFINE log == d.wal
<1>1. log \in Seq(Entry) /\ Len(log) \in Nat
  BY DEF DiskType
<1>2. whole(log) /\ Legal(log) /\ Filed(d) /\ FiledWellFormed(d)
  BY DEF Consistent
<1>3. x.wal = Append(log, e) /\ LegalEntry(last(log), e)
  OBVIOUS
<1>4. loaded_of(x) = loaded_of(d)
  BY DEF loaded_of
<1>5. /\ d.catalog # NoFile /\ d.catalog.dbs = {DefaultDb}
      /\ \A t \in Tables : \E m \in 0 .. Len(log) :
           SameCatalogs(history(log)[m], loaded_of(d), t)
      /\ \A t \in Tables : \E k \in 0 .. Len(log) :
           file_rows(d.tables[t]) \subseteq rows_in(history(log)[k], t)
  BY <1>2 DEF Filed
<1> HIDE DEF log
<1>6. whole(x.wal) /\ Legal(x.wal)
  BY <1>1, <1>2, <1>3, LegalAppend
<1>7. /\ Len(x.wal) = Len(log) + 1
      /\ \A n \in 0 .. Len(log) : history(x.wal)[n] = history(log)[n]
  <2>1. Len(Append(log, e)) = Len(log) + 1
    BY <1>1
  <2> QED
    BY <1>1, <1>3, <2>1, HistoryAppend
<1>8. \A n \in 0 .. Len(log) : n \in 0 .. Len(x.wal)
  BY <1>1, <1>7
<1>9. Filed(x)
  BY <1>4, <1>5, <1>7, <1>8 DEF Filed
<1>10. FiledWellFormed(x)
  BY <1>2 DEF FiledWellFormed
<1> QED
  BY <1>6, <1>9, <1>10 DEF Consistent

\* A file that is replaced by what the log says now keeps the files consistent.
LEMMA FileConsistent ==
  ASSUME NEW d \in DiskType, Consistent(d), NEW x, x.wal = d.wal,
         \/ x.catalog = d.catalog
         \/ /\ x.catalog # NoFile /\ WellFormed(x.catalog)
            /\ x.catalog.dbs = {DefaultDb}
            /\ \A t \in Tables : SameCatalogs(last(d.wal), loaded_of(x), t),
         \A t \in Tables :
           \/ x.tables[t] = d.tables[t]
           \/ file_rows(x.tables[t]) \subseteq rows_in(last(d.wal), t)
  PROVE  Consistent(x)
<1> DEFINE log == d.wal
<1>1. Len(log) \in 0 .. Len(log) /\ last(log) = history(log)[Len(log)]
  BY DEF DiskType, last
<1>2. whole(log) /\ Legal(log) /\ Filed(d) /\ FiledWellFormed(d)
  BY DEF Consistent
<1>3. /\ d.catalog # NoFile /\ d.catalog.dbs = {DefaultDb}
      /\ \A t \in Tables : \E m \in 0 .. Len(log) :
           SameCatalogs(history(log)[m], loaded_of(d), t)
      /\ \A t \in Tables : \E k \in 0 .. Len(log) :
           file_rows(d.tables[t]) \subseteq rows_in(history(log)[k], t)
  BY <1>2 DEF Filed
<1>4. /\ x.wal = log
      /\ \/ x.catalog = d.catalog
         \/ \A t \in Tables : SameCatalogs(last(log), loaded_of(x), t)
      /\ \A t \in Tables :
           \/ x.tables[t] = d.tables[t]
           \/ file_rows(x.tables[t]) \subseteq rows_in(last(log), t)
  OBVIOUS
<1>5. /\ x.catalog # NoFile /\ x.catalog.dbs = {DefaultDb}
      /\ FiledWellFormed(x)
  BY <1>2, <1>3 DEF FiledWellFormed
<1> HIDE DEF log
<1>6. \A t \in Tables : \E m \in 0 .. Len(log) :
        SameCatalogs(history(log)[m], loaded_of(x), t)
  <2>1. CASE x.catalog = d.catalog
    <3>1. \A h, t : SameCatalogs(h, loaded_of(x), t)
                      <=> SameCatalogs(h, loaded_of(d), t)
      BY <2>1 DEF SameCatalogs, loaded_of, there, defs_in
    <3> QED
      BY <1>3, <3>1
  <2>2. CASE \A t \in Tables : SameCatalogs(last(log), loaded_of(x), t)
    BY <1>1, <2>2
  <2> QED
    BY <1>4, <2>1, <2>2
<1>7. \A t \in Tables : \E k \in 0 .. Len(log) :
        file_rows(x.tables[t]) \subseteq rows_in(history(log)[k], t)
  <2> SUFFICES ASSUME NEW t \in Tables
               PROVE  \E k \in 0 .. Len(log) :
                        file_rows(x.tables[t]) \subseteq rows_in(history(log)[k], t)
    OBVIOUS
  <2>1. CASE x.tables[t] = d.tables[t]
    BY <1>3, <2>1
  <2>2. CASE file_rows(x.tables[t]) \subseteq rows_in(last(log), t)
    BY <1>1, <2>2
  <2> QED
    BY <1>4, <2>1, <2>2
<1> QED
  BY <1>2, <1>4, <1>5, <1>6, <1>7 DEF Consistent, Filed

-----------------------------------------------------------------------------
(* One session.                                                             *)

\* One session, on a disk where a table file can be told from its absence
SingleStore == SingleSession /\ NoFile \notin RowVec

\* Labels where the memory and the log are apart
Ahead == {"drop_table", "insert_store", "create_index_log", "drop_index_log"}

\* A session that is not ahead of the log, and none that the log is ahead of
LEMMA NotAhead ==
  /\ \A s : pc[s] \notin Ahead =>
       caught_up(s) = memory /\ logged(s) = last(disk.wal)
  /\ \A s : (pc[s] \notin Ahead)' =>
       caught_up(s)' = memory' /\ logged(s)' = last(disk.wal)'
  BY DEF Ahead, caught_up, logged, At

\* The memory is sound.
LEMMA MemorySound ==
  ASSUME RecoveryInv, catalog.dbs = {DefaultDb}
  PROVE  Sound(memory) /\ memory.catalog = catalog /\ memory.storage = storage
  BY DEF RecoveryInv, TypeOK, SharedType, CatalogWellFormed, IdsBelow, memory,
         Sound, InOrder, ids_below

\* The entries a statement logs are entries.
LEMMA LoggedEntries ==
  ASSUME NEW st \in Statement
  PROVE  /\ st.op = "drop_table" =>
              drop_entry(st) \in Entry /\ drop_entry(st).type = "DropTable"
         /\ st.op = "insert" => \A rs \in Seq(Row) :
              rows_entry(st, rs) \in Entry
                /\ rows_entry(st, rs).type = "InsertRows"
         /\ st.op = "create_index" =>
              index_entry(st) \in Entry /\ index_entry(st).type = "CreateIndex"
         /\ st.op = "drop_index" =>
              drop_index_entry(st) \in Entry
                /\ drop_index_entry(st).type = "DropIndex"
<1>1. /\ st.db \in DBs
      /\ st.op \notin {"create_database", "drop_database"} => st.tbl \in Tables
      /\ st.op = "create_index" => st.def \in IndexDef
      /\ st.op = "drop_index" => st.name \in IndexNames
  BY StatementFields
<1>2. CASE st.op = "drop_table"
  BY <1>1, <1>2 DEF drop_entry, Entry, WholeEntry
<1>3. CASE st.op = "insert"
  BY <1>1, <1>3 DEF rows_entry, Entry, WholeEntry
<1>4. CASE st.op = "create_index"
  BY <1>1, <1>4 DEF index_entry, Entry, WholeEntry
<1>5. CASE st.op = "drop_index"
  BY <1>1, <1>5 DEF drop_index_entry, Entry, WholeEntry
<1> QED
  BY <1>2, <1>3, <1>4, <1>5

-----------------------------------------------------------------------------
(* The steps that change neither the log nor what is in the tables.         *)

\* Labels where OnTrack says something of the tables or the rows
Special == HasTable \cup {"drop_table_file", "create_index_log"}

\* A step that leaves the log, the tables, the definitions and the rows
LEMMA QuietInStep ==
  ASSUME NEW s, InStep(s), pc[s] \notin Ahead, pc'[s] \notin Ahead,
         ~poisoned', catalog'.dbs = catalog.dbs,
         catalog'.tables = catalog.tables, catalog'.indexes = catalog.indexes,
         storage'.tables = storage.tables,
         disk'.wal = disk.wal, Consistent(disk')
  PROVE  InStep(s)'
<1>1. /\ caught_up(s) = memory /\ logged(s) = last(disk.wal)
      /\ caught_up(s)' = memory' /\ logged(s)' = last(disk.wal)'
  BY NotAhead
<1>2. Alike(memory, last(disk.wal))
  BY <1>1 DEF InStep
<1>3. Alike(memory', last(disk.wal))
  <2> DEFINE x == memory'
             y == memory
  <2>1. /\ x.catalog.tables = y.catalog.tables
        /\ x.catalog.indexes = y.catalog.indexes
        /\ x.storage.tables = y.storage.tables
    BY DEF memory
  <2> HIDE DEF x, y
  <2>2. Alike(x, last(disk.wal)) <=> Alike(y, last(disk.wal))
    BY <2>1, AlikeFields
  <2> QED
    BY <1>2, <2>2 DEF x, y
<1>4. Alike(caught_up(s)', logged(s)')
  BY <1>1, <1>3
<1>5. catalog'.dbs = {DefaultDb}
  BY DEF InStep
<1> QED
  BY <1>4, <1>5 DEF InStep

\* A step to a label where nothing is said of tables and rows
LEMMA PlainTrack ==
  ASSUME NEW s, OnTrack(s), pc'[s] \notin Special,
         UNCHANGED stmt \/ stmt'[s].op = "drop_index" \/ stmt'[s] \in Menu
  PROVE  OnTrack(s)'
  BY DEF OnTrack, Special, HasTable, At

\* A session that begins a statement
LEMMA BeginInStep ==
  ASSUME RecoveryInv, NEW s \in Sessions, InStep(s), OnTrack(s), Begin(s)
  PROVE  InStep(s)' /\ OnTrack(s)'
<1>1. PICK st \in Menu : stmt' = [stmt EXCEPT ![s] = st] /\ Goto(s, first_step(st))
  BY DEF Begin
<1>2. stmt'[s] = st /\ pc'[s] = first_step(st) /\ st.op \in Ops
  BY <1>1, ExecutorAssumption, StatementFields
     DEF Goto, RecoveryInv, TypeOK, ControlType
<1>3. first_step(st) \notin Ahead \cup Special
  BY <1>2 DEF first_step, Ops, Ahead, Special, HasTable
<1>4. pc[s] \notin Ahead
  BY DEF Begin, At, Ahead
<1>5. ~poisoned' /\ Consistent(disk')
  BY DEF Begin, InStep
<1>6. InStep(s)'
  BY <1>2, <1>3, <1>4, <1>5, QuietInStep DEF Begin
<1> QED
  BY <1>2, <1>3, <1>6, PlainTrack

\* A session that looks whether there is a table, an index or a database
LEMMA ExistsInStep ==
  ASSUME RecoveryInv, NEW s \in Sessions, InStep(s), OnTrack(s),
         NEW l, NEW h, NEW n, ExistsCheck(s, l, h, n),
         l \notin Ahead, n \notin Ahead \cup Special
  PROVE  InStep(s)' /\ OnTrack(s)'
<1>1. pc'[s] \in {n, "idle"}
  BY DEF ExistsCheck, Return, Goto, RecoveryInv, TypeOK, ControlType
<1>2. pc'[s] \notin Ahead \cup Special /\ pc[s] \notin Ahead
  BY <1>1 DEF ExistsCheck, At, Ahead, Special, HasTable
<1>3. ~poisoned' /\ Consistent(disk')
  BY DEF ExistsCheck, InStep
<1>4. InStep(s)'
  BY <1>2, <1>3, QuietInStep DEF ExistsCheck
<1> QED
  BY <1>2, <1>4, PlainTrack DEF ExistsCheck

\* A session that looks its table up has found it when it goes on.
LEMMA LookupInStep ==
  ASSUME SingleStore, RecoveryInv, NEW s \in Sessions, InStep(s), OnTrack(s),
         NEW l, NEW n, NEW x, LookupTable(s, l, n, x),
         l \notin Ahead,
         n \notin Ahead \cup {"drop_table_file", "create_index_log", "insert_log"}
  PROVE  InStep(s)' /\ OnTrack(s)'
<1>1. \/ pc'[s] = "idle"
      \/ pc'[s] = n /\ table_exists(catalog, stmt[s].db, stmt[s].tbl)
  BY DEF LookupTable, Return, Goto, RecoveryInv, TypeOK, ControlType
<1>2. pc'[s] \notin Ahead /\ pc[s] \notin Ahead
  BY <1>1 DEF LookupTable, CatalogLock, At, Ahead
<1>3. ~poisoned' /\ Consistent(disk')
  BY DEF LookupTable, InStep
<1>4. InStep(s)'
  BY <1>2, <1>3, QuietInStep DEF LookupTable
<1>5. CASE pc'[s] \notin Special
  BY <1>4, <1>5, PlainTrack DEF LookupTable
<1>6. CASE pc'[s] \in Special
  <2>1. pc'[s] = n /\ table_exists(catalog, stmt[s].db, stmt[s].tbl)
    BY <1>1, <1>6 DEF Special, HasTable
  <2>2. stmt[s].db = DefaultDb
    BY StatementFields
       DEF SingleStore, SingleSession, OneDatabase, RecoveryInv, TypeOK, ControlType
  <2>3. there(memory, stmt[s].tbl)'
    BY <2>1, <2>2 DEF LookupTable, table_exists, there, memory
  <2>4. UNCHANGED stmt
    BY DEF LookupTable
  <2>5. /\ pc'[s] # "drop_table_file" /\ pc'[s] # "create_index_log"
        /\ pc'[s] # "insert_log"
    BY <2>1
  <2>6. OnTrack(s)'
    BY <2>3, <2>4, <2>5 DEF OnTrack, At
  <2> QED
    BY <1>4, <2>6
<1> QED
  BY <1>5, <1>6

\* The rows that an INSERT fills in are what it gives, completed.
LEMMA FilledIn ==
  ASSUME NEW given \in Seq(PartialRow), NEW base
  PROVE  completed(fill_rows(given, base), given)
<1>1. DOMAIN given = 1 .. Len(given) /\ Len(given) \in Nat
  OBVIOUS
<1>2. Len(fill_rows(given, base)) = Len(given)
  BY <1>1 DEF fill_rows
<1>3. ASSUME NEW i \in 1 .. Len(given)
      PROVE  Durable!completes(fill_rows(given, base)[i], given[i])
  <2>1. fill_rows(given, base)[i] =
          fill_row(given[i], base + ids_taken(given, i - 1))
    BY <1>1 DEF fill_rows
  <2>2. \A row, next : Durable!completes(fill_row(row, next), row)
    BY DEF fill_row, Durable!completes
  <2> QED
    BY <2>1, <2>2
<1> QED
  BY <1>2, <1>3 DEF completed

\* The rows of an INSERT are filled in: each has what the statement gives it.
LEMMA FillInStep ==
  ASSUME SingleStore, RecoveryInv, NEW s \in Sessions, InStep(s), OnTrack(s),
         InsertFill(s)
  PROVE  InStep(s)' /\ OnTrack(s)'
<1> DEFINE st == stmt[s]
           given == stmt[s].rows
           base == catalog.sequences[stmt[s].tbl]
           n == ids_taken(given, Len(given))
<1>1. st \in Statement /\ st.op = "insert" /\ st \in Menu
  <2>1. st \in Statement /\ st.op = "insert"
    BY AtOp, LabelSets
       DEF InsertFill, CatalogLock, At, RecoveryInv, TypeOK, Ops
  <2> QED
    BY <2>1 DEF OnTrack
<1>2. /\ st.tbl \in Tables /\ given \in Seq(PartialRow)
      /\ \A i \in DOMAIN given : given[i] \in Row
  BY <1>1, StatementFields DEF SingleStore, SingleSession, WholeRows
<1>3. /\ rows' = [rows EXCEPT ![s] = fill_rows(given, base)]
      /\ catalog' = IF n = 0 THEN catalog ELSE next_row_id(catalog, st.tbl, n)
      /\ Goto(s, "insert_log") /\ UNCHANGED <<storage, disk, poisoned, stmt>>
  BY <1>2 DEF InsertFill
<1>4. /\ pc'[s] = "insert_log" /\ rows'[s] = fill_rows(given, base)
      /\ pc[s] \notin Ahead /\ pc'[s] \notin Ahead
      /\ pc'[s] # "drop_table_file" /\ pc'[s] # "create_index_log"
  BY <1>3 DEF Goto, RecoveryInv, TypeOK, ControlType, LocalsType, InsertFill,
              CatalogLock, At, Ahead
<1>5. /\ catalog'.dbs = catalog.dbs /\ catalog'.tables = catalog.tables
      /\ catalog'.indexes = catalog.indexes
  BY <1>3 DEF next_row_id, RecoveryInv, TypeOK, SharedType, CatalogType
<1>6. ~poisoned' /\ Consistent(disk')
  BY <1>3 DEF InStep
<1>7. InStep(s)'
  BY <1>3, <1>4, <1>5, <1>6, QuietInStep
<1>8. completed(fill_rows(given, base), given)
  BY <1>2, FilledIn
<1>9. there(memory, stmt[s].tbl)'
  <2>1. pc[s] \in HasTable
    BY DEF InsertFill, CatalogLock, At, HasTable
  <2>2. there(memory, stmt[s].tbl)
    BY <2>1 DEF OnTrack
  <2> QED
    BY <1>3, <1>5, <2>2 DEF there, memory
<1>10. OnTrack(s)'
  <2>1. stmt'[s] = stmt[s] /\ stmt[s] \in Menu
    BY <1>1, <1>3
  <2>2. completed(rows'[s], stmt'[s].rows)
    BY <1>4, <1>8, <2>1
  <2> QED
    BY <1>4, <1>9, <2>1, <2>2 DEF OnTrack, At
<1> QED
  BY <1>7, <1>10

\* The steps that read, or write only index data.
LEMMA IndexDataInStep ==
  ASSUME RecoveryInv, NEW s \in Sessions, InStep(s), OnTrack(s),
         \/ CreateIndexExists(s) \/ CreateIndexBuild(s) \/ DropIndexFind(s)
         \/ DropIndexData(s) \/ InsertIndexes(s) \/ InsertIndex(s)
         \/ SelectRead(s)
  PROVE  InStep(s)' /\ OnTrack(s)'
<1>1. TypeOK /\ (Begin(s) \/ Step(s))
  BY DEF RecoveryInv, Step, DdlStep, DmlStep
<1>2. pc[s] \in {"create_index_exists", "create_index_build", "drop_index_find",
                 "drop_index_data", "insert_indexes", "insert_index",
                 "select_read"}
  BY DEF CreateIndexExists, CreateIndexBuild, DropIndexFind, DropIndexData,
         InsertIndexes, InsertIndex, SelectRead, CatalogLock, At
<1>3. pc'[s] \in {"idle", "create_index", "create_index_save",
                  "drop_index_exists", "drop_index", "insert_index"}
  BY DEF CreateIndexExists, CreateIndexBuild, DropIndexFind, DropIndexData,
         InsertIndexes, InsertIndex, SelectRead, Return, Goto, RecoveryInv,
         TypeOK, ControlType
<1>4. pc[s] \notin Ahead /\ pc'[s] \notin Ahead \cup Special
  BY <1>2, <1>3 DEF Ahead, Special, HasTable
<1>5. storage'.tables = storage.tables
  <2>1. ~DropsRows(s) /\ ~InsertsRows(s) /\ ~DeletesRows(s) /\ ~UpdatesRows(s)
    BY <1>2 DEF DropsRows, InsertsRows, DeletesRows, UpdatesRows, At
  <2> QED
    BY <1>1, <2>1, RowsSteps DEF RowsUnchanged
<1>6. UNCHANGED <<catalog, poisoned, disk>>
  BY DEF CreateIndexExists, CreateIndexBuild, DropIndexFind, DropIndexData,
         InsertIndexes, InsertIndex, SelectRead
<1>7. InStep(s)'
  BY <1>4, <1>5, <1>6, QuietInStep DEF InStep
<1>8. UNCHANGED stmt \/ stmt'[s].op = "drop_index"
  <2>1. CASE DropIndexFind(s)
    <3>1. CASE UNCHANGED stmt
      BY <3>1
    <3>2. CASE \E t \in Tables : stmt' = [stmt EXCEPT ![s].tbl = t]
      <4>1. PICK t \in Tables : stmt' = [stmt EXCEPT ![s].tbl = t]
        BY <3>2
      <4>2. stmt[s] \in Statement /\ stmt[s].op = "drop_index"
        BY <1>1, <2>1, AtOp, LabelSets
           DEF DropIndexFind, CatalogLock, At, Ops, TypeOK
      <4>3. stmt'[s] = [stmt[s] EXCEPT !.tbl = t]
        BY <1>1, <4>1 DEF TypeOK, ControlType
      <4> QED
        BY <4>2, <4>3 DEF Statement
    <3> QED
      BY <2>1, <3>1, <3>2 DEF DropIndexFind
  <2>2. CASE ~DropIndexFind(s)
    BY <2>2 DEF CreateIndexExists, CreateIndexBuild, DropIndexData,
                InsertIndexes, InsertIndex, SelectRead
  <2> QED
    BY <2>1, <2>2
<1> QED
  BY <1>4, <1>7, <1>8, PlainTrack

\* The one database is there already.
LEMMA CreateDatabaseInStep ==
  ASSUME SingleStore, RecoveryInv, NEW s \in Sessions, InStep(s), OnTrack(s),
         CreateDatabase(s)
  PROVE  InStep(s)' /\ OnTrack(s)'
<1>1. stmt[s].db = DefaultDb
  BY StatementFields
     DEF SingleStore, SingleSession, OneDatabase, RecoveryInv, TypeOK, ControlType
<1>2. /\ catalog' = create_database(catalog, stmt[s].db)
      /\ Goto(s, "save_catalog")
      /\ UNCHANGED <<storage, poisoned, disk, stmt>>
  BY DEF CreateDatabase, ChangeCatalog
<1>3. /\ catalog'.dbs = catalog.dbs /\ catalog'.tables = catalog.tables
      /\ catalog'.indexes = catalog.indexes
  BY <1>1, <1>2
     DEF create_database, InStep, RecoveryInv, TypeOK, SharedType, CatalogType
<1>4. pc[s] \notin Ahead /\ pc'[s] \notin Ahead \cup Special
  BY <1>2 DEF CreateDatabase, CatalogLock, At, Goto, RecoveryInv, TypeOK,
              ControlType, Ahead, Special, HasTable
<1>5. InStep(s)'
  BY <1>2, <1>3, <1>4, QuietInStep DEF InStep
<1> QED
  BY <1>2, <1>4, <1>5, PlainTrack

-----------------------------------------------------------------------------
(* The steps that write a file other than the log.                          *)

\* The rows of a table file are those of the table it was written from.
LEMMA FileOfRows ==
  ASSUME NoFile \notin RowVec, NEW m, IsRowMap(m)
  PROVE  file_rows(rows_vec(m)) = row_set(m)
<1>1. rows_vec(m) # NoFile
  BY RowsVecType
<1>2. {r[2] : r \in rows_vec(m)} = {m[id] : id \in DOMAIN m}
  <2>1. \A r \in rows_vec(m) : r[2] \in {m[id] : id \in DOMAIN m}
    BY DEF rows_vec
  <2>2. ASSUME NEW id \in DOMAIN m
        PROVE  m[id] \in {r[2] : r \in rows_vec(m)}
    <3>1. <<id, m[id]>> \in rows_vec(m) /\ <<id, m[id]>>[2] = m[id]
      BY DEF rows_vec
    <3> QED
      BY <3>1
  <2> QED
    BY <2>1, <2>2
<1> QED
  BY <1>1, <1>2 DEF file_rows, row_set

\* The catalog file, written, holds what the log says of the catalog.
LEMMA CatalogConsistent ==
  ASSUME RecoveryInv, Consistent(disk), catalog.dbs = {DefaultDb},
         \A t \in Tables : SameCatalogs(memory, last(disk.wal), t),
         disk' = save_catalog(disk, catalog)
  PROVE  disk'.wal = disk.wal /\ Consistent(disk')
<1>1. disk \in DiskType /\ WellFormed(catalog) /\ catalog # NoFile
  BY WalAssumption DEF RecoveryInv, TypeOK, SharedType, CatalogWellFormed
<1>2. /\ disk'.wal = disk.wal /\ disk'.catalog = catalog
      /\ disk'.tables = disk.tables
  BY <1>1 DEF save_catalog, DiskType
<1>4. \A t \in Tables : SameCatalogs(last(disk.wal), loaded_of(disk'), t)
  <2>1. \A t : /\ there(loaded_of(disk'), t) <=> there(memory, t)
               /\ defs_in(loaded_of(disk'), t) = defs_in(memory, t)
    BY <1>2 DEF there, defs_in, loaded_of, memory
  <2> QED
    BY <2>1 DEF SameCatalogs
<1> DEFINE x == disk'
<1>5. /\ x.wal = disk.wal /\ x.tables = disk.tables
      /\ x.catalog # NoFile /\ WellFormed(x.catalog)
      /\ x.catalog.dbs = {DefaultDb}
      /\ \A t \in Tables : SameCatalogs(last(disk.wal), loaded_of(x), t)
  BY <1>1, <1>2, <1>4
<1> HIDE DEF x
<1>6. Consistent(x)
  BY <1>1, <1>5, FileConsistent
<1> QED
  BY <1>5, <1>6 DEF x

\* A table file, written, holds no row that the log does not say.
LEMMA TableConsistent ==
  ASSUME NoFile \notin RowVec, RecoveryInv, Consistent(disk),
         \A u \in Tables : rows_in(memory, u) \subseteq rows_in(last(disk.wal), u),
         NEW t, disk' = save_table_data(disk, storage, t)
  PROVE  disk'.wal = disk.wal /\ Consistent(disk')
<1>1. disk \in DiskType /\ StorageType(storage)
  BY DEF RecoveryInv, TypeOK, SharedType
<1>3. CASE t \notin DOMAIN storage.tables
  BY <1>1, <1>3 DEF save_table_data
<1>4. CASE t \in DOMAIN storage.tables
  <2> DEFINE m == storage.tables[t]
             x == disk'
  <2>1. t \in Tables /\ IsRowMap(m)
    BY <1>1, <1>4 DEF StorageType
  <2>2. x = [disk EXCEPT !.tables[t] = rows_vec(m)]
    BY <1>4 DEF save_table_data
  <2>3. /\ x.wal = disk.wal /\ x.catalog = disk.catalog
        /\ \A u \in Tables :
             x.tables[u] = IF u = t THEN rows_vec(m) ELSE disk.tables[u]
    BY <1>1, <2>2 DEF DiskType
  <2>4. rows_in(memory, t) = row_set(m)
    BY <1>4 DEF rows_in, rows_of, memory
  <2>5. file_rows(rows_vec(m)) \subseteq rows_in(last(disk.wal), t)
    <3>1. rows_in(memory, t) \subseteq rows_in(last(disk.wal), t)
      BY <2>1
    <3>2. file_rows(rows_vec(m)) = row_set(m)
      BY <2>1, FileOfRows
    <3> QED
      BY <2>4, <3>1, <3>2
  <2> HIDE DEF x, m
  <2>6. \A u \in Tables : \/ x.tables[u] = disk.tables[u]
                          \/ file_rows(x.tables[u])
                               \subseteq rows_in(last(disk.wal), u)
    BY <2>3, <2>5
  <2>7. Consistent(x)
    BY <1>1, <2>3, <2>6, FileConsistent
  <2> QED
    BY <2>3, <2>7 DEF x
<1> QED
  BY <1>3, <1>4

\* A table file is removed when the log says that its table has no rows.
LEMMA RemovedConsistent ==
  ASSUME SingleStore, RecoveryInv, NEW s \in Sessions, InStep(s), OnTrack(s),
         DropTableFile(s)
  PROVE  disk'.wal = disk.wal /\ Consistent(disk')
<1> DEFINE t == stmt[s].tbl
           x == disk'
<1>1. disk \in DiskType /\ Consistent(disk)
  BY DEF InStep, RecoveryInv, TypeOK, SharedType
<1>2. t \in Tables
  <2>1. stmt[s] \in Statement /\ stmt[s].op = "drop_table"
    BY AtOp, LabelSets DEF DropTableFile, At, RecoveryInv, TypeOK, Ops
  <2> QED
    BY <2>1, StatementFields
<1>3. Alike(memory, last(disk.wal))
  BY NotAhead DEF InStep, DropTableFile, At, Ahead
<1>4. ~there(memory, t)
  BY DEF OnTrack, DropTableFile
<1>5. rows_in(last(disk.wal), t) = {}
  <2>1. ~there(last(disk.wal), t)
    BY <1>2, <1>3, <1>4 DEF Alike, AlikeAt
  <2>2. disk.wal \in Seq(Entry) /\ whole(disk.wal) /\ Legal(disk.wal)
    BY <1>1 DEF DiskType, Consistent
  <2> QED
    BY <1>2, <2>1, <2>2, LastSound DEF SingleStore, SingleSession
<1>6. x = [disk EXCEPT !.tables[t] = NoFile]
  BY DEF DropTableFile
<1>7. /\ x.wal = disk.wal /\ x.catalog = disk.catalog
      /\ \A u \in Tables : x.tables[u] = IF u = t THEN NoFile ELSE disk.tables[u]
  BY <1>1, <1>6 DEF DiskType
<1> HIDE DEF x, t
<1>8. \A u \in Tables : \/ x.tables[u] = disk.tables[u]
                        \/ file_rows(x.tables[u]) = rows_in(last(disk.wal), u)
  BY <1>5, <1>7 DEF file_rows
<1>9. Consistent(x)
  BY <1>1, <1>7, <1>8, FileConsistent
<1> QED
  BY <1>7, <1>9 DEF x

\* The steps that write files leave them consistent.
LEMMA FileInStep ==
  ASSUME SingleStore, RecoveryInv, NEW s \in Sessions, InStep(s), OnTrack(s),
         \/ SaveCatalog(s) \/ SaveTable(s) \/ DropTableFile(s)
         \/ DropTableSave(s)
  PROVE  InStep(s)' /\ OnTrack(s)' /\ disk'.wal = disk.wal
<1>1. /\ pc[s] \in {"save_catalog", "insert_save", "create_index_save",
                    "delete_save", "update_save", "drop_table_file",
                    "drop_table_save"}
      /\ pc'[s] \in {"idle", "insert_indexes", "save_catalog",
                     "drop_table_save"}
  BY DEF SaveCatalog, SaveTable, DropTableFile, DropTableSave, CatalogLock, At,
         Return, Goto, RecoveryInv, TypeOK, ControlType
<1>2. pc[s] \notin Ahead /\ pc'[s] \notin Ahead \cup Special
  BY <1>1 DEF Ahead, Special, HasTable
<1>3. disk'.wal = disk.wal /\ Consistent(disk')
  <2>1. CASE DropTableFile(s)
    BY <2>1, RemovedConsistent
  <2> SUFFICES ASSUME ~DropTableFile(s)
               PROVE  disk'.wal = disk.wal /\ Consistent(disk')
    BY <2>1
  <2>2. /\ Consistent(disk) /\ catalog.dbs = {DefaultDb}
        /\ Alike(memory, last(disk.wal))
    BY <1>2, NotAhead DEF InStep
  <2>3. \A t \in Tables :
          /\ SameCatalogs(memory, last(disk.wal), t)
          /\ rows_in(memory, t) \subseteq rows_in(last(disk.wal), t)
    BY <2>2 DEF Alike, AlikeAt, SameCatalogs
  <2>4. CASE SaveTable(s)
    BY <2>2, <2>3, <2>4, TableConsistent DEF SaveTable, SingleStore
  <2>5. CASE SaveCatalog(s) \/ DropTableSave(s)
    <3>1. disk' = save_catalog(disk, catalog)
      BY <2>5 DEF SaveCatalog, DropTableSave, InStep
    <3> QED
      BY <2>2, <2>3, <3>1, CatalogConsistent
  <2> QED
    BY <2>4, <2>5
<1>4. UNCHANGED <<catalog, storage, poisoned, stmt>>
  BY DEF SaveCatalog, SaveTable, DropTableFile, DropTableSave
<1>5. InStep(s)'
  BY <1>2, <1>3, <1>4, QuietInStep DEF InStep
<1> QED
  BY <1>2, <1>3, <1>4, <1>5, PlainTrack

-----------------------------------------------------------------------------
(* The steps that log, and those that do what was logged.                   *)

\* The statement a session executes at a label of its kind
LEMMA InStatement ==
  ASSUME SingleStore, RecoveryInv, NEW s \in Sessions, OnTrack(s),
         NEW op \in Ops \ {"create_database", "drop_database"},
         pc[s] \in labels(op) \ {"save_catalog"}
  PROVE  /\ stmt[s] \in Statement /\ stmt[s].op = op
         /\ stmt[s].db = DefaultDb /\ stmt[s].tbl \in Tables
         /\ op # "drop_index" => stmt[s] \in Menu
<1>1. stmt[s] \in Statement /\ stmt[s].op = op
  BY AtOp DEF RecoveryInv, TypeOK
<1>2. stmt[s].db \in DBs /\ stmt[s].tbl \in Tables
  BY <1>1, StatementFields
<1> QED
  BY <1>1, <1>2 DEF SingleStore, SingleSession, OneDatabase, OnTrack

\* What the memory and the log have in common while no one is ahead
LEMMA MemoryAlike ==
  ASSUME SingleStore, RecoveryInv, NEW s \in Sessions, InStep(s)
  PROVE  /\ Sound(memory) /\ Sound(last(disk.wal))
         /\ disk \in DiskType /\ Consistent(disk)
         /\ pc[s] \notin Ahead =>
              /\ Alike(memory, last(disk.wal))
              /\ \A e : e.tbl \in Tables =>
                   (LegalEntry(memory, e) <=> LegalEntry(last(disk.wal), e))
              /\ \A e \in Entry : e.type # "Torn" =>
                   Alike(apply_entry(memory, e), apply_entry(last(disk.wal), e))
<1>1. Sound(memory)
  BY MemorySound DEF InStep
<1>2. disk \in DiskType /\ Consistent(disk)
  BY DEF InStep, RecoveryInv, TypeOK, SharedType
<1>3. Sound(last(disk.wal))
  BY <1>2, LastSound DEF DiskType, Consistent, SingleStore, SingleSession
<1>4. ASSUME pc[s] \notin Ahead
      PROVE  Alike(memory, last(disk.wal))
  BY <1>4, NotAhead DEF InStep
<1> DEFINE x == memory
           y == last(disk.wal)
<1>5. Sound(x) /\ Sound(y) /\ (pc[s] \notin Ahead => Alike(x, y))
  BY <1>1, <1>3, <1>4
<1> HIDE DEF x, y
<1>6. pc[s] \notin Ahead => \A e : e.tbl \in Tables =>
        (LegalEntry(x, e) <=> LegalEntry(y, e))
  BY <1>5, LegalAlike
<1>7. pc[s] \notin Ahead => \A e \in Entry : e.type # "Torn" =>
        Alike(apply_entry(x, e), apply_entry(y, e))
  BY <1>5, EntryAlike DEF SingleStore, SingleSession
<1> QED
  BY <1>2, <1>5, <1>6, <1>7 DEF x, y

\* An accepted entry is logged.
LEMMA EntryLogged ==
  ASSUME RecoveryInv, Consistent(disk), NEW e \in Entry, e.type # "Torn",
         LegalEntry(last(disk.wal), e), Log(e)
  PROVE  /\ Consistent(disk')
         /\ disk'.wal = Append(disk.wal, e)
         /\ last(disk'.wal) = apply_entry(last(disk.wal), e)
<1> DEFINE x == disk'
<1>1. disk \in DiskType
  BY DEF RecoveryInv, TypeOK, SharedType
<1>2. /\ x.wal = Append(disk.wal, e) /\ x.catalog = disk.catalog
      /\ x.tables = disk.tables
  BY <1>1 DEF Log, DiskType
<1> HIDE DEF x
<1>3. Consistent(x)
  BY <1>1, <1>2, LogConsistent
<1>4. last(x.wal) = apply_entry(last(disk.wal), e)
  <2>1. disk.wal \in Seq(Entry)
    BY <1>1 DEF DiskType
  <2> QED
    BY <1>2, <2>1, HistoryAppend
<1> QED
  BY <1>2, <1>3, <1>4 DEF x

\* What a logged entry says the statement st does, cs being what the log said
\* before
Means(st, e, cs) ==
  \/ /\ e.type = "CreateTable" /\ st.op = "create_table"
     /\ e.tbl = st.tbl /\ st \in Menu
  \/ /\ e.type = "DropTable" /\ st.op = "drop_table"
     /\ e.tbl = st.tbl /\ st \in Menu
  \/ /\ e.type = "InsertRows" /\ st.op = "insert"
     /\ e.tbl = st.tbl /\ st \in Menu /\ completed(e.rows, st.rows)
  \/ /\ e.type = "TableSnapshot" /\ st.op = "delete"
     /\ e.tbl = st.tbl /\ st \in Menu
     /\ {r[2] : r \in e.rows} = {r \in rows_in(cs, e.tbl) : ~matches(r, st.sel)}
  \/ /\ e.type = "TableSnapshot" /\ st.op = "update"
     /\ e.tbl = st.tbl /\ st \in Menu
     /\ {r[2] : r \in e.rows} =
          {IF matches(r, st.sel) THEN assign(r, st.set) ELSE r :
             r \in rows_in(cs, e.tbl)}
  \/ e.type \in {"CreateIndex", "DropIndex"}

\* A step of a session appends e to the log.
Logs(s, e) ==
  /\ e \in Entry /\ e.type # "Torn" /\ LegalEntry(last(disk.wal), e)
  /\ disk'.wal = Append(disk.wal, e)
  /\ Means(stmt[s], e, last(disk.wal))

\* CREATE TABLE logs first; the catalog then does what a replay does, when it
\* refuses too.
LEMMA CreateTableInStep ==
  ASSUME SingleStore, RecoveryInv, NEW s \in Sessions, InStep(s), OnTrack(s),
         CreateTable(s)
  PROVE  InStep(s)' /\ OnTrack(s)' /\ \E e : Logs(s, e)
<1> DEFINE st == stmt[s]
           e  == [type |-> "CreateTable", tbl |-> st.tbl]
           ok == create_table_ok(catalog, st.db, st.tbl)
<1>1. /\ st.db = DefaultDb /\ st.tbl \in Tables
      /\ st \in Menu /\ st.op = "create_table"
  BY InStatement, LabelSets DEF CreateTable, CatalogLock, At, Ops
<1>2. /\ e \in Entry /\ e.type = "CreateTable" /\ e.tbl = st.tbl
      /\ LegalEntry(last(disk.wal), e)
  BY <1>1 DEF Entry, WholeEntry, LegalEntry
<1>3. /\ Log(e)
      /\ ChangeCatalog(s, ok, create_table(catalog, st.db, st.tbl),
                       "save_catalog")
      /\ UNCHANGED <<storage, poisoned, stmt>>
  BY DEF CreateTable
<1>4. memory' = apply_entry(memory, e)
  <2>1. catalog' = IF ok THEN create_table(catalog, DefaultDb, st.tbl)
                         ELSE catalog
    BY <1>1, <1>3 DEF ChangeCatalog
  <2> QED
    BY <1>1, <1>3, <2>1 DEF memory, apply_entry, apply_create_table
<1>5. catalog'.dbs = catalog.dbs
  BY <1>3 DEF ChangeCatalog, create_table, RecoveryInv, TypeOK, SharedType,
              CatalogType
<1>6. pc[s] \notin Ahead /\ pc'[s] \notin Ahead \cup Special
  BY <1>3 DEF CreateTable, CatalogLock, At, ChangeCatalog, Return, Goto,
              RecoveryInv, TypeOK, ControlType, Ahead, Special, HasTable
<1> HIDE DEF e, st
<1>7. /\ Consistent(disk') /\ disk'.wal = Append(disk.wal, e)
      /\ last(disk'.wal) = apply_entry(last(disk.wal), e)
  BY <1>2, <1>3, EntryLogged DEF InStep
<1>8. Alike(apply_entry(memory, e), apply_entry(last(disk.wal), e))
  BY <1>2, <1>6, MemoryAlike
<1>9. InStep(s)'
  <2>1. caught_up(s)' = memory' /\ logged(s)' = last(disk'.wal)
    BY <1>6, NotAhead
  <2>2. ~poisoned' /\ catalog'.dbs = {DefaultDb}
    BY <1>3, <1>5 DEF InStep
  <2> QED
    BY <1>4, <1>7, <1>8, <2>1, <2>2 DEF InStep
<1>10. OnTrack(s)'
  BY <1>3, <1>6, PlainTrack
<1>11. Logs(s, e)
  BY <1>1, <1>2, <1>7 DEF Logs, Means, st
<1> QED
  BY <1>9, <1>10, <1>11

\* DROP TABLE logs, and then does what it logged, when it refuses too.
LEMMA DropTableInStep ==
  ASSUME SingleStore, RecoveryInv, NEW s \in Sessions, InStep(s), OnTrack(s),
         DropTableLog(s) \/ DropTable(s)
  PROVE  /\ InStep(s)' /\ OnTrack(s)'
         /\ disk'.wal = disk.wal \/ \E e : Logs(s, e)
<1> DEFINE st == stmt[s]
           e  == drop_entry(stmt[s])
<1>1. /\ st.db = DefaultDb /\ st.tbl \in Tables /\ st \in Statement
      /\ st \in Menu /\ st.op = "drop_table"
  BY InStatement, LabelSets DEF DropTableLog, DropTable, CatalogLock, At, Ops
<1>2. /\ e \in Entry /\ e.type = "DropTable" /\ e.tbl = st.tbl
      /\ LegalEntry(last(disk.wal), e)
  BY <1>1, LoggedEntries DEF LegalEntry, drop_entry
<1>3. CASE DropTableLog(s)
  <2>1. /\ Log(e) /\ pc[s] = "drop_table_log" /\ pc'[s] = "drop_table"
        /\ UNCHANGED <<catalog, storage, poisoned, stmt>>
    BY <1>3 DEF DropTableLog, At, drop_entry, Goto, RecoveryInv, TypeOK,
                ControlType
  <2>2. caught_up(s)' = apply_entry(memory, e)
    BY <2>1 DEF caught_up, At, memory
  <2>3. logged(s)' = last(disk'.wal)
    BY <2>1 DEF logged, At
  <2> HIDE DEF e, st
  <2>4. /\ Consistent(disk') /\ disk'.wal = Append(disk.wal, e)
        /\ last(disk'.wal) = apply_entry(last(disk.wal), e)
    BY <1>2, <2>1, EntryLogged DEF InStep
  <2>5. Alike(apply_entry(memory, e), apply_entry(last(disk.wal), e))
    BY <1>2, <2>1, MemoryAlike DEF Ahead
  <2>6. InStep(s)'
    BY <2>1, <2>2, <2>3, <2>4, <2>5 DEF InStep
  <2>7. OnTrack(s)'
    BY <2>1, PlainTrack DEF Special, HasTable
  <2>8. Logs(s, e)
    BY <1>1, <1>2, <2>4 DEF Logs, Means, st
  <2> QED
    BY <2>6, <2>7, <2>8
<1>4. CASE DropTable(s)
  <2> DEFINE ok == drop_table_ok(catalog, st.db, st.tbl)
  <2>1. /\ pc[s] = "drop_table" /\ UNCHANGED <<poisoned, disk, stmt>>
        /\ ChangeCatalog(s, ok, drop_table(catalog, st.db, st.tbl),
                         "drop_table_file")
        /\ storage' = IF ok THEN clear_table(storage, st.tbl) ELSE storage
    BY <1>4 DEF DropTable, CatalogLock, At
  <2>2. pc'[s] = IF ok THEN "drop_table_file" ELSE "idle"
    BY <2>1 DEF ChangeCatalog, Return, Goto, RecoveryInv, TypeOK, ControlType
  <2>3. catalog' = IF ok THEN drop_table(catalog, DefaultDb, st.tbl)
                         ELSE catalog
    BY <1>1, <2>1 DEF ChangeCatalog
  <2>4. memory' = apply_entry(memory, e)
    BY <1>1, <2>1, <2>3 DEF memory, apply_entry, apply_drop_table, drop_entry
  <2>5. caught_up(s) = memory' /\ logged(s) = last(disk.wal)
    BY <2>1, <2>4 DEF caught_up, logged, At
  <2>6. caught_up(s)' = memory' /\ logged(s)' = last(disk.wal)
    BY <2>1, <2>2 DEF caught_up, logged, At
  <2>7. /\ catalog'.dbs = catalog.dbs
        /\ ok => <<DefaultDb, st.tbl>> \notin catalog'.tables
    BY <2>3 DEF drop_table, RecoveryInv, TypeOK, SharedType, CatalogType
  <2>8. InStep(s)'
    BY <2>1, <2>5, <2>6, <2>7 DEF InStep
  <2>9. OnTrack(s)'
    <3>1. ok => ~there(memory', st.tbl)
      BY <2>7 DEF there, memory
    <3> HIDE DEF ok
    <3> QED
      BY <1>1, <2>1, <2>2, <3>1 DEF OnTrack, At, HasTable
  <2> QED
    BY <2>1, <2>8, <2>9
<1> QED
  BY <1>3, <1>4

\* INSERT logs its rows, and then stores what it logged.
LEMMA InsertInStep ==
  ASSUME SingleStore, RecoveryInv, NEW s \in Sessions, InStep(s), OnTrack(s),
         InsertLog(s) \/ InsertStore(s)
  PROVE  /\ InStep(s)' /\ OnTrack(s)'
         /\ disk'.wal = disk.wal \/ \E e : Logs(s, e)
<1> DEFINE st == stmt[s]
           e  == rows_entry(stmt[s], rows[s])
<1>1. /\ st.tbl \in Tables /\ st \in Statement
      /\ st \in Menu /\ st.op = "insert" /\ rows[s] \in Seq(Row)
  <2>1. /\ "insert" \in Ops \ {"create_database", "drop_database"}
        /\ pc[s] \in labels("insert") \ {"save_catalog"}
    BY LabelSets DEF InsertLog, InsertStore, At, Ops
  <2>2. rows[s] \in Seq(Row)
    BY DEF RecoveryInv, TypeOK, LocalsType
  <2> QED
    BY <2>1, <2>2, InStatement
<1>2. /\ e \in Entry /\ e.type = "InsertRows" /\ e.tbl = st.tbl
      /\ e.rows = rows[s]
  BY <1>1, LoggedEntries DEF rows_entry
<1>3. CASE InsertLog(s)
  <2>1. /\ Log(e) /\ pc[s] = "insert_log" /\ pc'[s] = "insert_store"
        /\ UNCHANGED <<catalog, storage, poisoned, stmt, rows>>
    BY <1>3 DEF InsertLog, At, rows_entry, Goto, RecoveryInv, TypeOK,
                ControlType, locals
  <2>2. caught_up(s)' = apply_entry(memory, e)
    BY <2>1 DEF caught_up, At, memory
  <2>3. logged(s)' = last(disk'.wal)
    BY <2>1 DEF logged, At
  <2>4. LegalEntry(last(disk.wal), e)
    <3>1. there(memory, e.tbl)
      BY <1>2, <2>1 DEF OnTrack, HasTable
    <3>2. LegalEntry(memory, e)
      BY <1>2, <3>1 DEF LegalEntry
    <3> HIDE DEF e
    <3> QED
      BY <1>1, <1>2, <2>1, <3>2, MemoryAlike DEF Ahead
  <2>5. completed(e.rows, st.rows)
    BY <1>2, <2>1 DEF OnTrack, At
  <2> HIDE DEF e, st
  <2>6. /\ Consistent(disk') /\ disk'.wal = Append(disk.wal, e)
        /\ last(disk'.wal) = apply_entry(last(disk.wal), e)
    BY <1>2, <2>1, <2>4, EntryLogged DEF InStep
  <2>7. Alike(apply_entry(memory, e), apply_entry(last(disk.wal), e))
    BY <1>2, <2>1, MemoryAlike DEF Ahead
  <2>8. InStep(s)'
    BY <2>1, <2>2, <2>3, <2>6, <2>7 DEF InStep
  <2>9. OnTrack(s)'
    BY <2>1, PlainTrack DEF Special, HasTable
  <2>10. Logs(s, e)
    BY <1>1, <1>2, <2>4, <2>5, <2>6 DEF Logs, Means, st
  <2> QED
    BY <2>8, <2>9, <2>10
<1>4. CASE InsertStore(s)
  <2>1. /\ pc[s] = "insert_store" /\ pc'[s] = "insert_save"
        /\ UNCHANGED <<catalog, poisoned, disk, stmt>>
        /\ storage' = insert_new_rows(storage, st.tbl, rows[s])
    BY <1>4 DEF InsertStore, At, Goto, RecoveryInv, TypeOK, ControlType
  <2>2. memory' = apply_entry(memory, e)
    BY <2>1 DEF memory, apply_entry, rows_entry
  <2>3. caught_up(s) = memory' /\ logged(s) = last(disk.wal)
    BY <2>1, <2>2 DEF caught_up, logged, At
  <2>4. caught_up(s)' = memory' /\ logged(s)' = last(disk.wal)
    BY <2>1 DEF caught_up, logged, At
  <2>5. InStep(s)'
    BY <2>1, <2>3, <2>4 DEF InStep
  <2>6. OnTrack(s)'
    BY <2>1, PlainTrack DEF Special, HasTable
  <2> QED
    BY <2>1, <2>5, <2>6
<1> QED
  BY <1>3, <1>4

\* The entry of a snapshot of the rows m of table t
snapshot_entry(t, m) == [type |-> "TableSnapshot", tbl |-> t, rows |-> rows_vec(m)]

\* A step logs that the rows of table t are those of m.
LogsTable(t, m, e) ==
  /\ e \in Entry /\ e.type = "TableSnapshot" /\ e.tbl = t
  /\ LegalEntry(last(disk.wal), e)
  /\ disk'.wal = Append(disk.wal, e)
  /\ {r[2] : r \in e.rows} = row_set(m)
  /\ rows_in(last(disk.wal), t) = row_set(storage.tables[t])

\* A statement that has changed rows of its table logs what the table is now.
LEMMA SnapshotInStep ==
  ASSUME SingleStore, RecoveryInv, NEW s \in Sessions, InStep(s), OnTrack(s),
         pc[s] \in HasTable, pc[s] \notin Ahead, pc'[s] \notin Ahead \cup Special,
         NEW t, t = stmt[s].tbl, t \in DOMAIN storage.tables,
         NEW m, IsRowMap(m), NEW touched,
         storage'.tables = [storage.tables EXCEPT ![t] = m],
         touched = {} => m = storage.tables[t],
         LogSnapshot(t, m, touched),
         UNCHANGED <<catalog, poisoned, stmt>>
  PROVE  /\ InStep(s)' /\ OnTrack(s)'
         /\ disk'.wal = disk.wal \/ \E e : LogsTable(t, m, e)
<1> DEFINE e == snapshot_entry(t, m)
<1>1. /\ StorageType(storage) /\ t \in Tables
      /\ storage.tables = [u \in DOMAIN storage.tables |-> storage.tables[u]]
  BY DEF RecoveryInv, TypeOK, SharedType, StorageType
<1>2. OnTrack(s)'
  BY PlainTrack
<1>3. CASE touched = {}
  <2>1. storage'.tables = storage.tables
    BY <1>1, <1>3
  <2>2. UNCHANGED disk
    BY <1>3 DEF LogSnapshot
  <2>3. InStep(s)'
    BY <2>1, <2>2, QuietInStep DEF InStep
  <2> QED
    BY <1>2, <2>2, <2>3
<1>4. CASE touched # {}
  <2>1. Log(e)
    BY <1>4 DEF LogSnapshot, snapshot_entry
  <2>2. e \in Entry /\ e.type = "TableSnapshot" /\ e.tbl = t
        /\ e.rows = rows_vec(m)
    BY <1>1, RowsVecType DEF Entry, WholeEntry, snapshot_entry
  <2>3. {r[2] : r \in e.rows} = row_set(m)
    <3>1. file_rows(rows_vec(m)) = row_set(m) /\ rows_vec(m) # NoFile
      BY FileOfRows, RowsVecType DEF SingleStore, SingleSession
    <3> QED
      BY <2>2, <3>1 DEF file_rows
  <2> HIDE DEF e
  <2>4. Alike(memory, last(disk.wal)) /\ Sound(last(disk.wal))
    BY MemoryAlike
  <2>5. LegalEntry(last(disk.wal), e)
    <3>1. there(memory, t)
      BY DEF OnTrack
    <3>2. LegalEntry(memory, e)
      BY <2>2, <3>1 DEF LegalEntry
    <3> QED
      BY <1>1, <2>2, <3>2, MemoryAlike
  <2>6. /\ Consistent(disk') /\ disk'.wal = Append(disk.wal, e)
        /\ last(disk'.wal) = apply_entry(last(disk.wal), e)
    BY <2>1, <2>2, <2>5, EntryLogged DEF InStep
  <2>7. ASSUME NEW u \in Tables
        PROVE  AlikeAt(memory', apply_entry(last(disk.wal), e), u)
    <3> DEFINE a == last(disk.wal)
               b == apply_entry(a, e)
               x == memory
               y == memory'
    <3>1. /\ there(b, u) <=> there_after(a, e, u)
          /\ defs_in(b, u) = defs_after(a, e, u)
          /\ rows_in(b, u) = rows_after(a, e, u)
      <4> HIDE DEF a, b
      <4> QED
        BY <2>2, <2>4, EntryEffect DEF a, b, SingleStore, SingleSession
    <3>2. /\ there(b, u) <=> there(a, u)
          /\ defs_in(b, u) = defs_in(a, u)
          /\ rows_in(b, u) = IF u = t THEN row_set(m) ELSE rows_in(a, u)
      <4> HIDE DEF a, b
      <4> QED
        BY <2>2, <2>3, <3>1 DEF there_after, defs_after, rows_after, on
    <3>3. there(y, u) = there(x, u) /\ defs_in(y, u) = defs_in(x, u)
      BY DEF there, defs_in, memory
    <3>4. rows_in(y, u) = IF u = t THEN row_set(m) ELSE rows_in(x, u)
      BY <1>1 DEF rows_in, rows_of, memory
    <3>5. AlikeAt(x, a, u)
      BY <2>4 DEF Alike
    <3> HIDE DEF a, b, x, y
    <3>6. AlikeAt(y, b, u)
      BY <3>2, <3>3, <3>4, <3>5 DEF AlikeAt
    <3> QED
      BY <3>6 DEF a, b, y
  <2>8. InStep(s)'
    <3>1. caught_up(s)' = memory' /\ logged(s)' = last(disk'.wal)
      BY NotAhead
    <3>2. Alike(memory', last(disk'.wal))
      BY <2>6, <2>7 DEF Alike
    <3> QED
      BY <2>6, <3>1, <3>2 DEF InStep
  <2>9. rows_in(last(disk.wal), t) = row_set(storage.tables[t])
    <3>1. rows_in(memory, t) = row_set(storage.tables[t])
      BY DEF rows_in, rows_of, memory
    <3> QED
      BY <1>1, <2>4, <3>1 DEF Alike, AlikeAt
  <2> QED
    BY <1>2, <2>2, <2>3, <2>5, <2>6, <2>8, <2>9 DEF LogsTable
<1> QED
  BY <1>3, <1>4

\* The rows that a DELETE or an UPDATE leaves
LEMMA RowsLeft ==
  ASSUME NEW m, NEW sel, NEW set
  PROVE  /\ row_set(rows_left(m, matching_ids(m, sel)))
              = {r \in row_set(m) : ~matches(r, sel)}
         /\ row_set(rows_assigned(m, matching_ids(m, sel), set))
              = {IF matches(r, sel) THEN assign(r, set) ELSE r : r \in row_set(m)}
<1> DEFINE ids_of == matching_ids(m, sel)
           left  == rows_left(m, ids_of)
           new   == rows_assigned(m, ids_of, set)
           to(r) == IF matches(r, sel) THEN assign(r, set) ELSE r
<1>1. /\ DOMAIN left = DOMAIN m \ ids_of
      /\ \A id \in DOMAIN left : left[id] = m[id]
      /\ \A id \in DOMAIN m : id \in ids_of <=> matches(m[id], sel)
  BY DEF rows_left, matching_ids
<1>2. DOMAIN new = DOMAIN m /\ \A id \in DOMAIN m : new[id] = to(m[id])
  BY <1>1 DEF rows_assigned
<1> HIDE DEF ids_of, left, new, to
<1>3. row_set(left) = {r \in row_set(m) : ~matches(r, sel)}
  BY <1>1 DEF row_set
<1>4. row_set(new) = {to(r) : r \in row_set(m)}
  <2>1. \A id \in DOMAIN m : new[id] \in {to(r) : r \in row_set(m)}
    BY <1>2 DEF row_set
  <2>2. \A r \in row_set(m) : to(r) \in row_set(new)
    BY <1>2 DEF row_set
  <2> QED
    BY <1>2, <2>1, <2>2 DEF row_set
<1> QED
  BY <1>3, <1>4 DEF left, new, to, ids_of

\* DELETE and UPDATE change rows under the lock under which they log them.
LEMMA ApplyInStep ==
  ASSUME SingleStore, RecoveryInv, NEW s \in Sessions, InStep(s), OnTrack(s),
         DeleteApply(s) \/ UpdateApply(s)
  PROVE  /\ InStep(s)' /\ OnTrack(s)'
         /\ disk'.wal = disk.wal \/ \E e : Logs(s, e)
<1> DEFINE st == stmt[s]
           t  == stmt[s].tbl
           old == storage.tables[t]
           hit == matching_ids(old, st.sel)
           left == rows_left(old, hit)
           new == rows_assigned(old, hit, st.set)
<1>1. /\ StorageType(storage) /\ idxs[s] \in SUBSET IndexDef
      /\ DeleteApply(s) => pc[s] = "delete_apply"
      /\ UpdateApply(s) => pc[s] = "update_apply"
      /\ pc[s] \in HasTable /\ pc[s] \notin Ahead
  BY DEF RecoveryInv, TypeOK, SharedType, LocalsType, DeleteApply, UpdateApply,
         At, HasTable, Ahead
<1>2. /\ st.op = IF pc[s] = "delete_apply" THEN "delete" ELSE "update"
      /\ st \in Statement /\ st \in Menu /\ t \in Tables
  <2>1. CASE pc[s] = "delete_apply"
    <3>1. /\ "delete" \in Ops \ {"create_database", "drop_database"}
          /\ pc[s] \in labels("delete") \ {"save_catalog"}
      BY <2>1, LabelSets DEF Ops
    <3> QED
      BY <2>1, <3>1, InStatement
  <2>2. CASE pc[s] = "update_apply"
    <3>1. /\ "update" \in Ops \ {"create_database", "drop_database"}
          /\ pc[s] \in labels("update") \ {"save_catalog"}
      BY <2>2, LabelSets DEF Ops
    <3> QED
      BY <2>2, <3>1, InStatement
  <2> QED
    BY <1>1, <2>1, <2>2
<1>3. /\ UNCHANGED <<catalog, poisoned, stmt>>
      /\ pc'[s] \in {"idle", "delete_save", "update_save"}
      /\ pc'[s] \notin Ahead \cup Special
  <2>1. /\ UNCHANGED <<catalog, poisoned, stmt>>
        /\ pc'[s] \in {"idle", "delete_save", "update_save"}
    BY DEF DeleteApply, UpdateApply, Goto, Return, RecoveryInv, TypeOK,
           ControlType
  <2> QED
    BY <2>1 DEF Ahead, Special, HasTable
<1>4. CASE t \notin DOMAIN storage.tables
  <2>1. UNCHANGED <<storage, disk>>
    BY <1>4 DEF DeleteApply, UpdateApply
  <2>2. InStep(s)'
    BY <1>1, <1>3, <2>1, QuietInStep DEF InStep
  <2> QED
    BY <1>3, <2>1, <2>2, PlainTrack
<1>5. CASE t \in DOMAIN storage.tables /\ DeleteApply(s)
  <2>1. /\ storage' = delete_rows(storage, t, idxs[s], hit)
        /\ LogSnapshot(t, storage'.tables[t], hit)
    <3>1. t \in DOMAIN storage.tables
      BY <1>5
    <3>2. storage' = delete_rows(storage, t, idxs[s], hit)
      BY <1>5, <3>1 DEF DeleteApply
    <3>3. LogSnapshot(t, storage'.tables[t], hit)
      BY <1>5, <3>1, Zenon DEF DeleteApply
    <3> QED
      BY <3>2, <3>3
  <2>2. IsRowMap(old)
    BY <1>1, <1>5 DEF StorageType
  <2> HIDE DEF hit
  <2>3. StorageType(storage') /\ storage'.tables = [storage.tables EXCEPT ![t] = left]
    <3> DEFINE r == storage'
               defs == idxs[s]
    <3>1. r = delete_rows(storage, t, defs, hit)
      BY <2>1
    <3> HIDE DEF r, defs, t
    <3>2. StorageType(r) /\ r.tables = [storage.tables EXCEPT
                                  ![t] = rows_left(storage.tables[t], hit)]
      BY <1>1, <1>5, <3>1, DeleteRows
    <3> QED
      BY <3>2 DEF r, t
  <2> HIDE DEF left
  <2>4. storage'.tables[t] = left
    BY <1>1, <1>5, <2>3 DEF StorageType
  <2>5. IsRowMap(left)
    BY <1>5, <2>3, <2>4 DEF StorageType
  <2>6. hit = {} => left = old
    BY <2>2 DEF left, rows_left, IsRowMap
  <2>7. LogSnapshot(t, left, hit)
    BY <2>1, <2>4
  <2>8. /\ InStep(s)' /\ OnTrack(s)'
        /\ disk'.wal = disk.wal \/ \E e : LogsTable(t, left, e)
    <3>1. t = stmt[s].tbl
      OBVIOUS
    <3> HIDE DEF t, st
    <3> QED
      BY <1>1, <1>3, <1>5, <2>3, <2>5, <2>6, <2>7, <3>1, SnapshotInStep
  <2>9. row_set(left) = {r \in row_set(old) : ~matches(r, st.sel)}
    BY RowsLeft DEF left, hit
  <2>10. ASSUME NEW e, LogsTable(t, left, e)
         PROVE  Logs(s, e)
    <3>1. /\ e.tbl = st.tbl /\ st \in Menu /\ st.op = "delete"
      BY <1>1, <1>2, <1>5, <2>10 DEF LogsTable
    <3>2. {r[2] : r \in e.rows}
            = {r \in rows_in(last(disk.wal), e.tbl) : ~matches(r, st.sel)}
      BY <2>9, <2>10 DEF LogsTable
    <3> HIDE DEF t, st
    <3> QED
      BY <2>10, <3>1, <3>2 DEF Logs, LogsTable, Means, st
  <2> QED
    BY <2>8, <2>10
<1>6. CASE t \in DOMAIN storage.tables /\ UpdateApply(s)
  <2>1. /\ storage' = update_rows(storage, t, idxs[s], hit, st.set)
        /\ LogSnapshot(t, storage'.tables[t], hit)
    <3>1. t \in DOMAIN storage.tables
      BY <1>6
    <3>2. storage' = update_rows(storage, t, idxs[s], hit, st.set)
      BY <1>6, <3>1 DEF UpdateApply
    <3>3. LogSnapshot(t, storage'.tables[t], hit)
      BY <1>6, <3>1, Zenon DEF UpdateApply
    <3> QED
      BY <3>2, <3>3
  <2>2. IsRowMap(old) /\ st.op = "update" /\ st.set \in PartialRow
    BY <1>1, <1>2, <1>6, StatementFields DEF StorageType
  <2> HIDE DEF hit
  <2>3. StorageType(storage') /\ storage'.tables = [storage.tables EXCEPT ![t] = new]
    <3> DEFINE r == storage'
               defs == idxs[s]
               set == st.set
    <3>1. /\ r = update_rows(storage, t, defs, hit, set)
          /\ set \in PartialRow /\ defs \in SUBSET IndexDef
      BY <1>1, <2>1, <2>2
    <3> HIDE DEF r, defs, t, set, st
    <3>2. StorageType(r) /\ r.tables =
            [storage.tables EXCEPT
               ![t] = rows_assigned(storage.tables[t], hit, set)]
      BY <1>1, <1>2, <1>6, <3>1, UpdateRows
    <3> QED
      BY <3>2 DEF r, t, set
  <2> HIDE DEF new
  <2>4. storage'.tables[t] = new
    BY <1>1, <1>6, <2>3 DEF StorageType
  <2>5. IsRowMap(new)
    BY <1>6, <2>3, <2>4 DEF StorageType
  <2>6. hit = {} => new = old
    BY <2>2 DEF new, rows_assigned, IsRowMap
  <2>7. LogSnapshot(t, new, hit)
    BY <2>1, <2>4
  <2>8. /\ InStep(s)' /\ OnTrack(s)'
        /\ disk'.wal = disk.wal \/ \E e : LogsTable(t, new, e)
    <3>1. t = stmt[s].tbl
      OBVIOUS
    <3> HIDE DEF t, st
    <3> QED
      BY <1>1, <1>3, <1>6, <2>3, <2>5, <2>6, <2>7, <3>1, SnapshotInStep
  <2>9. row_set(new) = {IF matches(r, st.sel) THEN assign(r, st.set) ELSE r :
                          r \in row_set(old)}
    BY RowsLeft DEF new, hit
  <2>10. ASSUME NEW e, LogsTable(t, new, e)
         PROVE  Logs(s, e)
    <3>1. /\ e.tbl = st.tbl /\ st \in Menu /\ st.op = "update"
      BY <1>1, <1>2, <1>6, <2>10 DEF LogsTable
    <3>2. {r[2] : r \in e.rows}
            = {IF matches(r, st.sel) THEN assign(r, st.set) ELSE r :
                 r \in rows_in(last(disk.wal), e.tbl)}
      BY <2>9, <2>10 DEF LogsTable
    <3> HIDE DEF t, st
    <3> QED
      BY <2>10, <3>1, <3>2 DEF Logs, LogsTable, Means, st
  <2> QED
    BY <2>8, <2>10
<1> QED
  BY <1>4, <1>5, <1>6

\* CREATE INDEX changes the catalog, and then logs what it has done.
LEMMA CreateIndexInStep ==
  ASSUME SingleStore, RecoveryInv, NEW s \in Sessions, InStep(s), OnTrack(s),
         CreateIndex(s) \/ CreateIndexLog(s)
  PROVE  /\ InStep(s)' /\ OnTrack(s)'
         /\ disk'.wal = disk.wal \/ \E e : Logs(s, e)
<1> DEFINE st == stmt[s]
           e  == index_entry(stmt[s])
<1>1. /\ st.tbl \in Tables /\ st \in Statement /\ st.db = DefaultDb
      /\ st \in Menu /\ st.op = "create_index"
  <2>1. /\ "create_index" \in Ops \ {"create_database", "drop_database"}
        /\ pc[s] \in labels("create_index") \ {"save_catalog"}
    BY LabelSets DEF CreateIndex, CreateIndexLog, CatalogLock, At, Ops
  <2> QED
    BY <2>1, InStatement
<1>2. /\ e \in Entry /\ e.type = "CreateIndex" /\ e.tbl = st.tbl
      /\ e.db = DefaultDb /\ e.def = st.def
  BY <1>1, LoggedEntries DEF index_entry
<1>3. CASE CreateIndex(s)
  <2> DEFINE ok == create_index_ok(catalog, st.db, st.tbl, st.def)
  <2>1. /\ pc[s] = "create_index"
        /\ ChangeCatalog(s, ok, create_index(catalog, st.db, st.tbl, st.def),
                         "create_index_log")
        /\ UNCHANGED <<storage, poisoned, disk, stmt>>
    BY <1>3 DEF CreateIndex, CatalogLock, At
  <2>2. CASE ~ok
    <3>1. UNCHANGED catalog /\ pc'[s] = "idle"
      BY <2>1, <2>2 DEF ChangeCatalog, Return, Goto, RecoveryInv, TypeOK,
                        ControlType
    <3>2. pc[s] \notin Ahead /\ pc'[s] \notin Ahead \cup Special
      BY <2>1, <3>1 DEF Ahead, Special, HasTable
    <3>3. InStep(s)'
      BY <2>1, <3>1, <3>2, QuietInStep DEF InStep
    <3> QED
      BY <2>1, <3>2, <3>3, PlainTrack
  <2>3. CASE ok
    <3>1. /\ catalog' = create_index(catalog, DefaultDb, st.tbl, st.def)
          /\ pc'[s] = "create_index_log"
      BY <1>1, <2>1, <2>3 DEF ChangeCatalog, Goto, RecoveryInv, TypeOK,
                              ControlType
    <3>2. memory' = apply_entry(memory, e)
      BY <1>1, <1>2, <2>1, <2>3, <3>1
         DEF memory, apply_entry, apply_create_index
    <3>3. /\ caught_up(s)' = memory'
          /\ logged(s)' = apply_entry(last(disk.wal), e)
      BY <2>1, <3>1 DEF caught_up, logged, At
    <3>4. LegalEntry(memory, e)
      BY <1>1, <1>2, <2>3 DEF LegalEntry, create_index_ok, table_exists,
                              has_index, get_table_indexes, there, defs_in,
                              memory
    <3>5. catalog'.dbs = catalog.dbs
      BY <3>1 DEF create_index, RecoveryInv, TypeOK, SharedType, CatalogType
    <3>6. /\ LegalEntry(last(disk.wal), e)
          /\ Alike(apply_entry(memory, e), apply_entry(last(disk.wal), e))
      <4> HIDE DEF e, st
      <4> QED
        BY <1>1, <1>2, <2>1, <3>4, MemoryAlike DEF Ahead
    <3>7. InStep(s)'
      BY <2>1, <3>2, <3>3, <3>5, <3>6 DEF InStep
    <3>8. OnTrack(s)'
      <4>1. LegalEntry(last(disk.wal), index_entry(stmt[s]))'
        BY <2>1, <3>6
      <4> HIDE DEF e
      <4> QED
        BY <1>1, <2>1, <3>1, <4>1 DEF OnTrack, At, HasTable
    <3> QED
      BY <2>1, <3>7, <3>8
  <2> QED
    BY <2>2, <2>3
<1>4. CASE CreateIndexLog(s)
  <2>1. /\ Log(e) /\ pc[s] = "create_index_log"
        /\ pc'[s] = "create_index_columns"
        /\ UNCHANGED <<catalog, storage, poisoned, stmt>>
    BY <1>4 DEF CreateIndexLog, At, index_entry, Goto, RecoveryInv, TypeOK,
                ControlType
  <2>2. LegalEntry(last(disk.wal), e)
    BY <2>1 DEF OnTrack, At
  <2>3. /\ caught_up(s) = memory /\ logged(s) = apply_entry(last(disk.wal), e)
        /\ caught_up(s)' = memory' /\ logged(s)' = last(disk'.wal)
        /\ memory' = memory
    BY <2>1 DEF caught_up, logged, At, memory
  <2> HIDE DEF e, st
  <2>4. /\ Consistent(disk') /\ disk'.wal = Append(disk.wal, e)
        /\ last(disk'.wal) = apply_entry(last(disk.wal), e)
    BY <1>2, <2>1, <2>2, EntryLogged DEF InStep
  <2>5. InStep(s)'
    BY <2>1, <2>3, <2>4 DEF InStep
  <2>6. OnTrack(s)'
    BY <2>1, PlainTrack DEF Special, HasTable
  <2>7. Logs(s, e)
    BY <1>2, <2>2, <2>4 DEF Logs, Means
  <2> QED
    BY <2>5, <2>6, <2>7
<1> QED
  BY <1>3, <1>4

\* DROP INDEX changes the catalog, and then logs what it has done.
LEMMA DropIndexInStep ==
  ASSUME SingleStore, RecoveryInv, NEW s \in Sessions, InStep(s), OnTrack(s),
         DropIndex(s) \/ DropIndexLog(s)
  PROVE  /\ InStep(s)' /\ OnTrack(s)'
         /\ disk'.wal = disk.wal \/ \E e : Logs(s, e)
<1> DEFINE st == stmt[s]
           e  == drop_index_entry(stmt[s])
<1>1. /\ st.tbl \in Tables /\ st \in Statement /\ st.db = DefaultDb
      /\ st.op = "drop_index"
  <2>1. /\ "drop_index" \in Ops \ {"create_database", "drop_database"}
        /\ pc[s] \in labels("drop_index") \ {"save_catalog"}
    BY LabelSets DEF DropIndex, DropIndexLog, CatalogLock, At, Ops
  <2> QED
    BY <2>1, InStatement
<1>2. /\ e \in Entry /\ e.type = "DropIndex" /\ e.tbl = st.tbl
      /\ e.db = DefaultDb /\ e.name = st.name
  BY <1>1, LoggedEntries DEF drop_index_entry
<1>3. LegalEntry(last(disk.wal), e)
  BY <1>2 DEF LegalEntry
<1>4. CASE DropIndex(s)
  <2> DEFINE ok == drop_index_ok(catalog, st.db, st.tbl, st.name)
  <2>1. /\ pc[s] = "drop_index"
        /\ ChangeCatalog(s, ok, drop_index(catalog, st.db, st.tbl, st.name),
                         "drop_index_log")
        /\ UNCHANGED <<storage, poisoned, disk, stmt>>
    BY <1>4 DEF DropIndex, CatalogLock, At
  <2>2. CASE ~ok
    <3>1. UNCHANGED catalog /\ pc'[s] = "idle"
      BY <2>1, <2>2 DEF ChangeCatalog, Return, Goto, RecoveryInv, TypeOK,
                        ControlType
    <3>2. pc[s] \notin Ahead /\ pc'[s] \notin Ahead \cup Special
      BY <2>1, <3>1 DEF Ahead, Special, HasTable
    <3>3. InStep(s)'
      BY <2>1, <3>1, <3>2, QuietInStep DEF InStep
    <3> QED
      BY <2>1, <3>2, <3>3, PlainTrack
  <2>3. CASE ok
    <3>1. /\ catalog' = drop_index(catalog, DefaultDb, st.tbl, st.name)
          /\ pc'[s] = "drop_index_log"
      BY <1>1, <2>1, <2>3 DEF ChangeCatalog, Goto, RecoveryInv, TypeOK,
                              ControlType
    <3>2. memory' = apply_entry(memory, e)
      BY <1>1, <1>2, <2>1, <2>3, <3>1
         DEF memory, apply_entry, apply_drop_index
    <3>3. /\ caught_up(s)' = memory'
          /\ logged(s)' = apply_entry(last(disk.wal), e)
      BY <2>1, <3>1 DEF caught_up, logged, At
    <3>4. catalog'.dbs = catalog.dbs
      BY <3>1 DEF drop_index, RecoveryInv, TypeOK, SharedType, CatalogType
    <3>5. Alike(apply_entry(memory, e), apply_entry(last(disk.wal), e))
      <4> HIDE DEF e, st
      <4> QED
        BY <1>2, <2>1, MemoryAlike DEF Ahead
    <3>6. InStep(s)'
      BY <2>1, <3>2, <3>3, <3>4, <3>5 DEF InStep
    <3> QED
      BY <2>1, <3>1, <3>6, PlainTrack DEF Special, HasTable
  <2> QED
    BY <2>2, <2>3
<1>5. CASE DropIndexLog(s)
  <2>1. /\ Log(e) /\ pc[s] = "drop_index_log" /\ pc'[s] = "drop_index_data"
        /\ UNCHANGED <<catalog, storage, poisoned, stmt>>
    BY <1>5 DEF DropIndexLog, At, drop_index_entry, Goto, RecoveryInv, TypeOK,
                ControlType
  <2>2. /\ caught_up(s) = memory /\ logged(s) = apply_entry(last(disk.wal), e)
        /\ caught_up(s)' = memory' /\ logged(s)' = last(disk'.wal)
        /\ memory' = memory
    BY <2>1 DEF caught_up, logged, At, memory
  <2> HIDE DEF e, st
  <2>3. /\ Consistent(disk') /\ disk'.wal = Append(disk.wal, e)
        /\ last(disk'.wal) = apply_entry(last(disk.wal), e)
    BY <1>2, <1>3, <2>1, EntryLogged DEF InStep
  <2>4. InStep(s)'
    BY <2>1, <2>2, <2>3 DEF InStep
  <2>5. OnTrack(s)'
    BY <2>1, PlainTrack DEF Special, HasTable
  <2>6. Logs(s, e)
    BY <1>2, <1>3, <2>3 DEF Logs, Means
  <2> QED
    BY <2>4, <2>5, <2>6
<1> QED
  BY <1>4, <1>5

-----------------------------------------------------------------------------
(* The invariant of one session on a server that ran before.                *)

\* A step of the session keeps memory, log and files together, and appends to
\* the log nothing but what it means.
LEMMA StoreStep ==
  ASSUME SingleStore, RecoveryInv, NEW s \in Sessions, InStep(s), OnTrack(s),
         Begin(s) \/ Step(s)
  PROVE  /\ InStep(s)' /\ OnTrack(s)'
         /\ disk'.wal = disk.wal \/ \E e : Logs(s, e)
<1>1. CASE Begin(s)
  BY <1>1, BeginInStep DEF Begin
<1>2. CASE \/ CreateTableExists(s) \/ DropTableExists(s)
           \/ CreateDatabaseExists(s) \/ DropDatabaseExists(s)
           \/ DropIndexExists(s)
  <2>1. ASSUME NEW l, NEW h, NEW n, ExistsCheck(s, l, h, n),
               l \notin Ahead, n \notin Ahead \cup Special
        PROVE  InStep(s)' /\ OnTrack(s)' /\ disk'.wal = disk.wal
    <3>1. UNCHANGED disk
      BY <2>1 DEF ExistsCheck
    <3> QED
      BY <2>1, <3>1, ExistsInStep
  <2>2. /\ {"create_table_exists", "drop_table_exists",
            "create_database_exists", "drop_database_exists",
            "drop_index_exists"} \cap Ahead = {}
        /\ {"create_table", "drop_table_log", "create_database",
            "drop_database", "drop_index"} \cap (Ahead \cup Special) = {}
    BY DEF Ahead, Special, HasTable
  <2>3. CASE CreateTableExists(s)
    BY <2>1, <2>2, <2>3 DEF CreateTableExists
  <2>4. CASE DropTableExists(s)
    BY <2>1, <2>2, <2>4 DEF DropTableExists
  <2>5. CASE CreateDatabaseExists(s)
    BY <2>1, <2>2, <2>5 DEF CreateDatabaseExists
  <2>6. CASE DropDatabaseExists(s)
    BY <2>1, <2>2, <2>6 DEF DropDatabaseExists
  <2>7. CASE DropIndexExists(s)
    BY <2>1, <2>2, <2>7 DEF DropIndexExists
  <2> QED
    BY <1>2, <2>3, <2>4, <2>5, <2>6, <2>7
<1>3. CASE \/ InsertLookup(s) \/ DeleteLookup(s) \/ UpdateLookup(s)
           \/ UpdateAssign(s) \/ SelectLookup(s) \/ CreateIndexColumns(s)
  <2> DEFINE Plain == Ahead \cup {"drop_table_file", "create_index_log",
                                  "insert_log"}
  <2>1. ASSUME NEW l, NEW n, NEW x, LookupTable(s, l, n, x),
               l \notin Ahead, n \notin Plain
        PROVE  InStep(s)' /\ OnTrack(s)' /\ disk'.wal = disk.wal
    <3>1. UNCHANGED disk
      BY <2>1 DEF LookupTable
    <3> QED
      BY <2>1, <3>1, LookupInStep
  <2>2. /\ {"insert_lookup", "delete_lookup", "update_lookup",
            "update_assign", "select_lookup", "create_index_columns"}
             \cap Ahead = {}
        /\ {"insert_fill", "delete_apply", "update_assign", "update_apply",
            "select_read", "create_index_build"} \cap Plain = {}
    BY DEF Ahead
  <2> HIDE DEF Plain
  <2>3. CASE InsertLookup(s)
    BY <2>1, <2>2, <2>3 DEF InsertLookup
  <2>4. CASE DeleteLookup(s)
    BY <2>1, <2>2, <2>4 DEF DeleteLookup
  <2>5. CASE UpdateLookup(s)
    BY <2>1, <2>2, <2>5 DEF UpdateLookup
  <2>6. CASE UpdateAssign(s)
    BY <2>1, <2>2, <2>6 DEF UpdateAssign
  <2>7. CASE SelectLookup(s)
    BY <2>1, <2>2, <2>7 DEF SelectLookup
  <2>8. CASE CreateIndexColumns(s)
    BY <2>1, <2>2, <2>8 DEF CreateIndexColumns
  <2> QED
    BY <1>3, <2>3, <2>4, <2>5, <2>6, <2>7, <2>8
<1>4. CASE LockError(s)
  BY <1>4 DEF LockError, InStep
<1>5. CASE DropDatabase(s)
  <2>1. stmt[s].op = "drop_database"
    <3>1. /\ "drop_database" \in Ops
          /\ pc[s] \in labels("drop_database") \ {"save_catalog"}
      BY <1>5, LabelSets DEF DropDatabase, CatalogLock, At, Ops
    <3> QED
      BY <3>1, AtOp DEF RecoveryInv, TypeOK
  <2> QED
    BY <2>1 DEF OnTrack, SingleStore, SingleSession
<1>6. CASE CreateTable(s)
  BY <1>6, CreateTableInStep
<1>7. CASE CreateDatabase(s)
  BY <1>7, CreateDatabaseInStep DEF CreateDatabase
<1>8. CASE DropTableLog(s) \/ DropTable(s)
  BY <1>8, DropTableInStep
<1>9. CASE SaveCatalog(s) \/ SaveTable(s) \/ DropTableFile(s) \/ DropTableSave(s)
  BY <1>9, FileInStep
<1>10. CASE \/ CreateIndexExists(s) \/ CreateIndexBuild(s) \/ DropIndexFind(s)
            \/ DropIndexData(s) \/ InsertIndexes(s) \/ InsertIndex(s)
            \/ SelectRead(s)
  <2>1. UNCHANGED disk
    BY <1>10 DEF CreateIndexExists, CreateIndexBuild, DropIndexFind,
                 DropIndexData, InsertIndexes, InsertIndex, SelectRead
  <2> QED
    BY <1>10, <2>1, IndexDataInStep
<1>11. CASE CreateIndex(s) \/ CreateIndexLog(s)
  BY <1>11, CreateIndexInStep
<1>12. CASE DropIndex(s) \/ DropIndexLog(s)
  BY <1>12, DropIndexInStep
<1>13. CASE InsertFill(s)
  <2>1. UNCHANGED disk
    BY <1>13 DEF InsertFill
  <2> QED
    BY <1>13, <2>1, FillInStep
<1>14. CASE InsertLog(s) \/ InsertStore(s)
  BY <1>14, InsertInStep
<1>15. CASE DeleteApply(s) \/ UpdateApply(s)
  BY <1>15, ApplyInStep
<1> QED
  BY <1>1, <1>2, <1>3, <1>4, <1>5, <1>6, <1>7, <1>8, <1>9, <1>10, <1>11,
     <1>12, <1>13, <1>14, <1>15 DEF Step, DdlStep, DmlStep

\* A crash without a torn append changes no file; what is in memory then is
\* what the log says.
LEMMA CrashMemory ==
  ASSUME OneDatabase, TornEntries = {}, RecoveryInv, Consistent(disk), CrashRestart
  PROVE  /\ disk' = disk /\ ~poisoned' /\ catalog'.dbs = {DefaultDb}
         /\ Alike(memory', last(disk.wal))
<1>1. disk' = disk
  BY DEF CrashRestart, TornAppend
<1>2. /\ recovered' = recover(disk) /\ ~poisoned'
      /\ catalog' = recovered'.catalog /\ storage' = recovered'.storage
  BY <1>1 DEF CrashRestart, Recovered, RecoveryInv
<1>3. Sound(recover(disk)) /\ Alike(recover(disk), last(disk.wal))
  BY RecoverConverges DEF RecoveryInv, TypeOK, SharedType
<1>4. Alike(memory', last(disk.wal))
  <2> DEFINE x == memory'
             y == recover(disk)
  <2>1. /\ x.catalog.tables = y.catalog.tables
        /\ x.catalog.indexes = y.catalog.indexes
        /\ x.storage.tables = y.storage.tables
    BY <1>2 DEF memory
  <2> HIDE DEF x, y
  <2>2. Alike(x, last(disk.wal)) <=> Alike(y, last(disk.wal))
    BY <2>1, AlikeFields
  <2> QED
    BY <1>3, <2>2 DEF x, y
<1>5. catalog'.dbs = {DefaultDb}
  BY <1>2, <1>3 DEF Sound
<1> QED
  BY <1>1, <1>2, <1>4, <1>5

\* A crash keeps the invariant.
LEMMA CrashInStep ==
  ASSUME SingleStore, RecoveryInv, NEW s \in Sessions, InStep(s), OnTrack(s),
         CrashRestart
  PROVE  InStep(s)' /\ OnTrack(s)' /\ disk' = disk
<1>1. OneDatabase /\ TornEntries = {} /\ Consistent(disk)
  BY DEF SingleStore, SingleSession, InStep
<1>2. /\ disk' = disk /\ ~poisoned' /\ catalog'.dbs = {DefaultDb}
      /\ Alike(memory', last(disk.wal))
  BY <1>1, CrashMemory
<1>3. pc'[s] \notin Ahead \cup Special /\ UNCHANGED stmt
  BY DEF CrashRestart, Ahead, Special, HasTable
<1>4. caught_up(s)' = memory' /\ logged(s)' = last(disk'.wal)
  BY <1>3, NotAhead
<1>5. InStep(s)'
  BY <1>1, <1>2, <1>4 DEF InStep
<1> QED
  BY <1>2, <1>3, <1>5, PlainTrack

\* Every step keeps the invariant.
LEMMA NextStoreInv ==
  ASSUME SingleStore, RecoveryInv, StoreInv, [RecoveryNext]_rvars
  PROVE  StoreInv'
<1>1. PICK s \in Sessions : Sessions = {s}
  BY DEF SingleStore, SingleSession
<1>2. InStep(s) /\ OnTrack(s)
  BY <1>1 DEF StoreInv
<1>3. CASE UNCHANGED vars
  <2>1. UNCHANGED <<catalog, storage, poisoned, disk, pc, stmt, rows>>
    BY <1>3 DEF vars
  <2>2. InStep(s)'
    BY <1>2, <2>1 DEF InStep, caught_up, logged, At, memory
  <2>3. OnTrack(s)'
    BY <1>2, <2>1 DEF OnTrack, At, memory
  <2> QED
    BY <1>1, <2>2, <2>3 DEF StoreInv
<1>4. CASE Begin(s) \/ Step(s)
  BY <1>1, <1>2, <1>4, StoreStep DEF StoreInv
<1>5. CASE CrashRestart
  BY <1>1, <1>2, <1>5, CrashInStep DEF StoreInv
<1> QED
  BY <1>1, <1>3, <1>4, <1>5 DEF RecoveryNext, Next, AllDone, rvars

\* The server is started on what its log says.
LEMMA InitConsistent ==
  ASSUME RanBefore, RecoveryInit
  PROVE  /\ Consistent(disk) /\ Alike(memory, last(disk.wal))
         /\ catalog.dbs = {DefaultDb} /\ ~poisoned
         /\ \A s \in Sessions : pc[s] = "idle" /\ stmt[s] \in Menu
<1> DEFINE cs == [catalog |-> InitCatalog, storage |-> new_storage]
<1>1. /\ disk.wal = InitWal /\ disk.catalog = InitCatalog
      /\ \A t \in Tables : disk.tables[t] = NoFile
      /\ catalog = InitCatalog /\ ~poisoned
      /\ storage = rebuild_indexes(InitCatalog, new_storage)
      /\ \A s \in Sessions : pc[s] = "idle" /\ stmt[s] \in Menu
  BY ExecutorAssumption DEF RecoveryInit, Init, RanBefore
<1>2. storage.tables = new_storage.tables
  BY <1>1, RebuildIndexesType, NewStorageType, ExecutorAssumption
<1>3. Alike(cs, last(InitWal)) /\ whole(InitWal) /\ Legal(InitWal)
  BY DEF RanBefore
<1>4. InitCatalog # NoFile /\ WellFormed(InitCatalog)
      /\ InitCatalog.dbs = {DefaultDb} /\ InitWal \in Seq(Entry)
  BY ExecutorAssumption, WalAssumption DEF RanBefore
<1>5. ASSUME NEW t \in Tables
      PROVE  /\ \E m \in 0 .. Len(InitWal) :
                  SameCatalogs(history(InitWal)[m], loaded_of(disk), t)
             /\ \E k \in 0 .. Len(InitWal) :
                  file_rows(disk.tables[t]) \subseteq rows_in(history(InitWal)[k], t)
  <2>1. Len(InitWal) \in 0 .. Len(InitWal) /\ 0 \in 0 .. Len(InitWal)
    BY <1>4
  <2>2. SameCatalogs(last(InitWal), loaded_of(disk), t)
    <3>1. AlikeAt(cs, last(InitWal), t)
      BY <1>3 DEF Alike
    <3>2. /\ there(loaded_of(disk), t) <=> there(cs, t)
          /\ defs_in(loaded_of(disk), t) = defs_in(cs, t)
      BY <1>1 DEF loaded_of, there, defs_in
    <3> HIDE DEF cs
    <3> QED
      BY <3>1, <3>2 DEF AlikeAt, SameCatalogs
  <2>3. history(InitWal)[0] = fresh
    BY <1>4, HistoryReplays
  <2>4. file_rows(disk.tables[t]) = rows_in(history(InitWal)[0], t)
    BY <1>1, <2>3, FreshSound DEF file_rows
  <2> QED
    BY <2>1, <2>2, <2>4 DEF last
<1>6. Consistent(disk)
  BY <1>1, <1>3, <1>4, <1>5 DEF Consistent, Filed, FiledWellFormed
<1>7. Alike(memory, last(disk.wal))
  <2>1. /\ memory.catalog.tables = cs.catalog.tables
        /\ memory.catalog.indexes = cs.catalog.indexes
        /\ memory.storage.tables = cs.storage.tables
    BY <1>1, <1>2 DEF memory
  <2> HIDE DEF cs
  <2> QED
    BY <1>1, <1>3, <2>1, AlikeFields
<1> QED
  BY <1>1, <1>4, <1>6, <1>7

\* The invariant holds at the start.
LEMMA InitStoreInv ==
  ASSUME SingleStore, RecoveryInit
  PROVE  StoreInv
<1>1. /\ Consistent(disk) /\ Alike(memory, last(disk.wal))
      /\ catalog.dbs = {DefaultDb} /\ ~poisoned
      /\ \A s \in Sessions : pc[s] = "idle" /\ stmt[s] \in Menu
  BY InitConsistent DEF SingleStore, SingleSession
<1>2. ASSUME NEW s \in Sessions
      PROVE  InStep(s) /\ OnTrack(s)
  <2>1. caught_up(s) = memory /\ logged(s) = last(disk.wal)
    BY <1>1, NotAhead DEF Ahead
  <2>2. InStep(s)
    BY <1>1, <2>1 DEF InStep
  <2>3. OnTrack(s)
    BY <1>1 DEF OnTrack, At, HasTable
  <2> QED
    BY <2>2, <2>3
<1> QED
  BY <1>2 DEF StoreInv

\* Between any two steps of a session and after any number of crashes, memory
\* and log differ by the statement under way only, and the files hold nothing
\* that the log never said.
THEOREM StoreInvHolds == SingleStore => (RecoverySpec => []StoreInv)
<1>1. SUFFICES ASSUME SingleStore PROVE RecoverySpec => []StoreInv
  OBVIOUS
<1>2. RecoveryInit => StoreInv
  BY <1>1, InitStoreInv
<1>3. RecoveryInv /\ StoreInv /\ [RecoveryNext]_rvars => StoreInv'
  BY <1>1, NextStoreInv
<1> QED
  BY <1>2, <1>3, RecoveryInvHolds, PTL DEF RecoverySpec

-----------------------------------------------------------------------------
(* What a start finds.                                                      *)

\* Those that are alike have the same tables and the same rows in them.
LEMMA AlikeContents ==
  ASSUME NEW x, NEW y, Alike(x, y)
  PROVE  contents(x) = contents(y)
<1>1. \A t \in Tables : AlikeAt(x, y, t)
  BY DEF Alike
<1>2. {u \in Tables : table_exists(x.catalog, DefaultDb, u)}
        = {u \in Tables : table_exists(y.catalog, DefaultDb, u)}
  BY <1>1 DEF AlikeAt, there, table_exists
<1>3. \A t \in Tables : row_set(rows_of(x.storage, t))
                          = row_set(rows_of(y.storage, t))
  BY <1>1 DEF AlikeAt, rows_in
<1> QED
  BY <1>2, <1>3 DEF contents

\* At any time a start finds what the log says.
LEMMA RecoveredAlike ==
  ASSUME OneDatabase, RecoveryInv, Consistent(disk)
  PROVE  /\ Sound(recovered) /\ Alike(recovered, last(disk.wal))
         /\ contents(recovered) = contents(last(disk.wal))
<1>1. disk \in DiskType /\ recovered = recover(disk)
  BY DEF RecoveryInv, TypeOK, SharedType
<1>2. Sound(recover(disk)) /\ Alike(recover(disk), last(disk.wal))
  BY <1>1, RecoverConverges
<1> QED
  BY <1>1, <1>2, AlikeContents

\* While what is in memory is what the log says, a start finds it.
LEMMA AlikeDurable ==
  ASSUME OneDatabase, RecoveryInv, Consistent(disk),
         catalog.dbs = {DefaultDb}, Alike(memory, last(disk.wal))
  PROVE  /\ contents(recovered) = contents(memory)
         /\ recovered.catalog.tables = catalog.tables
         /\ recovered.catalog.indexes = catalog.indexes
<1>1. Sound(memory)
  BY MemorySound
<1>2. Sound(recovered) /\ Alike(recovered, last(disk.wal))
  BY RecoveredAlike
<1>3. contents(recovered) = contents(memory)
  BY <1>2, AlikeContents
<1>4. /\ memory.catalog = catalog
      /\ catalog \in CatalogType /\ recovered.catalog \in CatalogType
  <2>1. memory.catalog = catalog /\ catalog \in CatalogType
    BY DEF memory, RecoveryInv, TypeOK, SharedType
  <2>2. recovered.catalog \in CatalogType
    BY <1>2 DEF Sound, InOrder
  <2> QED
    BY <2>1, <2>2
<1>5. \A t \in Tables :
        /\ <<DefaultDb, t>> \in recovered.catalog.tables
             <=> <<DefaultDb, t>> \in catalog.tables
        /\ recovered.catalog.indexes[<<DefaultDb, t>>]
             = catalog.indexes[<<DefaultDb, t>>]
  <2>1. \A t \in Tables : /\ there(recovered, t) <=> there(memory, t)
                          /\ defs_in(recovered, t) = defs_in(memory, t)
    BY <1>2 DEF Alike, AlikeAt
  <2> QED
    BY <1>4, <2>1 DEF there, defs_in
<1>6. \A dt \in DBs \X Tables : \E t \in Tables : dt = <<DefaultDb, t>>
  BY DEF OneDatabase
<1>7. recovered.catalog.tables = catalog.tables
  <2>1. /\ recovered.catalog.tables \subseteq DBs \X Tables
        /\ catalog.tables \subseteq DBs \X Tables
    BY <1>4 DEF CatalogType
  <2>2. \A dt \in DBs \X Tables :
          dt \in recovered.catalog.tables <=> dt \in catalog.tables
    BY <1>5, <1>6
  <2> QED
    BY <2>1, <2>2
<1>8. recovered.catalog.indexes = catalog.indexes
  <2>1. \A dt \in DBs \X Tables :
          recovered.catalog.indexes[dt] = catalog.indexes[dt]
    BY <1>5, <1>6
  <2> QED
    BY <1>4, <2>1 DEF CatalogType
<1> QED
  BY <1>3, <1>7, <1>8

\* While no statement runs, a start finds what is in memory.
LEMMA RestDurable ==
  ASSUME SingleStore, RecoveryInv, StoreInv
  PROVE  DurableAtRest
<1> SUFFICES ASSUME AtRest
             PROVE  /\ contents(recovered) = contents(memory)
                    /\ recovered.catalog.tables = catalog.tables
                    /\ recovered.catalog.indexes = catalog.indexes
  BY DEF DurableAtRest
<1>1. PICK s \in Sessions : Sessions = {s}
  BY DEF SingleStore, SingleSession
<1>2. InStep(s) /\ pc[s] \notin Ahead
  BY <1>1 DEF StoreInv, AtRest, At, Ahead
<1>3. Alike(memory, last(disk.wal))
  BY <1>2, MemoryAlike
<1>4. OneDatabase /\ Consistent(disk) /\ catalog.dbs = {DefaultDb}
  BY <1>2 DEF SingleStore, SingleSession, InStep
<1> QED
  BY <1>3, <1>4, AlikeDurable

\* Once a statement has returned, a crash loses nothing and brings nothing
\* back, whatever the statements and wherever earlier crashes fell: the log is
\* replayed over files that are each as old as they may be
\* (wal.rs:107-162, listener.rs:34-66), and comes to what is in memory.
THEOREM RestIsDurable == SingleStore => (RecoverySpec => []DurableAtRest)
<1>1. SUFFICES ASSUME SingleStore PROVE RecoverySpec => []DurableAtRest
  OBVIOUS
<1>2. RecoverySpec => []StoreInv
  BY <1>1, StoreInvHolds
<1>3. RecoveryInv /\ StoreInv => DurableAtRest
  BY <1>1, RestDurable
<1> QED
  BY <1>2, <1>3, RecoveryInvHolds, PTL

-----------------------------------------------------------------------------
(* The executor implements the durable store.                               *)

\* The durable store is about the same rows and the same clauses.
LEMMA DurableOperators ==
  /\ \A r, sel : Durable!matches(r, sel) <=> matches(r, sel)
  /\ \A r, set : Durable!assign(r, set) = assign(r, set)
  /\ \A map, k, v : Durable!put(map, k, v) = put(map, k, v)
  BY DEF Durable!matches, matches, Durable!NoWhere, NoWhere, Durable!assign,
         assign, Durable!put, put

\* The effect of an accepted entry on the tables and the sets of their rows
contents_after(old, e) ==
  CASE e.type = "CreateTable"   -> IF e.tbl \in DOMAIN old THEN old
                                   ELSE put(old, e.tbl, {})
    [] e.type = "DropTable"     -> [u \in DOMAIN old \ {e.tbl} |-> old[u]]
    [] e.type = "InsertRows"    -> [old EXCEPT ![e.tbl] =
                                      @ \cup {e.rows[i] : i \in 1 .. Len(e.rows)}]
    [] e.type = "TableSnapshot" -> [old EXCEPT ![e.tbl] = {r[2] : r \in e.rows}]
    [] OTHER                    -> old

LEMMA EntryContents ==
  ASSUME OneDatabase, NEW cs, Sound(cs),
         \A t \in Tables : ~there(cs, t) => rows_in(cs, t) = {},
         NEW e \in Entry, e.type # "Torn", LegalEntry(cs, e)
  PROVE  /\ contents(apply_entry(cs, e)) = contents_after(contents(cs), e)
         /\ e.type \in {"InsertRows", "TableSnapshot"}
              => e.tbl \in DOMAIN contents(cs)
         /\ e.tbl \in DOMAIN contents(cs)
              => contents(cs)[e.tbl] = rows_in(cs, e.tbl)
<1> DEFINE old == contents(cs)
           new == contents(apply_entry(cs, e))
           y == apply_entry(cs, e)
           in(x) == {t \in Tables : there(x, t)}
<1> SUFFICES
      /\ new = contents_after(old, e)
      /\ e.type \in {"InsertRows", "TableSnapshot"} => e.tbl \in DOMAIN old
      /\ e.tbl \in DOMAIN old => old[e.tbl] = rows_in(cs, e.tbl)
  OBVIOUS
<1>1. e.tbl \in Tables
  BY EntryFields
<1>2. /\ \A x : contents(x) = [t \in in(x) |-> rows_in(x, t)]
      /\ \A x, t : t \in in(x) <=> t \in Tables /\ there(x, t)
  BY DEF contents, there, rows_in, table_exists
<1>3. \A t \in Tables :
        /\ there(y, t) <=> there_after(cs, e, t)
        /\ rows_in(y, t) = rows_after(cs, e, t)
  <2> HIDE DEF y
  <2> QED
    BY EntryEffect DEF y
<1> HIDE DEF y, in, old, new
<1>4. /\ old = [t \in in(cs) |-> rows_in(cs, t)] /\ DOMAIN old = in(cs)
      /\ new = [t \in in(y) |-> rows_in(y, t)] /\ DOMAIN new = in(y)
  <2>1. old = contents(cs) /\ new = contents(y)
    BY DEF old, new, y
  <2> QED
    BY <1>2, <2>1
<1>5. \A t \in Tables : t \in in(y) <=> there_after(cs, e, t)
  BY <1>2, <1>3
<1>6. CASE e.type = "CreateTable"
  <2>1. in(y) = in(cs) \cup {e.tbl}
    BY <1>1, <1>2, <1>5, <1>6 DEF there_after, on
  <2>2. \A t \in Tables : rows_in(y, t) = rows_in(cs, t)
    BY <1>3, <1>6 DEF rows_after, on
  <2>3. e.tbl \notin in(cs) => rows_in(cs, e.tbl) = {}
    BY <1>1, <1>2
  <2>4. CASE e.tbl \in in(cs)
    <3>1. in(y) = in(cs) /\ \A t \in in(cs) : rows_in(y, t) = rows_in(cs, t)
      BY <1>2, <2>1, <2>2, <2>4
    <3>2. new = old
      BY <1>4, <3>1
    <3> QED
      BY <1>4, <1>6, <2>4, <3>2 DEF contents_after
  <2>5. CASE e.tbl \notin in(cs)
    <3>1. \A t \in in(y) :
            rows_in(y, t) = IF t = e.tbl THEN {} ELSE rows_in(cs, t)
      BY <1>1, <1>2, <2>1, <2>2, <2>3, <2>5
    <3>2. new = put(old, e.tbl, {})
      BY <1>4, <2>1, <2>5, <3>1 DEF put
    <3> QED
      BY <1>4, <1>6, <2>5, <3>2 DEF contents_after
  <2> QED
    BY <2>4, <2>5
<1>7. CASE e.type = "DropTable"
  <2>1. in(y) = in(cs) \ {e.tbl}
    BY <1>1, <1>2, <1>5, <1>7 DEF there_after, on
  <2>2. \A t \in in(y) : rows_in(y, t) = rows_in(cs, t)
    BY <1>2, <1>3, <1>7, <2>1 DEF rows_after, on
  <2>3. new = [u \in DOMAIN old \ {e.tbl} |-> old[u]]
    BY <1>4, <2>1, <2>2
  <2> QED
    BY <1>2, <1>4, <1>7, <2>3 DEF contents_after
<1>8. CASE e.type \in {"InsertRows", "TableSnapshot"}
  <2>1. in(y) = in(cs) /\ e.tbl \in in(cs)
    BY <1>1, <1>2, <1>5, <1>8 DEF there_after, on, LegalEntry
  <2>2. \A t \in Tables : rows_in(y, t) =
          IF t = e.tbl
          THEN IF e.type = "InsertRows"
               THEN rows_in(cs, t) \cup {e.rows[i] : i \in 1 .. Len(e.rows)}
               ELSE {r[2] : r \in e.rows}
          ELSE rows_in(cs, t)
    BY <1>3, <1>8 DEF rows_after, on
  <2>3. new = [old EXCEPT ![e.tbl] =
                 IF e.type = "InsertRows"
                 THEN @ \cup {e.rows[i] : i \in 1 .. Len(e.rows)}
                 ELSE {r[2] : r \in e.rows}]
    BY <1>2, <1>4, <2>1, <2>2
  <2>4. new = contents_after(old, e)
    BY <1>8, <2>3 DEF contents_after
  <2> QED
    BY <1>4, <2>1, <2>4
<1>9. CASE e.type \in {"CreateIndex", "DropIndex"}
  <2>1. in(y) = in(cs)
    BY <1>2, <1>5, <1>9 DEF there_after, on
  <2>2. \A t \in Tables : rows_in(y, t) = rows_in(cs, t)
    BY <1>3, <1>9 DEF rows_after, on
  <2>3. new = old
    BY <1>2, <1>4, <2>1, <2>2
  <2> QED
    BY <1>2, <1>4, <1>9, <2>3 DEF contents_after
<1> QED
  BY <1>6, <1>7, <1>8, <1>9, EntryFields

\* A logged entry is a step of the durable store, or changes nothing of it.
LEMMA LogImplements ==
  ASSUME OneDatabase, NEW cs, Sound(cs),
         \A t \in Tables : ~there(cs, t) => rows_in(cs, t) = {},
         NEW e \in Entry, e.type # "Torn", LegalEntry(cs, e),
         NEW st, Means(st, e, cs),
         contents(recovered) = contents(cs),
         contents(recovered') = contents(apply_entry(cs, e))
  PROVE  Durable!Next \/ contents(recovered') = contents(recovered)
<1> DEFINE old == contents(recovered)
           new == contents(recovered')
           t == e.tbl
<1>1. /\ new = contents_after(old, e)
      /\ e.type \in {"InsertRows", "TableSnapshot"} => t \in DOMAIN old
      /\ t \in DOMAIN old => old[t] = rows_in(cs, t)
  <2>1. /\ contents(apply_entry(cs, e)) = contents_after(contents(cs), e)
        /\ e.type \in {"InsertRows", "TableSnapshot"}
             => e.tbl \in DOMAIN contents(cs)
        /\ e.tbl \in DOMAIN contents(cs)
             => contents(cs)[e.tbl] = rows_in(cs, e.tbl)
    BY EntryContents
  <2> QED
    BY <2>1
<1>2. t \in Tables /\ old = [u \in DOMAIN old |-> old[u]]
  BY EntryFields DEF contents
<1>3. /\ \A r \in Tables : Durable!Create(r) \/ Durable!Drop(r) => Durable!Next
      /\ \A r \in DOMAIN old :
           Durable!Insert(r) \/ Durable!Delete(r) \/ Durable!Update(r)
             => Durable!Next
  BY DEF Durable!Next
<1>4. CASE e.type = "CreateTable"
  <2>1. st \in Durable!Issued("create_table", t)
    BY <1>4 DEF Means, Durable!Issued
  <2>2. CASE t \in DOMAIN old
    BY <1>1, <1>4, <2>2 DEF contents_after
  <2>3. CASE t \notin DOMAIN old
    <3>1. new = Durable!put(old, t, {})
      BY <1>1, <1>4, <2>3, DurableOperators DEF contents_after
    <3>2. Durable!Create(t)
      BY <2>1, <2>3, <3>1 DEF Durable!Create
    <3> QED
      BY <1>2, <1>3, <3>2
  <2> QED
    BY <2>2, <2>3
<1>5. CASE e.type = "DropTable"
  <2>1. st \in Durable!Issued("drop_table", t)
    BY <1>5 DEF Means, Durable!Issued
  <2>2. CASE t \notin DOMAIN old
    <3>1. new = old
      BY <1>1, <1>2, <1>5, <2>2 DEF contents_after
    <3> QED
      BY <3>1
  <2>3. CASE t \in DOMAIN old
    <3>1. new = [u \in DOMAIN old \ {t} |-> old[u]]
      BY <1>1, <1>5 DEF contents_after
    <3>2. Durable!Drop(t)
      BY <2>1, <2>3, <3>1 DEF Durable!Drop
    <3> QED
      BY <1>2, <1>3, <3>2
  <2> QED
    BY <2>2, <2>3
<1>6. CASE e.type = "InsertRows"
  <2> DEFINE added == {e.rows[i] : i \in 1 .. Len(e.rows)}
  <2>1. st \in Durable!Issued("insert", t) /\ completed(e.rows, st.rows)
    BY <1>6 DEF Means, Durable!Issued
  <2>2. /\ t \in DOMAIN old
        /\ new = [old EXCEPT ![t] = @ \cup added]
    BY <1>1, <1>6 DEF contents_after
  <2>3. DOMAIN st.rows = 1 .. Len(e.rows)
    <3>1. st \in Menu /\ st.op = "insert" /\ st \in Statement
      BY <1>6, ExecutorAssumption DEF Means
    <3>2. st.rows \in Seq(PartialRow)
      BY <3>1, StatementFields
    <3> QED
      BY <2>1, <3>2 DEF completed
  <2>4. /\ \A i \in DOMAIN st.rows :
             \E r \in added : Durable!completes(r, st.rows[i])
        /\ \A r \in added :
             \E i \in DOMAIN st.rows : Durable!completes(r, st.rows[i])
    BY <2>1, <2>3 DEF completed
  <2> HIDE DEF added
  <2>5. new[t] = old[t] \cup added
    BY <1>2, <2>2
  <2>6. /\ new = [old EXCEPT ![t] = new[t]]
        /\ old[t] \subseteq new[t]
        /\ \A i \in DOMAIN st.rows :
             \E r \in new[t] : Durable!completes(r, st.rows[i])
        /\ \A r \in new[t] \ old[t] :
             \E i \in DOMAIN st.rows : Durable!completes(r, st.rows[i])
    BY <2>2, <2>4, <2>5
  <2>7. Durable!Insert(t)
    BY <2>1, <2>6 DEF Durable!Insert
  <2> QED
    BY <1>3, <2>2, <2>7
<1>7. CASE e.type = "TableSnapshot"
  <2>1. /\ t \in DOMAIN old /\ old[t] = rows_in(cs, t)
        /\ new = [old EXCEPT ![t] = {r[2] : r \in e.rows}]
    BY <1>1, <1>7 DEF contents_after
  <2>2. CASE st.op = "delete"
    <3>1. /\ st \in Durable!Issued("delete", t)
          /\ {r[2] : r \in e.rows} = {r \in old[t] : ~matches(r, st.sel)}
      BY <1>7, <2>1, <2>2 DEF Means, Durable!Issued
    <3>2. {r \in old[t] : ~matches(r, st.sel)}
            = {r \in old[t] : ~Durable!matches(r, st.sel)}
      BY DurableOperators
    <3>3. new = [old EXCEPT ![t] = {r \in @ : ~Durable!matches(r, st.sel)}]
      BY <2>1, <3>1, <3>2
    <3>4. Durable!Delete(t)
      BY <3>1, <3>3 DEF Durable!Delete
    <3> QED
      BY <1>3, <2>1, <3>4
  <2>3. CASE st.op = "update"
    <3> DEFINE to(r)  == IF matches(r, st.sel) THEN assign(r, st.set) ELSE r
               dto(r) == IF Durable!matches(r, st.sel)
                         THEN Durable!assign(r, st.set) ELSE r
    <3>1. /\ st \in Durable!Issued("update", t)
          /\ {r[2] : r \in e.rows} = {to(r) : r \in old[t]}
      BY <1>7, <2>1, <2>3 DEF Means, Durable!Issued
    <3>2. \A r : to(r) = dto(r)
      BY DurableOperators
    <3>3. new = [old EXCEPT ![t] = {dto(r) : r \in @}]
      <4> HIDE DEF to, dto
      <4>1. {to(r) : r \in old[t]} = {dto(r) : r \in old[t]}
        BY <3>2
      <4> QED
        BY <2>1, <3>1, <4>1
    <3>4. Durable!Update(t)
      BY <3>1, <3>3 DEF Durable!Update
    <3> QED
      BY <1>3, <2>1, <3>4
  <2> QED
    BY <1>7, <2>2, <2>3 DEF Means
<1>8. CASE e.type \in {"CreateIndex", "DropIndex"}
  BY <1>1, <1>8 DEF contents_after
<1> QED
  BY <1>4, <1>5, <1>6, <1>7, <1>8, EntryFields

\* What a start would find at first is what the server was started on.
LEMMA InitImplements ==
  ASSUME OneDatabase, RanBefore, RecoveryInit, RecoveryInv, Consistent(disk)
  PROVE  Durable!Init
<1> DEFINE cs == [catalog |-> InitCatalog, storage |-> new_storage]
<1>1. disk.wal = InitWal
  BY DEF RecoveryInit, Init
<1>2. contents(recovered) = contents(last(InitWal))
  BY <1>1, RecoveredAlike
<1>3. contents(cs) = contents(last(InitWal))
  <2>1. Alike(cs, last(InitWal))
    BY DEF RanBefore
  <2> HIDE DEF cs
  <2> QED
    BY <2>1, AlikeContents
<1> QED
  BY <1>2, <1>3 DEF Durable!Init

\* A step that logs an entry, or nothing, is a step of the durable store or
\* changes nothing of it.
LEMMA LogStepImplements ==
  ASSUME OneDatabase, RecoveryInv, RecoveryInv', Consistent(disk),
         Consistent(disk)', NEW s, disk'.wal = disk.wal \/ \E e : Logs(s, e)
  PROVE  Durable!Next \/ contents(recovered') = contents(recovered)
<1>1. disk \in DiskType /\ contents(recovered) = contents(last(disk.wal))
  BY RecoveredAlike DEF RecoveryInv, TypeOK, SharedType
<1>2. contents(recovered') = contents(last(disk'.wal))
  <2>1. disk' \in DiskType /\ recovered' = recover(disk')
    BY DEF RecoveryInv, TypeOK, SharedType
  <2> DEFINE d == disk'
  <2>2. d \in DiskType /\ Consistent(d) /\ recovered' = recover(d)
    BY <2>1
  <2> HIDE DEF d
  <2>3. Alike(recover(d), last(d.wal))
    BY <2>2, RecoverConverges
  <2>4. contents(recover(d)) = contents(last(d.wal))
    BY <2>3, AlikeContents
  <2> QED
    BY <2>2, <2>4 DEF d
<1>3. CASE disk'.wal = disk.wal
  BY <1>1, <1>2, <1>3
<1>4. ASSUME NEW e, Logs(s, e)
      PROVE  Durable!Next \/ contents(recovered') = contents(recovered)
  <2> DEFINE cs == last(disk.wal)
             st == stmt[s]
  <2>1. /\ e \in Entry /\ e.type # "Torn" /\ LegalEntry(cs, e)
        /\ Means(st, e, cs) /\ disk'.wal = Append(disk.wal, e)
    BY <1>4 DEF Logs
  <2>2. disk.wal \in Seq(Entry) /\ whole(disk.wal) /\ Legal(disk.wal)
    BY <1>1 DEF DiskType, Consistent
  <2>3. last(disk'.wal) = apply_entry(cs, e)
    BY <2>1, <2>2, HistoryAppend
  <2>4. /\ Sound(cs)
        /\ \A t \in Tables : ~there(cs, t) => rows_in(cs, t) = {}
    BY <2>2, LastSound
  <2>5. /\ contents(recovered) = contents(cs)
        /\ contents(recovered') = contents(apply_entry(cs, e))
    BY <1>1, <1>2, <2>3
  <2> HIDE DEF cs, st
  <2> QED
    BY <2>1, <2>4, <2>5, LogImplements
<1> QED
  BY <1>3, <1>4

\* Every step of the one session logs one entry or none.
LEMMA StepImplements ==
  ASSUME SingleStore, RecoveryInv, StoreInv, RecoveryInv', StoreInv',
         [RecoveryNext]_rvars
  PROVE  Durable!Next \/ contents(recovered') = contents(recovered)
<1>1. OneDatabase /\ Consistent(disk) /\ Consistent(disk)'
  BY DEF SingleStore, SingleSession, StoreInv, InStep
<1>2. PICK s \in Sessions : Sessions = {s} /\ InStep(s) /\ OnTrack(s)
  BY DEF SingleStore, SingleSession, StoreInv
<1>3. disk'.wal = disk.wal \/ \E e : Logs(s, e)
  <2>1. CASE Begin(s) \/ Step(s)
    BY <1>2, <2>1, StoreStep
  <2>2. CASE CrashRestart
    BY <1>2, <2>2, CrashInStep
  <2>3. CASE UNCHANGED vars
    BY <2>3 DEF vars
  <2> QED
    BY <1>2, <2>1, <2>2, <2>3 DEF RecoveryNext, Next, AllDone, rvars
<1> QED
  BY <1>1, <1>3, LogStepImplements

\* What a restart would find changes only by the effect of a statement, whole
\* and at one instant of it: the append of its entry to the log.  Nothing that
\* is written before or after, and no crash, shows.
THEOREM StoreIsDurable ==
  SingleStore => (RecoverySpec => ImplementsDurableStore)
<1>1. SUFFICES ASSUME SingleStore PROVE RecoverySpec => ImplementsDurableStore
  OBVIOUS
<1>2. RecoverySpec => []StoreInv
  BY <1>1, StoreInvHolds
<1>3. RecoveryInit /\ RecoveryInv /\ StoreInv => Durable!Init
  <2> SUFFICES ASSUME RecoveryInit, RecoveryInv, StoreInv PROVE Durable!Init
    OBVIOUS
  <2>1. OneDatabase /\ RanBefore /\ Consistent(disk)
    BY <1>1 DEF SingleStore, SingleSession, StoreInv, InStep
  <2> QED
    BY <2>1, InitImplements
<1>4. RecoveryInv /\ StoreInv /\ RecoveryInv' /\ StoreInv' /\ [RecoveryNext]_rvars
        => [Durable!Next]_(contents(recovered))
  BY <1>1, StepImplements
<1> QED
  BY <1>2, <1>3, <1>4, RecoveryInvHolds, PTL
     DEF RecoverySpec, ImplementsDurableStore, Durable!Spec

-----------------------------------------------------------------------------
(* Any number of sessions that create tables, insert and select.            *)

\* Such sessions, on a disk where a table file can be told from its absence
WriterStore == ManyWriters /\ NoFile \notin RowVec

\* The steps such a session takes
LEMMA WriterSteps ==
  ASSUME ManyWriters, TypeOK, NEW s \in Sessions, stmt[s] \in Menu, Step(s)
  PROVE  \/ CreateTableExists(s) \/ CreateTable(s) \/ SaveCatalog(s)
         \/ InsertLookup(s) \/ InsertFill(s) \/ InsertLog(s) \/ InsertStore(s)
         \/ SaveTable(s) /\ pc[s] = "insert_save" /\ pc'[s] = "insert_indexes"
         \/ InsertIndexes(s) \/ InsertIndex(s)
         \/ SelectLookup(s) \/ SelectRead(s) \/ LockError(s)
<1>1. /\ stmt[s].op \in {"create_table", "insert", "select"}
      /\ pc[s] # "idle" => pc[s] \in labels(stmt[s].op)
  BY DEF ManyWriters, TypeOK, ControlType
<1>2. pc[s] \in {"idle"} \cup labels("create_table") \cup labels("insert")
                  \cup labels("select")
  BY <1>1
<1>3. /\ \A l, h, n : ExistsCheck(s, l, h, n) => pc[s] = l
      /\ \A l, n, x : LookupTable(s, l, n, x) => pc[s] = l
  BY DEF ExistsCheck, LookupTable, CatalogLock, At
<1>4. ~(\/ CreateDatabaseExists(s) \/ DropDatabaseExists(s) \/ DropTableExists(s)
        \/ DropIndexExists(s) \/ CreateIndexColumns(s) \/ DeleteLookup(s)
        \/ UpdateLookup(s) \/ UpdateAssign(s))
  BY <1>2, <1>3, LabelSets
     DEF CreateDatabaseExists, DropDatabaseExists, DropTableExists,
         DropIndexExists, CreateIndexColumns, DeleteLookup, UpdateLookup,
         UpdateAssign
<1>5. ~(\/ CreateDatabase(s) \/ DropDatabase(s) \/ DropTableLog(s)
        \/ DropTable(s) \/ DropTableFile(s) \/ DropTableSave(s)
        \/ CreateIndexExists(s) \/ CreateIndex(s) \/ CreateIndexLog(s)
        \/ CreateIndexBuild(s) \/ DropIndexFind(s) \/ DropIndex(s)
        \/ DropIndexLog(s) \/ DropIndexData(s) \/ DeleteApply(s)
        \/ UpdateApply(s))
  BY <1>2, LabelSets
     DEF CreateDatabase, DropDatabase, DropTableLog, DropTable, DropTableFile,
         DropTableSave, CreateIndexExists, CreateIndex, CreateIndexLog,
         CreateIndexBuild, DropIndexFind, DropIndex, DropIndexLog,
         DropIndexData, DeleteApply, UpdateApply, CatalogLock, At
<1>6. SaveTable(s) => pc[s] = "insert_save" /\ pc'[s] = "insert_indexes"
  BY <1>2, LabelSets DEF SaveTable, At, Goto, TypeOK, ControlType
<1> QED
  BY <1>4, <1>5, <1>6 DEF Step, DdlStep, DmlStep

\* The rows of t that session q has logged and not yet stored
owed(q, t) == IF At(q, "insert_store") /\ stmt[q].tbl = t THEN rows_given(q)
              ELSE {}

\* A step of session s that touches no other session's rows
RowsFrame(s) == Frame(s) /\ \A u \in Sessions \ {s} : rows'[u] = rows[u]

\* What is logged and not yet stored changes by what s owes.
LEMMA UnstoredStep ==
  ASSUME TypeOK, NEW s \in Sessions, RowsFrame(s), NEW t
  PROVE  /\ owed(s, t)' = owed(s, t) => unstored(t)' = unstored(t)
         /\ owed(s, t) = {} => unstored(t)' = unstored(t) \cup owed(s, t)'
         /\ owed(s, t)' = {} => unstored(t) = unstored(t)' \cup owed(s, t)
<1> DEFINE A == UNION {owed(q, t) : q \in Sessions \ {s}}
<1>1. unstored(t) = UNION {owed(q, t) : q \in Sessions}
  BY DEF unstored, owed
<1>2. unstored(t)' = UNION {owed(q, t)' : q \in Sessions}
  BY DEF unstored, owed
<1>3. \A q \in Sessions \ {s} : owed(q, t)' = owed(q, t)
  <2> SUFFICES ASSUME NEW q \in Sessions \ {s}
               PROVE  owed(q, t)' = owed(q, t)
    OBVIOUS
  <2>1. pc'[q] = pc[q] /\ stmt'[q] = stmt[q] /\ rows'[q] = rows[q]
    BY DEF RowsFrame, Frame, Goto, TypeOK, ControlType
  <2> QED
    BY <2>1 DEF owed, At, rows_given
<1>4. unstored(t) = A \cup owed(s, t)
  BY <1>1
<1>5. unstored(t)' = A \cup owed(s, t)'
  BY <1>2, <1>3
<1> QED
  BY <1>4, <1>5

\* Tables that are there stay there for the others.
LEMMA OthersWrite ==
  ASSUME TypeOK, NEW s \in Sessions, RowsFrame(s), NEW q \in Sessions \ {s},
         \A t : there(memory, t) => there(memory', t), WritesWhatIsGiven(q)
  PROVE  WritesWhatIsGiven(q)'
<1>1. pc'[q] = pc[q] /\ stmt'[q] = stmt[q] /\ rows'[q] = rows[q]
  BY DEF RowsFrame, Frame, Goto, TypeOK, ControlType
<1>2. there(memory, stmt[q].tbl) => there(memory', stmt'[q].tbl)
  BY <1>1
<1> QED
  BY <1>1, <1>2 DEF WritesWhatIsGiven, At

\* A step that neither logs nor changes what is in memory, and that does not
\* fill in rows
LEMMA QuietWriters ==
  ASSUME WritersInv, TypeOK, NEW s \in Sessions, RowsFrame(s),
         catalog'.dbs = catalog.dbs, catalog'.tables = catalog.tables,
         catalog'.indexes = catalog.indexes, storage'.tables = storage.tables,
         disk'.wal = disk.wal, Consistent(disk'),
         pc[s] # "insert_store", pc'[s] # "insert_store",
         WritesWhatIsGiven(s)'
  PROVE  WritersInv'
<1>1. \A t : owed(s, t) = {} /\ owed(s, t)' = {}
  BY DEF owed, At
<1>2. \A t : unstored(t)' = unstored(t)
  BY <1>1, UnstoredStep
<1>3. \A t : /\ there(memory', t) <=> there(memory, t)
             /\ defs_in(memory', t) = defs_in(memory, t)
             /\ rows_in(memory', t) = rows_in(memory, t)
  BY DEF there, defs_in, rows_in, rows_of, memory
<1>4. LogLeads'
  BY <1>2, <1>3 DEF LogLeads, WritersInv, SameCatalogs
<1>5. \A q \in Sessions \ {s} : WritesWhatIsGiven(q)'
  BY <1>3, OthersWrite DEF WritersInv
<1> QED
  BY <1>4, <1>5 DEF WritersInv

\* What a step logs, if anything
LogsOrNot(s) == disk'.wal = disk.wal \/ \E e : Logs(s, e)

\* The steps that log nothing and change nothing of the tables
LEMMA PlainWriters ==
  ASSUME WriterStore, RecoveryInv, WritersInv, NEW s \in Sessions,
         \/ Begin(s) \/ CreateTableExists(s) \/ SelectLookup(s) \/ SelectRead(s)
         \/ InsertIndexes(s) \/ InsertIndex(s) \/ LockError(s)
         \/ SaveCatalog(s)
         \/ SaveTable(s) /\ pc[s] = "insert_save" /\ pc'[s] = "insert_indexes"
  PROVE  WritersInv' /\ LogsOrNot(s)
<1>1. TypeOK /\ (Begin(s) \/ Step(s)) /\ disk \in DiskType /\ stmt[s] \in Menu
  BY DEF RecoveryInv, TypeOK, SharedType, Step, DdlStep, DmlStep, WritersInv,
         WritesWhatIsGiven
<1>2. Frame(s)
  BY <1>1, FrameOfStep
<1>3. RowsFrame(s)
  <2>1. CASE Begin(s)
    BY <1>1, <1>2, <2>1 DEF Begin, RowsFrame, TypeOK, LocalsType
  <2>2. CASE ~Begin(s)
    <3>1. UNCHANGED rows
      BY <2>2 DEF CreateTableExists, ExistsCheck, SelectLookup, LookupTable,
                  SelectRead, InsertIndexes, InsertIndex, LockError,
                  SaveCatalog, SaveTable, locals
    <3> QED
      BY <1>2, <3>1 DEF RowsFrame
  <2> QED
    BY <2>1, <2>2
<1>4. pc[s] # "insert_store"
  BY DEF Begin, CreateTableExists, ExistsCheck, SelectLookup, LookupTable,
         SelectRead, InsertIndexes, InsertIndex, LockError, CatalogLockSteps,
         SaveCatalog, SaveTable, CatalogLock, At
<1>5. /\ pc'[s] \notin {"insert_fill", "insert_log", "insert_store"}
      /\ stmt'[s] \in Menu
  <2>1. CASE Begin(s)
    <3>1. PICK st \in Menu : /\ stmt' = [stmt EXCEPT ![s] = st]
                             /\ Goto(s, first_step(st))
      BY <2>1 DEF Begin
    <3>2. stmt'[s] = st /\ pc'[s] = first_step(st) /\ st.op \in Ops
      BY <1>1, <3>1, ExecutorAssumption, StatementFields
         DEF Goto, TypeOK, ControlType
    <3> QED
      BY <3>2 DEF first_step, Ops
  <2>2. CASE ~Begin(s)
    <3>1. pc'[s] \in {"idle", "create_table", "select_read", "insert_index",
                      "insert_indexes"}
      BY <1>1, <2>2
         DEF CreateTableExists, ExistsCheck, SelectLookup, LookupTable,
             SelectRead, InsertIndexes, InsertIndex, LockError, SaveCatalog,
             Return, Goto, TypeOK, ControlType
    <3>2. UNCHANGED stmt
      BY <2>2 DEF CreateTableExists, ExistsCheck, SelectLookup, LookupTable,
                  SelectRead, InsertIndexes, InsertIndex, LockError,
                  SaveCatalog, SaveTable
    <3> QED
      BY <1>1, <3>1, <3>2
  <2> QED
    BY <2>1, <2>2
<1>6. UNCHANGED catalog /\ storage'.tables = storage.tables
  <2>1. UNCHANGED catalog
    BY DEF Begin, CreateTableExists, ExistsCheck, SelectLookup, LookupTable,
           SelectRead, InsertIndexes, InsertIndex, LockError, SaveCatalog,
           SaveTable
  <2>2. CASE LockError(s)
    BY <2>1, <2>2 DEF LockError
  <2>3. CASE ~LockError(s)
    <3>1. pc[s] \in {"idle", "create_table_exists", "select_lookup",
                     "select_read", "insert_indexes", "insert_index",
                     "save_catalog", "insert_save"}
      BY <2>3 DEF Begin, CreateTableExists, ExistsCheck, SelectLookup,
                  LookupTable, SelectRead, InsertIndexes, InsertIndex,
                  SaveCatalog, CatalogLock, At
    <3>2. ~DropsRows(s) /\ ~InsertsRows(s) /\ ~DeletesRows(s) /\ ~UpdatesRows(s)
      BY <3>1 DEF DropsRows, InsertsRows, DeletesRows, UpdatesRows, At
    <3> QED
      BY <1>1, <2>1, <3>2, RowsSteps DEF RowsUnchanged
  <2> QED
    BY <2>2, <2>3
<1>7. disk'.wal = disk.wal /\ Consistent(disk')
  <2>1. /\ Consistent(disk) /\ catalog.dbs = {DefaultDb}
        /\ \A t \in Tables :
             /\ SameCatalogs(memory, last(disk.wal), t)
             /\ rows_in(memory, t) \subseteq rows_in(last(disk.wal), t)
    BY DEF WritersInv, LogLeads
  <2>2. CASE SaveCatalog(s)
    <3>1. disk' = disk \/ disk' = save_catalog(disk, catalog)
      BY <2>2 DEF SaveCatalog
    <3> QED
      BY <2>1, <3>1, CatalogConsistent
  <2>3. CASE SaveTable(s)
    BY <2>1, <2>3, TableConsistent DEF SaveTable, WriterStore
  <2>4. CASE ~SaveCatalog(s) /\ ~SaveTable(s)
    <3>1. UNCHANGED disk
      BY <2>4 DEF Begin, CreateTableExists, ExistsCheck, SelectLookup,
                  LookupTable, SelectRead, InsertIndexes, InsertIndex,
                  LockError
    <3> QED
      BY <2>1, <3>1
  <2> QED
    BY <2>2, <2>3, <2>4
<1>8. WritesWhatIsGiven(s)'
  BY <1>5 DEF WritesWhatIsGiven, At
<1>9. WritersInv'
  BY <1>1, <1>3, <1>4, <1>5, <1>6, <1>7, <1>8, QuietWriters
<1> QED
  BY <1>7, <1>9 DEF LogsOrNot

\* An INSERT that looks its table up has found it when it goes on.
LEMMA LookupWriters ==
  ASSUME WriterStore, RecoveryInv, WritersInv, NEW s \in Sessions,
         InsertLookup(s)
  PROVE  WritersInv' /\ LogsOrNot(s)
<1>1. TypeOK /\ Step(s) /\ stmt[s] \in Menu /\ UNCHANGED stmt
  BY DEF RecoveryInv, InsertLookup, LookupTable, Step, DmlStep, WritersInv,
         WritesWhatIsGiven
<1>2. RowsFrame(s)
  BY <1>1, FrameOfStep DEF RowsFrame, InsertLookup, LookupTable
<1>3. /\ UNCHANGED <<catalog, storage, disk>> /\ pc[s] = "insert_lookup"
      /\ \/ pc'[s] = "idle"
         \/ /\ pc'[s] = "insert_fill"
            /\ table_exists(catalog, stmt[s].db, stmt[s].tbl)
  BY <1>1 DEF InsertLookup, LookupTable, CatalogLock, At, Return, Goto, TypeOK,
              ControlType
<1>4. stmt[s].db = DefaultDb
  BY <1>1, StatementFields
     DEF WriterStore, ManyWriters, OneDatabase, TypeOK, ControlType
<1>5. WritesWhatIsGiven(s)'
  <2>1. pc'[s] = "insert_fill" => there(memory, stmt[s].tbl)
    BY <1>3, <1>4 DEF table_exists, there, memory
  <2> QED
    BY <1>1, <1>3, <2>1 DEF WritesWhatIsGiven, At, there, memory
<1>6. Consistent(disk)
  BY DEF WritersInv
<1>7. WritersInv'
  BY <1>1, <1>2, <1>3, <1>5, <1>6, QuietWriters
<1> QED
  BY <1>3, <1>7 DEF LogsOrNot

\* The rows of an INSERT are filled in, or a short one poisons the catalog.
LEMMA FillWriters ==
  ASSUME WriterStore, RecoveryInv, WritersInv, NEW s \in Sessions,
         InsertFill(s)
  PROVE  WritersInv' /\ LogsOrNot(s)
<1> DEFINE given == stmt[s].rows
           base == catalog.sequences[stmt[s].tbl]
           n == ids_taken(given, Len(given))
<1>1. /\ TypeOK /\ Step(s) /\ stmt[s] \in Menu /\ UNCHANGED stmt
      /\ there(memory, stmt[s].tbl) /\ Consistent(disk)
  BY DEF RecoveryInv, InsertFill, CatalogLock, At, Step, DmlStep, WritersInv,
         WritesWhatIsGiven
<1>2. /\ UNCHANGED <<storage, disk>>
      /\ \/ catalog' = catalog
         \/ catalog' = next_row_id(catalog, stmt[s].tbl, n)
      /\ pc[s] = "insert_fill"
      /\ \/ pc'[s] = "idle"
         \/ pc'[s] = "insert_log" /\ rows'[s] = fill_rows(given, base)
      /\ \A u \in Sessions \ {s} : rows'[u] = rows[u]
  BY <1>1 DEF InsertFill, CatalogLock, At, Return, Goto, TypeOK, ControlType,
              LocalsType
<1>3. RowsFrame(s)
  BY <1>1, <1>2, FrameOfStep DEF RowsFrame
<1>4. /\ catalog'.dbs = catalog.dbs /\ catalog'.tables = catalog.tables
      /\ catalog'.indexes = catalog.indexes
  BY <1>1, <1>2 DEF next_row_id, TypeOK, SharedType, CatalogType
<1>5. completed(fill_rows(given, base), given)
  <2>1. given \in Seq(PartialRow)
    <3>1. stmt[s] \in Statement /\ stmt[s].op = "insert"
      BY <1>1, <1>2, AtOp, LabelSets DEF TypeOK, Ops
    <3> QED
      BY <3>1, StatementFields
  <2> QED
    BY <2>1, FilledIn
<1>6. WritesWhatIsGiven(s)'
  <2>1. there(memory', stmt'[s].tbl)
    BY <1>1, <1>4 DEF there, memory
  <2>2. pc'[s] = "insert_log" => completed(rows'[s], stmt'[s].rows)
    BY <1>1, <1>2, <1>5
  <2> QED
    BY <1>1, <2>1, <2>2 DEF WritesWhatIsGiven, At
<1>7. WritersInv'
  BY <1>1, <1>2, <1>3, <1>4, <1>6, QuietWriters
<1> QED
  BY <1>2, <1>7 DEF LogsOrNot

\* INSERT appends its rows: what is pending grows by them.
LEMMA LogWriters ==
  ASSUME WriterStore, RecoveryInv, WritersInv, NEW s \in Sessions,
         InsertLog(s)
  PROVE  WritersInv' /\ LogsOrNot(s)
<1> DEFINE e  == rows_entry(stmt[s], rows[s])
           y  == last(disk.wal)
<1>1. /\ TypeOK /\ Step(s) /\ stmt[s] \in Menu /\ Consistent(disk)
      /\ there(memory, stmt[s].tbl) /\ completed(rows[s], stmt[s].rows)
      /\ LogLeads /\ catalog.dbs = {DefaultDb}
  BY DEF RecoveryInv, InsertLog, At, Step, DmlStep, WritersInv,
         WritesWhatIsGiven
<1>2. /\ Log(e) /\ pc[s] = "insert_log" /\ pc'[s] = "insert_store"
      /\ UNCHANGED <<catalog, storage, stmt, rows>>
  BY <1>1 DEF InsertLog, At, rows_entry, Goto, TypeOK, ControlType, locals
<1>3. /\ stmt[s] \in Statement /\ stmt[s].op = "insert"
      /\ stmt[s].tbl \in Tables /\ rows[s] \in Seq(Row)
  <2>1. "insert" \in Ops /\ pc[s] \in labels("insert") \ {"save_catalog"}
    BY <1>2, LabelSets DEF Ops
  <2>2. stmt[s] \in Statement /\ stmt[s].op = "insert" /\ rows[s] \in Seq(Row)
    BY <1>1, <2>1, AtOp DEF TypeOK, LocalsType
  <2> QED
    BY <2>2, StatementFields
<1>4. /\ e \in Entry /\ e.type = "InsertRows" /\ e.tbl = stmt[s].tbl
      /\ e.rows = rows[s]
  BY <1>3, LoggedEntries DEF rows_entry
<1>5. LegalEntry(y, e) /\ Sound(y)
  <2>1. there(y, e.tbl)
    BY <1>1, <1>3, <1>4 DEF LogLeads, SameCatalogs
  <2>2. Sound(y)
    BY <1>1, LastSound
       DEF TypeOK, SharedType, DiskType, Consistent, WriterStore, ManyWriters
  <2> HIDE DEF y, e
  <2> QED
    BY <1>4, <2>1, <2>2 DEF LegalEntry
<1>6. RowsFrame(s)
  BY <1>1, <1>2, FrameOfStep DEF RowsFrame
<1>7. \A t : owed(s, t) = {}
        /\ owed(s, t)' = IF t = e.tbl THEN {e.rows[i] : i \in 1 .. Len(e.rows)}
                         ELSE {}
  <2> SUFFICES ASSUME NEW t
               PROVE  /\ owed(s, t) = {}
                      /\ owed(s, t)' = IF t = e.tbl
                                       THEN {e.rows[i] : i \in 1 .. Len(e.rows)}
                                       ELSE {}
    OBVIOUS
  <2>1. owed(s, t) = {}
    BY <1>2 DEF owed, At
  <2>2. owed(s, t)' = IF stmt[s].tbl = t THEN rows_given(s)' ELSE {}
    BY <1>2 DEF owed, At
  <2>3. rows_given(s)' = {e.rows[i] : i \in 1 .. Len(e.rows)}
    BY <1>2, <1>4 DEF rows_given
  <2> HIDE DEF e
  <2> QED
    BY <1>4, <2>1, <2>2, <2>3
<1> HIDE DEF e, y
<1>8. /\ Consistent(disk') /\ disk'.wal = Append(disk.wal, e)
      /\ last(disk'.wal) = apply_entry(y, e)
  BY <1>1, <1>2, <1>4, <1>5, EntryLogged DEF y
<1>9. LogLeads'
  <2> SUFFICES ASSUME NEW t \in Tables
               PROVE  /\ SameCatalogs(memory', last(disk'.wal), t)
                      /\ rows_in(last(disk'.wal), t)
                           = rows_in(memory', t) \cup unstored(t)'
    BY DEF LogLeads
  <2> DEFINE r == apply_entry(y, e)
  <2>1. /\ there(r, t) <=> there_after(y, e, t)
        /\ defs_in(r, t) = defs_after(y, e, t)
        /\ rows_in(r, t) = rows_after(y, e, t)
    BY <1>4, <1>5, EntryEffect DEF WriterStore, ManyWriters
  <2>2. memory' = memory
    BY <1>2 DEF memory
  <2>3. unstored(t)' = unstored(t) \cup owed(s, t)'
    BY <1>1, <1>6, <1>7, UnstoredStep
  <2>4. /\ SameCatalogs(memory, y, t)
        /\ rows_in(y, t) = rows_in(memory, t) \cup unstored(t)
    BY <1>1 DEF LogLeads, y
  <2> HIDE DEF r
  <2>5. SameCatalogs(memory, r, t)
    BY <1>4, <2>1, <2>4 DEF SameCatalogs, there_after, defs_after, on
  <2>6. rows_in(r, t) = rows_in(y, t) \cup owed(s, t)'
    BY <1>4, <1>5, <1>7, <2>1 DEF rows_after, on
  <2> QED
    BY <1>8, <2>2, <2>3, <2>4, <2>5, <2>6 DEF r
<1>10. WritesWhatIsGiven(s)'
  BY <1>1, <1>2 DEF WritesWhatIsGiven, At
<1>11. \A q \in Sessions \ {s} : WritesWhatIsGiven(q)'
  <2>1. memory' = memory
    BY <1>2 DEF memory
  <2>2. \A t : there(memory, t) => there(memory', t)
    BY <2>1
  <2> QED
    BY <1>1, <1>6, <2>2, OthersWrite DEF WritersInv
<1>12. WritersInv'
  BY <1>1, <1>2, <1>8, <1>9, <1>10, <1>11 DEF WritersInv
<1>13. Logs(s, e)
  BY <1>1, <1>3, <1>4, <1>5, <1>8 DEF Logs, Means, y
<1> QED
  BY <1>12, <1>13 DEF LogsOrNot

\* INSERT stores its rows: what is pending shrinks by them.
LEMMA StoreWriters ==
  ASSUME WriterStore, RecoveryInv, WritersInv, NEW s \in Sessions,
         InsertStore(s)
  PROVE  WritersInv' /\ LogsOrNot(s)
<1> DEFINE e  == rows_entry(stmt[s], rows[s])
           x  == memory
<1>1. /\ TypeOK /\ Step(s) /\ stmt[s] \in Menu /\ Consistent(disk)
      /\ LogLeads /\ catalog.dbs = {DefaultDb} /\ Sound(x)
  BY MemorySound DEF RecoveryInv, Step, DmlStep, WritersInv, WritesWhatIsGiven
<1>2. /\ pc[s] = "insert_store" /\ pc'[s] = "insert_save"
      /\ UNCHANGED <<catalog, disk, stmt, rows>>
      /\ storage' = insert_new_rows(storage, stmt[s].tbl, rows[s])
  BY <1>1 DEF InsertStore, At, Goto, TypeOK, ControlType
<1>3. /\ stmt[s] \in Statement /\ stmt[s].op = "insert"
      /\ stmt[s].tbl \in Tables /\ rows[s] \in Seq(Row)
  <2>1. "insert" \in Ops /\ pc[s] \in labels("insert") \ {"save_catalog"}
    BY <1>2, LabelSets DEF Ops
  <2>2. stmt[s] \in Statement /\ stmt[s].op = "insert" /\ rows[s] \in Seq(Row)
    BY <1>1, <2>1, AtOp DEF TypeOK, LocalsType
  <2> QED
    BY <2>2, StatementFields
<1>4. /\ e \in Entry /\ e.type = "InsertRows" /\ e.tbl = stmt[s].tbl
      /\ e.rows = rows[s]
  BY <1>3, LoggedEntries DEF rows_entry
<1>5. memory' = apply_entry(x, e)
  BY <1>2 DEF memory, apply_entry, rows_entry
<1>6. RowsFrame(s)
  BY <1>1, <1>2, FrameOfStep DEF RowsFrame
<1>7. \A t : owed(s, t)' = {}
        /\ owed(s, t) = IF t = e.tbl THEN {e.rows[i] : i \in 1 .. Len(e.rows)}
                        ELSE {}
  <2> SUFFICES ASSUME NEW t
               PROVE  /\ owed(s, t)' = {}
                      /\ owed(s, t) = IF t = e.tbl
                                      THEN {e.rows[i] : i \in 1 .. Len(e.rows)}
                                      ELSE {}
    OBVIOUS
  <2>1. owed(s, t)' = {}
    BY <1>2 DEF owed, At
  <2>2. owed(s, t) = IF stmt[s].tbl = t THEN rows_given(s) ELSE {}
    BY <1>2 DEF owed, At
  <2>3. rows_given(s) = {e.rows[i] : i \in 1 .. Len(e.rows)}
    BY <1>4 DEF rows_given
  <2> HIDE DEF e
  <2> QED
    BY <1>4, <2>1, <2>2, <2>3
<1> HIDE DEF e, x
<1>8. \A t \in Tables :
        /\ there(memory', t) <=> there(x, t)
        /\ defs_in(memory', t) = defs_in(x, t)
        /\ rows_in(memory', t) = rows_in(x, t) \cup owed(s, t)
  <2> SUFFICES ASSUME NEW t \in Tables
               PROVE  /\ there(memory', t) <=> there(x, t)
                      /\ defs_in(memory', t) = defs_in(x, t)
                      /\ rows_in(memory', t) = rows_in(x, t) \cup owed(s, t)
    OBVIOUS
  <2> DEFINE r == apply_entry(x, e)
  <2>1. /\ there(r, t) <=> there_after(x, e, t)
        /\ defs_in(r, t) = defs_after(x, e, t)
        /\ rows_in(r, t) = rows_after(x, e, t)
    BY <1>1, <1>4, EntryEffect DEF WriterStore, ManyWriters
  <2> HIDE DEF r
  <2>2. /\ there(r, t) <=> there(x, t)
        /\ defs_in(r, t) = defs_in(x, t)
    BY <1>4, <2>1 DEF there_after, defs_after, on
  <2>3. rows_in(r, t) = rows_in(x, t) \cup owed(s, t)
    BY <1>4, <1>7, <2>1 DEF rows_after, on
  <2> QED
    BY <1>5, <2>2, <2>3 DEF r
<1>9. LogLeads'
  <2> SUFFICES ASSUME NEW t \in Tables
               PROVE  /\ SameCatalogs(memory', last(disk'.wal), t)
                      /\ rows_in(last(disk'.wal), t)
                           = rows_in(memory', t) \cup unstored(t)'
    BY DEF LogLeads
  <2>1. unstored(t) = unstored(t)' \cup owed(s, t)
    BY <1>1, <1>6, <1>7, UnstoredStep
  <2>2. /\ SameCatalogs(x, last(disk.wal), t)
        /\ rows_in(last(disk.wal), t) = rows_in(x, t) \cup unstored(t)
    BY <1>1 DEF LogLeads, x
  <2>3. SameCatalogs(memory', last(disk.wal), t)
    BY <1>8, <2>2 DEF SameCatalogs
  <2>4. last(disk'.wal) = last(disk.wal)
    BY <1>2
  <2> QED
    BY <1>8, <2>1, <2>2, <2>3, <2>4
<1>10. WritesWhatIsGiven(s)'
  BY <1>1, <1>2 DEF WritesWhatIsGiven, At
<1>11. \A q \in Sessions \ {s} : WritesWhatIsGiven(q)'
  <2>1. \A t : there(memory, t) => there(memory', t)
    BY <1>2 DEF there, memory
  <2> QED
    BY <1>1, <1>6, <2>1, OthersWrite DEF WritersInv
<1>12. WritersInv'
  BY <1>1, <1>2, <1>9, <1>10, <1>11 DEF WritersInv
<1> QED
  BY <1>2, <1>12 DEF LogsOrNot

\* CREATE TABLE logs, and does in memory what a replay of its entry does; what
\* is pending of a table is not touched by creating it.
LEMMA CreateWriters ==
  ASSUME WriterStore, RecoveryInv, WritersInv, NEW s \in Sessions,
         CreateTable(s)
  PROVE  WritersInv' /\ LogsOrNot(s)
<1> DEFINE st == stmt[s]
           e  == [type |-> "CreateTable", tbl |-> st.tbl]
           ok == create_table_ok(catalog, st.db, st.tbl)
           x  == memory
           y  == last(disk.wal)
<1>1. /\ TypeOK /\ Step(s) /\ st \in Menu /\ Consistent(disk)
      /\ LogLeads /\ catalog.dbs = {DefaultDb} /\ Sound(x)
  BY MemorySound DEF RecoveryInv, CreateTable, Step, DdlStep, WritersInv,
     WritesWhatIsGiven
<1>2. Sound(y)
  BY <1>1, LastSound
     DEF TypeOK, SharedType, DiskType, Consistent, WriterStore, ManyWriters
<1>3. /\ Log(e) /\ pc[s] = "create_table"
      /\ ChangeCatalog(s, ok, create_table(catalog, st.db, st.tbl),
                       "save_catalog")
      /\ UNCHANGED <<storage, stmt, rows>>
  BY DEF CreateTable, CatalogLock, At, locals
<1>4. st.op = "create_table" /\ st.db = DefaultDb /\ st.tbl \in Tables
  <2>1. "create_table" \in Ops /\ pc[s] \in labels("create_table") \ {"save_catalog"}
    BY <1>3, LabelSets DEF Ops
  <2>2. st \in Statement /\ st.op = "create_table"
    BY <1>1, <2>1, AtOp DEF TypeOK
  <2>3. DBs = {DefaultDb}
    BY DEF WriterStore, ManyWriters, OneDatabase
  <2>4. st.db \in DBs /\ st.tbl \in Tables
    BY <2>2, StatementFields
  <2> QED
    BY <2>2, <2>3, <2>4
<1>5. /\ e \in Entry /\ e.type = "CreateTable" /\ e.tbl = st.tbl
      /\ LegalEntry(y, e)
  BY <1>4 DEF Entry, WholeEntry, LegalEntry
<1>6. memory' = apply_entry(x, e)
  <2>1. catalog' = IF ok THEN create_table(catalog, DefaultDb, st.tbl)
                         ELSE catalog
    BY <1>3, <1>4 DEF ChangeCatalog
  <2> QED
    BY <1>3, <1>4, <2>1 DEF memory, apply_entry, apply_create_table
<1>7. catalog'.dbs = catalog.dbs
  BY <1>1, <1>3 DEF ChangeCatalog, create_table, TypeOK, SharedType, CatalogType
<1>8. pc'[s] \in {"idle", "save_catalog"}
  BY <1>1, <1>3 DEF ChangeCatalog, Return, Goto, TypeOK, ControlType
<1>9. RowsFrame(s)
  BY <1>1, <1>3, FrameOfStep DEF RowsFrame
<1>10. \A t : owed(s, t) = {} /\ owed(s, t)' = {}
  BY <1>3, <1>8 DEF owed, At
<1> HIDE DEF e, x, y, st, ok
<1>11. /\ Consistent(disk') /\ disk'.wal = Append(disk.wal, e)
       /\ last(disk'.wal) = apply_entry(y, e)
  BY <1>1, <1>3, <1>5, EntryLogged DEF y
<1>12. LogLeads'
  <2> SUFFICES ASSUME NEW t \in Tables
               PROVE  /\ SameCatalogs(memory', last(disk'.wal), t)
                      /\ rows_in(last(disk'.wal), t)
                           = rows_in(memory', t) \cup unstored(t)'
    BY DEF LogLeads
  <2> DEFINE a == apply_entry(x, e)
             b == apply_entry(y, e)
  <2>1. /\ there(a, t) <=> there_after(x, e, t)
        /\ defs_in(a, t) = defs_after(x, e, t)
        /\ rows_in(a, t) = rows_after(x, e, t)
    BY <1>1, <1>5, EntryEffect DEF WriterStore, ManyWriters
  <2>2. /\ there(b, t) <=> there_after(y, e, t)
        /\ defs_in(b, t) = defs_after(y, e, t)
        /\ rows_in(b, t) = rows_after(y, e, t)
    BY <1>2, <1>5, EntryEffect DEF WriterStore, ManyWriters
  <2>3. unstored(t)' = unstored(t)
    BY <1>1, <1>9, <1>10, UnstoredStep
  <2>4. /\ SameCatalogs(x, y, t)
        /\ rows_in(y, t) = rows_in(x, t) \cup unstored(t)
    BY <1>1 DEF LogLeads, x, y
  <2> HIDE DEF a, b
  <2>5. SameCatalogs(a, b, t)
    BY <1>5, <2>1, <2>2, <2>4 DEF SameCatalogs, there_after, defs_after, on
  <2>6. rows_in(b, t) = rows_in(a, t) \cup unstored(t)
    BY <1>5, <2>1, <2>2, <2>4 DEF rows_after, on
  <2> QED
    BY <1>6, <1>11, <2>3, <2>5, <2>6 DEF a, b
<1>13. \A t : there(memory, t) => there(memory', t)
  <2>1. \A t : <<DefaultDb, t>> \in catalog.tables
                 => <<DefaultDb, t>> \in catalog'.tables
    <3>1. catalog \in CatalogType
      BY <1>1 DEF TypeOK, SharedType
    <3>2. create_table(catalog, st.db, st.tbl).tables
            = catalog.tables \cup {<<st.db, st.tbl>>}
      BY <3>1 DEF create_table, CatalogType
    <3> QED
      BY <1>3, <3>2 DEF ChangeCatalog
  <2> QED
    BY <2>1 DEF there, memory
<1>14. WritesWhatIsGiven(s)'
  BY <1>1, <1>3, <1>8 DEF WritesWhatIsGiven, At, st
<1>15. \A q \in Sessions \ {s} : WritesWhatIsGiven(q)'
  BY <1>1, <1>9, <1>13, OthersWrite DEF WritersInv
<1>16. WritersInv'
  BY <1>1, <1>7, <1>11, <1>12, <1>14, <1>15 DEF WritersInv
<1>17. Logs(s, e)
  BY <1>1, <1>4, <1>5, <1>11 DEF Logs, Means, y, st
<1> QED
  BY <1>16, <1>17 DEF LogsOrNot

\* With no INSERT between its append and its store, nothing is pending.
LEMMA NothingPending ==
  ASSUME \A s \in Sessions : pc[s] # "insert_store"
  PROVE  \A t : unstored(t) = {}
  BY DEF unstored, At

\* A crash forgets what was pending: the replay has stored it.
LEMMA CrashWriters ==
  ASSUME WriterStore, RecoveryInv, WritersInv, CrashRestart
  PROVE  WritersInv' /\ disk' = disk
<1>1. OneDatabase /\ TornEntries = {} /\ Consistent(disk)
  BY DEF WriterStore, ManyWriters, WritersInv
<1>2. /\ disk' = disk /\ catalog'.dbs = {DefaultDb}
      /\ Alike(memory', last(disk.wal))
  BY <1>1, CrashMemory
<1>3. \A s \in Sessions : pc'[s] = "idle" /\ stmt'[s] \in Menu
  BY DEF CrashRestart, WritersInv, WritesWhatIsGiven
<1>4. \A t : unstored(t)' = {}
  BY <1>3 DEF unstored, At
<1>5. LogLeads'
  <2>1. \A t \in Tables : AlikeAt(memory', last(disk.wal), t)
    BY <1>2 DEF Alike
  <2>2. last(disk'.wal) = last(disk.wal)
    BY <1>2
  <2> QED
    BY <1>4, <2>1, <2>2 DEF AlikeAt, SameCatalogs, LogLeads
<1>6. \A s \in Sessions : WritesWhatIsGiven(s)'
  BY <1>3 DEF WritesWhatIsGiven, At
<1> QED
  BY <1>1, <1>2, <1>5, <1>6 DEF WritersInv

\* Every step of a session keeps the invariant, and logs one entry or none.
LEMMA StepWriters ==
  ASSUME WriterStore, RecoveryInv, WritersInv, NEW s \in Sessions,
         Begin(s) \/ Step(s)
  PROVE  WritersInv' /\ LogsOrNot(s)
<1>1. CASE Begin(s)
  BY <1>1, PlainWriters
<1>2. CASE Step(s)
  <2>1. ManyWriters /\ TypeOK /\ stmt[s] \in Menu
    BY DEF WriterStore, RecoveryInv, WritersInv, WritesWhatIsGiven
  <2>2. \/ CreateTableExists(s) \/ CreateTable(s) \/ SaveCatalog(s)
        \/ InsertLookup(s) \/ InsertFill(s) \/ InsertLog(s) \/ InsertStore(s)
        \/ SaveTable(s) /\ pc[s] = "insert_save" /\ pc'[s] = "insert_indexes"
        \/ InsertIndexes(s) \/ InsertIndex(s)
        \/ SelectLookup(s) \/ SelectRead(s) \/ LockError(s)
    BY <1>2, <2>1, WriterSteps
  <2> QED
    BY <2>2, PlainWriters, LookupWriters, FillWriters, LogWriters,
       StoreWriters, CreateWriters
<1> QED
  BY <1>1, <1>2

\* Every step keeps the invariant, and logs one entry or none.
LEMMA NextWritersInv ==
  ASSUME WriterStore, RecoveryInv, WritersInv, [RecoveryNext]_rvars
  PROVE  /\ WritersInv'
         /\ disk'.wal = disk.wal \/ \E s \in Sessions : LogsOrNot(s)
<1>1. CASE UNCHANGED vars
  <2>1. UNCHANGED <<catalog, storage, disk, pc, stmt, rows>>
    BY <1>1 DEF vars
  <2>2. \A t : unstored(t)' = unstored(t)
    BY <2>1 DEF unstored, At, rows_given
  <2>3. memory' = memory
    BY <2>1 DEF memory
  <2>4. LogLeads'
    BY <2>1, <2>2, <2>3 DEF WritersInv, LogLeads
  <2>5. \A s \in Sessions : WritesWhatIsGiven(s)'
    BY <2>1, <2>3 DEF WritersInv, WritesWhatIsGiven, At
  <2> QED
    BY <2>1, <2>4, <2>5 DEF WritersInv
<1>2. CASE \E s \in Sessions : Begin(s) \/ Step(s)
  BY <1>2, StepWriters
<1>3. CASE CrashRestart
  BY <1>3, CrashWriters
<1> QED
  BY <1>1, <1>2, <1>3 DEF RecoveryNext, Next, AllDone, rvars

\* The invariant holds at the start.
LEMMA InitWritersInv ==
  ASSUME WriterStore, RecoveryInit
  PROVE  WritersInv
<1>1. /\ Consistent(disk) /\ Alike(memory, last(disk.wal))
      /\ catalog.dbs = {DefaultDb}
      /\ \A s \in Sessions : pc[s] = "idle" /\ stmt[s] \in Menu
  BY InitConsistent DEF WriterStore, ManyWriters
<1>2. \A t : unstored(t) = {}
  BY <1>1, NothingPending
<1>3. LogLeads
  <2>1. \A t \in Tables : AlikeAt(memory, last(disk.wal), t)
    BY <1>1 DEF Alike
  <2> QED
    BY <1>2, <2>1 DEF AlikeAt, SameCatalogs, LogLeads
<1>4. \A s \in Sessions : WritesWhatIsGiven(s)
  BY <1>1 DEF WritesWhatIsGiven, At
<1> QED
  BY <1>1, <1>3, <1>4 DEF WritersInv

\* However many sessions fill in, log, store and save at once, the log is
\* ahead of the memory by what is pending and by nothing else.
THEOREM WritersInvHolds == WriterStore => (RecoverySpec => []WritersInv)
<1>1. SUFFICES ASSUME WriterStore PROVE RecoverySpec => []WritersInv
  OBVIOUS
<1>2. RecoveryInit => WritersInv
  BY <1>1, InitWritersInv
<1>3. RecoveryInv /\ WritersInv /\ [RecoveryNext]_rvars => WritersInv'
  BY <1>1, NextWritersInv
<1> QED
  BY <1>2, <1>3, RecoveryInvHolds, PTL DEF RecoverySpec

\* While no statement runs, a start finds what the writers have in memory.
LEMMA RestWriters ==
  ASSUME WriterStore, RecoveryInv, WritersInv
  PROVE  DurableAtRest
<1> SUFFICES ASSUME AtRest
             PROVE  /\ contents(recovered) = contents(memory)
                    /\ recovered.catalog.tables = catalog.tables
                    /\ recovered.catalog.indexes = catalog.indexes
  BY DEF DurableAtRest
<1>1. \A s \in Sessions : pc[s] # "insert_store"
  BY DEF AtRest, At
<1>2. \A t : unstored(t) = {}
  BY <1>1, NothingPending
<1>3. Alike(memory, last(disk.wal))
  BY <1>2 DEF WritersInv, LogLeads, SameCatalogs, Alike, AlikeAt
<1>4. OneDatabase /\ Consistent(disk) /\ catalog.dbs = {DefaultDb}
  BY DEF WriterStore, ManyWriters, WritersInv
<1> QED
  BY <1>3, <1>4, AlikeDurable

\* When the writers have returned, a crash loses no row and brings none back,
\* in whatever order their appends and stores fell.
THEOREM WritersAreDurable == WriterStore => (RecoverySpec => []DurableAtRest)
<1>1. SUFFICES ASSUME WriterStore PROVE RecoverySpec => []DurableAtRest
  OBVIOUS
<1>2. RecoverySpec => []WritersInv
  BY <1>1, WritersInvHolds
<1>3. RecoveryInv /\ WritersInv => DurableAtRest
  BY <1>1, RestWriters
<1> QED
  BY <1>2, <1>3, RecoveryInvHolds, PTL

\* Every step of the writers is a step of the durable store or changes nothing
\* of it.
LEMMA WritersStepImplements ==
  ASSUME WriterStore, RecoveryInv, WritersInv, RecoveryInv', WritersInv',
         [RecoveryNext]_rvars
  PROVE  Durable!Next \/ contents(recovered') = contents(recovered)
<1>1. OneDatabase /\ Consistent(disk) /\ Consistent(disk)'
  BY DEF WriterStore, ManyWriters, WritersInv
<1>2. disk'.wal = disk.wal \/ \E s \in Sessions : \E e : Logs(s, e)
  BY NextWritersInv DEF LogsOrNot
<1> QED
  BY <1>1, <1>2, LogStepImplements

\* The writers change what a restart would find by one whole INSERT or CREATE
\* TABLE at a time, each at the instant its entry is appended.
THEOREM WritersImplementStore ==
  WriterStore => (RecoverySpec => ImplementsDurableStore)
<1>1. SUFFICES ASSUME WriterStore PROVE RecoverySpec => ImplementsDurableStore
  OBVIOUS
<1>2. RecoverySpec => []WritersInv
  BY <1>1, WritersInvHolds
<1>3. RecoveryInit /\ RecoveryInv /\ WritersInv => Durable!Init
  <2> SUFFICES ASSUME RecoveryInit, RecoveryInv, WritersInv PROVE Durable!Init
    OBVIOUS
  <2>1. OneDatabase /\ RanBefore /\ Consistent(disk)
    BY <1>1 DEF WriterStore, ManyWriters, WritersInv
  <2> QED
    BY <2>1, InitImplements
<1>4. RecoveryInv /\ WritersInv /\ RecoveryInv' /\ WritersInv'
        /\ [RecoveryNext]_rvars => [Durable!Next]_(contents(recovered))
  BY <1>1, WritersStepImplements
<1> QED
  BY <1>2, <1>3, <1>4, RecoveryInvHolds, PTL
     DEF RecoverySpec, ImplementsDurableStore, Durable!Spec

=============================================================================
