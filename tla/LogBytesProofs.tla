---------------------------- MODULE LogBytesProofs ----------------------------
(***************************************************************************)
(* What a replay makes of a log in which appends were cut short, for       *)
(* entries of any lengths and any number of appends.  The invariant has    *)
(* the place of every entry; a replay is a path through these places.      *)
(***************************************************************************)
EXTENDS LogBytes, NumberProofs

-----------------------------------------------------------------------------
(* Walks.  At a place a walk stops, or it finds an item there and goes on   *)
(* behind it, which is further on.                                          *)

\* w is the items found from each place of 1 .. n on.
Walk(w, n, stops, item, next) ==
  w = [pos \in 1 .. n |->
         IF pos \in stops THEN <<>> ELSE <<item[pos]>> \o w[next[pos]]]

Onward(n, stops, next) == \A pos \in 1 .. n :
  pos \notin stops => next[pos] \in pos + 1 .. n

\* The places a walk comes through, P[m + 1] being the one where it stops
Path(P, m, n, stops, next) ==
  /\ P \in [1 .. m + 1 -> 1 .. n]
  /\ P[m + 1] \in stops
  /\ \A j \in 1 .. m : P[j] \notin stops /\ P[j + 1] = next[P[j]]

\* There is a walk.
LEMMA WalkExists ==
  ASSUME NEW n \in Nat, NEW stops, NEW item, NEW next, Onward(n, stops, next)
  PROVE  \E w : Walk(w, n, stops, item, next)
<1> DEFINE Step(w, pos) == IF pos \in stops THEN <<>>
                           ELSE <<item[pos]>> \o w[next[pos]]
           From(w, k) == \A pos \in k .. n : w[pos] = Step(w, pos)
           S == {k \in 1 .. n : \E w : From(w, k)}
<1>1. ASSUME NEW k \in 1 .. n, \A q \in k + 1 .. n : q \in S
      PROVE  k \in S
  <2>1. PICK w : From(w, k + 1)
    <3>1. CASE k = n
      <4>1. k + 1 .. n = {}
        BY <3>1
      <4> QED
        BY <4>1
    <3>2. CASE k # n
      <4>1. k + 1 \in k + 1 .. n
        BY <3>2
      <4> QED
        BY <1>1, <4>1
    <3> QED
      BY <3>1, <3>2
  <2> DEFINE v == [pos \in 1 .. n |-> IF pos = k THEN Step(w, k) ELSE w[pos]]
  <2>2. ASSUME NEW pos \in k .. n
        PROVE  v[pos] = Step(v, pos)
    <3>1. pos \notin stops => v[next[pos]] = w[next[pos]]
      <4> SUFFICES ASSUME pos \notin stops PROVE v[next[pos]] = w[next[pos]]
        OBVIOUS
      <4>1. next[pos] \in pos + 1 .. n
        BY DEF Onward
      <4>2. next[pos] \in 1 .. n /\ next[pos] # k
        BY <4>1
      <4> QED
        BY <4>2
    <3>2. Step(v, pos) = Step(w, pos)
      BY <3>1
    <3>3. pos # k => w[pos] = Step(w, pos)
      BY <2>1
    <3>4. v[pos] = IF pos = k THEN Step(w, k) ELSE w[pos]
      OBVIOUS
    <3> HIDE DEF v, Step
    <3> QED
      BY <3>2, <3>3, <3>4
  <2> HIDE DEF v, Step
  <2>3. From(v, k)
    BY <2>2
  <2> QED
    BY <2>3
<1>2. \A k \in 1 .. n : k \in S
  <2> HIDE DEF S
  <2> QED
    BY <1>1, DownInduction
<1>3. \E w : From(w, 1)
  <2>1. CASE n = 0
    BY <2>1
  <2>2. CASE n # 0
    <3>1. 1 \in 1 .. n
      BY <2>2
    <3>2. 1 \in S
      <4> HIDE DEF S
      <4> QED
        BY <1>2, <3>1
    <3> QED
      BY <3>2
  <2> QED
    BY <2>1, <2>2
<1>4. PICK w : From(w, 1)
  BY <1>3
<1> DEFINE v == [pos \in 1 .. n |-> w[pos]]
<1>5. ASSUME NEW pos \in 1 .. n
      PROVE  v[pos] = Step(v, pos)
  <2>1. w[pos] = Step(w, pos)
    BY <1>4
  <2>2. pos \notin stops => next[pos] \in 1 .. n
    BY DEF Onward
  <2> QED
    BY <2>1, <2>2
<1>6. v = [pos \in 1 .. n |-> Step(v, pos)]
  <2>1. v = [pos \in 1 .. n |-> v[pos]]
    OBVIOUS
  <2> HIDE DEF v, Step
  <2> QED
    BY <1>5, <2>1
<1> HIDE DEF v
<1> QED
  BY <1>6 DEF Walk

\* s is the items found along a path from pos.
Along(s, P, m, pos, n, stops, item, next) ==
  /\ Path(P, m, n, stops, next) /\ P[1] = pos
  /\ s = [j \in 1 .. m |-> item[P[j]]]

\* The items of a walk are those along a path.
LEMMA WalkPath ==
  ASSUME NEW n \in Nat, NEW stops, NEW item, NEW next, Onward(n, stops, next),
         NEW w, Walk(w, n, stops, item, next), NEW pos \in 1 .. n
  PROVE  \E m \in Nat : \E P : Along(w[pos], P, m, pos, n, stops, item, next)
<1> DEFINE Runs(P, m, p) == Along(w[p], P, m, p, n, stops, item, next)
           S == {p \in 1 .. n : \E m \in Nat : \E P : Runs(P, m, p)}
<1>1. ASSUME NEW p \in 1 .. n, \A q \in p + 1 .. n : q \in S
      PROVE  p \in S
  <2>1. w[p] = IF p \in stops THEN <<>> ELSE <<item[p]>> \o w[next[p]]
    BY DEF Walk
  <2>2. CASE p \in stops
    <3> DEFINE P == [j \in 1 .. 1 |-> p]
    <3>1. Path(P, 0, n, stops, next) /\ P[1] = p
      BY <2>2 DEF Path
    <3>2. w[p] = [j \in 1 .. 0 |-> item[P[j]]]
      BY <2>1, <2>2
    <3> HIDE DEF P
    <3>3. Runs(P, 0, p)
      BY <3>1, <3>2 DEF Along
    <3> HIDE DEF Runs
    <3> QED
      BY <3>3
  <2>3. CASE p \notin stops
    <3>1. next[p] \in p + 1 .. n
      BY <2>3 DEF Onward
    <3>2. PICK m \in Nat : \E Q : Runs(Q, m, next[p])
      BY <1>1, <3>1
    <3>3. PICK Q : Runs(Q, m, next[p])
      BY <3>2
    <3> DEFINE P == [j \in 1 .. (m + 1) + 1 |-> IF j = 1 THEN p ELSE Q[j - 1]]
               s == [j \in 1 .. m |-> item[Q[j]]]
               t == [j \in 1 .. m + 1 |-> item[P[j]]]
    <3>4. /\ Q \in [1 .. m + 1 -> 1 .. n] /\ Q[m + 1] \in stops /\ Q[1] = next[p]
          /\ \A j \in 1 .. m : Q[j] \notin stops /\ Q[j + 1] = next[Q[j]]
      BY <3>3 DEF Path, Along
    <3>5. P[1] = p /\ \A j \in 1 .. m + 1 : P[j + 1] = Q[j]
      OBVIOUS
    <3>6. P \in [1 .. (m + 1) + 1 -> 1 .. n]
      <4>1. ASSUME NEW j \in 1 .. (m + 1) + 1, j # 1
            PROVE  Q[j - 1] \in 1 .. n
        <5>1. j - 1 \in 1 .. m + 1
          BY <4>1
        <5> QED
          BY <3>4, <5>1
      <4> QED
        BY <4>1
    <3>7. ASSUME NEW j \in 1 .. m + 1
          PROVE  P[j] \notin stops /\ P[j + 1] = next[P[j]]
      <4>1. CASE j = 1
        BY <2>3, <3>4, <3>5, <4>1
      <4>2. CASE j # 1
        <5>1. j - 1 \in 1 .. m /\ (j - 1) + 1 = j
          BY <4>2
        <5>2. P[j] = Q[j - 1] /\ P[j + 1] = Q[(j - 1) + 1]
          BY <3>5, <4>2, <5>1
        <5> QED
          BY <3>4, <5>1, <5>2
      <4> QED
        BY <4>1, <4>2
    <3>8. t = <<item[p]>> \o s
      <4>1. Len(s) = m /\ Len(<<item[p]>> \o s) = m + 1
        OBVIOUS
      <4>2. ASSUME NEW j \in 1 .. m + 1
            PROVE  (<<item[p]>> \o s)[j] = item[P[j]]
        <5>1. CASE j = 1
          BY <3>5, <5>1
        <5>2. CASE j # 1
          <6>1. j - 1 \in 1 .. m /\ (<<item[p]>> \o s)[j] = s[j - 1]
            BY <5>2
          <6>2. P[j] = Q[j - 1]
            BY <5>2
          <6> QED
            BY <6>1, <6>2
        <5> QED
          BY <5>1, <5>2
      <4>3. DOMAIN (<<item[p]>> \o s) = 1 .. m + 1
        BY <4>1
      <4> QED
        BY <4>2, <4>3
    <3>9. w[p] = t
      BY <2>1, <2>3, <3>3, <3>8 DEF Along
    <3> HIDE DEF P, s
    <3>10. Path(P, m + 1, n, stops, next)
      BY <3>4, <3>5, <3>6, <3>7 DEF Path
    <3>11. Runs(P, m + 1, p) /\ m + 1 \in Nat
      BY <3>5, <3>9, <3>10 DEF Along
    <3> HIDE DEF Runs
    <3> QED
      BY <3>11
  <2> QED
    BY <2>2, <2>3
<1>2. \A p \in 1 .. n : p \in S
  <2> HIDE DEF S
  <2> QED
    BY <1>1, DownInduction
<1> QED
  BY <1>2

\* A path goes on and on.
LEMMA PathRises ==
  ASSUME NEW n \in Nat, NEW stops, NEW next, Onward(n, stops, next),
         NEW m \in Nat, NEW P, Path(P, m, n, stops, next)
  PROVE  \A j \in 1 .. m : \A i \in 1 .. m : i < j => P[i] < P[j]
<1> DEFINE S == {j \in 1 .. m : \A i \in 1 .. m : i < j => P[i] < P[j]}
<1>1. \A j \in 1 .. m : P[j] \in 1 .. n /\ P[j + 1] \in P[j] + 1 .. n
  <2> SUFFICES ASSUME NEW j \in 1 .. m
               PROVE  P[j] \in 1 .. n /\ P[j + 1] \in P[j] + 1 .. n
    OBVIOUS
  <2>1. j \in 1 .. m + 1 /\ P \in [1 .. m + 1 -> 1 .. n]
    BY DEF Path
  <2>2. P[j] \in 1 .. n
    BY <2>1
  <2>3. P[j] \notin stops /\ P[j + 1] = next[P[j]]
    BY DEF Path
  <2>4. next[P[j]] \in P[j] + 1 .. n
    BY <2>2, <2>3 DEF Onward
  <2> QED
    BY <2>2, <2>3, <2>4
<1>2. CASE m = 0
  BY <1>2
<1>3. CASE m # 0
  <2>1. 1 \in S
    BY <1>3
  <2>2. ASSUME NEW j \in 1 .. m, j < m, j \in S
        PROVE  j + 1 \in S
    <3>1. ASSUME NEW i \in 1 .. m, i < j + 1
          PROVE  P[i] < P[j + 1]
      <4>1. P[i] \in 1 .. n /\ P[j] \in 1 .. n /\ P[j + 1] \in P[j] + 1 .. n
        BY <1>1
      <4>2. i = j \/ P[i] < P[j]
        BY <2>2, <3>1
      <4> QED
        BY <4>1, <4>2
    <3> QED
      BY <2>2, <3>1
  <2> HIDE DEF S
  <2>3. \A j \in 1 .. m : j \in S
    BY <2>1, <2>2, UpInduction
  <2> QED
    BY <2>3 DEF S
<1> QED
  BY <1>2, <1>3

\* Where one walk does not stop another does not either, and turns to the same.
Follows(n, stops, next, stops2, next2) ==
  \A pos \in 1 .. n :
    pos \notin stops => pos \notin stops2 /\ next2[pos] = next[pos]

\* The path of a walk that follows another begins with the path of the other.
LEMMA PathsAgree ==
  ASSUME NEW n \in Nat, NEW stops, NEW next, NEW m \in Nat, NEW P,
         Path(P, m, n, stops, next),
         NEW n2 \in Nat, NEW stops2, NEW next2, NEW m2 \in Nat, NEW P2,
         Path(P2, m2, n2, stops2, next2), P[1] = P2[1],
         Follows(n, stops, next, stops2, next2)
  PROVE  m <= m2 /\ \A j \in 1 .. m + 1 : P2[j] = P[j]
<1> DEFINE S == {j \in 1 .. m + 1 : j <= m2 + 1 /\ P2[j] = P[j]}
<1>1. 1 \in S
  OBVIOUS
<1>2. ASSUME NEW j \in 1 .. m + 1, j < m + 1, j \in S
      PROVE  j + 1 \in S
  <2>1. j \in 1 .. m /\ P[j] \in 1 .. n /\ P[j] \notin stops
        /\ P[j + 1] = next[P[j]]
    BY <1>2 DEF Path
  <2>2. P2[j] \notin stops2 /\ next2[P2[j]] = P[j + 1]
    BY <1>2, <2>1 DEF Follows
  <2>3. j # m2 + 1
    BY <2>2 DEF Path
  <2>4. j \in 1 .. m2
    BY <1>2, <2>3
  <2>5. P2[j + 1] = next2[P2[j]]
    BY <2>4 DEF Path
  <2> QED
    BY <1>2, <2>2, <2>4, <2>5
<1> HIDE DEF S
<1>3. \A j \in 1 .. m + 1 : j \in S
  <2>1. m + 1 \in Nat
    OBVIOUS
  <2> QED
    BY <1>1, <1>2, <2>1, UpInduction
<1>4. m + 1 \in 1 .. m + 1
  OBVIOUS
<1> QED
  BY <1>3, <1>4 DEF S

-----------------------------------------------------------------------------
(* The bytes of an entry.                                                   *)

\* A byte of the log; a length field names a length of entries.
Byte == {b \in {"magic", "len", "type", "payload"} \X Nat \X Nat :
           b[1] = "len" => b[3] \in Lens}

\* The bytes of an entry, one by one
LEMMA SerializeBytes ==
  ASSUME NEW no \in Nat, NEW n \in Lens
  PROVE  /\ n \in Nat /\ n > HeaderSize
         /\ serialize(no, n) \in Seq(Byte) /\ Len(serialize(no, n)) = n
         /\ serialize(no, n)[1] = byte("magic", 0, 1)
         /\ serialize(no, n)[2] = byte("magic", 0, 2)
         /\ \A d \in 3 .. 6 : serialize(no, n)[d] = byte("len", no, n)
         /\ serialize(no, n)[7] = byte("type", no, 0)
         /\ \A d \in 8 .. n :
              serialize(no, n)[d] = byte("payload", no, d - HeaderSize)
<1>1. n \in Nat /\ n > HeaderSize
  BY LogBytesAssumption
<1> DEFINE len     == [i \in 1 .. 4 |-> byte("len", no, entry_len(n))]
           type    == <<byte("type", no, 0)>>
           payload == [i \in 1 .. n - HeaderSize |-> byte("payload", no, i)]
           one     == 1
           two     == 2
           four    == 4
           six     == 6
           seven   == 7
           rest    == n - HeaderSize
<1>2. /\ byte("magic", 0, 1) \in Byte /\ byte("magic", 0, 2) \in Byte
      /\ byte("len", no, entry_len(n)) \in Byte
      /\ byte("type", no, 0) \in Byte
      /\ \A i \in Nat : byte("payload", no, i) \in Byte
  BY <1>1 DEF Byte, byte, entry_len
<1>3. Magic \in Seq(Byte) /\ Len(Magic) = two
      /\ Magic[1] = byte("magic", 0, 1) /\ Magic[2] = byte("magic", 0, 2)
  BY <1>2 DEF Magic
<1>4. len \in Seq(Byte) /\ Len(len) = four
      /\ \A i \in 1 .. 4 : len[i] = byte("len", no, n)
  BY <1>2 DEF entry_len
<1>5. type \in Seq(Byte) /\ Len(type) = one /\ type[one] = byte("type", no, 0)
  BY <1>2
<1>6. payload \in Seq(Byte) /\ Len(payload) = rest
      /\ \A i \in 1 .. rest : payload[i] = byte("payload", no, i)
  <2>1. n - HeaderSize \in Nat /\ \A i \in 1 .. n - HeaderSize : i \in Nat
    BY <1>1 DEF HeaderSize
  <2> QED
    BY <1>2, <2>1
<1>7. serialize(no, n) = ((Magic \o len) \o type) \o payload
  BY DEF serialize
<1> HIDE DEF len, type, payload
<1>8. /\ one \in Nat /\ two \in Nat /\ four \in Nat /\ six \in Nat
      /\ seven \in Nat
      /\ rest \in Nat
  BY <1>1 DEF HeaderSize
<1>9. one = 1 /\ two = 2 /\ four = 4 /\ six = 6 /\ seven = 7
      /\ two + four = six /\ six + one = seven
      /\ rest = n - 7
  BY DEF HeaderSize
<1> HIDE DEF one, two, four, six, seven, rest
<1> DEFINE a == Magic \o len
           b == a \o type
           c == b \o payload
<1>10. /\ a \in Seq(Byte) /\ Len(a) = six
       /\ \A d \in 1 .. two : a[d] = Magic[d]
       /\ \A d \in two + 1 .. six : a[d] = len[d - two]
  <2>1. /\ a \in Seq(Byte) /\ Len(a) = two + four
        /\ \A d \in 1 .. two : a[d] = Magic[d]
        /\ \A d \in two + 1 .. two + four : a[d] = len[d - two]
    BY <1>3, <1>4, <1>8
  <2> HIDE DEF a
  <2> QED
    BY <2>1, <1>9
<1> HIDE DEF a
<1>11. /\ b \in Seq(Byte) /\ Len(b) = seven
       /\ \A d \in 1 .. six : b[d] = a[d]
       /\ \A d \in six + 1 .. seven : b[d] = type[d - six]
  <2>1. /\ b \in Seq(Byte) /\ Len(b) = six + one
        /\ \A d \in 1 .. six : b[d] = a[d]
        /\ \A d \in six + 1 .. six + one : b[d] = type[d - six]
    BY <1>5, <1>8, <1>10
  <2> HIDE DEF b
  <2> QED
    BY <2>1, <1>9
<1> HIDE DEF b
<1>12. /\ c \in Seq(Byte) /\ Len(c) = seven + rest
       /\ \A d \in 1 .. seven : c[d] = b[d]
       /\ \A d \in seven + 1 .. seven + rest : c[d] = payload[d - seven]
  <2>1. Len(b) = seven /\ Len(payload) = rest /\ seven \in Nat /\ rest \in Nat
        /\ b \in Seq(Byte) /\ payload \in Seq(Byte)
    BY <1>6, <1>8, <1>11
  <2> QED
    BY <2>1
<1>13. serialize(no, n) = c
  BY <1>7 DEF a, b
<1> HIDE DEF c
<1>14. /\ c[1] = Magic[1] /\ c[2] = Magic[2]
       /\ \A d \in 3 .. 6 : c[d] = len[d - 2]
       /\ c[7] = type[one]
  <2>1. /\ \A d \in 1 .. 7 : c[d] = b[d]
        /\ \A d \in 1 .. 6 : b[d] = a[d]
        /\ \A d \in 1 .. 2 : a[d] = Magic[d]
        /\ \A d \in 3 .. 6 : a[d] = len[d - 2]
        /\ b[7] = type[one]
    BY <1>9, <1>10, <1>11, <1>12
  <2> QED
    BY <2>1
<1>15. \A d \in 3 .. 6 : c[d] = byte("len", no, n)
  BY <1>4, <1>14
<1>16. \A d \in 8 .. n : c[d] = byte("payload", no, d - HeaderSize)
  <2> SUFFICES ASSUME NEW d \in 8 .. n
               PROVE  c[d] = byte("payload", no, d - HeaderSize)
    OBVIOUS
  <2>1. d - HeaderSize \in 1 .. rest /\ d - HeaderSize = d - 7
    BY <1>1, <1>9 DEF HeaderSize
  <2>2. c[d] = payload[d - 7]
    BY <1>1, <1>9, <1>12
  <2> QED
    BY <1>6, <2>1, <2>2
<1>17. c \in Seq(Byte) /\ Len(c) = n
  BY <1>1, <1>9, <1>12
<1> QED
  BY <1>1, <1>3, <1>5, <1>13, <1>14, <1>15, <1>16, <1>17

-----------------------------------------------------------------------------
(* The log.                                                                 *)

LogType ==
  /\ log \in Seq(Byte) /\ appended \in Seq(Lens)
  /\ torn \in SUBSET (1 .. Len(appended))

\* From p to q there are the first bytes of entry no, of n bytes.
Chunk(buf, no, n, p, q) ==
  \A x \in p .. q - 1 : buf[x] = serialize(no, n)[x - p + 1]

\* Entry i is at S[i], up to where the next one is; of one cut short there is
\* less than its length.
Laid(S) ==
  /\ S[1] = 1 /\ S[Len(appended) + 1] = Len(log) + 1
  /\ \A i, j \in 1 .. Len(appended) + 1 : i < j => S[i] < S[j]
  /\ \A i \in 1 .. Len(appended) :
       /\ Chunk(log, i, appended[i], S[i], S[i + 1])
       /\ S[i + 1] <= S[i] + appended[i]
       /\ i \in torn <=> S[i + 1] # S[i] + appended[i]

LogInv ==
  /\ LogType
  /\ \E S \in [1 .. Len(appended) + 1 -> 1 .. Len(log) + 1] : Laid(S)

\* An append adds what it writes of its entry, at least one byte.
LEMMA AppendsInv ==
  ASSUME LogInv, NEW n \in Lens, NEW k \in 1 .. n,
         log' = log \o SubSeq(serialize(Len(appended) + 1, n), 1, k),
         appended' = Append(appended, n),
         torn' = IF k = n THEN torn ELSE torn \cup {Len(appended) + 1}
  PROVE  LogInv'
<1> DEFINE N    == Len(appended)
           L    == Len(log)
           more == SubSeq(serialize(N + 1, n), 1, k)
<1>1. PICK S \in [1 .. N + 1 -> 1 .. L + 1] : Laid(S)
  BY DEF LogInv
<1>2. /\ log \in Seq(Byte) /\ appended \in Seq(Lens) /\ torn \in SUBSET (1 .. N)
      /\ N \in Nat /\ L \in Nat /\ n \in Nat
  BY LogBytesAssumption DEF LogInv, LogType
<1>3. /\ appended' \in Seq(Lens) /\ Len(appended') = N + 1
      /\ appended'[N + 1] = n
      /\ \A i \in 1 .. N : appended'[i] = appended[i]
  BY <1>2
<1>4. /\ more \in Seq(Byte) /\ Len(more) = k
      /\ \A d \in 1 .. k : more[d] = serialize(N + 1, n)[d]
  <2>1. serialize(N + 1, n) \in Seq(Byte) /\ Len(serialize(N + 1, n)) = n
    BY <1>2, SerializeBytes
  <2> QED
    BY <1>2, <2>1
<1>5. log' = log \o more
  OBVIOUS
<1> HIDE DEF more
<1>6. /\ log' \in Seq(Byte) /\ Len(log') = L + k
      /\ \A x \in 1 .. L : log'[x] = log[x]
      /\ \A x \in L + 1 .. L + k : log'[x] = more[x - L]
  BY <1>2, <1>4, <1>5
<1>7. LogType'
  <2>1. N + 1 \in 1 .. N + 1 /\ \A i \in torn : i \in 1 .. N + 1
    BY <1>2
  <2>2. torn' \subseteq torn \cup {N + 1}
    OBVIOUS
  <2>3. torn' \in SUBSET (1 .. N + 1)
    BY <2>1, <2>2
  <2> QED
    BY <1>3, <1>6, <2>3 DEF LogType
<1>8. PICK S2 : /\ S2 \in [1 .. (N + 1) + 1 -> 1 .. (L + k) + 1]
                 /\ S2[(N + 1) + 1] = (L + k) + 1
                 /\ \A i \in 1 .. N + 1 : S2[i] = S[i] /\ S2[i] \in 1 .. L + 1
  <2> DEFINE S2 == [i \in 1 .. (N + 1) + 1 |->
                      IF i = N + 2 THEN (L + k) + 1 ELSE S[i]]
  <2>1. \A i \in 1 .. N + 1 : /\ i \in 1 .. (N + 1) + 1 /\ i # N + 2
                              /\ S[i] \in 1 .. L + 1
    <3>1. \A i \in 1 .. N + 1 : i \in 1 .. (N + 1) + 1 /\ i # N + 2
      BY <1>2
    <3>2. \A i \in 1 .. N + 1 : S[i] \in 1 .. L + 1
      BY <1>1
    <3> QED
      BY <3>1, <3>2
  <2>2. (N + 1) + 1 = N + 2 /\ (N + 1) + 1 \in 1 .. (N + 1) + 1
    BY <1>2
  <2>3. /\ S2[(N + 1) + 1] = (L + k) + 1
        /\ \A i \in 1 .. N + 1 : S2[i] = S[i] /\ S2[i] \in 1 .. L + 1
    BY <2>1, <2>2
  <2>4. S2 \in [1 .. (N + 1) + 1 -> 1 .. (L + k) + 1]
    <3>1. \A i \in 1 .. (N + 1) + 1 : i = N + 2 \/ i \in 1 .. N + 1
      BY <1>2
    <3>2. /\ (L + k) + 1 \in 1 .. (L + k) + 1
          /\ \A x \in 1 .. L + 1 : x \in 1 .. (L + k) + 1
      BY <1>2
    <3> QED
      BY <2>1, <3>1, <3>2
  <2> HIDE DEF S2
  <2> QED
    BY <2>3, <2>4
<1>9. S[1] = 1 /\ S[N + 1] = L + 1
  BY <1>1 DEF Laid
<1>10. S2[1] = 1 /\ S2[(N + 1) + 1] = (L + k) + 1
  BY <1>2, <1>8, <1>9
<1>11. ASSUME NEW i \in 1 .. (N + 1) + 1, NEW j \in 1 .. (N + 1) + 1, i < j
       PROVE  S2[i] < S2[j]
  <2>1. i \in 1 .. N + 1
    BY <1>2, <1>11
  <2>2. CASE j = (N + 1) + 1
    BY <1>2, <1>8, <2>1, <2>2
  <2>3. CASE j # (N + 1) + 1
    <3>1. j \in 1 .. N + 1
      BY <1>2, <2>3
    <3>2. S[i] < S[j]
      BY <1>1, <1>11, <2>1, <3>1 DEF Laid
    <3> QED
      BY <1>8, <2>1, <3>1, <3>2
  <2> QED
    BY <2>2, <2>3
<1>12. ASSUME NEW i \in 1 .. N + 1
       PROVE  /\ Chunk(log', i, appended'[i], S2[i], S2[i + 1])
              /\ S2[i + 1] <= S2[i] + appended'[i]
              /\ i \in torn' <=> S2[i + 1] # S2[i] + appended'[i]
  <2>1. CASE i = N + 1
    <3>1. S2[i] = L + 1 /\ S2[i + 1] = (L + k) + 1 /\ appended'[i] = n
      BY <1>2, <1>3, <1>8, <1>9, <2>1
    <3>2. ASSUME NEW x \in L + 1 .. ((L + k) + 1) - 1
          PROVE  log'[x] = serialize(i, n)[x - (L + 1) + 1]
      <4>1. x \in L + 1 .. L + k /\ x - L \in 1 .. k /\ x - (L + 1) + 1 = x - L
        BY <1>2
      <4> QED
        BY <1>4, <1>6, <2>1, <4>1
    <3>3. Chunk(log', i, n, L + 1, (L + k) + 1)
      BY <3>2 DEF Chunk
    <3>4. i \in torn' <=> k # n
      BY <1>2, <2>1
    <3>5. (L + k) + 1 <= (L + 1) + n /\ (k # n <=> (L + k) + 1 # (L + 1) + n)
      BY <1>2
    <3> QED
      BY <3>1, <3>3, <3>4, <3>5
  <2>2. CASE i # N + 1
    <3>1. i \in 1 .. N /\ i + 1 \in 1 .. N + 1 /\ i \in 1 .. N + 1
      BY <1>2, <2>2
    <3>2. /\ Chunk(log, i, appended[i], S[i], S[i + 1])
          /\ S[i + 1] <= S[i] + appended[i]
          /\ i \in torn <=> S[i + 1] # S[i] + appended[i]
      BY <1>1, <3>1 DEF Laid
    <3>3. S2[i] = S[i] /\ S2[i + 1] = S[i + 1] /\ appended'[i] = appended[i]
          /\ S[i] \in 1 .. L + 1 /\ S[i + 1] \in 1 .. L + 1
      BY <1>3, <1>8, <3>1
    <3>4. i \in torn' <=> i \in torn
      BY <1>2, <3>1
    <3>5. Chunk(log', i, appended[i], S[i], S[i + 1])
      <4> SUFFICES ASSUME NEW x \in S[i] .. S[i + 1] - 1
                   PROVE  log'[x] = serialize(i, appended[i])[x - S[i] + 1]
        BY DEF Chunk
      <4>1. x \in 1 .. L
        BY <1>2, <3>3
      <4> QED
        BY <1>6, <3>2, <4>1 DEF Chunk
    <3> QED
      BY <3>2, <3>3, <3>4, <3>5
  <2> QED
    BY <2>1, <2>2
<1>13. Laid(S2)'
  BY <1>3, <1>6, <1>10, <1>11, <1>12 DEF Laid
<1>14. S2 \in [1 .. Len(appended') + 1 -> 1 .. Len(log') + 1]
  BY <1>3, <1>6, <1>8
<1> QED
  BY <1>7, <1>13, <1>14 DEF LogInv

-----------------------------------------------------------------------------
(* What a replay finds at the places of the log.                            *)

\* Where the entries are
Places(S) ==
  /\ LogType /\ Laid(S)
  /\ S \in [1 .. Len(appended) + 1 -> 1 .. Len(log) + 1]

\* Every byte is one of some entry.
LEMMA ChunkAt ==
  ASSUME NEW S, Places(S), NEW pos \in 1 .. Len(log)
  PROVE  \E i \in 1 .. Len(appended) : S[i] <= pos /\ pos < S[i + 1]
<1> DEFINE N == Len(appended)
           C == {i \in 0 .. N : i # 0 /\ S[i] <= pos}
<1>1. /\ N \in Nat /\ Len(log) \in Nat /\ S[1] = 1 /\ S[N + 1] = Len(log) + 1
      /\ \A i \in 1 .. N + 1 : S[i] \in 1 .. Len(log) + 1
  <2>1. N \in Nat /\ Len(log) \in Nat
    BY DEF Places, LogType
  <2>2. S[1] = 1 /\ S[N + 1] = Len(log) + 1
    BY DEF Places, Laid
  <2>3. \A i \in 1 .. N + 1 : S[i] \in 1 .. Len(log) + 1
    BY DEF Places
  <2> QED
    BY <2>1, <2>2, <2>3
<1>2. N # 0
  BY <1>1
<1>3. 1 \in C
  BY <1>1, <1>2
<1>4. PICK i \in C : \A j \in C : j <= i
  <2>1. C \in SUBSET (0 .. N) /\ C # {}
    BY <1>3
  <2> HIDE DEF C
  <2> QED
    BY <1>1, <2>1, GreatestUpTo
<1>5. i \in 1 .. N /\ S[i] <= pos
  BY <1>1
<1>6. CASE i = N
  BY <1>1, <1>5, <1>6
<1>7. CASE i # N
  <2>1. i + 1 \in 1 .. N /\ i + 1 \in 1 .. N + 1
    BY <1>1, <1>5, <1>7
  <2>2. i + 1 \notin C
    BY <1>1, <1>4, <1>5
  <2>3. ~(S[i + 1] <= pos)
    BY <1>1, <2>1, <2>2
  <2>4. pos < S[i + 1]
    BY <1>1, <2>1, <2>3
  <2> QED
    BY <1>5, <2>4
<1> QED
  BY <1>6, <1>7

\* The bytes of entry i, of n bytes, that are in the log, from p to q, and the
\* one behind
EntryAt(i, p, q, n) ==
  /\ i \in Nat /\ n \in Nat /\ n > 7 /\ Len(log) \in Nat
  /\ p \in 1 .. Len(log) /\ q \in p + 1 .. Len(log) + 1 /\ q <= p + n
  /\ log[p] = byte("magic", 0, 1)
  /\ p + 1 < q => log[p + 1] = byte("magic", 0, 2)
  /\ \A d \in 2 .. 5 : p + d < q => log[p + d] = byte("len", i, n)
  /\ p + 6 < q => log[p + 6] = byte("type", i, 0)
  /\ \A d \in 7 .. n - 1 : p + d < q => log[p + d] = byte("payload", i, d - 6)
  /\ q <= Len(log) => log[q] = byte("magic", 0, 1)
  /\ i \in torn <=> q # p + n

\* The entries are at their places.
LEMMA ChunkBytes ==
  ASSUME NEW S, Places(S), NEW i \in 1 .. Len(appended)
  PROVE  EntryAt(i, S[i], S[i + 1], appended[i])
<1> SUFFICES ASSUME NEW p, NEW q, NEW n, p = S[i], q = S[i + 1], n = appended[i]
             PROVE  EntryAt(i, p, q, n)
  OBVIOUS
<1> DEFINE N == Len(appended)
           L == Len(log)
<1>1. /\ N \in Nat /\ L \in Nat /\ S[N + 1] = L + 1
      /\ appended \in Seq(Lens)
      /\ \A j \in 1 .. N + 1 : S[j] \in 1 .. L + 1
      /\ \A j \in 1 .. N : /\ S[j] < S[j + 1]
                         /\ Chunk(log, j, appended[j], S[j], S[j + 1])
  <2>1. N \in Nat
    BY DEF Places, LogType
  <2>2. \A j \in 1 .. N : j \in 1 .. N + 1 /\ j + 1 \in 1 .. N + 1 /\ j < j + 1
    BY <2>1
  <2> QED
    <3>1. L \in Nat /\ appended \in Seq(Lens) /\ S[N + 1] = L + 1
      BY DEF Places, LogType, Laid
    <3>2. \A j \in 1 .. N + 1 : S[j] \in 1 .. L + 1
      BY DEF Places
    <3>3. \A j \in 1 .. N : S[j] < S[j + 1]
      BY <2>2 DEF Places, Laid
    <3>4. \A j \in 1 .. N : Chunk(log, j, appended[j], S[j], S[j + 1])
      BY DEF Places, Laid
    <3> QED
      BY <2>1, <3>1, <3>2, <3>3, <3>4
<1>2. i \in 1 .. N + 1 /\ i + 1 \in 1 .. N + 1 /\ i \in Nat
  BY <1>1
<1>3. n \in Lens
  BY <1>1
<1>4. n \in Nat /\ n > 7
  <2> SUFFICES \A l \in Lens : l \in Nat /\ l > 7
    BY <1>3
  <2> QED
    BY LogBytesAssumption DEF HeaderSize
<1>5. q <= p + n /\ (i \in torn <=> q # p + n)
  BY DEF Places, Laid
<1>6. p \in 1 .. L /\ q \in p + 1 .. L + 1
  <2>1. S[i] \in 1 .. L + 1 /\ S[i + 1] \in 1 .. L + 1 /\ S[i] < S[i + 1]
    BY <1>1, <1>2
  <2> QED
    BY <1>1, <2>1
<1>7. \A d \in 0 .. n - 1 : p + d < q => log[p + d] = serialize(i, n)[d + 1]
  <2> SUFFICES ASSUME NEW d \in 0 .. n - 1, p + d < q
               PROVE  log[p + d] = serialize(i, n)[d + 1]
    OBVIOUS
  <2>1. p \in Nat /\ q \in Nat
    BY <1>1, <1>6
  <2>3. d \in Nat
    BY <1>4
  <2>4. p + d \in p .. q - 1 /\ (p + d) - p + 1 = d + 1
    BY <2>1, <2>3
  <2>2. Chunk(log, i, n, p, q)
    BY <1>1
  <2> QED
    BY <2>2, <2>4 DEF Chunk
<1>8. /\ serialize(i, n)[1] = byte("magic", 0, 1)
      /\ serialize(i, n)[2] = byte("magic", 0, 2)
      /\ \A d \in 3 .. 6 : serialize(i, n)[d] = byte("len", i, n)
      /\ serialize(i, n)[7] = byte("type", i, 0)
      /\ \A d \in 8 .. n : serialize(i, n)[d] = byte("payload", i, d - 7)
  BY <1>2, <1>3, SerializeBytes DEF HeaderSize
<1>9. log[p] = byte("magic", 0, 1)
  <2>1. 0 \in 0 .. n - 1
    BY <1>4
  <2>2. p + 0 = p /\ p + 0 < q /\ 0 + 1 = 1
    BY <1>1, <1>6
  <2>3. log[p + 0] = serialize(i, n)[0 + 1]
    BY <1>7, <2>1, <2>2
  <2> QED
    BY <1>8, <2>2, <2>3
<1>10. p + 1 < q => log[p + 1] = byte("magic", 0, 2)
  <2>1. 1 \in 0 .. n - 1 /\ 1 + 1 = 2
    BY <1>4
  <2> QED
    BY <1>7, <1>8, <2>1
<1>11. \A d \in 2 .. 5 : p + d < q => log[p + d] = byte("len", i, n)
  <2>1. \A d \in 2 .. 5 : d \in 0 .. n - 1 /\ d + 1 \in 3 .. 6
    BY <1>4
  <2> QED
    BY <1>7, <1>8, <2>1
<1>12. p + 6 < q => log[p + 6] = byte("type", i, 0)
  <2>1. 6 \in 0 .. n - 1 /\ 6 + 1 = 7
    BY <1>4
  <2> QED
    BY <1>7, <1>8, <2>1
<1>13. \A d \in 7 .. n - 1 :
         p + d < q => log[p + d] = byte("payload", i, d - 6)
  <2>1. \A d \in 7 .. n - 1 :
          d \in 0 .. n - 1 /\ d + 1 \in 8 .. n /\ (d + 1) - 7 = d - 6
    BY <1>4
  <2> QED
    BY <1>7, <1>8, <2>1
<1>14. q <= L => log[q] = byte("magic", 0, 1)
  <2> SUFFICES ASSUME q <= L PROVE log[q] = byte("magic", 0, 1)
    OBVIOUS
  <2>1. i # N
    BY <1>1, <1>6
  <2> DEFINE j == i + 1
             m == appended[j]
  <2>2. j \in 1 .. N /\ j \in Nat
    BY <1>1, <1>2, <2>1
  <2>3. m \in Lens
    BY <1>1, <2>2
  <2>4. serialize(j, m)[1] = byte("magic", 0, 1)
    <3> HIDE DEF j, m
    <3> QED
      BY <2>2, <2>3, SerializeBytes
  <2>5. j \in 1 .. N + 1 /\ j + 1 \in 1 .. N + 1
    BY <1>1, <2>2
  <2>6. S[j] = q /\ q < S[j + 1] /\ Chunk(log, j, m, q, S[j + 1])
        /\ S[j + 1] \in 1 .. L + 1
    BY <1>1, <2>2, <2>5
  <2> HIDE DEF j, m
  <2>7. q \in q .. S[j + 1] - 1 /\ q - q + 1 = 1
    BY <1>6, <2>6
  <2> QED
    BY <2>4, <2>6, <2>7 DEF Chunk
<1> QED
  BY <1>1, <1>2, <1>4, <1>5, <1>6, <1>9, <1>10, <1>11, <1>12, <1>13, <1>14
     DEF EntryAt

\* The bytes of a part of a log
LEMMA PartBytes ==
  ASSUME NEW buf \in Seq(Byte), NEW a \in Nat \ {0}, NEW b \in Nat, a <= b,
         b <= Len(buf)
  PROVE  /\ DOMAIN SubSeq(buf, a, b) = 1 .. b - a + 1
         /\ \A d \in 1 .. b - a + 1 : SubSeq(buf, a, b)[d] = buf[a + d - 1]
  OBVIOUS

\* The magic, byte by byte
LEMMA MagicAt ==
  ASSUME NEW buf \in Seq(Byte), NEW p \in Nat \ {0}, p < Len(buf)
  PROVE  SubSeq(buf, p, p + 1) = Magic <=> /\ buf[p] = byte("magic", 0, 1)
                                           /\ buf[p + 1] = byte("magic", 0, 2)
<1> DEFINE s == SubSeq(buf, p, p + 1)
<1>1. s = [i \in 1 .. 2 |-> buf[p + i - 1]]
  OBVIOUS
<1>2. [i \in 1 .. 2 |-> buf[p + i - 1]] = <<buf[p], buf[p + 1]>>
  OBVIOUS
<1> HIDE DEF s
<1>3. s = <<buf[p], buf[p + 1]>>
  BY <1>1, <1>2
<1>4. s = Magic <=> /\ buf[p] = byte("magic", 0, 1)
                    /\ buf[p + 1] = byte("magic", 0, 2)
  BY <1>3 DEF Magic
<1> QED
  BY <1>4 DEF s

\* At an entry that is whole a replay finds it, and it goes on behind it.
LEMMA WholeStep ==
  ASSUME NEW S, Places(S), NEW i \in 1 .. Len(appended), i \notin torn
  PROVE  /\ ~stops_at(log, S[i]) /\ entry_end(log, S[i]) = S[i + 1]
         /\ item_at(log, S[i]) = <<"entry", i>>
<1> DEFINE L == Len(log)
<1>1. PICK p, q, n : p = S[i] /\ q = S[i + 1] /\ n = appended[i]
  OBVIOUS
<1>2. /\ i \in Nat /\ n \in Nat /\ n > 7 /\ L \in Nat
      /\ p \in 1 .. L /\ q \in p + 1 .. L + 1 /\ q <= p + n
      /\ log[p] = byte("magic", 0, 1)
      /\ p + 1 < q => log[p + 1] = byte("magic", 0, 2)
      /\ \A d \in 2 .. 5 : p + d < q => log[p + d] = byte("len", i, n)
      /\ p + 6 < q => log[p + 6] = byte("type", i, 0)
      /\ \A d \in 7 .. n - 1 :
           p + d < q => log[p + d] = byte("payload", i, d - 6)
      /\ i \in torn <=> q # p + n
  <2>1. EntryAt(i, p, q, n)
    BY <1>1, ChunkBytes
  <2> QED
    BY <2>1 DEF EntryAt
<1>3. q = p + n /\ p \in Nat /\ q <= L + 1
  BY <1>2
<1>4. /\ log[p] = byte("magic", 0, 1) /\ log[p + 1] = byte("magic", 0, 2)
      /\ \A d \in 2 .. 5 : log[p + d] = byte("len", i, n)
      /\ log[p + 6] = byte("type", i, 0)
      /\ \A d \in 7 .. n - 1 : log[p + d] = byte("payload", i, d - 6)
  BY <1>2, <1>3
<1>5. SubSeq(log, p, p + 1) = Magic
  <2>1. p \in Nat \ {0} /\ p < L
    BY <1>2, <1>3
  <2> QED
    BY <1>4, <2>1, MagicAt DEF Places, LogType
<1>6. entry_end(log, p) = q
  <2>1. log[p + 2] = byte("len", i, n)
        /\ \A d \in 3 .. 5 : log[p + d] = byte("len", i, n)
    BY <1>4
  <2>2. log[p + 2][1] = "len" /\ log[p + 2][3] = n
    BY <2>1 DEF byte
  <2>3. whole_len(log, p)
    BY <2>1, <2>2 DEF whole_len
  <2> QED
    BY <1>3, <2>2, <2>3 DEF entry_end
<1> DEFINE payload == SubSeq(log, p + HeaderSize, q - 1)
<1>7. own(payload, i)
  <2> DEFINE a == p + HeaderSize
             b == q - 1
  <2>1. /\ a \in Nat \ {0} /\ b \in Nat /\ a <= b /\ b <= L /\ b - a + 1 = n - 7
        /\ \A d \in 1 .. n - 7 : a + d - 1 = p + (d + 6)
    BY <1>2, <1>3 DEF HeaderSize
  <2> HIDE DEF a, b
  <2>4. /\ DOMAIN SubSeq(log, a, b) = 1 .. b - a + 1
        /\ \A d \in 1 .. b - a + 1 : SubSeq(log, a, b)[d] = log[a + d - 1]
    BY <2>1, PartBytes DEF Places, LogType
  <2>5. payload = SubSeq(log, a, b)
    BY DEF a, b
  <2> HIDE DEF payload
  <2> SUFFICES ASSUME NEW d \in 1 .. n - 7
               PROVE  payload[d] = byte("payload", i, d)
    BY <2>1, <2>4, <2>5 DEF own
  <2>6. payload[d] = log[p + (d + 6)]
    BY <2>1, <2>4, <2>5
  <2>2. d + 6 \in 7 .. n - 1
    BY <1>2
  <2>3. log[p + (d + 6)] = byte("payload", i, (d + 6) - 6)
    BY <1>4, <2>2
  <2>7. (d + 6) - 6 = d
    OBVIOUS
  <2> QED
    BY <2>3, <2>6, <2>7
<1>8. item_at(log, p) = deserialize(log[p + 6], payload)
  BY <1>6 DEF item_at
<1> HIDE DEF payload
<1>9. item_at(log, p) = <<"entry", i>>
  <2>1. log[p + 6][1] = "type" /\ log[p + 6][2] = i
    BY <1>4 DEF byte
  <2> QED
    BY <1>7, <1>8, <2>1 DEF deserialize
<1>10. ~stops_at(log, p)
  <2>1. ~(p + HeaderSize > L + 1) /\ q # 0
    BY <1>2, <1>3 DEF HeaderSize
  <2>2. <<"entry", i>> # <<"error">>
    OBVIOUS
  <2> QED
    BY <1>5, <1>6, <1>9, <2>1, <2>2 DEF stops_at
<1> QED
  BY <1>1, <1>6, <1>9, <1>10

\* Where a replay does not stop an entry begins.  One that was cut short is not
\* taken for an entry.
LEMMA StepAt ==
  ASSUME NEW S, Places(S), NEW pos \in 1 .. Len(log) + 1, ~stops_at(log, pos)
  PROVE  \E i \in 1 .. Len(appended) :
           /\ S[i] = pos
           /\ i \notin torn => item_at(log, pos) = <<"entry", i>>
           /\ i \in torn => item_at(log, pos)[1] # "entry"
<1> DEFINE L == Len(log)
<1>1. L \in Nat /\ log \in Seq(Byte)
  BY DEF Places, LogType
<1>2. pos \in Nat \ {0} /\ pos < L /\ pos + 6 <= L /\ pos \in 1 .. L
  <2>1. pos + 7 <= L + 1
    BY <1>1 DEF stops_at, HeaderSize
  <2> QED
    BY <1>1, <2>1
<1>3. log[pos] = byte("magic", 0, 1) /\ log[pos + 1] = byte("magic", 0, 2)
  <2>1. SubSeq(log, pos, pos + 1) = Magic
    BY DEF stops_at
  <2> QED
    BY <1>1, <1>2, <2>1, MagicAt
<1>4. PICK i \in 1 .. Len(appended) : S[i] <= pos /\ pos < S[i + 1]
  BY <1>2, ChunkAt
<1>5. PICK p, q, n : p = S[i] /\ q = S[i + 1] /\ n = appended[i]
  OBVIOUS
<1>6. /\ i \in Nat /\ n \in Nat /\ n > 7
      /\ p \in 1 .. L /\ q \in p + 1 .. L + 1 /\ q <= p + n
      /\ log[p] = byte("magic", 0, 1)
      /\ p + 1 < q => log[p + 1] = byte("magic", 0, 2)
      /\ \A d \in 2 .. 5 : p + d < q => log[p + d] = byte("len", i, n)
      /\ p + 6 < q => log[p + 6] = byte("type", i, 0)
      /\ \A d \in 7 .. n - 1 :
           p + d < q => log[p + d] = byte("payload", i, d - 6)
      /\ q <= L => log[q] = byte("magic", 0, 1)
      /\ i \in torn <=> q # p + n
  <2>1. EntryAt(i, p, q, n)
    BY <1>5, ChunkBytes
  <2> QED
    BY <2>1 DEF EntryAt
<1>7. p \in Nat /\ q \in Nat /\ p <= pos /\ pos < q
  <2>1. p <= pos /\ pos < q
    BY <1>4, <1>5
  <2> QED
    BY <1>6, <2>1
<1>8. pos = p
  <2> SUFFICES ASSUME pos # p PROVE FALSE
    OBVIOUS
  <2> DEFINE d == pos - p
  <2>1. d \in 1 .. n - 1 /\ p + d = pos /\ p + d < q
    BY <1>2, <1>6, <1>7
  <2> HIDE DEF d
  <2>2. CASE d = 1
    BY <1>3, <1>6, <2>1, <2>2 DEF byte
  <2>3. CASE d \in 2 .. 5
    <3>1. log[p + d] = byte("len", i, n)
      BY <1>6, <2>1, <2>3
    <3> QED
      BY <1>3, <2>1, <3>1 DEF byte
  <2>4. CASE d = 6
    <3>1. log[p + d] = byte("type", i, 0)
      BY <1>6, <2>1, <2>4
    <3> QED
      BY <1>3, <2>1, <3>1 DEF byte
  <2>5. CASE d \in 7 .. n - 1
    <3>1. log[p + d] = byte("payload", i, d - 6)
      BY <1>6, <2>1, <2>5
    <3> QED
      BY <1>3, <2>1, <3>1 DEF byte
  <2> QED
    BY <1>6, <2>1, <2>2, <2>3, <2>4, <2>5
<1>9. i \notin torn => item_at(log, pos) = <<"entry", i>>
  BY <1>5, <1>8, WholeStep
<1>10. ASSUME i \in torn
       PROVE  item_at(log, pos)[1] # "entry"
  <2>1. q < p + n
    BY <1>6, <1>7, <1>10
  <2>2. entry_end(log, p) # 0
    BY <1>8 DEF stops_at
  <2>3. whole_len(log, p) /\ p + log[p + 2][3] <= L + 1
        /\ entry_end(log, p) = p + log[p + 2][3]
    BY <2>2 DEF entry_end
  <2>4. /\ log[p + 2][1] = "len"
        /\ \A d \in 3 .. 5 : log[p + d][1] = "len"
    BY <2>3 DEF whole_len
  <2>5. ASSUME q <= p + 5
        PROVE  FALSE
    <3> DEFINE d == q - p
    <3>1. d \in 1 .. 5 /\ p + d = q /\ q <= L
      BY <1>1, <1>2, <1>6, <1>7, <1>8, <2>5
    <3> HIDE DEF d
    <3>2. log[p + d] = byte("magic", 0, 1)
      BY <1>6, <3>1
    <3>3. CASE d = 1
      BY <1>3, <1>8, <3>2, <3>3 DEF byte
    <3>4. CASE d = 2
      BY <2>4, <3>2, <3>4 DEF byte
    <3>5. CASE d \in 3 .. 5
      BY <2>4, <3>2, <3>5 DEF byte
    <3> QED
      BY <3>1, <3>3, <3>4, <3>5
  <2>6. p + 2 < q /\ p + 6 <= q
    BY <1>6, <1>7, <2>5
  <2>7. log[p + 2] = byte("len", i, n)
    BY <1>6, <2>6
  <2>8. entry_end(log, p) = p + n /\ p + n <= L + 1 /\ q <= L
    BY <1>1, <1>6, <1>7, <2>1, <2>3, <2>7 DEF byte
  <2>9. log[q] = byte("magic", 0, 1)
    BY <1>6, <2>8
  <2> DEFINE payload == SubSeq(log, p + HeaderSize, (p + n) - 1)
  <2>10. item_at(log, p) = deserialize(log[p + 6], payload)
    BY <2>8 DEF item_at
  <2>11. CASE q = p + 6
    <3>1. log[p + 6][1] # "type"
      BY <2>9, <2>11 DEF byte
    <3> HIDE DEF payload
    <3> QED
      BY <1>8, <2>10, <3>1 DEF deserialize
  <2>12. CASE q # p + 6
    <3> DEFINE a == p + HeaderSize
               b == (p + n) - 1
               x == q - (p + 6)
    <3>1. /\ a \in Nat \ {0} /\ b \in Nat /\ a <= b /\ b <= L
          /\ x \in 1 .. b - a + 1 /\ a + x - 1 = q
      BY <1>1, <1>6, <1>7, <2>1, <2>6, <2>8, <2>12 DEF HeaderSize
    <3> HIDE DEF a, b, x
    <3>2. /\ DOMAIN SubSeq(log, a, b) = 1 .. b - a + 1
          /\ \A d \in 1 .. b - a + 1 : SubSeq(log, a, b)[d] = log[a + d - 1]
      BY <1>1, <3>1, PartBytes
    <3>3. payload = SubSeq(log, a, b)
      BY DEF a, b
    <3> HIDE DEF payload
    <3>4. x \in DOMAIN payload /\ payload[x] = byte("magic", 0, 1)
      BY <2>9, <3>1, <3>2, <3>3
    <3>5. \A no : ~own(payload, no)
      BY <3>4 DEF own, byte
    <3> QED
      BY <1>8, <2>10, <3>5 DEF deserialize
  <2> QED
    BY <2>11, <2>12
<1> QED
  BY <1>5, <1>8, <1>9, <1>10

-----------------------------------------------------------------------------
(* A replay as a walk through the log.                                      *)

Stops == {pos \in 1 .. Len(log) + 1 : stops_at(log, pos)}
Items == [pos \in 1 .. Len(log) + 1 |-> item_at(log, pos)]
Nexts == [pos \in 1 .. Len(log) + 1 |-> entry_end(log, pos)]

\* A replay goes on through the log, and not beyond its end.
LEMMA ReplayOnward ==
  ASSUME LogType
  PROVE  Onward(Len(log) + 1, Stops, Nexts)
<1> DEFINE L == Len(log)
<1> SUFFICES ASSUME NEW pos \in 1 .. L + 1, pos \notin Stops
             PROVE  Nexts[pos] \in pos + 1 .. L + 1
  BY DEF Onward
<1>1. L \in Nat /\ log \in Seq(Byte)
  BY DEF LogType
<1>2. ~stops_at(log, pos)
  BY DEF Stops
<1>3. pos + 7 <= L + 1 /\ entry_end(log, pos) # 0
  BY <1>1, <1>2 DEF stops_at, HeaderSize
<1>4. /\ log[pos + 2][1] = "len"
      /\ entry_end(log, pos) = pos + log[pos + 2][3]
      /\ pos + log[pos + 2][3] <= L + 1
  BY <1>3 DEF entry_end, whole_len
<1>5. log[pos + 2] \in Byte
  <2>1. pos + 2 \in 1 .. L
    BY <1>1, <1>3
  <2> QED
    BY <1>1, <2>1
<1>6. log[pos + 2][3] \in Lens
  BY <1>4, <1>5 DEF Byte
<1>7. log[pos + 2][3] \in Nat /\ log[pos + 2][3] > 7
  BY <1>6, LogBytesAssumption DEF HeaderSize
<1>8. entry_end(log, pos) \in pos + 1 .. L + 1
  BY <1>1, <1>4, <1>7
<1> QED
  BY <1>8 DEF Nexts

\* What is replayed is what is found at the places of a path from the beginning.
HasPath ==
  \E m \in Nat : \E P :
    Along(replay(log), P, m, 1, Len(log) + 1, Stops, Items, Nexts)

\* There is such a path.
LEMMA ReplayPath == LogType => HasPath
<1> SUFFICES ASSUME LogType PROVE HasPath
  OBVIOUS
<1> DEFINE n == Len(log) + 1
           from[pos \in 1 .. n] ==
             IF stops_at(log, pos) THEN <<>>
             ELSE <<item_at(log, pos)>> \o from[entry_end(log, pos)]
           IsFrom(w) ==
             w = [pos \in 1 .. n |->
                    IF stops_at(log, pos) THEN <<>>
                    ELSE <<item_at(log, pos)>> \o w[entry_end(log, pos)]]
<1>1. n \in Nat /\ 1 \in 1 .. n
  BY DEF LogType
<1>2. Onward(n, Stops, Nexts)
  BY ReplayOnward
<1>3. replay(log) = from[1]
  BY DEF replay
<1>4. \A w : IsFrom(w) <=> Walk(w, n, Stops, Items, Nexts)
  BY DEF Walk, Stops, Items, Nexts
<1>5. \E w : IsFrom(w)
  <2>1. \E w : Walk(w, n, Stops, Items, Nexts)
    <3> HIDE DEF n
    <3> QED
      BY <1>1, <1>2, WalkExists
  <2> HIDE DEF IsFrom
  <2> QED
    BY <1>4, <2>1
<1>6. IsFrom(from)
  <2>1. from = CHOOSE w : IsFrom(w)
    OBVIOUS
  <2> HIDE DEF from, IsFrom
  <2> QED
    BY <1>5, <2>1
<1> HIDE DEF n, from, IsFrom
<1>7. Walk(from, n, Stops, Items, Nexts)
  BY <1>4, <1>6
<1>8. \E m \in Nat : \E P : Along(from[1], P, m, 1, n, Stops, Items, Nexts)
  BY <1>1, <1>2, <1>7, WalkPath
<1> QED
  BY <1>3, <1>8 DEF n, HasPath

\* A sequence is a prefix of one that begins with the same elements.
LEMMA PrefixIs ==
  ASSUME NEW B, NEW s \in Seq(B), NEW t \in Seq(B), Len(s) <= Len(t),
         \A j \in 1 .. Len(s) : s[j] = t[j]
  PROVE  IsPrefix(s, t)
<1> DEFINE k == Len(s)
<1>1. k \in Nat /\ Len(t) \in Nat
  OBVIOUS
<1>2. SubSeq(s, 1, k) = [j \in 1 .. k |-> s[j]]
  OBVIOUS
<1>3. SubSeq(t, 1, k) = [j \in 1 .. k |-> t[j]]
  OBVIOUS
<1> QED
  BY <1>2, <1>3 DEF IsPrefix

-----------------------------------------------------------------------------
(* The properties.                                                          *)

\* Up to the first entry cut short a replay is at the entries one by one.
LEMMA InvIntactPrefix == LogInv => IntactPrefix
<1> SUFFICES ASSUME LogInv PROVE IntactPrefix
  OBVIOUS
<1> DEFINE N      == Len(appended)
           ends   == {N} \cup {no - 1 : no \in torn}
           intact == Min(ends)
<1>1. LogType /\ N \in Nat /\ torn \in SUBSET (1 .. N)
  BY DEF LogInv, LogType
<1>2. PICK S : Places(S)
  BY DEF LogInv, Places
<1>3. PICK m \in Nat : \E P :
        Along(replay(log), P, m, 1, Len(log) + 1, Stops, Items, Nexts)
  BY <1>1, ReplayPath DEF HasPath
<1>4. PICK P : /\ Path(P, m, Len(log) + 1, Stops, Nexts) /\ P[1] = 1
               /\ replay(log) = [j \in 1 .. m |-> Items[P[j]]]
  BY <1>3 DEF Along
<1>5. /\ intact \in 0 .. N
      /\ \A i \in 1 .. intact : i \in 1 .. N /\ i \notin torn
  <2>1. ends \in SUBSET (0 .. N)
    BY <1>1
  <2>2. intact \in ends /\ \A e \in ends : intact <= e
    <3>1. ends # {}
      OBVIOUS
    <3> HIDE DEF ends
    <3> QED
      BY <1>1, <2>1, <3>1, MinUpTo
  <2>3. \A no \in torn : intact <= no - 1
    BY <2>2
  <2>4. intact \in 0 .. N
    BY <2>1, <2>2
  <2> HIDE DEF ends, intact
  <2> QED
    BY <1>1, <2>3, <2>4
<1> HIDE DEF intact
<1> DEFINE K == {i \in 1 .. intact + 1 : i <= m + 1 /\ P[i] = S[i]}
<1>6. ASSUME NEW i \in 1 .. intact
      PROVE  /\ S[i] \in 1 .. Len(log) + 1 /\ S[i] \notin Stops
             /\ Nexts[S[i]] = S[i + 1] /\ Items[S[i]] = <<"entry", i>>
  <2>1. i \in 1 .. N /\ i \in 1 .. N + 1 /\ i \notin torn
    BY <1>1, <1>5
  <2>2. S[i] \in 1 .. Len(log) + 1
    BY <1>2, <2>1 DEF Places
  <2>3. /\ ~stops_at(log, S[i]) /\ entry_end(log, S[i]) = S[i + 1]
        /\ item_at(log, S[i]) = <<"entry", i>>
    BY <1>2, <2>1, WholeStep
  <2> QED
    BY <2>2, <2>3 DEF Stops, Nexts, Items
<1>7. 1 \in K
  BY <1>2, <1>4, <1>5 DEF Places, Laid
<1>8. ASSUME NEW i \in 1 .. intact + 1, i < intact + 1, i \in K
      PROVE  i + 1 \in K
  <2>1. i \in 1 .. intact /\ i <= m + 1 /\ P[i] = S[i]
    BY <1>5, <1>8
  <2>2. P[i] \notin Stops /\ Nexts[P[i]] = S[i + 1]
    BY <1>6, <2>1
  <2>3. i # m + 1
    BY <1>4, <2>2 DEF Path
  <2>4. i \in 1 .. m
    BY <1>5, <2>1, <2>3
  <2>5. P[i + 1] = S[i + 1]
    BY <1>4, <2>2, <2>4 DEF Path
  <2> QED
    BY <1>5, <2>1, <2>4, <2>5
<1>9. \A i \in 1 .. intact + 1 : i \in K
  <2>1. intact + 1 \in Nat
    BY <1>5
  <2> HIDE DEF K
  <2> QED
    BY <1>7, <1>8, <2>1, UpInduction
<1>10. intact <= m /\ \A i \in 1 .. intact : P[i] = S[i]
  <2>1. intact + 1 \in 1 .. intact + 1
    BY <1>5
  <2>2. intact + 1 \in K
    BY <1>9, <2>1
  <2>3. intact + 1 <= m + 1
    BY <2>2
  <2>4. \A i \in 1 .. intact : i \in 1 .. intact + 1
    BY <1>5
  <2> QED
    BY <1>5, <1>9, <2>3, <2>4
<1> DEFINE first == [i \in 1 .. intact |-> <<"entry", i>>]
           all   == [j \in 1 .. m |-> Items[P[j]]]
           B     == {all[j] : j \in 1 .. m}
<1>11. all \in Seq(B) /\ Len(all) = m
  OBVIOUS
<1>12. \A i \in 1 .. intact : i \in 1 .. m /\ first[i] = all[i]
  <2> SUFFICES ASSUME NEW i \in 1 .. intact
               PROVE  i \in 1 .. m /\ first[i] = all[i]
    OBVIOUS
  <2>1. i \in 1 .. m
    BY <1>5, <1>10
  <2>2. Items[P[i]] = <<"entry", i>>
    BY <1>6, <1>10
  <2> QED
    BY <2>1, <2>2
<1>13. first \in Seq(B) /\ Len(first) = intact
  <2>1. intact \in Nat /\ Len(first) = intact
    BY <1>5
  <2>2. \A i \in 1 .. intact : first[i] \in B
    BY <1>12
  <2> HIDE DEF B
  <2> QED
    BY <2>1, <2>2
<1> HIDE DEF first, all, B
<1>14. IsPrefix(first, all)
  BY <1>10, <1>11, <1>12, <1>13, PrefixIs
<1> QED
  BY <1>4, <1>14 DEF IntactPrefix, first, all, intact

\* The items of a replay belong to entries that come one after the other.
LEMMA InvInOrder == LogInv => InOrder
<1> SUFFICES ASSUME LogInv PROVE InOrder
  OBVIOUS
<1> DEFINE N == Len(appended)
           n == Len(log) + 1
<1>1. LogType /\ N \in Nat /\ n \in Nat /\ torn \in SUBSET (1 .. N)
      /\ DOMAIN appended = 1 .. N
  BY DEF LogInv, LogType
<1>2. PICK S : Places(S)
  BY DEF LogInv, Places
<1>3. PICK m \in Nat : \E P : Along(replay(log), P, m, 1, n, Stops, Items, Nexts)
  BY <1>1, ReplayPath DEF HasPath
<1>4. PICK P : /\ Path(P, m, n, Stops, Nexts)
               /\ replay(log) = [j \in 1 .. m |-> Items[P[j]]]
  BY <1>3 DEF Along
<1> DEFINE r == [j \in 1 .. m |-> Items[P[j]]]
           Of(j, i) == /\ S[i] = P[j]
                       /\ i \notin torn => r[j] = <<"entry", i>>
                       /\ i \in torn => r[j][1] # "entry"
           c == [j \in 1 .. m |-> CHOOSE i \in 1 .. N : Of(j, i)]
           entries == {j \in DOMAIN r : r[j][1] = "entry"}
<1>5. ASSUME NEW j \in 1 .. m
      PROVE  c[j] \in 1 .. N /\ Of(j, c[j])
  <2>1. P[j] \in 1 .. n /\ P[j] \notin Stops
    <3>1. j \in 1 .. m + 1
      OBVIOUS
    <3> QED
      BY <1>4, <3>1 DEF Path
  <2>2. ~stops_at(log, P[j])
    BY <2>1 DEF Stops
  <2>3. PICK i \in 1 .. N :
          /\ S[i] = P[j]
          /\ i \notin torn => item_at(log, P[j]) = <<"entry", i>>
          /\ i \in torn => item_at(log, P[j])[1] # "entry"
    BY <1>2, <2>1, <2>2, StepAt
  <2>4. r[j] = item_at(log, P[j])
    BY <2>1 DEF Items
  <2>5. Of(j, i)
    BY <2>3, <2>4
  <2>6. c[j] = CHOOSE k \in 1 .. N : Of(j, k)
    OBVIOUS
  <2> HIDE DEF Of, c
  <2> QED
    BY <2>5, <2>6
<1> HIDE DEF c
<1>6. ASSUME NEW i \in 1 .. m, NEW j \in 1 .. m, i < j
      PROVE  c[i] < c[j]
  <2>1. P[i] < P[j]
    BY <1>1, <1>4, <1>6, ReplayOnward, PathRises
  <2>2. P[i] \in Nat /\ P[j] \in Nat
    <3>1. i \in 1 .. m + 1 /\ j \in 1 .. m + 1
      OBVIOUS
    <3> QED
      BY <1>1, <1>4, <3>1 DEF Path
  <2>3. c[i] \in 1 .. N /\ c[j] \in 1 .. N /\ S[c[i]] = P[i] /\ S[c[j]] = P[j]
    BY <1>5
  <2>4. c[i] \in 1 .. N + 1 /\ c[j] \in 1 .. N + 1
    BY <1>1, <2>3
  <2>5. c[j] < c[i] => S[c[j]] < S[c[i]]
    BY <1>2, <2>4 DEF Places, Laid
  <2>6. c[j] # c[i]
    BY <2>1, <2>2, <2>3
  <2> QED
    BY <1>1, <2>1, <2>2, <2>3, <2>5, <2>6
<1>7. \A j \in entries : /\ j \in 1 .. m /\ c[j] \in DOMAIN appended \ torn
                        /\ r[j][2] = c[j]
  <2> SUFFICES ASSUME NEW j \in entries
               PROVE  /\ j \in 1 .. m /\ c[j] \in DOMAIN appended \ torn
                      /\ r[j][2] = c[j]
    OBVIOUS
  <2>1. j \in 1 .. m /\ r[j][1] = "entry"
    OBVIOUS
  <2> HIDE DEF r
  <2>2. c[j] \notin torn
    BY <1>5, <2>1
  <2>3. r[j] = <<"entry", c[j]>>
    BY <1>5, <2>1, <2>2
  <2> QED
    BY <1>1, <1>5, <2>1, <2>2, <2>3
<1>8. Cardinality(DOMAIN r \ entries) <= Cardinality(torn)
  <2> DEFINE D == DOMAIN r \ entries
             f == [j \in D |-> c[j]]
  <2>1. ASSUME NEW j \in D
        PROVE  j \in 1 .. m /\ c[j] \in torn
    <3>1. j \in 1 .. m /\ r[j][1] # "entry"
      OBVIOUS
    <3> HIDE DEF r
    <3> QED
      BY <1>5, <3>1
  <2>2. \A i, j \in D : f[i] = f[j] => i = j
    <3> SUFFICES ASSUME NEW i \in D, NEW j \in D, i # j
                 PROVE  f[i] # f[j]
      OBVIOUS
    <3>1. i \in 1 .. m /\ j \in 1 .. m /\ f[i] = c[i] /\ f[j] = c[j]
      BY <2>1
    <3> HIDE DEF f, D
    <3>2. c[i] \in Nat /\ c[j] \in Nat
      BY <1>5, <3>1
    <3>3. c[i] < c[j] \/ c[j] < c[i]
      BY <1>6, <3>1
    <3> QED
      BY <3>1, <3>2, <3>3
  <2>3. f \in [D -> torn]
    BY <2>1
  <2>4. IsFiniteSet(torn)
    <3>1. IsFiniteSet(1 .. N)
      BY <1>1, FS_Interval
    <3> QED
      BY <1>1, <3>1, FS_Subset
  <2> HIDE DEF f, D
  <2>5. f \in Injection(D, torn)
    BY <2>2, <2>3 DEF Injection, IsInjective
  <2>6. Cardinality(D) <= Cardinality(torn)
    BY <2>4, <2>5, FS_Injection
  <2> QED
    BY <2>6 DEF D
<1>9. \A i \in entries : r[i][2] \in DOMAIN appended \ torn
  BY <1>7
<1>10. \A i, j \in entries : i < j => r[i][2] < r[j][2]
  <2> SUFFICES ASSUME NEW i \in entries, NEW j \in entries, i < j
               PROVE  r[i][2] < r[j][2]
    OBVIOUS
  <2> HIDE DEF entries, r
  <2>1. c[i] < c[j]
    BY <1>6, <1>7
  <2> QED
    BY <1>7, <2>1
<1>11. replay(log) = r
  BY <1>4
<1> HIDE DEF r
<1> QED
  BY <1>8, <1>9, <1>10, <1>11 DEF InOrder

-----------------------------------------------------------------------------
(* Steps.                                                                   *)

\* The log grows, and what could be decoded still can be.
Grows ==
  /\ Len(log) <= Len(log') /\ \A x \in 1 .. Len(log) : log'[x] = log[x]
  /\ decodable \subseteq decodable'

\* The replay does at a place of the log what it did there before.
LEMMA PlaceStable ==
  ASSUME LogType, LogType', Grows, NEW pos \in 1 .. Len(log) + 1,
         pos \notin Stops
  PROVE  /\ pos \in 1 .. Len(log') + 1 /\ pos \notin Stops'
         /\ Nexts'[pos] = Nexts[pos] /\ Items'[pos] = Items[pos]
<1> DEFINE L == Len(log)
           end == entry_end(log, pos)
<1>1. /\ L \in Nat /\ Len(log') \in Nat
      /\ log \in Seq(Byte) /\ log' \in Seq(Byte)
      /\ L <= Len(log') /\ \A x \in 1 .. L : log'[x] = log[x]
  BY DEF LogType, Grows
<1>2. ~stops_at(log, pos)
  BY DEF Stops
<1>3. pos \in Nat \ {0} /\ pos + 7 <= L + 1 /\ end # 0
      /\ SubSeq(log, pos, pos + 1) = Magic /\ item_at(log, pos) # <<"error">>
  BY <1>1, <1>2 DEF stops_at, HeaderSize
<1>4. end \in pos + 1 .. L + 1
  <2>1. Nexts[pos] \in pos + 1 .. L + 1
    BY ReplayOnward DEF Onward
  <2> QED
    BY <2>1 DEF Nexts
<1>5. ASSUME NEW a \in Nat \ {0}, NEW b \in Nat, b <= L
      PROVE  SubSeq(log', a, b) = SubSeq(log, a, b)
  <2>1. /\ SubSeq(log', a, b) = [d \in 1 .. b - a + 1 |-> log'[a + d - 1]]
        /\ SubSeq(log, a, b) = [d \in 1 .. b - a + 1 |-> log[a + d - 1]]
    BY <1>1
  <2>2. \A d \in 1 .. b - a + 1 : log'[a + d - 1] = log[a + d - 1]
    <3>1. \A d \in 1 .. b - a + 1 : a + d - 1 \in 1 .. L
      BY <1>1, <1>5
    <3> QED
      BY <1>1, <3>1
  <2> QED
    BY <2>1, <2>2
<1>6. \A d \in 0 .. 6 : log'[pos + d] = log[pos + d]
  <2>1. \A d \in 0 .. 6 : pos + d \in 1 .. L
    BY <1>1, <1>3
  <2> QED
    BY <1>1, <2>1
<1>7. entry_end(log, pos)' = end
  <2>1. whole_len(log, pos) /\ end = pos + log[pos + 2][3] /\ end <= L + 1
    BY <1>3 DEF entry_end
  <2>2. log'[pos + 2] = log[pos + 2]
    BY <1>6
  <2>3. whole_len(log, pos)'
    BY <1>6, <2>1 DEF whole_len
  <2>4. end <= Len(log') + 1
    BY <1>1, <1>4, <2>1
  <2> HIDE DEF end
  <2> QED
    BY <2>1, <2>2, <2>3, <2>4 DEF entry_end
<1> HIDE DEF end
<1>8. item_at(log, pos)' = item_at(log, pos)
  <2> DEFINE payload == SubSeq(log, pos + HeaderSize, end - 1)
  <2>1. SubSeq(log', pos + HeaderSize, end - 1) = payload
    <3>1. pos + HeaderSize \in Nat \ {0} /\ end - 1 \in Nat /\ end - 1 <= L
      BY <1>1, <1>3, <1>4 DEF HeaderSize
    <3> QED
      BY <1>5, <3>1
  <2>2. log'[pos + 6] = log[pos + 6]
    BY <1>6
  <2>3. item_at(log, pos) = deserialize(log[pos + 6], payload)
    BY DEF item_at, end
  <2> HIDE DEF payload
  <2>4. deserialize(log[pos + 6], payload) # <<"error">>
    BY <1>3, <2>3
  <2>5. item_at(log, pos)'
          = IF log[pos + 6][1] # "type" THEN <<"nothing", payload>>
            ELSE IF own(payload, log[pos + 6][2])
                 THEN <<"entry", log[pos + 6][2]>>
            ELSE IF log[pos + 6][2] \in decodable' THEN <<"garbage", payload>>
            ELSE <<"error">>
    BY <1>7, <2>1, <2>2 DEF item_at, deserialize, own
  <2> QED
    BY <2>3, <2>4, <2>5 DEF deserialize, Grows
<1>9. ~stops_at(log, pos)'
  <2>1. SubSeq(log', pos, pos + 1) = Magic
    <3>1. pos + 1 \in Nat /\ pos + 1 <= L
      BY <1>1, <1>3
    <3> QED
      BY <1>3, <1>5, <3>1
  <2>2. ~(pos + HeaderSize > Len(log') + 1)
    BY <1>1, <1>3 DEF HeaderSize
  <2>3. entry_end(log, pos)' # 0 /\ item_at(log, pos)' # <<"error">>
    BY <1>3, <1>7, <1>8
  <2> QED
    BY <2>1, <2>2, <2>3 DEF stops_at
<1>10. pos \in 1 .. Len(log') + 1
  BY <1>1, <1>3
<1> QED
  BY <1>7, <1>8, <1>9, <1>10 DEF Stops, Nexts, Items, end

\* A replay of the log that has grown begins as the one before.
LEMMA ReplayGrows ==
  ASSUME LogType, LogType', Grows
  PROVE  IsPrefix(replay(log), replay(log)')
<1>1. PICK m \in Nat : \E P :
        Along(replay(log), P, m, 1, Len(log) + 1, Stops, Items, Nexts)
  BY ReplayPath DEF HasPath
<1>2. PICK P :
        Along(replay(log), P, m, 1, Len(log) + 1, Stops, Items, Nexts)
  BY <1>1
<1>3. (LogType => HasPath)'
  BY ReplayPath, PTL
<1>4. PICK k \in Nat : \E Q :
        Along(replay(log), Q, k, 1, Len(log) + 1, Stops, Items, Nexts)'
  BY <1>3 DEF HasPath
<1>5. PICK Q :
        Along(replay(log), Q, k, 1, Len(log) + 1, Stops, Items, Nexts)'
  BY <1>4
<1>6. /\ Path(P, m, Len(log) + 1, Stops, Nexts) /\ P[1] = 1
      /\ replay(log) = [j \in 1 .. m |-> Items[P[j]]]
  BY <1>2 DEF Along
<1>7. /\ Path(Q, k, Len(log') + 1, Stops', Nexts') /\ Q[1] = 1
      /\ replay(log)' = [j \in 1 .. k |-> Items'[Q[j]]]
  BY <1>5 DEF Along, Path
<1>8. Len(log) + 1 \in Nat /\ Len(log') + 1 \in Nat
  BY DEF LogType
<1>9. m <= k /\ \A j \in 1 .. m + 1 : Q[j] = P[j]
  <2>1. Follows(Len(log) + 1, Stops, Nexts, Stops', Nexts')
    BY PlaceStable DEF Follows
  <2> DEFINE n  == Len(log) + 1
             n2 == Len(log') + 1
  <2>2. /\ Path(P, m, n, Stops, Nexts) /\ Path(Q, k, n2, Stops', Nexts')
        /\ P[1] = Q[1] /\ n \in Nat /\ n2 \in Nat
        /\ Follows(n, Stops, Nexts, Stops', Nexts')
    BY <1>6, <1>7, <1>8, <2>1
  <2> HIDE DEF n, n2
  <2> QED
    BY <2>2, PathsAgree
<1>10. \A j \in 1 .. m : Items'[Q[j]] = Items[P[j]]
  <2> SUFFICES ASSUME NEW j \in 1 .. m PROVE Items'[Q[j]] = Items[P[j]]
    OBVIOUS
  <2>1. j \in 1 .. m + 1
    OBVIOUS
  <2>2. P[j] \in 1 .. Len(log) + 1 /\ P[j] \notin Stops /\ Q[j] = P[j]
    BY <1>6, <1>9, <2>1 DEF Path
  <2> QED
    BY <2>2, PlaceStable
<1> DEFINE s == [j \in 1 .. m |-> Items[P[j]]]
           t == [j \in 1 .. k |-> Items'[Q[j]]]
           B == {t[j] : j \in 1 .. k}
<1>11. t \in Seq(B) /\ Len(t) = k
  OBVIOUS
<1>12. \A j \in 1 .. m : j \in 1 .. k /\ s[j] = t[j]
  BY <1>9, <1>10
<1>13. s \in Seq(B) /\ Len(s) = m
  <2>1. Len(s) = m
    OBVIOUS
  <2>2. \A j \in 1 .. m : s[j] \in B
    BY <1>12
  <2> HIDE DEF B
  <2> QED
    BY <2>1, <2>2
<1>14. replay(log) = s /\ replay(log)' = t
  BY <1>6, <1>7
<1> HIDE DEF s, t, B
<1>15. IsPrefix(s, t)
  BY <1>9, <1>11, <1>12, <1>13, PrefixIs
<1> QED
  BY <1>14, <1>15

\* An append makes the log grow.
LEMMA AppendsGrow ==
  ASSUME LogType, NEW n \in Lens, NEW k \in 1 .. n,
         log' = log \o SubSeq(serialize(Len(appended) + 1, n), 1, k),
         decodable \subseteq decodable'
  PROVE  Grows
<1> DEFINE more == SubSeq(serialize(Len(appended) + 1, n), 1, k)
<1>1. log \in Seq(Byte) /\ n \in Nat /\ Len(appended) + 1 \in Nat
  BY LogBytesAssumption DEF LogType
<1>2. more \in Seq(Byte)
  <2>1. serialize(Len(appended) + 1, n) \in Seq(Byte)
        /\ Len(serialize(Len(appended) + 1, n)) = n
    BY <1>1, SerializeBytes
  <2> QED
    BY <1>1, <2>1
<1>3. log' = log \o more
  OBVIOUS
<1> HIDE DEF more
<1> QED
  BY <1>1, <1>2, <1>3 DEF Grows

\* An append writes the first bytes of an entry, all of them or not.
LEMMA NextAppends ==
  ASSUME LogInv, Next
  PROVE  LogInv' /\ Grows
<1>1. LogType /\ Len(appended) + 1 \in Nat
  BY DEF LogInv, LogType
<1>2. ASSUME NEW n \in Lens, append(n)
      PROVE  LogInv' /\ Grows
  <2> DEFINE all == serialize(Len(appended) + 1, n)
  <2>1. n \in Nat /\ all \in Seq(Byte) /\ Len(all) = n
    BY <1>1, SerializeBytes
  <2>4. n \in 1 .. n
    BY LogBytesAssumption DEF HeaderSize
  <2>2. SubSeq(all, 1, n) = all
    <3> HIDE DEF all
    <3> QED
      BY <2>1
  <2>3. /\ log' = log \o SubSeq(all, 1, n) /\ appended' = Append(appended, n)
        /\ torn' = torn /\ decodable' = decodable
    BY <1>2, <2>2 DEF append, Appends
  <2> QED
    BY <1>1, <2>3, <2>4, AppendsInv, AppendsGrow
<1>3. ASSUME NEW n \in Lens, NEW k \in 1 .. n - 1, NEW decodes \in BOOLEAN,
             append_torn(n, k, decodes)
      PROVE  LogInv' /\ Grows
  <2>1. k \in 1 .. n /\ k # n
    BY LogBytesAssumption
  <2>2. /\ log' = log \o SubSeq(serialize(Len(appended) + 1, n), 1, k)
        /\ appended' = Append(appended, n)
        /\ torn' = torn \cup {Len(appended) + 1}
        /\ decodable \subseteq decodable'
    BY <1>3 DEF append_torn, Appends
  <2> QED
    BY <1>1, <2>1, <2>2, AppendsInv, AppendsGrow
<1> QED
  BY <1>2, <1>3 DEF Next

\* At first the log is empty.
LEMMA InitLogInv == Init => LogInv
<1> SUFFICES ASSUME Init PROVE LogInv
  OBVIOUS
<1>1. /\ log = <<>> /\ appended = <<>> /\ torn = {}
      /\ Len(log) = 0 /\ Len(appended) = 0
  BY DEF Init
<1> DEFINE S == [i \in 1 .. 1 |-> 1]
<1>2. LogType
  BY <1>1 DEF LogType
<1>3. Laid(S)
  BY <1>1 DEF Laid
<1>4. S \in [1 .. Len(appended) + 1 -> 1 .. Len(log) + 1]
  BY <1>1
<1> HIDE DEF S
<1> QED
  BY <1>2, <1>3, <1>4 DEF LogInv

\* A step that changes nothing keeps the invariant.
LEMMA SameLog ==
  ASSUME LogInv, UNCHANGED vars
  PROVE  LogInv' /\ Grows
<1>1. /\ log' = log /\ appended' = appended
      /\ torn' = torn /\ decodable' = decodable
  BY DEF vars
<1>2. LogInv'
  BY <1>1 DEF LogInv, LogType, Laid
<1>3. Len(log) \in Nat
  BY DEF LogInv, LogType
<1> QED
  BY <1>1, <1>2, <1>3 DEF Grows

\* The entries stay where they are, the cut ones with the whole ones.
LEMMA LogInvHolds == Spec => []LogInv
<1>1. LogInv /\ [Next]_vars => LogInv'
  BY NextAppends, SameLog
<1> QED
  BY <1>1, InitLogInv, PTL DEF Spec

\* Every entry appended before the first one cut short is replayed, in order and
\* before anything else, whatever follows them.
THEOREM IntactEntriesReplayed == Spec => []IntactPrefix
  BY LogInvHolds, InvIntactPrefix, PTL

\* A replay finds only entries that were appended whole, each once and in their
\* order, and no more pieces of garbage than entries were cut short.
THEOREM ReplayInLogOrder == Spec => []InOrder
  BY LogInvHolds, InvInOrder, PTL

\* What one replay has found every later one finds, after any appends.
THEOREM ReplaysAreStable == Spec => ReplayStable
<1>1. LogInv /\ LogInv' /\ [Next]_vars
        => [IsPrefix(replay(log), replay(log)')]_vars
  <2> SUFFICES ASSUME LogInv, LogInv', [Next]_vars
               PROVE  [IsPrefix(replay(log), replay(log)')]_vars
    OBVIOUS
  <2>1. LogType /\ LogType' /\ Grows
    BY NextAppends, SameLog DEF LogInv
  <2> QED
    BY <2>1, ReplayGrows
<1> QED
  BY <1>1, LogInvHolds, PTL DEF Spec, ReplayStable
===============================================================================
