---------------------------- MODULE ConnectionProofs ----------------------------
(***************************************************************************)
(* The connections run statements as Locks has it: a server implements     *)
(* LocksSpec, and what is proved of the locks holds of the server.  The    *)
(* streams between a task and its client hold whole responses, and a       *)
(* client that sends no batch has one request at most without an answer:   *)
(* its answers are its own, and its prompt is right.  Each end reads in    *)
(* the packets of a login what the other wrote: a login is judged rightly. *)
(***************************************************************************)
EXTENDS ConnectionProperties, TLAPS

-----------------------------------------------------------------------------
(* No number of sessions can deadlock on the executor's mutexes.  The      *)
(* argument is an order of the mutexes: catalog, storage, wal.  A session  *)
(* that holds the wal waits for nothing, one that holds the storage waits  *)
(* for the wal at most, one that holds the catalog for a later one.  The   *)
(* invariant behind it is that a session holds a first part of the mutexes *)
(* of its section.                                                         *)

Orders == {<<>>, <<"wal">>, <<"storage">>, <<"catalog">>, <<"storage", "wal">>,
           <<"catalog", "wal">>, <<"catalog", "storage">>}

LocksInv ==
  /\ at \in [Sessions -> Section \cup {"idle"}]
  /\ held \in [Sessions -> Seq(Mutex)]
  /\ poisoned \subseteq Mutex
  /\ outcome \in [Sessions -> Outcome]
  /\ \A s \in Sessions :
       /\ Len(held[s]) <= Len(locks_of(at[s]))
       /\ \A i \in 1 .. Len(held[s]) : held[s][i] = locks_of(at[s])[i]

\* Whatever the section, its mutexes come in the order catalog, storage, wal.
LEMMA LocksInOrder ==
  ASSUME NEW a PROVE locks_of(a) \in Orders
BY DEF locks_of, Orders

LEMMA OrdersType ==
  ASSUME NEW L \in Orders
  PROVE  /\ L \in Seq(Mutex)
         /\ Len(L) \in {0, 1, 2}
         /\ Len(L) = 2 => L \in {<<"storage", "wal">>, <<"catalog", "wal">>,
                                <<"catalog", "storage">>}
<1>1. Len(<<>>) = 0 /\ <<>> \in Seq(Mutex)
  OBVIOUS
<1>2. \A m \in Mutex : Len(<<m>>) = 1 /\ <<m>> \in Seq(Mutex)
  OBVIOUS
<1>3. \A m, n \in Mutex : Len(<<m, n>>) = 2 /\ <<m, n>> \in Seq(Mutex)
  OBVIOUS
<1>4. \/ L = <<>>
      \/ \E m \in Mutex : L = <<m>>
      \/ /\ \E m, n \in Mutex : L = <<m, n>>
         /\ L \in {<<"storage", "wal">>, <<"catalog", "wal">>,
                   <<"catalog", "storage">>}
  BY Zenon DEF Orders, Mutex
<1>5. CASE L = <<>>
  BY <1>1, <1>5
<1>6. CASE \E m \in Mutex : L = <<m>>
  BY <1>2, <1>6
<1>7. CASE /\ \E m, n \in Mutex : L = <<m, n>>
           /\ L \in {<<"storage", "wal">>, <<"catalog", "wal">>,
                     <<"catalog", "storage">>}
  <2>1. Len(L) = 2 /\ L \in Seq(Mutex)
    BY <1>3, <1>7
  <2> QED BY <1>7, <2>1
<1> QED BY <1>4, <1>5, <1>6, <1>7

\* A session between statements has nothing to lock.
LEMMA IdleLocksNothing == locks_of("idle") = <<>>
BY DEF locks_of, LogSections, StorageSections, CatalogSections

\* A statement goes on with a section.
LEMMA NextIsSection ==
  ASSUME NEW a PROVE next_sections(a) \subseteq Section
BY DEF next_sections, Section, LogSections, StorageSections, CatalogSections

LEMMA InitInv == LocksInit => LocksInv
BY IdleLocksNothing DEF LocksInit, LocksInv, Outcome

\* A statement starts.
LEMMA BeginInv ==
  ASSUME LocksInv, NEW s \in Sessions, NEW section \in Section,
         Begin(s, section)
  PROVE  LocksInv'
<1>1. held[s] = <<>>
  <2>1. Len(locks_of(at[s])) = 0
    BY IdleLocksNothing DEF Begin
  <2> QED BY <2>1 DEF LocksInv
<1>2. Len(locks_of(section)) \in Nat
  BY LocksInOrder DEF Orders
<1> QED BY <1>1, <1>2 DEF LocksInv, Begin, Outcome

\* A session takes the next mutex of its section.
LEMMA AcquireInv ==
  ASSUME LocksInv, NEW s \in Sessions, Acquire(s)
  PROVE  LocksInv'
<1> DEFINE L == locks_of(at[s])
<1>1. L \in Seq(Mutex)
  BY LocksInOrder, OrdersType
<1>2. held[s] \in Seq(Mutex) /\ Len(held[s]) < Len(L)
  BY DEF LocksInv, Acquire, waits
<1>3. L[Len(held[s]) + 1] \in Mutex
  BY <1>1, <1>2
<1>4. held' = [held EXCEPT ![s] = Append(held[s], L[Len(held[s]) + 1])]
  BY DEF Acquire, wanted
<1>5. held'[s] = Append(held[s], L[Len(held[s]) + 1])
  BY <1>4 DEF LocksInv
<1> HIDE DEF L
<1>6. /\ held'[s] \in Seq(Mutex)
      /\ Len(held'[s]) = Len(held[s]) + 1
      /\ \A i \in 1 .. Len(held[s]) : held'[s][i] = held[s][i]
      /\ held'[s][Len(held[s]) + 1] = L[Len(held[s]) + 1]
  BY <1>2, <1>3, <1>5
<1>7. \A i \in 1 .. Len(held'[s]) : held'[s][i] = L[i]
  <2>1. \A i \in 1 .. Len(held[s]) : held[s][i] = L[i]
    BY DEF LocksInv, L
  <2> QED BY <1>2, <1>6, <2>1
<1>8. Len(held'[s]) <= Len(L)
  BY <1>1, <1>2, <1>6
<1>9. \A t \in Sessions \ {s} : held'[t] = held[t]
  BY <1>4 DEF LocksInv
<1>10. held' \in [Sessions -> Seq(Mutex)]
  BY <1>4, <1>5, <1>6 DEF LocksInv
<1>11. at' = at /\ poisoned' = poisoned /\ outcome' = outcome
  BY DEF Acquire
<1>12. ASSUME NEW t \in Sessions
       PROVE  /\ Len(held'[t]) <= Len(locks_of(at'[t]))
              /\ \A i \in 1 .. Len(held'[t]) : held'[t][i] = locks_of(at'[t])[i]
  <2>1. CASE t = s
    BY <1>7, <1>8, <1>11, <2>1 DEF L
  <2>2. CASE t # s
    <3>1. held'[t] = held[t] /\ at'[t] = at[t]
      BY <1>9, <1>11, <2>2
    <3> QED
      BY <3>1 DEF LocksInv
  <2> QED
    BY <2>1, <2>2
<1> QED
  BY <1>10, <1>11, <1>12 DEF LocksInv

\* A section ends, or finds a poisoned mutex.
LEMMA LeavesInv ==
  ASSUME LocksInv, NEW s \in Sessions, NEW res, Leaves(s, res)
  PROVE  LocksInv'
<1>1. /\ held' = [held EXCEPT ![s] = <<>>]
      /\ poisoned' = poisoned
  BY DEF Leaves
<1>2. /\ at' \in [Sessions -> Section \cup {"idle"}]
      /\ outcome' \in [Sessions -> Outcome]
      /\ \A t \in Sessions \ {s} : at'[t] = at[t]
  BY ZenonT(40), NextIsSection DEF Leaves, LocksInv, Outcome
<1>3. Len(locks_of(at'[s])) \in Nat
  BY LocksInOrder, OrdersType
<1>4. /\ held' \in [Sessions -> Seq(Mutex)]
      /\ held'[s] = <<>>
      /\ \A t \in Sessions \ {s} : held'[t] = held[t]
  BY <1>1 DEF LocksInv
<1>5. ASSUME NEW t \in Sessions
      PROVE  /\ Len(held'[t]) <= Len(locks_of(at'[t]))
             /\ \A i \in 1 .. Len(held'[t]) : held'[t][i] = locks_of(at'[t])[i]
  <2>1. CASE t = s
    BY <1>3, <1>4, <2>1
  <2>2. CASE t # s
    BY <1>2, <1>4, <2>2 DEF LocksInv
  <2> QED BY <2>1, <2>2
<1> QED BY <1>1, <1>2, <1>4, <1>5 DEF LocksInv

\* A session panics.
LEMMA PanicsInv ==
  ASSUME LocksInv, NEW s \in Sessions, Panics(s)
  PROVE  LocksInv'
<1>1. poisoned' \subseteq Mutex
  BY DEF Panics, LocksInv
<1>2. Len(locks_of(at'[s])) = 0
  BY IdleLocksNothing DEF Panics, LocksInv
<1> QED BY <1>1, <1>2 DEF LocksInv, Panics, Outcome

LEMMA StepInv == LocksInv /\ [LocksNext]_lvars => LocksInv'
<1> SUFFICES ASSUME LocksInv, [LocksNext]_lvars PROVE LocksInv'
  OBVIOUS
<1>1. ASSUME NEW s \in Sessions, NEW section \in Section, Begin(s, section)
      PROVE  LocksInv'
  BY <1>1, BeginInv
<1>2. ASSUME NEW s \in Sessions, Acquire(s) PROVE LocksInv'
  BY <1>2, AcquireInv
<1>3. ASSUME NEW s \in Sessions, FindPoisoned(s) PROVE LocksInv'
  BY <1>3, LeavesInv DEF FindPoisoned
<1>4. ASSUME NEW s \in Sessions, NEW res, Finish(s, res) PROVE LocksInv'
  BY <1>4, LeavesInv, PanicsInv DEF Finish
<1>5. CASE UNCHANGED lvars
  BY <1>5 DEF lvars, LocksInv
<1> QED BY <1>1, <1>2, <1>3, <1>4, <1>5 DEF LocksNext

-----------------------------------------------------------------------------
LEMMA TwoAtMost ==
  ASSUME NEW a \in {1, 2}, NEW b \in Nat, NEW i \in Nat,
         1 <= i, i <= b, b < a
  PROVE  i = 1 /\ b = 1 /\ a = 2
OBVIOUS

\* What a session that holds a mutex may still be waiting for.
LEMMA HolderWaits ==
  ASSUME LocksInv, NEW t \in Sessions, NEW m, holds(t, m)
  PROVE  /\ at[t] # "idle"
         /\ m \in Mutex
         /\ m = "wal" => ~waits(t)
         /\ m = "storage" /\ waits(t) => wanted(t) = "wal"
         /\ m = "catalog" /\ waits(t) => wanted(t) \in {"storage", "wal"}
<1> DEFINE L == locks_of(at[t])
           h == held[t]
<1>1. PICK i \in 1 .. Len(h) : h[i] = m
  BY DEF holds, LocksInv
<1>2. /\ h \in Seq(Mutex)
      /\ Len(h) <= Len(L)
      /\ L[i] = m
  BY <1>1 DEF LocksInv
<1>3. L \in Orders
  BY LocksInOrder
<1>4. Len(L) # 0
  BY <1>1, <1>2, <1>3 DEF Orders
<1>5. at[t] # "idle"
  BY <1>4, IdleLocksNothing
<1>6. /\ waits(t) <=> Len(h) < Len(L)
      /\ wanted(t) = L[Len(h) + 1]
  BY DEF waits, wanted
<1> HIDE DEF L, h
<1>7. m \in Mutex
  BY <1>1, <1>2
<1>8. Len(L) \in {1, 2}
  BY <1>3, <1>4, OrdersType
<1>9. Len(h) < Len(L) => i = 1 /\ Len(h) = 1 /\ Len(L) = 2
  <2>1. Len(h) \in Nat /\ Len(h) <= Len(L)
    BY <1>2
  <2>2. i \in Nat /\ 1 <= i /\ i <= Len(h)
    BY <2>1
  <2> QED BY <1>8, <2>1, <2>2, TwoAtMost
<1>10. CASE Len(h) < Len(L)
  <2>1. L \in {<<"storage", "wal">>, <<"catalog", "wal">>, <<"catalog", "storage">>}
    BY <1>3, <1>9, <1>10, OrdersType
  <2>2. L[1] = m /\ wanted(t) = L[2]
    BY <1>2, <1>6, <1>9, <1>10
  <2> QED BY <1>5, <1>7, <2>1, <2>2
<1>11. CASE ~(Len(h) < Len(L))
  BY <1>5, <1>6, <1>7, <1>11
<1> QED BY <1>10, <1>11

\* If nobody can go on, no mutex is held, the last of the order first.
LEMMA InvDeadlockFree == LocksInv => DeadlockFree
<1> SUFFICES ASSUME LocksInv,
                    NEW s \in Sessions, at[s] # "idle",
                    \A t \in Sessions : at[t] # "idle" => ~can_step(t)
             PROVE  FALSE
  BY DEF DeadlockFree
<1>1. \A t \in Sessions : at[t] # "idle" => waits(t) /\ ~free(wanted(t))
  BY DEF can_step
<1>2. free("wal")
  BY <1>1, HolderWaits DEF free
<1>3. free("storage")
  BY <1>1, <1>2, HolderWaits DEF free
<1>4. free("catalog")
  BY <1>1, <1>2, <1>3, HolderWaits DEF free
<1>5. \A m : free(m)
  <2> SUFFICES ASSUME NEW m, NEW t \in Sessions, holds(t, m) PROVE FALSE
    BY DEF free
  <2>1. m \in {"catalog", "storage", "wal"}
    BY HolderWaits DEF Mutex
  <2> QED BY <1>2, <1>3, <1>4, <2>1 DEF free
<1> QED BY <1>1, <1>5

\* The locks of the executor are of their types (executor.rs:36-41).
THEOREM LocksTypeCorrect == LocksSpec => []LocksType
<1>1. LocksInv => LocksType
  BY DEF LocksInv, LocksType
<1> QED BY <1>1, InitInv, StepInv, PTL DEF LocksSpec

\* However many sessions run whatever statements, and wherever they panic: while
\* a statement runs, some statement does not wait for a mutex
\* (executor.rs:272-364, 526-586, 1213-1226).
THEOREM NoDeadlock == LocksSpec => []DeadlockFree
<1> QED BY InitInv, StepInv, InvDeadlockFree, PTL DEF LocksSpec

-----------------------------------------------------------------------------
(* The connections.                                                         *)

\* The steps of a connection that leave the executor alone
LEMMA OtherSteps ==
  ASSUME NEW c \in Sessions,
         \/ LoginStep(c) \/ ClientStep(c) \/ Exit(c)
         \/ \E req \in Requests : Ask(c, req)
         \/ Answer(c) \/ TakeQuery(c) \/ Close(c) \/ Respond(c) \/ TaskDies(c)
  PROVE  UNCHANGED lvars
<1>1. CASE LoginStep(c)
  BY <1>1 DEF LoginStep, Greet, SendLogin, Login, ReadLogin
<1>2. CASE ClientStep(c) \/ Exit(c)
  BY <1>2 DEF ClientStep, Receive, ReceiveNothing, Exit
<1>3. CASE \E req \in Requests : Ask(c, req)
  BY <1>3 DEF Ask
<1>4. CASE Answer(c) \/ TakeQuery(c) \/ Close(c)
  BY <1>4 DEF Answer, TakeQuery, Close
<1>5. CASE Respond(c) \/ TaskDies(c)
  BY <1>5 DEF Respond, TaskDies
<1> QED BY <1>1, <1>2, <1>3, <1>4, <1>5

\* A session's walk through the executor
LEMMA WorkStep ==
  ASSUME NEW c \in Sessions, Work(c)
  PROVE  LocksNext
BY DEF Work, LocksNext

\* A statement starts, from a query or from COM_INIT_DB.
LEMMA StartStep ==
  ASSUME NEW c \in Sessions, Execute(c) \/ TakeInitDb(c)
  PROVE  LocksNext
<1>1. PICK section : Begin(c, section)
  BY DEF Execute, TakeInitDb
<1>2. First \subseteq Section
  BY DEF First, Section, LogSections, CatalogSections
<1> QED BY <1>1, <1>2 DEF LocksNext, Begin

LEMMA ConnectionStep == [Next]_vars => [LocksNext]_lvars
<1> SUFFICES ASSUME [Next]_vars PROVE [LocksNext]_lvars
  OBVIOUS
<1>1. CASE UNCHANGED vars
  BY <1>1 DEF vars, lvars
<1>2. CASE AllGone
  BY <1>2 DEF AllGone, vars, lvars
<1>3. ASSUME NEW c \in Sessions,
             \/ LoginStep(c) \/ ServerStep(c) \/ ClientStep(c) \/ Exit(c)
             \/ \E req \in Requests : Ask(c, req)
      PROVE  [LocksNext]_lvars
  BY <1>3, OtherSteps, WorkStep, StartStep DEF ServerStep
<1> QED BY <1>1, <1>2, <1>3 DEF Next

\* The server implements the locks: whatever its clients send and in whatever
\* order its connections run, the executor does nothing that Locks does not
\* have (connection.rs:22-216).
THEOREM ServerImplementsLocks == Spec => LocksSpec
<1>1. Init => LocksInit
  BY DEF Init
<1> QED BY <1>1, ConnectionStep, PTL DEF Spec, LocksSpec

\* For any number of connections and any requests: while a statement runs, some
\* statement does not wait for a mutex (connection.rs:161-162,
\* executor.rs:272-364, 526-586, 1213-1226).
THEOREM ServerDeadlockFree == Spec => []DeadlockFree
BY ServerImplementsLocks, NoDeadlock, PTL

-------------------------------------------------------------------------------
(* The two streams of a connection.                                         *)

Run == [start : First, db : DBs]

ServerRec ==
  [phase    : {"greet", "login", "ready", "query", "running", "closed"},
   login    : {"none", "accepted", "denied"},
   batch    : Seq(Run),
   database : DBs,
   request  : Nat,
   produced : Nat]

ClientRec ==
  [phase     : {"connect", "login", "prompt", "asked", "gone"},
   prompt    : DBs \cup {NoName, Garbled},
   on_prompt : {"unset", "no", "asked", "yes"},
   sent      : Nat,
   shown     : Nat,
   answer    : Nat,
   more      : BOOLEAN,
   in_step   : BOOLEAN]

Packet == [tag     : {"ok", "err", "count", "def", "eof", "row"},
           no      : Nat,
           part    : Nat,
           request : Nat]

Responses == {<<"ok">>, <<"err">>, rows_packets}

\* A packet is where it should be in a response.
InPlace(p) == \/ p.tag \in {"ok", "err"} /\ p.part = 1
              \/ p.part \in 1 .. 6 /\ p.tag = rows_packets[p.part]

\* It is the last of its response.
Ends(p) == p.tag \in {"ok", "err"} \/ p.part = 6

\* r comes after p: the next of its response, or the first of the next.
Follows(p, r) == IF Ends(p) THEN r.part = 1 /\ r.no = p.no + 1
                            ELSE r.part = p.part + 1 /\ r.no = p.no

\* The stream holds whole responses: those from shown + 1 to produced.
Whole(q, shown, produced) ==
  /\ q = <<>> => shown = produced
  /\ q # <<>> => /\ q[1].part = 1 /\ q[1].no = shown + 1
                 /\ Ends(q[Len(q)]) /\ q[Len(q)].no = produced
  /\ \A i \in 1 .. Len(q) : InPlace(q[i]) /\ q[i].no <= produced
  /\ \A i \in 1 .. Len(q) - 1 : Follows(q[i], q[i + 1])

\* The packets of one response
LEMMA PacketsOf ==
  ASSUME NEW tags \in Responses, NEW no \in Nat, NEW request \in Nat
  PROVE  LET p == packets(tags, no, request)
         IN  /\ p \in Seq(Packet)
             /\ Len(p) \in {1, 6}
             /\ p[1].part = 1
             /\ Ends(p[Len(p)])
             /\ \A i \in 1 .. Len(p) :
                  InPlace(p[i]) /\ p[i].no = no /\ p[i].request = request
             /\ \A i \in 1 .. Len(p) - 1 : Follows(p[i], p[i + 1])
<1> DEFINE p == packets(tags, no, request)
<1>1. CASE tags \in {<<"ok">>, <<"err">>}
  <2>1. p = <<[tag |-> tags[1], no |-> no, part |-> 1, request |-> request]>>
    BY <1>1 DEF packets
  <2>2. tags[1] \in {"ok", "err"}
    BY <1>1
  <2> QED
    BY <2>1, <2>2 DEF Packet, Ends, InPlace
<1>2. CASE tags = rows_packets
  <2>1. p = [i \in 1 .. 6 |-> [tag |-> rows_packets[i], no |-> no, part |-> i,
                               request |-> request]]
    BY <1>2 DEF packets, rows_packets
  <2>2. \A i \in 1 .. 6 : rows_packets[i] \in {"count", "def", "eof", "row"}
    BY DEF rows_packets
  <2>3. \A i \in 1 .. 6 : p[i] \in Packet
    BY <2>1, <2>2 DEF Packet
  <2>4. p \in Seq(Packet) /\ Len(p) = 6
    BY <2>1, <2>3
  <2>5. \A i \in 1 .. 6 : InPlace(p[i]) /\ (Ends(p[i]) <=> i = 6)
    BY <2>1, <2>2 DEF InPlace, Ends
  <2>6. \A i \in 1 .. 5 : Follows(p[i], p[i + 1])
    BY <2>1, <2>5 DEF Follows
  <2> QED
    BY SMTT(40), <2>1, <2>4, <2>5, <2>6
<1> QED
  BY <1>1, <1>2 DEF Responses

\* A response appended leaves the stream whole.
LEMMA AppendWhole ==
  ASSUME NEW q \in Seq(Packet), NEW shown \in Nat, NEW produced \in Nat,
         Whole(q, shown, produced),
         NEW tags \in Responses, NEW request \in Nat
  PROVE  LET r == q \o packets(tags, produced + 1, request)
         IN  /\ r \in Seq(Packet) /\ r # <<>>
             /\ Whole(r, shown, produced + 1)
<1> DEFINE p == packets(tags, produced + 1, request)
           r == q \o p
<1>1. /\ p \in Seq(Packet)
      /\ Len(p) \in Nat \ {0}
      /\ p[1].part = 1
      /\ Ends(p[Len(p)])
      /\ \A i \in 1 .. Len(p) : InPlace(p[i]) /\ p[i].no = produced + 1
      /\ \A i \in 1 .. Len(p) - 1 : Follows(p[i], p[i + 1])
  BY PacketsOf
<1> HIDE DEF p
<1>2. /\ r \in Seq(Packet) /\ Len(r) = Len(q) + Len(p) /\ Len(q) \in Nat
      /\ \A i \in 1 .. Len(q) : r[i] = q[i]
      /\ \A i \in 1 .. Len(p) : r[Len(q) + i] = p[i]
  BY <1>1
<1> HIDE DEF r
<1>3. r[1].part = 1 /\ r[1].no = shown + 1
  <2>1. CASE q = <<>>
    BY <1>1, <1>2, <2>1 DEF Whole
  <2>2. CASE q # <<>>
    BY <1>2, <2>2 DEF Whole
  <2> QED
    BY <2>1, <2>2
<1>4. Ends(r[Len(r)]) /\ r[Len(r)].no = produced + 1
  BY <1>1, <1>2
<1>5. ASSUME NEW i \in 1 .. Len(r)
      PROVE  InPlace(r[i]) /\ r[i].no <= produced + 1
  <2>1. CASE i <= Len(q)
    <3>1. q[i] \in Packet /\ q[i].no <= produced /\ InPlace(q[i])
      BY <1>2, <2>1 DEF Whole
    <3>2. i \in 1 .. Len(q) /\ r[i] = q[i]
      BY <1>1, <1>2, <2>1
    <3> QED
      BY SMTT(40), <3>1, <3>2 DEF Packet
  <2>2. CASE i > Len(q)
    <3>1. PICK k \in 1 .. Len(p) : i = Len(q) + k
      <4>1. i - Len(q) \in 1 .. Len(p) /\ i = Len(q) + (i - Len(q))
        BY <1>1, <1>2, <2>2
      <4> QED
        BY <4>1
    <3>2. r[i] = p[k]
      BY <1>2, <3>1
    <3> QED
      BY <1>1, <3>1, <3>2
  <2> QED
    BY <1>2, <2>1, <2>2
<1>6. ASSUME NEW i \in 1 .. Len(r) - 1
      PROVE  Follows(r[i], r[i + 1])
  <2>1. CASE i < Len(q)
    <3>1. i \in 1 .. Len(q) - 1 /\ i + 1 \in 1 .. Len(q)
      BY <1>1, <1>2, <2>1
    <3>2. r[i] = q[i] /\ r[i + 1] = q[i + 1]
      BY SMTT(40), <1>2, <3>1
    <3> QED
      BY <3>1, <3>2 DEF Whole
  <2>2. CASE i = Len(q)
    <3>1. Ends(q[Len(q)]) /\ q[Len(q)].no = produced
      <4>1. q # <<>>
        BY <1>2, <2>2
      <4> QED
        BY <4>1 DEF Whole
    <3>2. r[i] = q[i] /\ r[i + 1] = p[1]
      BY <1>1, <1>2, <2>2
    <3> QED
      BY <1>1, <2>2, <3>1, <3>2 DEF Follows
  <2>3. CASE i > Len(q)
    <3>1. PICK k \in 1 .. Len(p) - 1 : i = Len(q) + k
      <4>1. i - Len(q) \in 1 .. Len(p) - 1 /\ i = Len(q) + (i - Len(q))
        BY <1>1, <1>2, <2>3
      <4> QED
        BY <4>1
    <3>2. k \in 1 .. Len(p) /\ k + 1 \in 1 .. Len(p) /\ i + 1 = Len(q) + (k + 1)
      BY <1>1, <1>2, <3>1
    <3>3. r[i] = p[k] /\ r[i + 1] = p[k + 1]
      BY <1>2, <3>1, <3>2
    <3> QED
      BY <1>1, <3>1, <3>3
  <2> QED
    BY <1>2, <2>1, <2>2, <2>3
<1> QED
  BY SMTT(40), <1>1, <1>2, <1>3, <1>4, <1>5, <1>6 DEF Whole, r, p

\* The least of a set of numbers is in it.
LEMMA LeastOf ==
  ASSUME NEW S \in SUBSET Nat, NEW n \in S, \A k \in S : n <= k
  PROVE  Min(S) = n
<1>1. \A k \in S : (\A j \in S : k <= j) => k = n
  OBVIOUS
<1> QED
  BY <1>1 DEF Min

\* The client takes the first response off a whole stream, and the rest is
\* whole.
LEMMA DropWhole ==
  ASSUME NEW q \in Seq(Packet), NEW shown \in Nat, NEW produced \in Nat,
         Whole(q, shown, produced), q # <<>>
  PROVE  LET end == response_end(q)
             r   == SubSeq(q, end + 1, Len(q))
         IN  /\ end > 0
             /\ r \in Seq(Packet)
             /\ Whole(r, shown + 1, produced)
<1> DEFINE end == response_end(q)
           r == SubSeq(q, end + 1, Len(q))
<1>1. /\ Len(q) \in Nat \ {0}
      /\ \A i \in 1 .. Len(q) : q[i] \in Packet
      /\ \A i \in 1 .. Len(q) : InPlace(q[i]) /\ q[i].no <= produced
      /\ \A i \in 1 .. Len(q) - 1 : Follows(q[i], q[i + 1])
      /\ q[1].part = 1 /\ q[1].no = shown + 1
      /\ Ends(q[Len(q)]) /\ q[Len(q)].no = produced
  BY DEF Whole
<1>2. /\ end \in 1 .. Len(q)
      /\ Ends(q[end])
      /\ q[end].no = shown + 1
  <2>1. CASE q[1].tag # "count"
    <3>1. end = 1
      BY <2>1 DEF response_end
    <3>2. q[1].tag \in {"ok", "err"}
      BY SMTT(40), <1>1, <2>1 DEF InPlace, rows_packets
    <3> QED
      BY <1>1, <3>1, <3>2 DEF Ends
  <2>2. CASE q[1].tag = "count"
    <3> DEFINE rows(i) == /\ i \in 1 .. Len(q)
                          /\ q[i].part = i /\ q[i].no = shown + 1
                          /\ q[i].tag = rows_packets[i]
    <3>1. rows(1)
      BY <1>1, <2>2 DEF rows_packets
    <3>2. ASSUME NEW i \in 1 .. 5, rows(i)
          PROVE  rows(i + 1)
      <4>1. rows_packets[i] \notin {"ok", "err"}
        BY DEF rows_packets
      <4>2. ~Ends(q[i])
        BY <3>2, <4>1 DEF Ends
      <4>3. i \in 1 .. Len(q) - 1
        BY <1>1, <3>2, <4>2
      <4>4. q[i + 1].part = i + 1 /\ q[i + 1].no = shown + 1
        BY <1>1, <3>2, <4>2, <4>3 DEF Follows
      <4>5. q[i + 1].tag = rows_packets[i + 1]
        <5>1. InPlace(q[i + 1])
          BY <1>1, <4>3
        <5> QED
          BY <4>4, <5>1 DEF InPlace
      <4> QED
        BY <4>3, <4>4, <4>5
    <3> HIDE DEF rows
    <3>3. rows(2) /\ rows(3) /\ rows(4) /\ rows(5) /\ rows(6)
      <4>1. rows(2)
        BY <3>1, <3>2
      <4>2. rows(3)
        BY <3>2, <4>1
      <4>3. rows(4)
        BY <3>2, <4>2
      <4>4. rows(5)
        BY <3>2, <4>3
      <4>5. rows(6)
        BY <3>2, <4>4
      <4> QED
        BY <4>1, <4>2, <4>3, <4>4, <4>5
    <3>4. /\ Len(q) >= 6
          /\ q[4].tag = "row" /\ q[5].tag = "row" /\ q[6].tag = "eof"
          /\ q[6].part = 6 /\ q[6].no = shown + 1
      BY <1>1, <3>3 DEF rows, rows_packets
    <3> DEFINE eofs == {i \in 4 .. Len(q) : q[i].tag = "eof"}
    <3>5. Min(eofs) = 6 /\ eofs # {}
      <4>1. eofs \in SUBSET Nat /\ 6 \in eofs
        BY <1>1, <3>4
      <4>2. \A k \in eofs : 6 <= k
        <5>1. ASSUME NEW k \in eofs, k < 6
              PROVE  FALSE
          <6>1. k = 4 \/ k = 5
            BY <1>1, <5>1
          <6> QED
            BY <3>4, <5>1, <6>1
        <5> QED
          BY <1>1, <5>1
      <4> QED
        BY <4>1, <4>2, LeastOf
    <3>6. end = 6
      BY <2>2, <3>5 DEF response_end
    <3> QED
      BY <1>1, <3>4, <3>6 DEF Ends
  <2> QED
    BY <2>1, <2>2
<1> HIDE DEF end
<1>3. /\ r \in Seq(Packet) /\ Len(r) = Len(q) - end
      /\ \A i \in 1 .. Len(r) : r[i] = q[end + i]
  BY <1>1, <1>2
<1> HIDE DEF r
<1>4. r = <<>> => shown + 1 = produced
  BY <1>1, <1>2, <1>3
<1>5. ASSUME r # <<>>
      PROVE  /\ r[1].part = 1 /\ r[1].no = shown + 1 + 1
             /\ Ends(r[Len(r)]) /\ r[Len(r)].no = produced
  <2>1. Len(r) \in Nat \ {0} /\ end \in 1 .. Len(q) - 1
    BY <1>1, <1>2, <1>3, <1>5
  <2>2. r[1] = q[end + 1] /\ r[Len(r)] = q[Len(q)]
    BY SMTT(40), <1>1, <1>2, <1>3, <2>1
  <2>3. Follows(q[end], q[end + 1])
    BY <1>1, <2>1
  <2> QED
    BY <1>1, <1>2, <2>2, <2>3 DEF Follows
<1>6. ASSUME NEW i \in 1 .. Len(r)
      PROVE  InPlace(r[i]) /\ r[i].no <= produced
  <2>1. end + i \in 1 .. Len(q) /\ r[i] = q[end + i]
    BY <1>1, <1>2, <1>3
  <2> QED
    BY <1>1, <2>1
<1>7. ASSUME NEW i \in 1 .. Len(r) - 1
      PROVE  Follows(r[i], r[i + 1])
  <2>1. /\ i \in 1 .. Len(r) /\ i + 1 \in 1 .. Len(r)
        /\ end + i \in 1 .. Len(q) - 1 /\ end + (i + 1) = (end + i) + 1
    BY <1>1, <1>2, <1>3
  <2>2. r[i] = q[end + i] /\ r[i + 1] = q[(end + i) + 1]
    BY <1>3, <2>1
  <2> QED
    BY <1>1, <2>1, <2>2
<1>8. Whole(r, shown + 1, produced)
  BY <1>4, <1>5, <1>6, <1>7 DEF Whole
<1>9. end > 0
  BY <1>1, <1>2
<1> QED
  BY <1>3, <1>8, <1>9 DEF r, end

-------------------------------------------------------------------------------
(* What holds of a connection: of its task sv, its client cl, the requests   *)
(* q on their way and the responses r on their way.                          *)

Connecting(sv, cl, q, r) ==
  /\ cl.sent = 0 /\ cl.shown = 0 /\ cl.answer = 0
  /\ cl.in_step /\ cl.on_prompt = "unset"
  /\ sv.request = 0 /\ sv.produced = 0 /\ sv.batch = <<>>
  /\ \/ /\ cl.phase = "connect" /\ sv.phase = "greet"
        /\ q = <<>> /\ r = <<>>
     \/ /\ cl.phase = "connect" /\ sv.phase = "login"
        /\ q = <<>> /\ \E g : r = <<g>>
     \/ /\ cl.phase = "login" /\ sv.phase = "login"
        /\ r = <<>> /\ \E h : q = <<h>>
     \/ /\ cl.phase = "login" /\ sv.phase = "ready"
        /\ q = <<>> /\ \E p : r = <<p>> /\ p.tag = "ok"
     \/ /\ cl.phase = "login" /\ sv.phase = "closed"
        /\ q = <<>> /\ \E p : r = <<p>> /\ p.tag = "err"

\* Every request so far has been read and answered.
AtRest(sv, cl, q) == sv.phase = "ready" /\ q = <<>> /\ sv.request = cl.sent

\* The one request that is not answered is on its way, is being executed, has
\* been answered.
Sent(sv, cl, q, r) ==
  /\ sv.phase = "ready" /\ sv.request + 1 = cl.sent /\ r = <<>>
  /\ \E req \in Request : q = <<req>> /\ single(req)

Executed(sv, cl, q, r) ==
  /\ sv.phase \in {"query", "running"} /\ sv.request = cl.sent
  /\ q = <<>> /\ r = <<>> /\ Len(sv.batch) = 1

Answered(sv, cl, q, r) ==
  /\ AtRest(sv, cl, q) /\ sv.produced = cl.shown + 1
  /\ \A i \in DOMAIN r : r[i].request = cl.sent

Dead(sv, r) == sv.phase = "closed" /\ r = <<>>

\* A client that has sent no batch has one request at most without an answer.
InStep(sv, cl, q, r) ==
  cl.in_step =>
    /\ cl.phase = "prompt" =>
         /\ cl.answer \in {0, cl.sent} /\ r = <<>>
         /\ sv.phase = "closed" \/ AtRest(sv, cl, q)
    /\ cl.phase = "asked" /\ ~cl.more =>
         \/ Sent(sv, cl, q, r) \/ Executed(sv, cl, q, r)
         \/ Answered(sv, cl, q, r) \/ Dead(sv, r)

\* The request may change the database of the session.
switches(req) ==
  \/ req.kind = "init_db"
  \/ \E i \in DOMAIN statements(req) : statements(req)[i].start = "use"

\* The request is a USE of the database, or the server cannot parse it.
Uses(req, db) ==
  \/ req.kind = "unparsable"
  \/ /\ statements(req) # <<>>
     /\ statements(req)[1].start = "use" /\ statements(req)[1].db = db

\* A prompt that is right stays so: nothing is on its way to change the
\* database.
Right(sv, cl, q) ==
  cl.on_prompt = "yes" =>
    /\ cl.prompt = sv.database
    /\ \A i \in DOMAIN q : ~switches(q[i])
    /\ \A i \in DOMAIN sv.batch : sv.batch[i].start \notin {"use", "init_db"}

\* A prompt becomes right when its USE is answered with OK.
Asked(sv, cl, q, r) ==
  cl.on_prompt = "asked" =>
    /\ cl.phase = "asked" /\ ~cl.more
    /\ cl.in_step /\ sv.phase # "closed" =>
         /\ \A i \in DOMAIN q : Uses(q[i], cl.prompt)
         /\ \A i \in DOMAIN sv.batch :
              sv.batch[i].start = "use" /\ sv.batch[i].db = cl.prompt
         /\ r # <<>> /\ r[1].tag = "ok" => sv.database = cl.prompt

Talking(sv, cl, q, r) ==
  /\ cl.phase \in {"prompt", "asked", "gone"}
  /\ sv.phase \notin {"greet", "login"}
  /\ q \in Seq(Request) /\ r \in Seq(Packet)
  /\ (sv.phase \in {"query", "running"}) = (sv.batch # <<>>)
  /\ cl.phase # "gone" => \A i \in DOMAIN q : q[i].kind # "quit"
  /\ cl.phase = "asked" => cl.answer = 0
  /\ Whole(r, cl.shown, sv.produced)
  /\ InStep(sv, cl, q, r)
  /\ Right(sv, cl, q)
  /\ Asked(sv, cl, q, r)

Good(sv, cl, q, r) == Connecting(sv, cl, q, r) \/ Talking(sv, cl, q, r)

TalkInv ==
  /\ server \in [Sessions -> ServerRec]
  /\ client \in [Sessions -> ClientRec]
  /\ to_server = [c \in Sessions |-> to_server[c]]
  /\ to_client = [c \in Sessions |-> to_client[c]]
  /\ \A c \in Sessions :
       Good(server[c], client[c], to_server[c], to_client[c])

\* A step of one connection leaves the others as they are.
LEMMA Moved ==
  ASSUME TalkInv, NEW c \in Sessions,
         NEW sv \in ServerRec, NEW cl \in ClientRec, NEW q, NEW r,
         server' = [server EXCEPT ![c] = sv],
         client' = [client EXCEPT ![c] = cl],
         to_server' = [to_server EXCEPT ![c] = q],
         to_client' = [to_client EXCEPT ![c] = r],
         Good(sv, cl, q, r)
  PROVE  TalkInv'
<1>1. /\ server' \in [Sessions -> ServerRec]
      /\ client' \in [Sessions -> ClientRec]
      /\ to_server' = [d \in Sessions |-> to_server'[d]]
      /\ to_client' = [d \in Sessions |-> to_client'[d]]
  BY DEF TalkInv
<1>2. ASSUME NEW d \in Sessions
      PROVE  Good(server'[d], client'[d], to_server'[d], to_client'[d])
  <2>1. CASE d = c
    <3>1. /\ server'[d] = sv /\ client'[d] = cl
          /\ to_server'[d] = q /\ to_client'[d] = r
      BY <2>1 DEF TalkInv
    <3> QED
      BY <3>1
  <2>2. CASE d # c
    <3>1. /\ server'[d] = server[d] /\ client'[d] = client[d]
          /\ to_server'[d] = to_server[d] /\ to_client'[d] = to_client[d]
      BY <2>2 DEF TalkInv
    <3> QED
      BY <3>1 DEF TalkInv
  <2> QED
    BY <2>1, <2>2
<1> QED
  BY <1>1, <1>2 DEF TalkInv

\* Putting back what is there changes nothing.
LEMMA NotMoved ==
  ASSUME TalkInv, NEW c \in Sessions
  PROVE  /\ server = [server EXCEPT ![c] = server[c]]
         /\ client = [client EXCEPT ![c] = client[c]]
         /\ to_server = [to_server EXCEPT ![c] = to_server[c]]
         /\ to_client = [to_client EXCEPT ![c] = to_client[c]]
         /\ server[c] \in ServerRec /\ client[c] \in ClientRec
         /\ Good(server[c], client[c], to_server[c], to_client[c])
  BY DEF TalkInv

\* What is known of a request
LEMMA RequestType ==
  ASSUME NEW req \in Request
  PROVE  /\ statements(req) \in Seq(Run)
         /\ \A i \in DOMAIN statements(req) :
              statements(req)[i].start # "init_db"
         /\ req.kind = "init_db" => req.db \in DBs
         /\ req.kind # "query" => statements(req) = <<>>
         /\ req.kind = "query" => statements(req) = req.statements
<1>1. CASE req.kind = "query"
  <2>1. req.statements \in Seq(Statement)
    BY <1>1 DEF Request
  <2>2. /\ DOMAIN req.statements = 1 .. Len(req.statements)
        /\ \A i \in DOMAIN req.statements : req.statements[i] \in Statement
    BY <2>1
  <2>3. \A st \in Statement : st \in Run /\ st.start # "init_db"
    BY DEF Statement, Run
  <2>4. req.statements \in Seq(Run)
    BY <2>1, <2>2, <2>3
  <2> QED
    BY <1>1, <2>2, <2>3, <2>4 DEF statements
<1>2. CASE req.kind # "query"
  <2>1. req.kind = "init_db" => req.db \in DBs
    BY <1>2 DEF Request
  <2> QED
    BY <1>2, <2>1 DEF statements
<1> QED
  BY <1>1, <1>2

\* What the client sees of a request.
LEMMA RequestText ==
  ASSUME NEW req \in Request, parse_use_db(req) # NoName
  PROVE  /\ parse_use_db(req) \in DBs \cup {Garbled}
         /\ \/ req.kind = "unparsable"
            \/ statements(req) # <<>> /\ statements(req)[1].start = "use"
<1>1. req.kind \in {"query", "unparsable"} /\ req.text.front = "USE "
  BY DEF parse_use_db
<1>2. CASE req.kind = "query"
  <2>1. /\ req.text \in Text
        /\ req.statements # <<>> /\ req.statements[1].start = "use"
    BY <1>1, <1>2 DEF Request
  <2> QED
    BY <1>1, <1>2, <2>1 DEF parse_use_db, statements, Text
<1>3. CASE req.kind = "unparsable"
  <2>1. req.text \in Text
    BY <1>1, <1>3 DEF Request
  <2> QED
    BY <1>1, <1>3, <2>1 DEF parse_use_db, Text
<1> QED
  BY <1>1, <1>2, <1>3

-------------------------------------------------------------------------------
(* Every step keeps it.                                                     *)

\* A stream without packets is whole when everything was shown.
LEMMA NothingWhole == ASSUME NEW n PROVE Whole(<<>>, n, n)
  BY DEF Whole

\* A stream of one packet
LEMMA OnePacket == ASSUME NEW g PROVE Head(<<g>>) = g /\ Tail(<<g>>) = <<>>
  OBVIOUS

\* The greeting, the response to it, and the answer.
LEMMA LoginTalks ==
  ASSUME TalkInv, NEW c \in Sessions, LoginStep(c)
  PROVE  TalkInv'
<1> DEFINE sv == server[c]
           cl == client[c]
           q  == to_server[c]
           r  == to_client[c]
<1>1. sv \in ServerRec /\ cl \in ClientRec /\ Good(sv, cl, q, r)
  BY NotMoved
<1>2. CASE Greet(c)
  <2>1. Connecting(sv, cl, q, r) /\ sv.phase = "greet"
    BY <1>1, <1>2 DEF Greet, Good, Talking
  <2> DEFINE sv1 == [sv EXCEPT !.phase = "login"]
             r1 == <<build_handshake(scramble(c), ServerCaps)>>
  <2>2. sv1 \in ServerRec
    BY <1>1 DEF ServerRec
  <2>3. Connecting(sv1, cl, q, r1)
    BY <1>1, <2>1 DEF Connecting, ServerRec
  <2>4. /\ server' = [server EXCEPT ![c] = sv1]
        /\ to_client' = [to_client EXCEPT ![c] = r1]
        /\ UNCHANGED <<client, to_server>>
    BY <1>2 DEF Greet, Server, goes
  <2> HIDE DEF sv1, r1
  <2> QED
    BY ZenonT(40), <1>1, <2>2, <2>3, <2>4, NotMoved, Moved DEF Good
<1>3. CASE SendLogin(c)
  <2>1. Connecting(sv, cl, q, r) /\ cl.phase = "connect" /\ sv.phase = "login"
    BY <1>1, <1>3 DEF SendLogin, Good, Talking, Connecting
  <2> DEFINE cl1 == [cl EXCEPT !.phase = "login"]
             q1 == <<build_handshake_response(parse_server_handshake(Head(r)),
                                              setup.client[c])>>
  <2>2. cl1 \in ClientRec
    BY <1>1 DEF ClientRec
  <2>3. Tail(r) = <<>>
    BY <2>1, OnePacket DEF Connecting
  <2>4. Connecting(sv, cl1, q1, <<>>)
    BY <1>1, <2>1 DEF Connecting, ClientRec
  <2>5. /\ client' = [client EXCEPT ![c] = cl1]
        /\ to_server' = [to_server EXCEPT ![c] = q1]
        /\ to_client' = [to_client EXCEPT ![c] = <<>>]
        /\ UNCHANGED server
    BY <1>3, <2>3 DEF SendLogin, Client
  <2> HIDE DEF cl1, q1
  <2> QED
    BY <1>1, <2>2, <2>4, <2>5, NotMoved, Moved DEF Good
<1>4. CASE Login(c)
  <2>1. Connecting(sv, cl, q, r) /\ sv.phase = "login" /\ cl.phase = "login"
    BY <1>1, <1>4 DEF Login, Good, Talking, Connecting
  <2> DEFINE ok  == accepts(c, Head(q))
             sv1 == [[sv EXCEPT !.phase = IF ok THEN "ready" ELSE "closed"]
                       EXCEPT !.login = IF ok THEN "accepted" ELSE "denied"]
             r1  == packets(IF ok THEN <<"ok">> ELSE <<"err">>, 0, 0)
  <2>2. sv1 \in ServerRec
    BY <1>1 DEF ServerRec
  <2>3. Tail(q) = <<>>
    BY <2>1, OnePacket DEF Connecting
  <2>4. r1 = <<[tag |-> IF ok THEN "ok" ELSE "err", no |-> 0, part |-> 1,
                request |-> 0]>>
    <3>1. CASE ok
      BY <3>1 DEF packets
    <3>2. CASE ~ok
      BY <3>2 DEF packets
    <3> QED
      BY <3>1, <3>2
  <2>5. Connecting(sv1, cl, <<>>, r1)
    <3>1. CASE ok
      BY <1>1, <2>1, <2>4, <3>1 DEF Connecting, ServerRec
    <3>2. CASE ~ok
      BY <1>1, <2>1, <2>4, <3>2 DEF Connecting, ServerRec
    <3> QED
      BY <3>1, <3>2
  <2>6. /\ server' = [server EXCEPT ![c] = sv1]
        /\ to_server' = [to_server EXCEPT ![c] = <<>>]
        /\ to_client' = [to_client EXCEPT ![c] = r1]
        /\ UNCHANGED client
    BY <1>4, <2>3 DEF Login, Server, goes
  <2> HIDE DEF sv1, r1
  <2> QED
    BY <1>1, <2>2, <2>5, <2>6, NotMoved, Moved DEF Good
<1>5. CASE ReadLogin(c)
  <2>1. /\ Connecting(sv, cl, q, r) /\ cl.phase = "login"
        /\ q = <<>>
        /\ \/ sv.phase = "ready" /\ Head(r).tag = "ok"
           \/ sv.phase = "closed" /\ Head(r).tag = "err"
        /\ Tail(r) = <<>>
    <3>1. Connecting(sv, cl, q, r) /\ cl.phase = "login" /\ r # <<>>
      BY <1>1, <1>5 DEF ReadLogin, Good, Talking
    <3> QED
      BY <3>1, OnePacket DEF Connecting
  <2> DEFINE cl1 == [cl EXCEPT !.phase = IF Head(r).tag = "ok"
                                         THEN "prompt" ELSE "gone"]
  <2>2. cl1 \in ClientRec
    BY <1>1 DEF ClientRec
  <2>3. Talking(sv, cl1, <<>>, <<>>)
    <3>1. /\ cl1.phase = IF Head(r).tag = "ok" THEN "prompt" ELSE "gone"
          /\ cl1.sent = 0 /\ cl1.shown = 0 /\ cl1.answer = 0
          /\ cl1.on_prompt = "unset"
      BY <1>1, <2>1 DEF Connecting, ClientRec
    <3>2. sv.request = 0 /\ sv.produced = 0 /\ sv.batch = <<>>
      BY <2>1 DEF Connecting
    <3> HIDE DEF cl1
    <3>3. Whole(<<>>, cl1.shown, sv.produced)
      BY <3>1, <3>2, NothingWhole
    <3> QED
      BY <2>1, <3>1, <3>2, <3>3
         DEF Talking, InStep, AtRest, Right, Asked
  <2>4. /\ client' = [client EXCEPT ![c] = cl1]
        /\ to_client' = [to_client EXCEPT ![c] = <<>>]
        /\ to_server' = [to_server EXCEPT ![c] = <<>>]
        /\ server' = [server EXCEPT ![c] = sv]
    BY <1>5, <2>1, NotMoved DEF ReadLogin, Client
  <2> HIDE DEF cl1, sv
  <2>5. Good(sv, cl1, <<>>, <<>>)
    BY <2>3 DEF Good
  <2> QED
    BY <1>1, <2>2, <2>4, <2>5, Moved
<1> QED
  BY <1>2, <1>3, <1>4, <1>5 DEF LoginStep

\* A request appended to those on their way
LEMMA AppendRequest ==
  ASSUME NEW q \in Seq(Request), NEW req \in Request
  PROVE  LET q1 == Append(q, req)
         IN  /\ q1 \in Seq(Request)
             /\ \A i \in DOMAIN q1 :
                  (i \in DOMAIN q /\ q1[i] = q[i]) \/ q1[i] = req
             /\ q = <<>> => q1 = <<req>>
<1> DEFINE q1 == Append(q, req)
<1>1. q1 \in Seq(Request) /\ Len(q1) = Len(q) + 1 /\ Len(q) \in Nat
  OBVIOUS
<1>2. DOMAIN q1 = 1 .. Len(q) + 1 /\ DOMAIN q = 1 .. Len(q)
  BY <1>1
<1>3. (\A i \in 1 .. Len(q) : q1[i] = q[i]) /\ q1[Len(q) + 1] = req
  OBVIOUS
<1>4. q = <<>> => q1 = <<req>>
  OBVIOUS
<1> HIDE DEF q1
<1> QED
  BY <1>1, <1>2, <1>3, <1>4 DEF q1

\* The client asks.
LEMMA AskTalks ==
  ASSUME TalkInv, NEW c \in Sessions, NEW req \in Requests, Ask(c, req)
  PROVE  TalkInv'
<1> DEFINE sv == server[c]
           cl == client[c]
           q  == to_server[c]
           r  == to_client[c]
           q1 == Append(q, req)
           named == parse_use_db(req)
           lone == single(req)
           phase == IF req.kind = "quit" THEN "gone" ELSE "asked"
           prompt == IF named = NoName THEN cl.prompt ELSE named
           on_prompt == IF switches_unseen(req) THEN "no"
                        ELSE IF named # NoName THEN "asked" ELSE cl.on_prompt
           more == ~lone
           cl1 == [cl EXCEPT !.phase = phase, !.sent = @ + 1,
                             !.prompt = prompt, !.on_prompt = on_prompt,
                             !.more = more, !.answer = 0]
<1>1. /\ sv \in ServerRec /\ cl \in ClientRec /\ cl.phase = "prompt"
      /\ Talking(sv, cl, q, r)
  BY NotMoved DEF Ask, Good, Connecting
<1>2. /\ req \in Request
      /\ statements(req) \in Seq(Run)
      /\ req.kind \in {"init_db", "quit"} => statements(req) = <<>>
      /\ DOMAIN statements(req) = 1 .. Len(statements(req))
      /\ Len(statements(req)) \in Nat
  BY RequestType, ConnectionAssumption
<1>3. /\ named # NoName => \/ req.kind = "unparsable"
                           \/ /\ statements(req) # <<>>
                              /\ statements(req)[1].start = "use"
      /\ named \in DBs \cup {NoName, Garbled}
      /\ req.kind = "unparsable" => statements(req) = <<>>
      /\ req.kind = "quit" => named = NoName
  BY <1>2, RequestType, RequestText DEF parse_use_db
<1>4. /\ cl1 \in ClientRec
      /\ cl1.phase = IF req.kind = "quit" THEN "gone" ELSE "asked"
      /\ cl1.sent = cl.sent + 1 /\ cl1.shown = cl.shown
      /\ cl1.prompt = IF named = NoName THEN cl.prompt ELSE named
      /\ cl1.on_prompt = IF switches_unseen(req) THEN "no"
                         ELSE IF named # NoName THEN "asked" ELSE cl.on_prompt
      /\ cl1.more = ~lone /\ cl1.answer = 0
      /\ cl1.in_step = cl.in_step
      /\ lone = single(req)
  <2>1. more \in BOOLEAN
    BY DEF single
  <2>2. phase \in {"gone", "asked"}
    OBVIOUS
  <2>3. prompt \in DBs \cup {NoName, Garbled}
    BY <1>1, <1>3 DEF ClientRec
  <2>4. on_prompt \in {"unset", "no", "asked", "yes"}
    BY <1>1 DEF ClientRec
  <2>5. lone = single(req)
    OBVIOUS
  <2> HIDE DEF lone, more, phase, prompt, on_prompt, sv, cl
  <2>6. /\ cl1 \in ClientRec
        /\ cl1.phase = phase /\ cl1.prompt = prompt
        /\ cl1.on_prompt = on_prompt /\ cl1.more = more
        /\ cl1.sent = cl.sent + 1 /\ cl1.shown = cl.shown
        /\ cl1.answer = 0 /\ cl1.in_step = cl.in_step
    <3>1. cl \in ClientRec
      BY <1>1
    <3>2. cl1 \in ClientRec
      <4>1. ASSUME NEW sent \in Nat, NEW answer \in Nat
            PROVE  [cl EXCEPT !.phase = phase, !.sent = sent, !.prompt = prompt,
                              !.on_prompt = on_prompt, !.more = more,
                              !.answer = answer] \in ClientRec
        BY Zenon, <2>1, <2>2, <2>3, <2>4, <3>1 DEF ClientRec
      <4>2. cl.sent + 1 \in Nat /\ 0 \in Nat
        BY <3>1 DEF ClientRec
      <4> QED
        BY <4>1, <4>2
    <3>3. /\ cl1.phase = phase /\ cl1.prompt = prompt
          /\ cl1.on_prompt = on_prompt /\ cl1.more = more
          /\ cl1.sent = cl.sent + 1 /\ cl1.shown = cl.shown
          /\ cl1.answer = 0 /\ cl1.in_step = cl.in_step
      BY <3>1 DEF ClientRec
    <3> QED
      BY <3>2, <3>3
  <2> QED
    BY <2>5, <2>6 DEF more, phase, prompt, on_prompt
<1>5. /\ q1 \in Seq(Request)
      /\ \A i \in DOMAIN q1 : (i \in DOMAIN q /\ q1[i] = q[i]) \/ q1[i] = req
      /\ q = <<>> => q1 = <<req>>
  BY <1>1, <1>2, AppendRequest DEF Talking
<1>6. /\ client' = [client EXCEPT ![c] = cl1]
      /\ to_server' = [to_server EXCEPT ![c] = q1]
      /\ UNCHANGED <<server, to_client>>
  BY DEF Ask, Client
<1> HIDE DEF cl1, q1, named, lone, more, phase, prompt, on_prompt
<1>7. InStep(sv, cl1, q1, r)
  <2>1. CASE cl.in_step /\ single(req) /\ sv.phase # "closed"
    <3>1. AtRest(sv, cl, q) /\ r = <<>>
      BY <1>1, <2>1 DEF Talking, InStep
    <3>2. Sent(sv, cl1, q1, r)
      BY <1>1, <1>2, <1>4, <1>5, <2>1, <3>1 DEF AtRest, Sent, ServerRec, ClientRec
    <3> QED
      BY <1>4, <3>2 DEF InStep
  <2>2. CASE cl.in_step /\ sv.phase = "closed"
    <3>1. Dead(sv, r)
      BY <1>1, <2>2 DEF Talking, InStep, Dead
    <3> QED
      BY <1>4, <3>1 DEF InStep
  <2>3. CASE ~cl.in_step \/ ~single(req)
    BY <1>4, <2>3 DEF InStep
  <2> QED
    BY <2>1, <2>2, <2>3
<1>8. Right(sv, cl1, q1)
  <2> SUFFICES ASSUME cl1.on_prompt = "yes"
               PROVE  /\ cl1.prompt = sv.database
                      /\ \A i \in DOMAIN q1 : ~switches(q1[i])
                      /\ \A i \in DOMAIN sv.batch :
                           sv.batch[i].start \notin {"use", "init_db"}
    BY DEF Right
  <2>1. ~switches_unseen(req) /\ named = NoName /\ cl.on_prompt = "yes"
    BY <1>4
  <2>2. ~switches(req)
    <3>1. req.kind # "init_db"
      BY <2>1 DEF switches_unseen
    <3>2. ASSUME NEW i \in DOMAIN statements(req),
                 statements(req)[i].start = "use"
          PROVE  FALSE
      <4>1. statements(req)[i].db = named
        BY <2>1, <3>2 DEF switches_unseen, named
      <4>2. statements(req)[i] \in Run
        BY <1>2, <3>2
      <4>3. statements(req)[i].db \in DBs
        BY <4>2 DEF Run
      <4> QED
        BY <2>1, <4>1, <4>3, ConnectionAssumption
    <3> QED
      BY <3>1, <3>2 DEF switches
  <2>3. cl.prompt = sv.database /\ (\A i \in DOMAIN q : ~switches(q[i]))
        /\ \A i \in DOMAIN sv.batch : sv.batch[i].start \notin {"use", "init_db"}
    BY <1>1, <2>1 DEF Talking, Right
  <2> QED
    BY <1>4, <1>5, <2>1, <2>2, <2>3
<1>9. Asked(sv, cl1, q1, r)
  <2> SUFFICES ASSUME cl1.on_prompt = "asked"
               PROVE  /\ cl1.phase = "asked" /\ ~cl1.more
                      /\ cl1.in_step /\ sv.phase # "closed" =>
                           /\ \A i \in DOMAIN q1 : Uses(q1[i], cl1.prompt)
                           /\ \A i \in DOMAIN sv.batch :
                                /\ sv.batch[i].start = "use"
                                /\ sv.batch[i].db = cl1.prompt
                           /\ r # <<>> /\ r[1].tag = "ok" =>
                                sv.database = cl1.prompt
    BY DEF Asked
  <2>1. ~switches_unseen(req) /\ named # NoName
    BY <1>1, <1>4 DEF Talking, Asked
  <2>2. single(req)
    BY <1>2, <1>3, <2>1 DEF switches_unseen, single
  <2>3. statements(req) # <<>> => statements(req)[1].db = named
    BY <1>2, <1>3, <2>1 DEF switches_unseen, named
  <2>4. cl1.phase = "asked" /\ ~cl1.more
    BY <1>2, <1>3, <1>4, <2>1, <2>2
  <2>5. Uses(req, cl1.prompt)
    BY <1>3, <1>4, <2>1, <2>3 DEF Uses
  <2>6. ASSUME cl1.in_step, sv.phase # "closed"
        PROVE  q = <<>> /\ r = <<>> /\ sv.batch = <<>>
    BY <1>1, <1>4, <2>6 DEF Talking, InStep, AtRest
  <2>7. ASSUME cl1.in_step, sv.phase # "closed"
        PROVE  /\ \A i \in DOMAIN q1 : Uses(q1[i], cl1.prompt)
               /\ DOMAIN sv.batch = {}
               /\ r = <<>>
    BY <1>5, <2>5, <2>6, <2>7
  <2> QED
    BY <2>4, <2>7
<1>10. Talking(sv, cl1, q1, r)
  <2>1. cl1.phase # "gone" => \A i \in DOMAIN q1 : q1[i].kind # "quit"
    BY <1>1, <1>4, <1>5 DEF Talking
  <2> QED
    BY <1>1, <1>4, <1>5, <1>7, <1>8, <1>9, <2>1 DEF Talking
<1>11. /\ server' = [server EXCEPT ![c] = sv]
       /\ to_client' = [to_client EXCEPT ![c] = r]
  BY <1>6, NotMoved
<1>12. Good(sv, cl1, q1, r)
  BY <1>10 DEF Good
<1> HIDE DEF sv, r
<1> QED
  BY <1>1, <1>4, <1>6, <1>11, <1>12, Moved

\* The client reads a response.
LEMMA ReceiveTalks ==
  ASSUME TalkInv, NEW c \in Sessions, Receive(c)
  PROVE  TalkInv'
<1> DEFINE sv == server[c]
           cl == client[c]
           q  == to_server[c]
           r  == to_client[c]
           got == r[1]
           end == response_end(r)
           r1 == SubSeq(r, end + 1, Len(r))
           in_step == cl.in_step /\ ~cl.more
           on_prompt == IF cl.on_prompt # "asked" THEN cl.on_prompt
                        ELSE IF got.tag = "ok" /\ cl.in_step THEN "yes" ELSE "no"
           cl1 == [cl EXCEPT !.phase = "prompt", !.shown = @ + 1,
                             !.answer = got.request, !.in_step = in_step,
                             !.on_prompt = on_prompt]
<1>1. /\ sv \in ServerRec /\ cl \in ClientRec /\ cl.phase = "asked"
      /\ Talking(sv, cl, q, r)
      /\ end > 0
  BY NotMoved DEF Receive, Good, Connecting
<1>2. r # <<>> /\ r \in Seq(Packet) /\ Whole(r, cl.shown, sv.produced)
  BY <1>1 DEF Talking, response_end
<1>3. cl.shown \in Nat /\ sv.produced \in Nat
  BY <1>1 DEF ClientRec, ServerRec
<1>4. r1 \in Seq(Packet) /\ Whole(r1, cl.shown + 1, sv.produced)
  BY <1>2, <1>3, DropWhole
<1>5. 1 \in DOMAIN r /\ got \in Packet
  BY <1>2
<1>6. /\ client' = [client EXCEPT ![c] = cl1]
      /\ to_client' = [to_client EXCEPT ![c] = r1]
      /\ UNCHANGED <<server, to_server>>
  BY DEF Receive, Client
<1>7. /\ cl1 \in ClientRec
      /\ cl1.phase = "prompt" /\ cl1.shown = cl.shown + 1
      /\ cl1.sent = cl.sent /\ cl1.prompt = cl.prompt
      /\ cl1.answer = got.request /\ cl1.in_step = in_step
      /\ cl1.on_prompt = on_prompt
  <2>1. got.request \in Nat
    BY <1>5 DEF Packet
  <2>2. in_step \in BOOLEAN
    BY <1>1 DEF ClientRec
  <2>3. on_prompt \in {"unset", "no", "asked", "yes"}
    BY <1>1 DEF ClientRec
  <2> HIDE DEF got, in_step, on_prompt, cl
  <2>4. cl1 \in ClientRec
    <3>1. ASSUME NEW shown \in Nat
          PROVE  [cl EXCEPT !.phase = "prompt", !.shown = shown,
                            !.answer = got.request, !.in_step = in_step,
                            !.on_prompt = on_prompt] \in ClientRec
      BY Zenon, <1>1, <2>1, <2>2, <2>3 DEF ClientRec
    <3>2. cl.shown + 1 \in Nat
      BY <1>3
    <3> QED
      BY <3>1, <3>2
  <2> QED
    BY <1>1, <2>4 DEF ClientRec
<1> HIDE DEF cl1, r1, end, got
<1>8. ASSUME cl.in_step, ~cl.more
      PROVE  Answered(sv, cl, q, r) /\ got.request = cl.sent /\ r1 = <<>>
  <2>1. Answered(sv, cl, q, r)
    BY <1>1, <1>2, <1>8 DEF Talking, InStep, Sent, Executed, Dead
  <2>2. got.request = cl.sent
    BY <1>5, <2>1 DEF Answered, got
  <2>3. r1 = <<>>
    <3> SUFFICES ASSUME r1 # <<>> PROVE FALSE
      OBVIOUS
    <3>1. sv.produced = cl.shown + 1
      BY <2>1 DEF Answered
    <3>2. r1[1].no = cl.shown + 1 + 1
      BY <1>4 DEF Whole
    <3>3. 1 \in 1 .. Len(r1)
      BY <1>4
    <3>4. r1[1].no <= sv.produced
      BY <1>4, <3>3 DEF Whole
    <3> QED
      BY <1>3, <3>1, <3>2, <3>4
  <2> QED
    BY <2>1, <2>2, <2>3
<1>9. InStep(sv, cl1, q, r1)
  <2> SUFFICES ASSUME cl1.in_step
               PROVE  /\ cl1.answer \in {0, cl1.sent} /\ r1 = <<>>
                      /\ sv.phase = "closed" \/ AtRest(sv, cl1, q)
    BY <1>7 DEF InStep
  <2>1. cl.in_step /\ ~cl.more
    BY <1>7
  <2> QED
    BY <1>7, <1>8, <2>1 DEF Answered, AtRest
<1>10. Right(sv, cl1, q)
  <2>1. CASE cl.on_prompt # "asked"
    BY <1>1, <1>7, <2>1 DEF Talking, Right
  <2>2. CASE cl.on_prompt = "asked" /\ cl1.on_prompt = "yes"
    <3>1. got.tag = "ok" /\ cl.in_step
      BY <1>7, <2>2
    <3>2. ~cl.more
      BY <1>1, <2>2 DEF Talking, Asked
    <3>3. sv.phase = "ready" /\ q = <<>>
      BY <1>8, <3>1, <3>2 DEF Answered, AtRest
    <3>4. sv.batch = <<>> /\ sv.database = cl.prompt
      BY <1>1, <1>2, <2>2, <3>1, <3>3 DEF Talking, Asked, got
    <3> QED
      BY <1>7, <3>3, <3>4 DEF Right
  <2>3. CASE cl1.on_prompt # "yes"
    BY <2>3 DEF Right
  <2> QED
    BY <2>1, <2>2, <2>3
<1>11. Asked(sv, cl1, q, r1)
  BY <1>7 DEF Asked
<1>12. Talking(sv, cl1, q, r1)
  <2>1. \A i \in DOMAIN q : q[i].kind # "quit"
    BY <1>1 DEF Talking
  <2> QED
    BY <1>1, <1>4, <1>7, <1>9, <1>10, <1>11, <2>1 DEF Talking
<1>13. /\ server' = [server EXCEPT ![c] = sv]
       /\ to_server' = [to_server EXCEPT ![c] = q]
  BY <1>6, NotMoved
<1>14. Good(sv, cl1, q, r1)
  BY <1>12 DEF Good
<1> HIDE DEF sv, q
<1> QED
  BY <1>1, <1>6, <1>7, <1>13, <1>14, Moved

\* The stream has ended, or the client leaves.
LEMMA NothingTalks ==
  ASSUME TalkInv, NEW c \in Sessions, ReceiveNothing(c) \/ Exit(c)
  PROVE  TalkInv'
<1> DEFINE sv == server[c]
           cl == client[c]
           q  == to_server[c]
           r  == to_client[c]
<1>1. sv \in ServerRec /\ cl \in ClientRec /\ Good(sv, cl, q, r)
  BY NotMoved
<1>2. CASE ReceiveNothing(c)
  <2>1. /\ cl.phase = "asked" /\ sv.phase = "closed" /\ response_end(r) = 0
        /\ Talking(sv, cl, q, r)
    BY <1>1, <1>2 DEF ReceiveNothing, Good, Connecting
  <2> DEFINE cl1 == [cl EXCEPT !.phase = "prompt", !.on_prompt = "no"]
  <2>2. /\ cl1 \in ClientRec
        /\ cl1.phase = "prompt" /\ cl1.on_prompt = "no"
        /\ cl1.sent = cl.sent /\ cl1.shown = cl.shown
        /\ cl1.answer = cl.answer /\ cl1.in_step = cl.in_step
    BY <1>1 DEF ClientRec
  <2>3. r = <<>>
    <3>1. cl.shown \in Nat /\ sv.produced \in Nat
      BY <1>1 DEF ClientRec, ServerRec
    <3>2. r # <<>> => response_end(r) > 0
      BY <2>1, <3>1, DropWhole DEF Talking
    <3> QED
      BY <2>1, <3>2
  <2>4. /\ client' = [client EXCEPT ![c] = cl1]
        /\ UNCHANGED <<server, to_server, to_client>>
    BY <1>2 DEF ReceiveNothing, Client
  <2> HIDE DEF cl1
  <2>5. Talking(sv, cl1, q, r)
    BY <2>1, <2>2, <2>3 DEF Talking, InStep, Right, Asked
  <2>6. Good(sv, cl1, q, r)
    BY <2>5 DEF Good
  <2>7. /\ server' = [server EXCEPT ![c] = sv]
        /\ to_server' = [to_server EXCEPT ![c] = q]
        /\ to_client' = [to_client EXCEPT ![c] = r]
    BY <2>4, NotMoved
  <2> HIDE DEF sv, q, r
  <2> QED
    BY <1>1, <2>2, <2>4, <2>6, <2>7, Moved
<1>3. CASE Exit(c)
  <2>1. cl.phase = "prompt" /\ Talking(sv, cl, q, r)
    BY <1>1, <1>3 DEF Exit, Good, Connecting
  <2> DEFINE cl1 == [cl EXCEPT !.phase = "gone"]
  <2>2. /\ cl1 \in ClientRec
        /\ cl1.phase = "gone" /\ cl1.on_prompt = cl.on_prompt
        /\ cl1.shown = cl.shown /\ cl1.prompt = cl.prompt
    BY <1>1 DEF ClientRec
  <2>3. /\ client' = [client EXCEPT ![c] = cl1]
        /\ UNCHANGED <<server, to_server, to_client>>
    BY <1>3 DEF Exit, Client
  <2> HIDE DEF cl1
  <2>4. Talking(sv, cl1, q, r)
    BY <2>1, <2>2 DEF Talking, InStep, Right, Asked
  <2>5. Good(sv, cl1, q, r)
    BY <2>4 DEF Good
  <2>6. /\ server' = [server EXCEPT ![c] = sv]
        /\ to_server' = [to_server EXCEPT ![c] = q]
        /\ to_client' = [to_client EXCEPT ![c] = r]
    BY <2>3, NotMoved
  <2> HIDE DEF sv, q, r
  <2> QED
    BY <1>1, <2>2, <2>3, <2>5, <2>6, Moved
<1> QED
  BY <1>2, <1>3

\* The head and the tail of a sequence
LEMMA HeadTail ==
  ASSUME NEW S, NEW q \in Seq(S), q # <<>>
  PROVE  /\ 1 \in DOMAIN q /\ Head(q) = q[1] /\ Head(q) \in S
         /\ Tail(q) \in Seq(S) /\ Len(Tail(q)) = Len(q) - 1
         /\ \A i \in DOMAIN Tail(q) : i + 1 \in DOMAIN q /\ Tail(q)[i] = q[i + 1]
OBVIOUS

\* A command is taken from a client that is logged in.
LEMMA CommandTaken ==
  ASSUME TalkInv, NEW c \in Sessions, NEW kinds, Command(c, kinds)
  PROVE  LET sv == server[c]
             cl == client[c]
             q  == to_server[c]
             r  == to_client[c]
             q1 == Tail(q)
         IN  /\ Talking(sv, cl, q, r)
             /\ sv.phase = "ready" /\ sv.batch = <<>> /\ q # <<>>
             /\ Head(q).kind \in kinds /\ Head(q) \in Request
             /\ to_server' = [to_server EXCEPT ![c] = q1]
             /\ q1 \in Seq(Request)
             /\ \A i \in DOMAIN q1 : \E j \in DOMAIN q : q1[i] = q[j]
             /\ \E i \in DOMAIN q : Head(q) = q[i]
             /\ cl.in_step =>
                  /\ cl.phase # "prompt"
                  /\ cl.phase = "asked" /\ ~cl.more =>
                       /\ q1 = <<>> /\ r = <<>> /\ single(Head(q))
                       /\ sv.request + 1 = cl.sent /\ sv.produced = cl.shown
<1> DEFINE sv == server[c]
           cl == client[c]
           q  == to_server[c]
           r  == to_client[c]
           q1 == Tail(q)
<1>1. /\ sv.phase = "ready" /\ q # <<>> /\ Head(q).kind \in kinds
      /\ to_server' = [to_server EXCEPT ![c] = q1]
  BY DEF Command
<1>2. Talking(sv, cl, q, r)
  BY <1>1, NotMoved DEF Good, Connecting
<1>3. sv.batch = <<>> /\ q \in Seq(Request)
  BY <1>1, <1>2 DEF Talking
<1>4. /\ 1 \in DOMAIN q /\ Head(q) = q[1] /\ Head(q) \in Request
      /\ q1 \in Seq(Request)
      /\ \A i \in DOMAIN q1 : i + 1 \in DOMAIN q /\ q1[i] = q[i + 1]
  BY <1>1, <1>3, HeadTail
<1>5. ASSUME cl.in_step
      PROVE  cl.phase # "prompt"
  BY <1>1, <1>2, <1>5 DEF Talking, InStep, AtRest
<1>6. ASSUME cl.in_step, cl.phase = "asked", ~cl.more
      PROVE  /\ q1 = <<>> /\ r = <<>> /\ single(Head(q))
             /\ sv.request + 1 = cl.sent /\ sv.produced = cl.shown
  <2>1. Sent(sv, cl, q, r)
    BY <1>1, <1>2, <1>6 DEF Talking, InStep, Executed, Answered, AtRest, Dead
  <2>2. PICK req : q = <<req>> /\ single(req)
    BY <2>1 DEF Sent
  <2>3. q1 = <<>> /\ Head(q) = req
    BY <2>2, OnePacket
  <2>4. sv.produced = cl.shown
    BY <1>2, <2>1 DEF Talking, Sent, Whole
  <2> QED
    BY <2>1, <2>2, <2>3, <2>4 DEF Sent
<1> QED
  BY <1>1, <1>2, <1>3, <1>4, <1>5, <1>6

\* The server answers a request at once.
LEMMA AnswerTalks ==
  ASSUME TalkInv, NEW c \in Sessions, Answer(c)
  PROVE  TalkInv'
<1> DEFINE sv == server[c]
           cl == client[c]
           q  == to_server[c]
           r  == to_client[c]
           q1 == Tail(q)
           req == Head(q)
           tags == <<IF req.kind \in {"ping", "query"} THEN "ok" ELSE "err">>
           p == packets(tags, sv.produced + 1, sv.request + 1)
           r1 == r \o p
           sv1 == [sv EXCEPT !.phase = "ready", !.request = @ + 1,
                             !.produced = @ + 1]
<1>1. PICK kinds : Command(c, kinds)
  BY DEF Answer
<1>2. /\ Talking(sv, cl, q, r)
      /\ sv.phase = "ready" /\ sv.batch = <<>> /\ q # <<>>
      /\ to_server' = [to_server EXCEPT ![c] = q1]
      /\ q1 \in Seq(Request)
      /\ \A i \in DOMAIN q1 : \E j \in DOMAIN q : q1[i] = q[j]
      /\ \E i \in DOMAIN q : req = q[i]
      /\ cl.in_step =>
           /\ cl.phase # "prompt"
           /\ cl.phase = "asked" /\ ~cl.more =>
                /\ q1 = <<>> /\ r = <<>>
                /\ sv.request + 1 = cl.sent /\ sv.produced = cl.shown
  BY <1>1, CommandTaken
<1>3. sv \in ServerRec /\ cl \in ClientRec
  BY NotMoved
<1>4. /\ sv1 \in ServerRec
      /\ sv1.phase = "ready" /\ sv1.batch = <<>> /\ sv1.database = sv.database
      /\ sv1.request = sv.request + 1 /\ sv1.produced = sv.produced + 1
  <2>1. ASSUME NEW request \in Nat, NEW produced \in Nat
        PROVE  [sv EXCEPT !.phase = "ready", !.request = request,
                          !.produced = produced] \in ServerRec
    BY Zenon, <1>3 DEF ServerRec
  <2>2. sv.request + 1 \in Nat /\ sv.produced + 1 \in Nat
    BY <1>3 DEF ServerRec
  <2>3. sv1 \in ServerRec
    BY <2>1, <2>2
  <2> QED
    BY <1>2, <1>3, <2>3 DEF ServerRec
<1>5. sv.produced \in Nat /\ sv.request + 1 \in Nat /\ cl.shown \in Nat
  BY <1>3 DEF ServerRec, ClientRec
<1>6. tags \in Responses
  BY DEF Responses
<1>7. /\ server' = [server EXCEPT ![c] = sv1]
      /\ to_client' = [to_client EXCEPT ![c] = r1]
      /\ UNCHANGED client
      /\ statements(req) = <<>>
  BY DEF Answer, Server, asked_next, goes
<1>8. req.kind = "unparsable" => p[1].tag = "err"
  BY DEF packets
<1> HIDE DEF tags
<1>9. r1 \in Seq(Packet) /\ Whole(r1, cl.shown, sv1.produced)
  <2>1. r \in Seq(Packet) /\ Whole(r, cl.shown, sv.produced)
    BY <1>2 DEF Talking
  <2>2. sv1.produced = sv.produced + 1
    BY <1>4
  <2> DEFINE produced == sv.produced
             request  == sv.request + 1
             shown    == cl.shown
  <2>3. /\ produced \in Nat /\ request \in Nat /\ shown \in Nat
        /\ r \in Seq(Packet) /\ Whole(r, shown, produced)
    BY <1>5, <2>1
  <2>4. /\ r1 = r \o packets(tags, produced + 1, request)
        /\ sv1.produced = produced + 1
    BY <2>2
  <2> HIDE DEF sv, cl, r, r1, p, sv1, q1, produced, request, shown
  <2>5. r1 \in Seq(Packet) /\ Whole(r1, shown, produced + 1)
    BY <1>6, <2>3, <2>4, AppendWhole
  <2> QED
    BY <2>4, <2>5 DEF shown
<1>10. /\ p \in Seq(Packet)
      /\ \A i \in 1 .. Len(p) : p[i].request = sv.request + 1
      /\ DOMAIN p = 1 .. Len(p)
  BY <1>5, <1>6, PacketsOf
<1> HIDE DEF p, sv1, q1
<1>11. r = <<>> => r1 = p
  BY <1>10
<1> HIDE DEF r1
<1>12. InStep(sv1, cl, q1, r1)
  <2> SUFFICES ASSUME cl.in_step, cl.phase = "asked", ~cl.more
               PROVE  Answered(sv1, cl, q1, r1)
    BY <1>2 DEF InStep
  <2> QED
    BY <1>2, <1>4, <1>10, <1>11 DEF Answered, AtRest
<1>13. Right(sv1, cl, q1)
  BY <1>2, <1>4 DEF Talking, Right
<1>14. Asked(sv1, cl, q1, r1)
  <2> SUFFICES ASSUME cl.on_prompt = "asked"
               PROVE  /\ cl.phase = "asked" /\ ~cl.more
                      /\ cl.in_step => q1 = <<>> /\ r1[1].tag = "err"
    BY <1>4 DEF Asked
  <2>1. cl.phase = "asked" /\ ~cl.more
    BY <1>2 DEF Talking, Asked
  <2>2. cl.in_step => q1 = <<>> /\ r = <<>> /\ Uses(req, cl.prompt)
    BY <1>2, <2>1 DEF Talking, Asked
  <2> QED
    BY <1>7, <1>11, <1>8, <2>1, <2>2 DEF Uses
<1>15. Talking(sv1, cl, q1, r1)
  BY <1>2, <1>4, <1>9, <1>12, <1>13, <1>14 DEF Talking
<1>16. Good(sv1, cl, q1, r1)
  BY <1>15 DEF Good
<1>17. client' = [client EXCEPT ![c] = cl]
  BY <1>7, NotMoved
<1> HIDE DEF cl
<1> QED
  BY <1>2, <1>3, <1>4, <1>7, <1>16, <1>17, Moved

\* The server takes a query.
LEMMA TakeQueryTalks ==
  ASSUME TalkInv, NEW c \in Sessions, TakeQuery(c)
  PROVE  TalkInv'
<1> DEFINE sv == server[c]
           cl == client[c]
           q  == to_server[c]
           r  == to_client[c]
           q1 == Tail(q)
           req == Head(q)
           batch == req.statements
           sv1 == [sv EXCEPT !.phase = "query", !.request = @ + 1,
                             !.batch = batch]
<1>1. /\ Command(c, {"query"})
      /\ batch # <<>>
      /\ server' = [server EXCEPT ![c] = sv1]
      /\ UNCHANGED <<client, to_client>>
  BY DEF TakeQuery, Server, asked_next, goes
<1>2. /\ Talking(sv, cl, q, r)
      /\ sv.phase = "ready" /\ sv.batch = <<>> /\ q # <<>>
      /\ req.kind = "query" /\ req \in Request
      /\ to_server' = [to_server EXCEPT ![c] = q1]
      /\ q1 \in Seq(Request)
      /\ \A i \in DOMAIN q1 : \E j \in DOMAIN q : q1[i] = q[j]
      /\ \E i \in DOMAIN q : req = q[i]
      /\ cl.in_step =>
           /\ cl.phase # "prompt"
           /\ cl.phase = "asked" /\ ~cl.more =>
                /\ q1 = <<>> /\ r = <<>> /\ single(req)
                /\ sv.request + 1 = cl.sent /\ sv.produced = cl.shown
  BY <1>1, CommandTaken
<1>3. sv \in ServerRec /\ cl \in ClientRec
  BY NotMoved
<1>4. /\ batch \in Seq(Run) /\ statements(req) = batch
      /\ \A i \in DOMAIN batch : batch[i].start # "init_db"
  BY <1>2, RequestType
<1> HIDE DEF batch, req, q1
<1>5. /\ sv1 \in ServerRec
      /\ sv1.phase = "query" /\ sv1.batch = batch /\ sv1.database = sv.database
      /\ sv1.request = sv.request + 1 /\ sv1.produced = sv.produced
  <2>1. ASSUME NEW request \in Nat
        PROVE  [sv EXCEPT !.phase = "query", !.request = request,
                          !.batch = batch] \in ServerRec
    BY Zenon, <1>3, <1>4 DEF ServerRec
  <2>2. sv.request + 1 \in Nat
    BY <1>3 DEF ServerRec
  <2>3. sv1 \in ServerRec
    BY <2>1, <2>2
  <2> QED
    BY <1>2, <1>3, <2>3 DEF ServerRec
<1> HIDE DEF sv1
<1>6. ASSUME single(req)
      PROVE  Len(batch) = 1 /\ DOMAIN batch = {1}
  BY <1>1, <1>4, <1>6 DEF single
<1>7. InStep(sv1, cl, q1, r)
  <2> SUFFICES ASSUME cl.in_step, cl.phase = "asked", ~cl.more
               PROVE  Executed(sv1, cl, q1, r)
    BY <1>2 DEF InStep
  <2> QED
    BY <1>2, <1>5, <1>6 DEF Executed
<1>8. Right(sv1, cl, q1)
  <2> SUFFICES ASSUME cl.on_prompt = "yes"
               PROVE  /\ cl.prompt = sv.database
                      /\ \A i \in DOMAIN q1 : ~switches(q1[i])
                      /\ \A i \in DOMAIN batch :
                           batch[i].start \notin {"use", "init_db"}
    BY <1>5 DEF Right
  <2>1. cl.prompt = sv.database /\ \A i \in DOMAIN q : ~switches(q[i])
    BY <1>2 DEF Talking, Right
  <2>2. ~switches(req)
    BY <1>2, <2>1
  <2>3. \A i \in DOMAIN q1 : ~switches(q1[i])
    BY <1>2, <2>1
  <2> QED
    BY <1>4, <2>1, <2>2, <2>3 DEF switches
<1>9. Asked(sv1, cl, q1, r)
  <2> SUFFICES ASSUME cl.on_prompt = "asked"
               PROVE  /\ cl.phase = "asked" /\ ~cl.more
                      /\ cl.in_step =>
                           /\ q1 = <<>> /\ r = <<>>
                           /\ \A i \in DOMAIN batch :
                                /\ batch[i].start = "use"
                                /\ batch[i].db = cl.prompt
    BY <1>5 DEF Asked
  <2>1. cl.phase = "asked" /\ ~cl.more
    BY <1>2 DEF Talking, Asked
  <2>2. cl.in_step => /\ q1 = <<>> /\ r = <<>> /\ DOMAIN batch = {1}
                      /\ Uses(req, cl.prompt)
    BY <1>2, <1>6, <2>1 DEF Talking, Asked
  <2>3. req.kind # "unparsable"
    BY <1>2
  <2> QED
    BY <1>4, <2>1, <2>2, <2>3 DEF Uses
<1>10. Talking(sv1, cl, q1, r)
  BY <1>1, <1>2, <1>5, <1>7, <1>8, <1>9 DEF Talking
<1>11. Good(sv1, cl, q1, r)
  BY <1>10 DEF Good
<1>12. /\ client' = [client EXCEPT ![c] = cl]
       /\ to_client' = [to_client EXCEPT ![c] = r]
  BY <1>1, NotMoved
<1> HIDE DEF cl, r
<1> QED
  BY <1>1, <1>2, <1>3, <1>5, <1>11, <1>12, Moved

\* The server takes COM_INIT_DB.
LEMMA TakeInitDbTalks ==
  ASSUME TalkInv, NEW c \in Sessions, TakeInitDb(c)
  PROVE  TalkInv'
<1> DEFINE sv == server[c]
           cl == client[c]
           q  == to_server[c]
           r  == to_client[c]
           q1 == Tail(q)
           req == Head(q)
           batch == <<[start |-> "init_db", db |-> req.db]>>
           sv1 == [sv EXCEPT !.phase = "running", !.request = @ + 1,
                             !.batch = batch]
<1>1. /\ Command(c, {"init_db"})
      /\ server' = [server EXCEPT ![c] = sv1]
      /\ UNCHANGED <<client, to_client>>
  BY DEF TakeInitDb, Server, asked_next, goes
<1>2. /\ Talking(sv, cl, q, r)
      /\ sv.phase = "ready" /\ sv.batch = <<>> /\ q # <<>>
      /\ req.kind = "init_db" /\ req \in Request
      /\ to_server' = [to_server EXCEPT ![c] = q1]
      /\ q1 \in Seq(Request)
      /\ \A i \in DOMAIN q1 : \E j \in DOMAIN q : q1[i] = q[j]
      /\ \E i \in DOMAIN q : req = q[i]
      /\ cl.in_step =>
           /\ cl.phase # "prompt"
           /\ cl.phase = "asked" /\ ~cl.more =>
                /\ q1 = <<>> /\ r = <<>>
                /\ sv.request + 1 = cl.sent /\ sv.produced = cl.shown
  BY <1>1, CommandTaken
<1>3. sv \in ServerRec /\ cl \in ClientRec
  BY NotMoved
<1>4. req.db \in DBs /\ statements(req) = <<>>
  BY <1>2, RequestType
<1>5. batch \in Seq(Run) /\ Len(batch) = 1 /\ batch # <<>>
  BY <1>4 DEF Run, First
<1> HIDE DEF batch, req, q1
<1>6. /\ sv1 \in ServerRec
      /\ sv1.phase = "running" /\ sv1.batch = batch
      /\ sv1.request = sv.request + 1 /\ sv1.produced = sv.produced
  <2>1. ASSUME NEW request \in Nat
        PROVE  [sv EXCEPT !.phase = "running", !.request = request,
                          !.batch = batch] \in ServerRec
    BY Zenon, <1>3, <1>5 DEF ServerRec
  <2>2. sv.request + 1 \in Nat
    BY <1>3 DEF ServerRec
  <2>3. sv1 \in ServerRec
    BY <2>1, <2>2
  <2> QED
    BY <1>3, <2>3 DEF ServerRec
<1> HIDE DEF sv1
<1>7. InStep(sv1, cl, q1, r)
  <2> SUFFICES ASSUME cl.in_step, cl.phase = "asked", ~cl.more
               PROVE  Executed(sv1, cl, q1, r)
    BY <1>2 DEF InStep
  <2> QED
    BY <1>2, <1>5, <1>6 DEF Executed
<1>8. Right(sv1, cl, q1)
  BY <1>2 DEF Talking, Right, switches
<1>9. Asked(sv1, cl, q1, r)
  BY <1>2, <1>4 DEF Talking, Asked, Uses
<1>10. Talking(sv1, cl, q1, r)
  BY <1>2, <1>5, <1>6, <1>7, <1>8, <1>9 DEF Talking
<1>11. Good(sv1, cl, q1, r)
  BY <1>10 DEF Good
<1>12. /\ client' = [client EXCEPT ![c] = cl]
       /\ to_client' = [to_client EXCEPT ![c] = r]
  BY <1>1, NotMoved
<1> HIDE DEF cl, r
<1> QED
  BY <1>1, <1>2, <1>3, <1>6, <1>11, <1>12, Moved

\* A connection is closed.
LEMMA CloseTalks ==
  ASSUME TalkInv, NEW c \in Sessions, Close(c)
  PROVE  TalkInv'
<1> DEFINE sv == server[c]
           cl == client[c]
           q  == to_server[c]
           r  == to_client[c]
           sv1 == [sv EXCEPT !.phase = "closed"]
<1>1. sv \in ServerRec /\ cl \in ClientRec
  BY NotMoved
<1>2. PICK q1 : /\ to_server' = [to_server EXCEPT ![c] = q1]
                /\ q1 \in Seq(Request)
                /\ \A i \in DOMAIN q1 : \E j \in DOMAIN q : q1[i] = q[j]
                /\ Talking(sv, cl, q, r)
                /\ sv.phase = "ready" /\ cl.phase = "gone"
  <2>1. CASE Command(c, {"quit"})
    <3>1. /\ Talking(sv, cl, q, r)
          /\ sv.phase = "ready"
          /\ Head(q).kind = "quit"
          /\ to_server' = [to_server EXCEPT ![c] = Tail(q)]
          /\ Tail(q) \in Seq(Request)
          /\ \A i \in DOMAIN Tail(q) : \E j \in DOMAIN q : Tail(q)[i] = q[j]
          /\ \E i \in DOMAIN q : Head(q) = q[i]
      BY <2>1, CommandTaken
    <3>2. cl.phase = "gone"
      BY <3>1 DEF Talking
    <3> QED
      BY <3>1, <3>2
  <2>2. CASE /\ sv.phase = "ready" /\ q = <<>> /\ cl.phase = "gone"
             /\ UNCHANGED to_server
    <3>1. Talking(sv, cl, q, r)
      BY <2>2, NotMoved DEF Good, Connecting
    <3>2. q \in Seq(Request) /\ to_server' = [to_server EXCEPT ![c] = q]
      BY <2>2, <3>1, NotMoved DEF Talking
    <3> QED
      BY <2>2, <3>1, <3>2
  <2> QED
    BY <2>1, <2>2 DEF Close
<1>3. /\ sv1 \in ServerRec
      /\ sv1.phase = "closed" /\ sv1.batch = sv.batch
      /\ sv1.database = sv.database /\ sv1.produced = sv.produced
  BY <1>1 DEF ServerRec
<1>4. /\ server' = [server EXCEPT ![c] = sv1]
      /\ UNCHANGED <<client, to_client>>
  BY DEF Close, Server, goes
<1> HIDE DEF sv1
<1>5. InStep(sv1, cl, q1, r) /\ Right(sv1, cl, q1) /\ Asked(sv1, cl, q1, r)
  BY <1>2, <1>3 DEF Talking, InStep, Right, Asked
<1>6. Talking(sv1, cl, q1, r)
  BY <1>2, <1>3, <1>5 DEF Talking
<1>7. Good(sv1, cl, q1, r)
  BY <1>6 DEF Good
<1>8. /\ client' = [client EXCEPT ![c] = cl]
      /\ to_client' = [to_client EXCEPT ![c] = r]
  BY <1>4, NotMoved
<1> HIDE DEF cl, r
<1> QED
  BY <1>1, <1>2, <1>3, <1>4, <1>7, <1>8, Moved

\* The task takes a statement to the executor, or dies in it.
LEMMA StatementTalks ==
  ASSUME TalkInv, NEW c \in Sessions, Execute(c) \/ TaskDies(c)
  PROVE  TalkInv'
<1> DEFINE sv == server[c]
           cl == client[c]
           q  == to_server[c]
           r  == to_client[c]
<1>1. /\ sv \in ServerRec /\ cl \in ClientRec
      /\ sv.phase \in {"query", "running"}
      /\ Talking(sv, cl, q, r)
  BY NotMoved DEF Execute, TaskDies, Good, Connecting
<1>2. /\ client' = [client EXCEPT ![c] = cl]
      /\ to_server' = [to_server EXCEPT ![c] = q]
      /\ to_client' = [to_client EXCEPT ![c] = r]
  BY NotMoved DEF Execute, TaskDies
<1>3. CASE Execute(c)
  <2> DEFINE sv1 == [sv EXCEPT !.phase = "running"]
  <2>1. /\ sv1 \in ServerRec
        /\ sv1.phase = "running" /\ sv1.batch = sv.batch
        /\ sv1.database = sv.database
        /\ sv1.request = sv.request /\ sv1.produced = sv.produced
    BY <1>1 DEF ServerRec
  <2>2. server' = [server EXCEPT ![c] = sv1]
    BY <1>3 DEF Execute, Server, goes
  <2> HIDE DEF sv1
  <2>3. InStep(sv1, cl, q, r)
    BY <1>1, <2>1 DEF Talking, InStep, AtRest, Sent, Executed, Answered, Dead
  <2>4. Right(sv1, cl, q) /\ Asked(sv1, cl, q, r)
    BY <1>1, <2>1 DEF Talking, Right, Asked
  <2>5. Talking(sv1, cl, q, r)
    BY <1>1, <2>1, <2>3, <2>4 DEF Talking
  <2>6. Good(sv1, cl, q, r)
    BY <2>5 DEF Good
  <2> HIDE DEF cl, q, r
  <2> QED
    BY <1>1, <1>2, <2>1, <2>2, <2>6, Moved
<1>4. CASE TaskDies(c)
  <2> DEFINE sv1 == [[sv EXCEPT !.phase = "closed"] EXCEPT !.batch = <<>>]
  <2>1. /\ sv1 \in ServerRec
        /\ sv1.phase = "closed" /\ sv1.batch = <<>>
        /\ sv1.database = sv.database
        /\ sv1.request = sv.request /\ sv1.produced = sv.produced
    <3>1. <<>> \in Seq(Run)
      OBVIOUS
    <3>2. sv1 \in ServerRec
      BY Zenon, <1>1, <3>1 DEF ServerRec
    <3> QED
      BY <1>1, <3>2 DEF ServerRec
  <2>2. server' = [server EXCEPT ![c] = sv1]
    BY <1>4 DEF TaskDies, Server, goes
  <2> HIDE DEF sv1
  <2>3. InStep(sv1, cl, q, r)
    BY <1>1, <2>1 DEF Talking, InStep, AtRest, Sent, Executed, Answered, Dead
  <2>4. Right(sv1, cl, q) /\ Asked(sv1, cl, q, r)
    BY <1>1, <2>1 DEF Talking, Right, Asked
  <2>5. Talking(sv1, cl, q, r)
    BY <1>1, <2>1, <2>3, <2>4 DEF Talking
  <2>6. Good(sv1, cl, q, r)
    BY <2>5 DEF Good
  <2> HIDE DEF cl, q, r
  <2> QED
    BY <1>1, <1>2, <2>1, <2>2, <2>6, Moved
<1> QED
  BY <1>3, <1>4

\* The server responds to a statement.
LEMMA RespondTalks ==
  ASSUME TalkInv, NEW c \in Sessions, Respond(c)
  PROVE  TalkInv'
<1> DEFINE sv == server[c]
           cl == client[c]
           q  == to_server[c]
           r  == to_client[c]
           st == Head(sv.batch)
           rest == Tail(sv.batch)
<1>1. /\ sv \in ServerRec /\ cl \in ClientRec
      /\ sv.phase = "running"
      /\ Talking(sv, cl, q, r)
  BY NotMoved DEF Respond, Good, Connecting
<1>2. /\ client' = [client EXCEPT ![c] = cl]
      /\ to_server' = [to_server EXCEPT ![c] = q]
  BY NotMoved DEF Respond
<1>3. /\ sv.batch \in Seq(Run) /\ sv.batch # <<>>
      /\ sv.produced \in Nat /\ sv.request \in Nat /\ sv.database \in DBs
      /\ cl.shown \in Nat
  BY <1>1 DEF Talking, ServerRec, ClientRec
<1>4. /\ 1 \in DOMAIN sv.batch /\ st = sv.batch[1] /\ st \in Run
      /\ rest \in Seq(Run) /\ Len(rest) = Len(sv.batch) - 1
      /\ \A i \in DOMAIN rest :
           i + 1 \in DOMAIN sv.batch /\ rest[i] = sv.batch[i + 1]
  BY <1>3, HeadTail
<1>5. PICK tags \in Responses, phase \in {"ready", "query"},
           batch \in Seq(Run), database \in DBs :
        /\ to_client' = [to_client EXCEPT
             ![c] = r \o packets(tags, sv.produced + 1, sv.request)]
        /\ server' = [server EXCEPT
             ![c] = [sv EXCEPT !.phase = phase, !.batch = batch,
                               !.database = database, !.produced = @ + 1]]
        /\ (phase = "query") = (batch # <<>>)
        /\ Len(sv.batch) = 1 => batch = <<>>
        /\ \A i \in DOMAIN batch : \E j \in DOMAIN sv.batch :
             batch[i] = sv.batch[j]
        /\ \/ database = sv.database
           \/ st.start \in {"use", "init_db"} /\ database = st.db
        /\ \/ st.start # "use"
           \/ database = st.db
           \/ tags = <<"err">>
  <2>1. CASE /\ outcome[c] = "ok"
             /\ Reply(c, response_to(st),
                      [goes(c, IF rest = <<>> THEN "ready" ELSE "query") EXCEPT
                         !.batch = rest, !.database = database_after(c)])
    <3> DEFINE phase == IF rest = <<>> THEN "ready" ELSE "query"
               database == database_after(c)
    <3>1. response_to(st) \in Responses
      BY DEF response_to, Responses
    <3>2. /\ database \in DBs
          /\ database = IF st.start \in {"use", "init_db"} THEN st.db
                        ELSE sv.database
      BY <1>3, <1>4 DEF database_after, Run
    <3>3. /\ to_client' = [to_client EXCEPT
               ![c] = r \o packets(response_to(st), sv.produced + 1, sv.request)]
          /\ server' = [server EXCEPT
               ![c] = [[[sv EXCEPT !.phase = phase] EXCEPT
                          !.batch = rest, !.database = database]
                         EXCEPT !.produced = @ + 1]]
      BY <2>1 DEF Reply, Server, goes
    <3> HIDE DEF phase, database
    <3>4. [[[sv EXCEPT !.phase = phase] EXCEPT
               !.batch = rest, !.database = database]
              EXCEPT !.produced = @ + 1]
          = [sv EXCEPT !.phase = phase, !.batch = rest,
                       !.database = database, !.produced = @ + 1]
      BY <1>1 DEF ServerRec
    <3>5. phase \in {"ready", "query"} /\ (phase = "query") = (rest # <<>>)
      BY DEF phase
    <3>6. Len(sv.batch) = 1 => rest = <<>>
      BY <1>4
    <3>7. /\ to_client' = [to_client EXCEPT
               ![c] = r \o packets(response_to(st), sv.produced + 1, sv.request)]
          /\ server' = [server EXCEPT
               ![c] = [sv EXCEPT !.phase = phase, !.batch = rest,
                                 !.database = database, !.produced = @ + 1]]
      BY <3>3, <3>4
    <3>8. /\ rest \in Seq(Run)
          /\ \A i \in DOMAIN rest : \E j \in DOMAIN sv.batch :
               rest[i] = sv.batch[j]
      BY <1>4
    <3>9. /\ \/ database = sv.database
             \/ st.start \in {"use", "init_db"} /\ database = st.db
          /\ st.start # "use" \/ database = st.db
      BY <3>2
    <3>10. database \in DBs
      BY <3>2
    <3> HIDE DEF sv, cl, q, r, st, rest
    <3> QED
      BY ZenonT(40), <3>1, <3>5, <3>6, <3>7, <3>8, <3>9, <3>10
  <2>2. CASE /\ outcome[c] = "err"
             /\ Reply(c, <<"err">>, [goes(c, "ready") EXCEPT !.batch = <<>>])
    <3>1. /\ to_client' = [to_client EXCEPT
               ![c] = r \o packets(<<"err">>, sv.produced + 1, sv.request)]
          /\ server' = [server EXCEPT
               ![c] = [[[sv EXCEPT !.phase = "ready"] EXCEPT !.batch = <<>>]
                         EXCEPT !.produced = @ + 1]]
      BY <2>2 DEF Reply, Server, goes
    <3>2. [[[sv EXCEPT !.phase = "ready"] EXCEPT !.batch = <<>>]
              EXCEPT !.produced = @ + 1]
          = [sv EXCEPT !.phase = "ready", !.batch = <<>>,
                       !.database = sv.database, !.produced = @ + 1]
      BY <1>1 DEF ServerRec
    <3>3. <<>> \in Seq(Run) /\ <<"err">> \in Responses /\ DOMAIN <<>> = {}
      BY DEF Responses
    <3> QED
      BY <1>3, <3>1, <3>2, <3>3
  <2> QED
    BY <2>1, <2>2 DEF Respond
<1> DEFINE sv1 == [sv EXCEPT !.phase = phase, !.batch = batch,
                             !.database = database, !.produced = @ + 1]
           p == packets(tags, sv.produced + 1, sv.request)
           r1 == r \o p
<1>6. /\ sv1 \in ServerRec
      /\ sv1.phase = phase /\ sv1.batch = batch /\ sv1.database = database
      /\ sv1.request = sv.request /\ sv1.produced = sv.produced + 1
  <2>1. ASSUME NEW produced \in Nat
        PROVE  [sv EXCEPT !.phase = phase, !.batch = batch,
                          !.database = database, !.produced = produced]
               \in ServerRec
    BY Zenon, <1>1, <1>5 DEF ServerRec
  <2>2. sv.produced + 1 \in Nat
    BY <1>3
  <2>3. sv1 \in ServerRec
    BY <2>1, <2>2
  <2> QED
    BY <1>1, <2>3 DEF ServerRec
<1>7. /\ server' = [server EXCEPT ![c] = sv1]
      /\ to_client' = [to_client EXCEPT ![c] = r1]
  BY <1>5
<1>8. r1 \in Seq(Packet) /\ r1 # <<>> /\ Whole(r1, cl.shown, sv1.produced)
  BY SMTT(40), <1>1, <1>3, <1>6, AppendWhole DEF Talking
<1>9. /\ p \in Seq(Packet)
      /\ \A i \in 1 .. Len(p) : p[i].request = sv.request
      /\ DOMAIN p = 1 .. Len(p)
      /\ tags = <<"err">> => p[1].tag = "err"
  <2>1. tags = <<"err">> => p[1].tag = "err"
    BY DEF packets
  <2> QED
    BY SMTT(40), <1>3, <2>1, PacketsOf
<1> HIDE DEF p, sv1
<1>10. r = <<>> => r1 = p
  BY <1>9
<1> HIDE DEF r1
<1>11. ASSUME cl.in_step
       PROVE  /\ cl.phase # "prompt"
              /\ cl.phase = "asked" /\ ~cl.more => Executed(sv, cl, q, r)
  BY <1>1, <1>11 DEF Talking, InStep, AtRest, Sent, Answered, Dead
<1>12. InStep(sv1, cl, q, r1)
  <2> SUFFICES ASSUME cl.in_step, cl.phase = "asked", ~cl.more
               PROVE  Answered(sv1, cl, q, r1)
    BY <1>11 DEF InStep
  <2>1. Executed(sv, cl, q, r)
    BY <1>11
  <2>2. sv.produced = cl.shown
    BY <1>1, <2>1 DEF Talking, Executed, Whole
  <2>3. phase = "ready" /\ q = <<>> /\ sv.request = cl.sent /\ r1 = p
    BY <1>5, <1>10, <2>1 DEF Executed
  <2> QED
    BY <1>6, <1>9, <2>2, <2>3 DEF Answered, AtRest
<1>13. Right(sv1, cl, q)
  BY <1>1, <1>4, <1>5, <1>6 DEF Talking, Right
<1>14. Asked(sv1, cl, q, r1)
  <2> SUFFICES ASSUME cl.on_prompt = "asked", cl.in_step
               PROVE  /\ q = <<>> /\ batch = <<>>
                      /\ r1[1].tag = "ok" => database = cl.prompt
    BY <1>1, <1>6 DEF Talking, Asked
  <2>1. cl.phase = "asked" /\ ~cl.more /\ st.start = "use" /\ st.db = cl.prompt
    BY <1>1, <1>4 DEF Talking, Asked
  <2>2. Executed(sv, cl, q, r)
    BY <1>11, <2>1
  <2>3. q = <<>> /\ batch = <<>> /\ r1 = p
    BY <1>5, <1>10, <2>2 DEF Executed
  <2> QED
    BY <1>5, <1>9, <2>1, <2>3
<1>15. Talking(sv1, cl, q, r1)
  BY <1>1, <1>5, <1>6, <1>8, <1>12, <1>13, <1>14 DEF Talking
<1>16. Good(sv1, cl, q, r1)
  BY <1>15 DEF Good
<1> HIDE DEF cl, q
<1> QED
  BY <1>1, <1>2, <1>6, <1>7, <1>16, Moved

\* The executor runs without the connections' streams.
LEMMA WorkTalks ==
  ASSUME TalkInv, UNCHANGED <<server, client, to_server, to_client>>
  PROVE  TalkInv'
BY DEF TalkInv

\* Every step keeps what holds of the connections.
LEMMA NextTalks ==
  ASSUME TalkInv, [Next]_vars
  PROVE  TalkInv'
<1>1. CASE AllGone \/ UNCHANGED vars
  BY <1>1, WorkTalks DEF AllGone, vars
<1>2. ASSUME NEW c \in Sessions,
             LoginStep(c) \/ ServerStep(c) \/ ClientStep(c) \/ Exit(c)
      PROVE  TalkInv'
  <2>1. CASE Work(c)
    BY <2>1, WorkTalks DEF Work
  <2>2. CASE Answer(c) \/ TakeQuery(c) \/ TakeInitDb(c) \/ Close(c)
    BY <2>2, AnswerTalks, TakeQueryTalks, TakeInitDbTalks, CloseTalks
  <2>3. CASE Execute(c) \/ Respond(c) \/ TaskDies(c)
    BY <2>3, StatementTalks, RespondTalks
  <2>4. CASE LoginStep(c) \/ ClientStep(c) \/ Exit(c)
    BY <2>4, LoginTalks, ReceiveTalks, NothingTalks DEF ClientStep
  <2> QED
    BY <1>2, <2>1, <2>2, <2>3, <2>4 DEF ServerStep
<1>3. ASSUME NEW c \in Sessions, NEW req \in Requests, Ask(c, req)
      PROVE  TalkInv'
  BY <1>3, AskTalks
<1> QED
  BY <1>1, <1>2, <1>3 DEF Next

\* It holds at the start.
LEMMA InitTalks == Init => TalkInv
<1> SUFFICES ASSUME Init PROVE TalkInv
  OBVIOUS
<1>1. <<>> \in Seq(Run) /\ DefaultDb \in DBs
  BY ConnectionAssumption
<1>2. server \in [Sessions -> ServerRec]
  BY <1>1 DEF Init, ServerRec
<1>3. client \in [Sessions -> ClientRec]
  BY DEF Init, ClientRec
<1>4. /\ to_server = [c \in Sessions |-> to_server[c]]
      /\ to_client = [c \in Sessions |-> to_client[c]]
  BY DEF Init
<1>5. ASSUME NEW c \in Sessions
      PROVE  Connecting(server[c], client[c], to_server[c], to_client[c])
  BY DEF Init, Connecting
<1> QED
  BY <1>2, <1>3, <1>4, <1>5 DEF TalkInv, Good

\* What a client at its prompt, or waiting, can rely on
LEMMA TalkInvImplies ==
  TalkInv => WholeResponses /\ OwnAnswer /\ PromptRight
<1> SUFFICES ASSUME TalkInv PROVE WholeResponses /\ OwnAnswer /\ PromptRight
  OBVIOUS
<1>1. ASSUME NEW c \in Sessions, client[c].phase \in {"prompt", "asked"}
      PROVE  Talking(server[c], client[c], to_server[c], to_client[c])
  BY <1>1, NotMoved DEF Good, Connecting
<1>2. WholeResponses
  <2> SUFFICES ASSUME NEW c \in Sessions,
                      client[c].phase \in {"prompt", "asked"},
                      to_client[c] # <<>>
               PROVE  /\ Head(to_client[c]).part = 1
                      /\ Head(to_client[c]).no = client[c].shown + 1
    BY DEF WholeResponses
  <2>1. /\ to_client[c] \in Seq(Packet)
        /\ Whole(to_client[c], client[c].shown, server[c].produced)
    BY <1>1 DEF Talking
  <2>2. Head(to_client[c]) = to_client[c][1]
    BY <2>1, HeadTail
  <2> QED
    BY <2>1, <2>2 DEF Whole
<1>3. OwnAnswer
  BY <1>1 DEF OwnAnswer, Talking, InStep
<1>4. PromptRight
  BY <1>1 DEF PromptRight, Talking, Right
<1> QED
  BY <1>2, <1>3, <1>4

\* What holds of the connections holds always.
LEMMA AlwaysTalking == Spec => []TalkInv
BY InitTalks, NextTalks, PTL DEF Spec

\* For any number of connections, whatever their clients send: a client always
\* reads from the first packet of the response after the last it showed
\* (client.rs:216-286, connection.rs:143-216).
THEOREM ResponsesWhole == Spec => []WholeResponses
BY AlwaysTalking, TalkInvImplies, PTL

\* A client that has sent no batch is shown the answer to its last request
\* (client.rs:216-286, connection.rs:161).
THEOREM AnswersAreOwn == Spec => []OwnAnswer
BY AlwaysTalking, TalkInvImplies, PTL

\* After a USE that was answered with OK, the prompt names the database in which
\* the server runs the statements (client.rs:472-481, connection.rs:201-205).
THEOREM PromptsAreRight == Spec => []PromptRight
BY AlwaysTalking, TalkInvImplies, PTL

-------------------------------------------------------------------------------
(* The type invariant.                                                      *)

\* Only a task that waits for the executor has a statement in it.
Waiting(c) ==
  at[c] # "idle" => server[c].phase = "running" /\ outcome[c] = "none"

RunInv ==
  /\ TalkInv /\ LocksType
  /\ setup \in Setups /\ dbs \subseteq DBs
  /\ \A c \in Sessions : Waiting(c)

\* A task without a statement in the executor moves.
LEMMA IdleMoves ==
  ASSUME RunInv, TalkInv', NEW c \in Sessions, UNCHANGED <<setup, dbs, lvars>>,
         at[c] = "idle" \/ UNCHANGED server,
         \A d \in Sessions \ {c} : server'[d] = server[d]
  PROVE  RunInv'
<1>1. ASSUME NEW d \in Sessions
      PROVE  Waiting(d)'
  BY DEF RunInv, Waiting, lvars
<1>2. LocksType'
  BY DEF RunInv, LocksType, lvars
<1> QED
  BY <1>1, <1>2 DEF RunInv

\* A statement starts.
LEMMA StartRuns ==
  ASSUME RunInv, TalkInv', LocksType', NEW c \in Sessions,
         Execute(c) \/ TakeInitDb(c)
  PROVE  RunInv'
<1>1. PICK section : Begin(c, section)
  BY DEF Execute, TakeInitDb
<1>2. /\ server'[c].phase = "running"
      /\ \A d \in Sessions \ {c} : server'[d] = server[d]
  <2>1. /\ server \in [Sessions -> ServerRec]
        /\ server[c] \in ServerRec
    BY DEF RunInv, TalkInv
  <2>2. CASE Execute(c)
    BY <2>1, <2>2 DEF Execute, Server, goes, ServerRec
  <2>3. CASE TakeInitDb(c)
    <3> DEFINE sv1 == [asked_next(c, "running") EXCEPT
                         !.batch = <<[start |-> "init_db",
                                      db |-> Head(to_server[c]).db]>>]
    <3>1. sv1.phase = "running"
      BY <2>1 DEF asked_next, goes, ServerRec
    <3>2. server' = [server EXCEPT ![c] = sv1]
      BY <2>3 DEF TakeInitDb, Server
    <3> HIDE DEF sv1
    <3> QED
      BY <2>1, <3>1, <3>2
  <2> QED
    BY <2>2, <2>3
<1>3. /\ outcome'[c] = "none"
      /\ \A d \in Sessions \ {c} : at'[d] = at[d] /\ outcome'[d] = outcome[d]
  BY <1>1 DEF RunInv, LocksType, Begin
<1>4. ASSUME NEW d \in Sessions
      PROVE  Waiting(d)'
  BY <1>2, <1>3 DEF RunInv, Waiting
<1>5. UNCHANGED <<setup, dbs>>
  BY DEF Execute, TakeInitDb
<1> QED
  BY <1>4, <1>5 DEF RunInv

\* A statement is executed.
LEMMA WorkRuns ==
  ASSUME RunInv, TalkInv', LocksType', NEW c \in Sessions, Work(c)
  PROVE  RunInv'
<1>1. UNCHANGED <<setup, server>>
  BY DEF Work
<1>2. at[c] # "idle"
  <2>1. CASE at[c] = "idle"
    <3>1. locks_of(at[c]) = <<>> /\ Len(held[c]) \in Nat
      BY <2>1, IdleLocksNothing DEF RunInv, LocksType
    <3>2. ~waits(c)
      BY <3>1 DEF waits
    <3> QED
      BY <2>1, <3>2 DEF Work, Acquire, FindPoisoned, Finish
  <2> QED
    BY <2>1
<1>3. /\ at'[c] # "idle" => outcome'[c] = outcome[c]
      /\ \A d \in Sessions \ {c} : at'[d] = at[d] /\ outcome'[d] = outcome[d]
  <2>1. CASE Acquire(c)
    BY <2>1 DEF Acquire
  <2>2. ASSUME NEW res, Leaves(c, res)
        PROVE  /\ at'[c] # "idle" => outcome'[c] = outcome[c]
               /\ \A d \in Sessions \ {c} :
                    at'[d] = at[d] /\ outcome'[d] = outcome[d]
    BY <2>2 DEF Leaves, RunInv, LocksType
  <2>3. CASE Panics(c)
    BY <2>3 DEF Panics, RunInv, LocksType
  <2> QED
    BY <2>1, <2>2, <2>3 DEF Work, FindPoisoned, Finish
<1>4. dbs' \subseteq DBs
  <2>1. server[c].phase = "running"
    BY <1>2 DEF RunInv, Waiting
  <2>2. server[c].batch \in Seq(Run) /\ server[c].batch # <<>>
    BY <2>1, NotMoved DEF RunInv, ServerRec, Good, Connecting, Talking
  <2>3. Head(server[c].batch).db \in DBs
    <3>1. Head(server[c].batch) \in Run
      BY <2>2, HeadTail
    <3> QED
      BY <3>1 DEF Run
  <2>4. dbs_after(c) \subseteq DBs
    BY <2>3 DEF dbs_after, RunInv
  <2>5. dbs' = dbs \/ dbs' = dbs_after(c)
    BY DEF Work
  <2> QED
    BY <2>4, <2>5 DEF RunInv
<1>5. ASSUME NEW d \in Sessions
      PROVE  Waiting(d)'
  BY <1>1, <1>2, <1>3 DEF RunInv, Waiting
<1> QED
  BY <1>1, <1>4, <1>5 DEF RunInv

\* Every step keeps it.
LEMMA NextRuns ==
  ASSUME RunInv, LocksType', [Next]_vars
  PROVE  RunInv'
<1>1. TalkInv'
  BY NextTalks DEF RunInv
<1>2. CASE AllGone \/ UNCHANGED vars
  BY <1>1, <1>2 DEF AllGone, vars, RunInv, Waiting, lvars
<1>3. ASSUME NEW c \in Sessions,
             \/ LoginStep(c) \/ ServerStep(c) \/ ClientStep(c) \/ Exit(c)
             \/ \E req \in Requests : Ask(c, req)
      PROVE  RunInv'
  <2>1. CASE Work(c) \/ Execute(c) \/ TakeInitDb(c)
    BY <1>1, <2>1, WorkRuns, StartRuns
  <2>2. CASE \/ SendLogin(c) \/ ReadLogin(c) \/ ClientStep(c) \/ Exit(c)
             \/ \E req \in Requests : Ask(c, req)
    <3>1. UNCHANGED <<setup, dbs, lvars, server>>
      BY <2>2 DEF SendLogin, ReadLogin, ClientStep, Receive, ReceiveNothing,
                  Exit, Ask
    <3> QED
      BY <1>1, <3>1, IdleMoves
  <2>3. CASE \/ Greet(c) \/ Login(c) \/ Answer(c) \/ TakeQuery(c) \/ Close(c)
             \/ Respond(c) \/ TaskDies(c)
    <3>1. UNCHANGED <<setup, dbs, lvars>>
      BY <2>3 DEF Greet, Login, Answer, TakeQuery, Close, Respond, TaskDies
    <3>2. at[c] = "idle"
      BY <2>3 DEF Greet, Login, Answer, TakeQuery, Close, Command, Respond,
                  TaskDies, RunInv, Waiting
    <3>3. PICK sv : server' = [server EXCEPT ![c] = sv]
      BY <2>3 DEF Greet, Login, Answer, TakeQuery, Close, Respond, Reply,
                  TaskDies, Server
    <3>4. \A d \in Sessions \ {c} : server'[d] = server[d]
      BY <3>3 DEF RunInv, TalkInv
    <3> QED
      BY <1>1, <3>1, <3>2, <3>4, IdleMoves
  <2> QED
    BY <1>3, <2>1, <2>2, <2>3 DEF LoginStep, ServerStep
<1> QED
  BY <1>2, <1>3 DEF Next

\* The type invariant holds; while a session is in the executor its task waits
\* for the statement (connection.rs:22-216).
THEOREM ConnectionTypeCorrect == Spec => []ConnectionType
<1>1. Init /\ LocksType => RunInv
  BY InitTalks DEF Init, RunInv, Waiting, LocksInit
<1>2. RunInv /\ LocksType' /\ [Next]_vars => RunInv'
  BY NextRuns
<1>3. RunInv => ConnectionType
  BY DEF RunInv, Waiting, TalkInv, ServerRec, ClientRec, ConnectionType
<1> QED
  BY <1>1, <1>2, <1>3, ServerImplementsLocks, LocksTypeCorrect, PTL DEF Spec

-------------------------------------------------------------------------------
(* Numbers in packets.                                                      *)

\* from_le_bytes of two bytes
LEMMA TwoBytes ==
  ASSUME NEW a \in Nat, NEW b \in Nat
  PROVE  from_le(<<byte(a), byte(b)>>) = a + 256 * b
<1> DEFINE us == <<byte(a), byte(b)>>
           value == CHOOSE f : f = [i \in 1 .. Len(us) + 1 |->
                      IF i > Len(us) THEN 0 ELSE us[i][2] + 256 * f[i + 1]]
           known == [i \in 1 .. 3 |-> IF i = 1 THEN a + 256 * b
                                      ELSE IF i = 2 THEN b ELSE 0]
<1>1. Len(us) = 2 /\ us[1][2] = a /\ us[2][2] = b
  BY DEF byte
<1>2. known = [i \in 1 .. Len(us) + 1 |->
                 IF i > Len(us) THEN 0 ELSE us[i][2] + 256 * known[i + 1]]
  BY <1>1
<1> HIDE DEF known
<1>3. value = [i \in 1 .. Len(us) + 1 |->
                 IF i > Len(us) THEN 0 ELSE us[i][2] + 256 * value[i + 1]]
  BY <1>2
<1> HIDE DEF value
<1>4. value[3] = 0 /\ value[2] = b + 256 * value[3]
      /\ value[1] = a + 256 * value[2]
  BY <1>1, <1>3
<1>5. value[1] = a + 256 * b
  BY <1>4
<1> QED
  BY <1>5 DEF from_le, value

\* What bit i adds to the flags of both
Term(i) == 2 ^ i * bit(ClientCaps, i) * bit(ServerCaps, i)

\* The five flags that both have
LEMMA Terms ==
  /\ Term(0) = 0 /\ Term(1) = 0 /\ Term(2) = 0 /\ Term(3) = 8 /\ Term(4) = 0
  /\ Term(5) = 0 /\ Term(6) = 0 /\ Term(7) = 0 /\ Term(8) = 0
  /\ Term(9) = 512 /\ Term(10) = 0 /\ Term(11) = 0 /\ Term(12) = 0
  /\ Term(13) = 8192 /\ Term(14) = 0 /\ Term(15) = 32768 /\ Term(16) = 0
  /\ Term(17) = 0 /\ Term(18) = 0 /\ Term(19) = 524288 /\ Term(20) = 0
  /\ Term(21) = 0
BY SMT DEF Term, bit, ClientCaps, ServerCaps, PROTOCOL_41, SECURE_CONNECTION,
           PLUGIN_AUTH, LENENC_CLIENT_DATA, CONNECT_WITH_DB

\* both sums the terms from the last one.
LEMMA BothFlags == both(ClientCaps, ServerCaps) = 565768
<1> DEFINE body(f) == [i \in 0 .. 22 |->
                        IF i = 22 THEN 0
                        ELSE 2 ^ i * bit(ClientCaps, i) * bit(ServerCaps, i)
                               + f[i + 1]]
           from == CHOOSE f : f = body(f)
           known == [i \in 0 .. 22 |->
                       IF i <= 3 THEN 565768 ELSE IF i <= 9 THEN 565760
                       ELSE IF i <= 13 THEN 565248 ELSE IF i <= 15 THEN 557056
                       ELSE IF i <= 19 THEN 524288 ELSE 0]
<1>1. \A i \in 0 .. 21 : known[i] = Term(i) + known[i + 1]
  <2> SUFFICES ASSUME NEW i \in 0 .. 21 PROVE known[i] = Term(i) + known[i + 1]
    BY SMT
  <2>1. \/ i = 0 \/ i = 1 \/ i = 2 \/ i = 3 \/ i = 4 \/ i = 5 \/ i = 6 \/ i = 7
        \/ i = 8 \/ i = 9 \/ i = 10 \/ i = 11 \/ i = 12 \/ i = 13 \/ i = 14
        \/ i = 15 \/ i = 16 \/ i = 17 \/ i = 18 \/ i = 19 \/ i = 20 \/ i = 21
    BY SMT
  <2> QED
    BY SMT, <2>1, Terms
<1>2. known = body(known)
  <2>1. known[22] = 0
    BY SMT
  <2> HIDE DEF known
  <2>2. known = [i \in 0 .. 22 |-> known[i]]
    BY SMT DEF known
  <2> QED
    BY SMT, <1>1, <2>1, <2>2 DEF Term
<1>3. known[0] = 565768
  BY SMT
<1> HIDE DEF known
<1>4. from = body(from)
  <2> HIDE DEF body
  <2> QED
    BY <1>2
<1> HIDE DEF from
<1>5. from[22] = 0 /\ \A i \in 0 .. 21 : from[i] = Term(i) + from[i + 1]
  BY SMT, <1>4 DEF Term
<1>6. /\ from[20] = 0 /\ from[19] = 524288 /\ from[16] = 524288
      /\ from[15] = 557056 /\ from[14] = 557056
  BY SMT, <1>5, Terms
<1>7. from[9] = 565760
  BY SMT, <1>5, <1>6, Terms
<1>8. from[0] = 565768
  BY SMT, <1>5, <1>7, Terms
<1> QED
  BY SMT, <1>8 DEF both, from

-------------------------------------------------------------------------------
(* Units at their places in a packet: what begins it, what stands where.    *)

\* A sequence of n units
Units(U, s, n) == s \in Seq(U) /\ Len(s) = n

\* p begins with the n units of s; x stands in p behind m units.
Begins(p, s, n)    == \A i \in 1 .. n : p[i] = s[i]
Stands(p, m, x, n) == \A i \in 1 .. n : p[m + i] = x[i]

\* A part put behind others
LEMMA Put ==
  ASSUME NEW U, NEW s, NEW t, NEW m \in Nat, NEW n \in Nat, NEW k,
         Units(U, s, m), Units(U, t, n), m + n = k
  PROVE  /\ Units(U, s \o t, k)
         /\ Begins(s \o t, s, m)
         /\ Stands(s \o t, m, t, n)
BY DEF Units, Begins, Stands

\* A unit of a sequence
LEMMA UnitsAt ==
  ASSUME NEW U, NEW s, NEW n \in Nat, Units(U, s, n)
  PROVE  \A i \in 1 .. n : s[i] \in U
BY DEF Units

\* What stands in the beginning stands in the whole.
LEMMA StandsOn ==
  ASSUME NEW p, NEW q, NEW x, NEW k \in Nat, NEW m \in Nat, NEW n \in Nat,
         Begins(p, q, k), Stands(q, m, x, n), m + n <= k
  PROVE  Stands(p, m, x, n)
BY DEF Begins, Stands

\* The beginning of a beginning
LEMMA BeginsOn ==
  ASSUME NEW p, NEW q, NEW s, NEW k \in Nat, NEW n \in Nat,
         Begins(p, q, k), Begins(q, s, n), n <= k
  PROVE  Begins(p, s, n)
BY DEF Begins

Bytes == {byte(n) : n \in Nat}

\* The fixed parts
LEMMA Parts ==
  ASSUME NEW U, Bytes \subseteq U
  PROVE  /\ \A n \in Nat : byte(n) \in U /\ Units(U, <<byte(n)>>, 1)
         /\ Units(U, <<Zero>>, 1)
         /\ \A n \in Nat : Units(U, letters(n), n) /\ Units(U, zeros(n), n)
<1>1. \A n \in Nat : byte(n) \in U
  BY DEF Bytes
<1>2. Zero \in U
  BY <1>1 DEF Zero
<1>3. \A n \in Nat : letters(n) \in Seq(U) /\ Len(letters(n)) = n
  BY <1>1 DEF letters
<1>4. \A n \in Nat : zeros(n) \in Seq(U) /\ Len(zeros(n)) = n
  BY <1>2 DEF zeros
<1> QED
  BY <1>1, <1>2, <1>3, <1>4 DEF Units

\* Two units
LEMMA Pair ==
  ASSUME NEW U, NEW a \in U, NEW b \in U
  PROVE  Units(U, <<a, b>>, 2)
BY DEF Units

\* Four units
LEMMA Four ==
  ASSUME NEW U, NEW a \in U, NEW b \in U, NEW c \in U, NEW d \in U
  PROVE  Units(U, <<a, b, c, d>>, 4)
BY DEF Units

\* A number as two bytes
LEMMA AsTwoBytes ==
  ASSUME NEW n \in Nat
  PROVE  le(n, 2) = <<byte(n % 256), byte((n \div 256) % 256)>>
<1>1. 256 ^ (1 - 1) = 1 /\ 256 ^ (2 - 1) = 256
  BY SMT
<1>2. n \div 1 = n
  BY SMT
<1> DEFINE at_(i) == byte((n \div 256 ^ (i - 1)) % 256)
<1>3. /\ at_(1) = byte(n % 256)
      /\ at_(2) = byte((n \div 256) % 256)
  BY SMT, <1>1, <1>2
<1>4. le(n, 2) = [i \in 1 .. 2 |-> at_(i)]
  BY DEF le
<1> HIDE DEF at_
<1>5. le(n, 2) = <<at_(1), at_(2)>>
  BY <1>4
<1> QED
  BY SMT, <1>3, <1>5

\* A number as four bytes
LEMMA AsFourBytes ==
  ASSUME NEW n \in Nat
  PROVE  le(n, 4) = <<byte(n % 256), byte((n \div 256) % 256),
                     byte((n \div 65536) % 256),
                     byte((n \div 16777216) % 256)>>
<1>1. /\ 256 ^ (1 - 1) = 1 /\ 256 ^ (2 - 1) = 256
      /\ 256 ^ (3 - 1) = 65536 /\ 256 ^ (4 - 1) = 16777216
  BY SMT
<1>2. n \div 1 = n
  BY SMT
<1> DEFINE at_(i) == byte((n \div 256 ^ (i - 1)) % 256)
<1>3. /\ at_(1) = byte(n % 256)
      /\ at_(2) = byte((n \div 256) % 256)
      /\ at_(3) = byte((n \div 65536) % 256)
      /\ at_(4) = byte((n \div 16777216) % 256)
  BY SMT, <1>1, <1>2
<1>4. le(n, 4) = [i \in 1 .. 4 |-> at_(i)]
  BY DEF le
<1> HIDE DEF at_
<1>5. le(n, 4) = <<at_(1), at_(2), at_(3), at_(4)>>
  BY <1>4
<1> QED
  BY SMT, <1>3, <1>5

\* from_le_bytes of four bytes
LEMMA FourBytes ==
  ASSUME NEW a \in Nat, NEW b \in Nat, NEW c \in Nat, NEW d \in Nat
  PROVE  from_le(<<byte(a), byte(b), byte(c), byte(d)>>) =
           a + 256 * (b + 256 * (c + 256 * d))
<1> DEFINE us == <<byte(a), byte(b), byte(c), byte(d)>>
           body(f) == [i \in 1 .. Len(us) + 1 |->
                         IF i > Len(us) THEN 0 ELSE us[i][2] + 256 * f[i + 1]]
           value == CHOOSE f : f = body(f)
           known == [i \in 1 .. 5 |->
                       IF i = 1 THEN a + 256 * (b + 256 * (c + 256 * d))
                       ELSE IF i = 2 THEN b + 256 * (c + 256 * d)
                       ELSE IF i = 3 THEN c + 256 * d
                       ELSE IF i = 4 THEN d ELSE 0]
<1>1. /\ Len(us) = 4 /\ us[1][2] = a /\ us[2][2] = b /\ us[3][2] = c
      /\ us[4][2] = d
  BY DEF byte
<1>2. known = body(known)
  BY <1>1
<1> HIDE DEF known
<1>3. value = body(value)
  <2> HIDE DEF body
  <2> QED
    BY <1>2
<1> HIDE DEF value
<1>4. /\ value[5] = 0 /\ value[4] = d + 256 * value[5]
      /\ value[3] = c + 256 * value[4] /\ value[2] = b + 256 * value[3]
      /\ value[1] = a + 256 * value[2]
  BY <1>1, <1>3
<1>5. value[1] = a + 256 * (b + 256 * (c + 256 * d))
  BY <1>4
<1> QED
  BY <1>5 DEF from_le, value

\* Where the first zero is
LEMMA Terminates ==
  ASSUME NEW p, NEW from \in Nat, NEW k \in Nat, Len(p) \in Nat,
         from <= k, k <= Len(p), p[k] = Zero,
         \A i \in from .. k - 1 : p[i] # Zero
  PROVE  terminator(p, from) = k
<1> DEFINE S == {i \in from .. Len(p) : p[i] = Zero}
<1>1. k \in S /\ \A y \in S : k <= y /\ y \in Int
  OBVIOUS
<1>2. \A x \in S : (\A y \in S : x <= y) => x = k
  BY <1>1
<1> HIDE DEF S
<1>3. Min(S) = k
  BY <1>1, <1>2 DEF Min
<1> QED
  BY <1>3 DEF terminator, S

-------------------------------------------------------------------------------
(* The greeting: where its parts stand, and what the client reads of them.  *)

\* The flags of the server that decide something
LEMMA Offered ==
  /\ has(ServerCaps, PLUGIN_AUTH) /\ has(ServerCaps, SECURE_CONNECTION)
  /\ le(low_half(ServerCaps), 2) = <<byte(9), byte(162)>>
  /\ le(high_half(ServerCaps), 2) = <<byte(14), byte(0)>>
  /\ whole_caps(9 + 256 * 162, 14 + 256 * 0) = ServerCaps
<1>1. /\ low_half(ServerCaps) = 41481 /\ high_half(ServerCaps) = 14
      /\ whole_caps(9 + 256 * 162, 14 + 256 * 0) = ServerCaps
  BY SMT DEF ServerCaps, PROTOCOL_41, SECURE_CONNECTION, PLUGIN_AUTH,
             CONNECT_WITH_DB, low_half, high_half, whole_caps
<1>2. has(ServerCaps, PLUGIN_AUTH) /\ has(ServerCaps, SECURE_CONNECTION)
  BY SMT DEF has, ServerCaps, PROTOCOL_41, SECURE_CONNECTION, PLUGIN_AUTH,
             CONNECT_WITH_DB
<1>3. /\ 41481 % 256 = 9 /\ (41481 \div 256) % 256 = 162
      /\ 14 % 256 = 14 /\ (14 \div 256) % 256 = 0
      /\ 41481 \in Nat /\ 14 \in Nat
  BY SMT
<1>5. /\ le(41481, 2) = <<byte(41481 % 256), byte((41481 \div 256) % 256)>>
      /\ le(14, 2) = <<byte(14 % 256), byte((14 \div 256) % 256)>>
  BY SMT, <1>3, AsTwoBytes
<1> QED
  BY SMT, <1>1, <1>2, <1>3, <1>5

\* The two small numbers in the greeting
LEMMA ShortNumbers ==
  ASSUME NEW U, Bytes \subseteq U
  PROVE  Units(U, le(1, 4), 4) /\ Units(U, le(2, 2), 2)
<1>1. le(1, 4) = <<byte(1), byte(0), byte(0), byte(0)>>
  <2>1. /\ 1 % 256 = 1 /\ (1 \div 256) % 256 = 0 /\ (1 \div 65536) % 256 = 0
        /\ (1 \div 16777216) % 256 = 0
    BY SMT
  <2> QED
    BY SMT, <2>1, AsFourBytes
<1>2. le(2, 2) = <<byte(2), byte(0)>>
  <2>1. 2 % 256 = 2 /\ (2 \div 256) % 256 = 0
    BY SMT
  <2> QED
    BY SMT, <2>1, AsTwoBytes
<1>3. byte(0) \in U /\ byte(1) \in U /\ byte(2) \in U
  BY Parts
<1> QED
  BY <1>1, <1>2, <1>3, Pair, Four

\* The greeting with the parts that matter in their places
greeting(a, low, high, b) ==
  <<byte(10)>> \o letters(11) \o <<Zero>> \o le(1, 4)
    \o a \o <<Zero>>
    \o low \o <<byte(45)>> \o le(2, 2) \o high
    \o <<byte(21)>> \o zeros(10)
    \o (b \o <<Zero>>)
    \o (letters(21) \o <<Zero>>)

\* The parts of the greeting, in order
LEMMA GreetingBuilt ==
  ASSUME NEW sc
  PROVE  build_handshake(sc, ServerCaps) =
           greeting(SubSeq(sc, 1, 8), <<byte(9), byte(162)>>,
                    <<byte(14), byte(0)>>, SubSeq(sc, 9, 20))
<1>1. /\ has(ServerCaps, PLUGIN_AUTH) /\ has(ServerCaps, SECURE_CONNECTION)
      /\ le(low_half(ServerCaps), 2) = <<byte(9), byte(162)>>
      /\ le(high_half(ServerCaps), 2) = <<byte(14), byte(0)>>
  BY Zenon, Offered
<1>2. PICK a : a = SubSeq(sc, 1, 8)
  OBVIOUS
<1>3. PICK b : b = SubSeq(sc, 9, 20)
  OBVIOUS
<1> QED
  BY ZenonT(60), <1>1, <1>2, <1>3 DEF build_handshake, greeting

\* The two parts of the scramble
LEMMA ScrambleParts ==
  ASSUME NEW U, NEW sc, Units(U, sc, 20)
  PROVE  Units(U, SubSeq(sc, 1, 8), 8) /\ Units(U, SubSeq(sc, 9, 20), 12)
<1>1. /\ SubSeq(sc, 1, 8) = [i \in 1 .. 8 |-> sc[i]]
      /\ SubSeq(sc, 9, 20) = [i \in 1 .. 12 |-> sc[8 + i]]
  BY DEF Units
<1>2. \A i \in 1 .. 20 : sc[i] \in U
  BY UnitsAt
<1> QED
  BY <1>1, <1>2 DEF Units

\* What the client finds in a greeting, and where
Greeting(U, p, sc) ==
  /\ Units(U, p, 79)
  /\ Stands(p, 1, letters(11), 11) /\ Stands(p, 12, <<Zero>>, 1)
  /\ Stands(p, 17, SubSeq(sc, 1, 8), 8)
  /\ Stands(p, 26, <<byte(9), byte(162)>>, 2)
  /\ Stands(p, 31, <<byte(14), byte(0)>>, 2)
  /\ Stands(p, 33, <<byte(21)>>, 1)
  /\ Stands(p, 44, SubSeq(sc, 9, 20), 12)

\* Where things stand in a greeting
LEMMA GreetingPlaces ==
  ASSUME NEW X, NEW sc, Units(X, sc, 20)
  PROVE  Greeting(Bytes \cup X, build_handshake(sc, ServerCaps), sc)
<1> DEFINE U   == Bytes \cup X
           a   == SubSeq(sc, 1, 8)
           b   == SubSeq(sc, 9, 20)
           low == <<byte(9), byte(162)>>
           high == <<byte(14), byte(0)>>
           b1  == b \o <<Zero>>
           end == letters(21) \o <<Zero>>
           p1  == <<byte(10)>>
           p2  == p1 \o letters(11)
           p3  == p2 \o <<Zero>>
           p4  == p3 \o le(1, 4)
           p5  == p4 \o a
           p6  == p5 \o <<Zero>>
           p7  == p6 \o low
           p8  == p7 \o <<byte(45)>>
           p9  == p8 \o le(2, 2)
           p10 == p9 \o high
           p11 == p10 \o <<byte(21)>>
           p12 == p11 \o zeros(10)
           p13 == p12 \o b1
           p   == p13 \o end
<1>1. build_handshake(sc, ServerCaps) = p
  BY Zenon, GreetingBuilt DEF greeting
<1>2. Bytes \subseteq U /\ Units(U, sc, 20)
  BY DEF Units
<1> HIDE DEF U
<1>3. /\ \A n \in Nat : byte(n) \in U /\ Units(U, <<byte(n)>>, 1)
      /\ Units(U, <<Zero>>, 1)
      /\ \A n \in Nat : Units(U, letters(n), n) /\ Units(U, zeros(n), n)
  BY <1>2, Parts
<1>4. Units(U, a, 8) /\ Units(U, b, 12)
  BY <1>2, ScrambleParts
<1>5. Units(U, le(1, 4), 4) /\ Units(U, le(2, 2), 2)
  BY <1>2, ShortNumbers
<1>6. Units(U, low, 2) /\ Units(U, high, 2)
  BY ZenonT(60), <1>3, Pair, Four
<1> HIDE DEF a, b, low, high
<1>7. Units(U, b1, 13) /\ Begins(b1, b, 12) /\ Units(U, end, 22)
  <2>1. Units(U, b1, 13) /\ Begins(b1, b, 12)
    BY <1>3, <1>4, Put
  <2>2. Units(U, letters(21), 21) /\ Units(U, <<Zero>>, 1)
    BY <1>3
  <2>3. Units(U, end, 22) /\ Begins(end, letters(21), 21)
    BY <2>2, Put
  <2> QED
    BY <2>1, <2>3
<1> HIDE DEF b1, end
<1>8. Units(U, p1, 1)
  BY <1>3
<1> HIDE DEF p1
<1>9. /\ Units(U, p2, 12) /\ Begins(p2, p1, 1)
      /\ Stands(p2, 1, letters(11), 11)
  BY <1>3, <1>8, Put
<1> HIDE DEF p2
<1>10. /\ Units(U, p3, 13) /\ Begins(p3, p2, 12)
       /\ Stands(p3, 12, <<Zero>>, 1)
  BY <1>3, <1>9, Put
<1> HIDE DEF p3
<1>11. /\ Units(U, p4, 17) /\ Begins(p4, p3, 13)
       /\ Stands(p4, 13, le(1, 4), 4)
  BY <1>5, <1>10, Put
<1> HIDE DEF p4
<1>12. /\ Units(U, p5, 25) /\ Begins(p5, p4, 17)
       /\ Stands(p5, 17, a, 8)
  BY <1>4, <1>11, Put
<1> HIDE DEF p5
<1>13. /\ Units(U, p6, 26) /\ Begins(p6, p5, 25)
       /\ Stands(p6, 25, <<Zero>>, 1)
  BY <1>3, <1>12, Put
<1> HIDE DEF p6
<1>14. /\ Units(U, p7, 28) /\ Begins(p7, p6, 26)
       /\ Stands(p7, 26, low, 2)
  BY <1>6, <1>13, Put
<1> HIDE DEF p7
<1>15. /\ Units(U, p8, 29) /\ Begins(p8, p7, 28)
       /\ Stands(p8, 28, <<byte(45)>>, 1)
  BY <1>3, <1>14, Put
<1> HIDE DEF p8
<1>16. /\ Units(U, p9, 31) /\ Begins(p9, p8, 29)
       /\ Stands(p9, 29, le(2, 2), 2)
  BY <1>5, <1>15, Put
<1> HIDE DEF p9
<1>17. /\ Units(U, p10, 33) /\ Begins(p10, p9, 31)
       /\ Stands(p10, 31, high, 2)
  BY <1>6, <1>16, Put
<1> HIDE DEF p10
<1>18. /\ Units(U, p11, 34) /\ Begins(p11, p10, 33)
       /\ Stands(p11, 33, <<byte(21)>>, 1)
  BY <1>3, <1>17, Put
<1> HIDE DEF p11
<1>19. /\ Units(U, p12, 44) /\ Begins(p12, p11, 34)
       /\ Stands(p12, 34, zeros(10), 10)
  BY <1>3, <1>18, Put
<1> HIDE DEF p12
<1>20. /\ Units(U, p13, 57) /\ Begins(p13, p12, 44)
       /\ Stands(p13, 44, b1, 13)
  BY <1>7, <1>19, Put
<1> HIDE DEF p13
<1>21. /\ Units(U, p, 79) /\ Begins(p, p13, 57)
       /\ Stands(p, 57, end, 22)
  BY <1>7, <1>20, Put
<1> HIDE DEF p
<1>22. Begins(p, p12, 44) /\ Begins(p, p11, 34)
  BY <1>19, <1>20, <1>21, BeginsOn
<1>23. Begins(p, p10, 33) /\ Begins(p, p9, 31)
  BY <1>17, <1>18, <1>22, BeginsOn
<1>24. Begins(p, p8, 29) /\ Begins(p, p7, 28)
  BY <1>15, <1>16, <1>23, BeginsOn
<1>25. Begins(p, p6, 26) /\ Begins(p, p5, 25)
  BY <1>13, <1>14, <1>24, BeginsOn
<1>26. Begins(p, p4, 17) /\ Begins(p, p3, 13) /\ Begins(p, p2, 12)
  BY <1>10, <1>11, <1>12, <1>25, BeginsOn
<1>27. /\ Stands(p, 1, letters(11), 11) /\ Stands(p, 12, <<Zero>>, 1)
       /\ Stands(p, 17, a, 8)
  BY <1>9, <1>10, <1>12, <1>25, <1>26, StandsOn
<1>28. Stands(p, 26, low, 2) /\ Stands(p, 31, high, 2)
  BY <1>14, <1>17, <1>23, <1>24, StandsOn
<1>29. Stands(p, 33, <<byte(21)>>, 1)
  BY <1>18, <1>22, StandsOn
<1>30. Stands(p, 44, b, 12)
  BY <1>7, <1>20, <1>21 DEF Begins, Stands
<1> QED
  BY Zenon, <1>1, <1>21, <1>27, <1>28, <1>29, <1>30
     DEF Greeting, U, a, b, low, high

\* The n units behind m
Part(p, m, n) == SubSeq(p, m + 1, m + n)

\* A part of a sequence that is known
LEMMA PartIs ==
  ASSUME NEW U, NEW V, NEW p, NEW x, NEW k \in Nat, NEW m \in Nat, NEW n \in Nat,
         Units(U, p, k), Units(V, x, n), Stands(p, m, x, n), m + n <= k
  PROVE  Part(p, m, n) = x
<1>1. p \in Seq(U) /\ Len(p) = k /\ x \in Seq(V) /\ Len(x) = n
  BY DEF Units
<1>2. /\ Part(p, m, n) \in Seq(U) /\ Len(Part(p, m, n)) = n
      /\ \A i \in 1 .. n : Part(p, m, n)[i] = p[m + i]
  BY <1>1 DEF Part
<1>3. \A i \in 1 .. n : Part(p, m, n)[i] = x[i]
  BY <1>2 DEF Stands
<1> QED
  BY <1>1, <1>2, <1>3

\* A sequence is a function on its places.
LEMMA UnitsFunction ==
  ASSUME NEW U, NEW s, NEW n \in Nat, Units(U, s, n)
  PROVE  s = [i \in 1 .. n |-> s[i]]
BY DEF Units

\* A scramble put together again
LEMMA ScrambleWhole ==
  ASSUME NEW U, NEW sc, Units(U, sc, 20)
  PROVE  SubSeq(sc, 1, 8) \o SubSeq(sc, 9, 20) \o zeros(0) = sc
<1> DEFINE a == SubSeq(sc, 1, 8)
           b == SubSeq(sc, 9, 20)
           V == U \cup {Zero}
<1>1. /\ a = [i \in 1 .. 8 |-> sc[i]]
      /\ b = [i \in 1 .. 12 |-> sc[8 + i]]
  BY DEF Units
<1>2. Units(V, a, 8) /\ Units(V, b, 12)
  <2>1. Units(V, sc, 20)
    BY DEF Units
  <2> HIDE DEF V
  <2> QED
    BY <2>1, ScrambleParts
<1>3. Units(V, zeros(0), 0)
  BY DEF Units, zeros
<1> HIDE DEF a, b, V
<1>4. /\ Units(V, a \o b, 20) /\ Begins(a \o b, a, 8)
      /\ Stands(a \o b, 8, b, 12)
  BY <1>2, Put
<1>5. /\ Units(V, a \o b \o zeros(0), 20)
      /\ Begins(a \o b \o zeros(0), a \o b, 20)
      /\ Stands(a \o b \o zeros(0), 20, zeros(0), 0)
  BY <1>3, <1>4, Put
<1>6. \A i \in 1 .. 8 : (a \o b)[i] = sc[i]
  BY <1>1, <1>4 DEF Begins
<1>7. \A i \in 1 .. 12 : (a \o b)[8 + i] = sc[8 + i]
  BY <1>1, <1>4 DEF Stands
<1>8. \A i \in 9 .. 20 : (a \o b)[i] = sc[i]
  <2>1. ASSUME NEW i \in 9 .. 20
        PROVE  (a \o b)[i] = sc[i]
    <3>1. i - 8 \in 1 .. 12 /\ 8 + (i - 8) = i
      OBVIOUS
    <3> QED
      BY <1>7, <3>1
  <2> QED
    BY <2>1
<1>9. \A i \in 1 .. 20 : (a \o b \o zeros(0))[i] = sc[i]
  <2>1. ASSUME NEW i \in 1 .. 20
        PROVE  (a \o b \o zeros(0))[i] = sc[i]
    <3>1. (a \o b \o zeros(0))[i] = (a \o b)[i]
      BY <1>5 DEF Begins
    <3>2. i \in 1 .. 8 \/ i \in 9 .. 20
      OBVIOUS
    <3> QED
      BY <1>6, <1>8, <3>1, <3>2
  <2> QED
    BY <2>1
<1>10. /\ sc = [i \in 1 .. 20 |-> sc[i]]
       /\ a \o b \o zeros(0) = [i \in 1 .. 20 |-> (a \o b \o zeros(0))[i]]
  BY <1>5, UnitsFunction
<1>11. a \o b \o zeros(0) = sc
  BY <1>9, <1>10
<1> QED
  BY <1>11 DEF a, b

\* With 21 bytes of authentication data the second part is whole.
LEMMA SecondPart == second_part(21) = 12
<1>1. \A x \in {0, 12} : (\A y \in {0, 12} : x >= y) => x = 12
  OBVIOUS
<1>2. Max({0, 12}) = 12
  BY <1>1 DEF Max
<1>3. Max({0, 21 - 9}) = 12
  BY <1>2
<1>4. Min({12, 12}) = 12
  BY DEF Min
<1> QED
  BY <1>3, <1>4 DEF second_part

\* The client reads out of a greeting the scramble and the flags that the server
\* put into it.
LEMMA GreetingRead ==
  ASSUME NEW X, NEW sc, Units(X, sc, 20)
  PROVE  parse_server_handshake(build_handshake(sc, ServerCaps)) =
           [caps |-> ServerCaps, scramble |-> sc]
<1> DEFINE p == build_handshake(sc, ServerCaps)
           U == Bytes \cup X
<1>1. Greeting(U, p, sc)
  BY GreetingPlaces
<1> HIDE DEF p, U
<1>2. terminator(p, 2) = 13
  <2>1. \A i \in 1 .. 11 : p[1 + i] # Zero
    BY <1>1 DEF Greeting, Stands, letters, Zero, byte
  <2>2. \A i \in 2 .. 13 - 1 : p[i] # Zero
    <3>1. ASSUME NEW i \in 2 .. 13 - 1
          PROVE  p[i] # Zero
      <4>1. i - 1 \in 1 .. 11 /\ 1 + (i - 1) = i
        OBVIOUS
      <4> QED
        BY <2>1, <4>1
    <3> QED
      BY <3>1
  <2>3. p[13] = Zero
    <3>1. p[12 + 1] = <<Zero>>[1]
      BY <1>1 DEF Greeting, Stands
    <3> QED
      BY <3>1
  <2>4. Len(p) \in Nat /\ 13 <= Len(p) /\ 2 <= 13 /\ 2 \in Nat /\ 13 \in Nat
    BY <1>1 DEF Greeting, Units
  <2> QED
    BY <2>2, <2>3, <2>4, Terminates
<1>3. /\ SubSeq(p, 27, 28) = <<byte(9), byte(162)>>
      /\ SubSeq(p, 32, 33) = <<byte(14), byte(0)>>
  <2>1. /\ Stands(p, 26, <<byte(9), byte(162)>>, 2)
        /\ Stands(p, 31, <<byte(14), byte(0)>>, 2)
    BY <1>1 DEF Greeting
  <2>2. /\ Units(U, p, 79)
        /\ Units(U, <<byte(9), byte(162)>>, 2)
        /\ Units(U, <<byte(14), byte(0)>>, 2)
    BY ZenonT(60), <1>1, Parts, Pair, Four DEF Greeting, U
  <2>3. Part(p, 26, 2) = <<byte(9), byte(162)>>
    BY <2>1, <2>2, PartIs
  <2>4. Part(p, 31, 2) = <<byte(14), byte(0)>>
    BY <2>1, <2>2, PartIs
  <2> QED
    BY <2>3, <2>4 DEF Part
<1>4. whole_caps(from_le(SubSeq(p, 27, 28)), from_le(SubSeq(p, 32, 33))) =
        ServerCaps
  <2>1. /\ from_le(<<byte(9), byte(162)>>) = 9 + 256 * 162
        /\ from_le(<<byte(14), byte(0)>>) = 14 + 256 * 0
    BY TwoBytes
  <2> QED
    BY ZenonT(60), <1>3, <2>1, Offered
<1>5. p[34][2] = 21
  <2>1. p[33 + 1] = <<byte(21)>>[1]
    BY <1>1 DEF Greeting, Stands
  <2> QED
    BY <2>1 DEF byte
<1>6. /\ SubSeq(p, 18, 25) = SubSeq(sc, 1, 8)
      /\ SubSeq(p, 45, 56) = SubSeq(sc, 9, 20)
      /\ Len(SubSeq(sc, 9, 20)) = 12
  <2> DEFINE a == SubSeq(sc, 1, 8)
             b == SubSeq(sc, 9, 20)
  <2>1. Units(X, a, 8) /\ Units(X, b, 12)
    BY ScrambleParts
  <2>2. Units(U, p, 79) /\ Stands(p, 17, a, 8) /\ Stands(p, 44, b, 12)
    BY <1>1 DEF Greeting
  <2> HIDE DEF a, b
  <2>3. Part(p, 17, 8) = a
    BY <2>1, <2>2, PartIs
  <2>4. Part(p, 44, 12) = b
    BY <2>1, <2>2, PartIs
  <2>5. SubSeq(p, 18, 25) = a /\ SubSeq(p, 45, 56) = b /\ Len(b) = 12
    BY <2>1, <2>3, <2>4 DEF Units, Part
  <2> QED
    BY <2>5 DEF a, b
<1>7. SubSeq(sc, 1, 8) \o SubSeq(sc, 9, 20) \o zeros(0) = sc
  BY ScrambleWhole
<1>8. /\ 13 + 5 = 18 /\ 18 + 9 = 27 /\ 18 + 10 = 28 /\ 18 + 14 = 32
      /\ 18 + 15 = 33 /\ 18 + 16 = 34 /\ 18 + 27 = 45 /\ 18 + 26 + 12 = 56
      /\ 18 + 7 = 25 /\ 12 - 12 = 0
  OBVIOUS
<1>9. parse_server_handshake(p) = [caps |-> ServerCaps, scramble |-> sc]
  <2> DEFINE from == terminator(p, 2) + 5
             caps == whole_caps(from_le(SubSeq(p, from + 9, from + 10)),
                                from_le(SubSeq(p, from + 14, from + 15)))
  <2>1. from = 18
    BY <1>2
  <2>2. caps = ServerCaps
    BY Zenon, <1>4, <1>8, <2>1
  <2>3. /\ SubSeq(p, from, from + 7) = SubSeq(sc, 1, 8)
        /\ SubSeq(p, from + 27, from + 26 + 12) = SubSeq(sc, 9, 20)
        /\ p[from + 16][2] = 21
    BY ZenonT(60), <1>5, <1>6, <1>8, <2>1
  <2>4. zeros(12 - Len(SubSeq(sc, 9, 20))) = zeros(0)
    BY <1>6
  <2> HIDE DEF from, caps
  <2> QED
    BY Zenon, <1>7, <2>2, <2>3, <2>4, Offered, SecondPart
       DEF parse_server_handshake, from, caps
<1> QED
  BY <1>9 DEF p

-------------------------------------------------------------------------------
(* The response to it, and what the server reads of that.                   *)

\* The flags in the response
LEMMA Agreed ==
  /\ le(both(ClientCaps, ServerCaps), 4) =
       <<byte(8), byte(162), byte(8), byte(0)>>
  /\ has(8 + 256 * (162 + 256 * (8 + 256 * 0)), SECURE_CONNECTION)
<1>1. /\ 565768 % 256 = 8 /\ (565768 \div 256) % 256 = 162
      /\ (565768 \div 65536) % 256 = 8 /\ (565768 \div 16777216) % 256 = 0
      /\ 565768 \in Nat
  BY SMT
<1>2. has(8 + 256 * (162 + 256 * (8 + 256 * 0)), SECURE_CONNECTION)
  BY SMT DEF has, SECURE_CONNECTION
<1>3. le(565768, 4) = <<byte(565768 % 256), byte((565768 \div 256) % 256),
                        byte((565768 \div 65536) % 256),
                        byte((565768 \div 16777216) % 256)>>
  BY SMT, <1>1, AsFourBytes
<1> QED
  BY SMT, <1>1, <1>2, <1>3, BothFlags

\* The size of a packet, which nobody reads
LEMMA PacketSize ==
  ASSUME NEW U, Bytes \subseteq U
  PROVE  Units(U, le(MaxPacket, 4), 4)
<1>1. le(MaxPacket, 4) = <<byte(255), byte(255), byte(255), byte(0)>>
  <2>1. /\ 16777215 % 256 = 255 /\ (16777215 \div 256) % 256 = 255
        /\ (16777215 \div 65536) % 256 = 255
        /\ (16777215 \div 16777216) % 256 = 0
    BY SMT
  <2> QED
    BY SMT, <2>1, AsFourBytes DEF MaxPacket
<1>2. byte(0) \in U /\ byte(255) \in U
  BY ZenonT(60), Parts
<1> QED
  BY <1>1, <1>2, Pair, Four

\* What the server finds in a response, and where
Response(U, p, auth, L) ==
  /\ Units(U, p, 66 + L)
  /\ Stands(p, 0, <<byte(8), byte(162), byte(8), byte(0)>>, 4)
  /\ Stands(p, 32, letters(4), 4) /\ Stands(p, 36, <<Zero>>, 1)
  /\ Stands(p, 37, <<byte(L)>>, 1)
  /\ Stands(p, 38, auth, L)

\* The authentication in a response
auth_of(hello, pw) ==
  IF pw = "" THEN <<>>
  ELSE <<<<"digest", compute_auth_response(pw, hello.scramble)>>>>

\* Where things stand in a response
LEMMA ResponsePlaces ==
  ASSUME NEW X, NEW hello, hello.caps = ServerCaps, NEW pw, NEW L \in Nat,
         Units(X, auth_of(hello, pw), L)
  PROVE  Response(Bytes \cup X, build_handshake_response(hello, pw),
                  auth_of(hello, pw), L)
<1> DEFINE U    == Bytes \cup X
           auth == auth_of(hello, pw)
           p1   == <<byte(8), byte(162), byte(8), byte(0)>>
           p2   == p1 \o le(MaxPacket, 4)
           p3   == p2 \o <<byte(255)>>
           p4   == p3 \o zeros(23)
           p5   == p4 \o letters(4)
           p6   == p5 \o <<Zero>>
           p7   == p6 \o <<byte(Len(auth))>>
           p8   == p7 \o auth
           p9   == p8 \o letters(5)
           p10  == p9 \o <<Zero>>
           p11  == p10 \o letters(21)
           p   == p11 \o <<Zero>>
<1>1. build_handshake_response(hello, pw) = p
  BY ZenonT(60), Agreed DEF build_handshake_response, auth_of
<1>2. Bytes \subseteq U /\ Units(U, auth, L) /\ Len(auth) = L
  BY DEF Units
<1> HIDE DEF U, auth
<1>3. /\ \A n \in Nat : byte(n) \in U /\ Units(U, <<byte(n)>>, 1)
      /\ Units(U, <<Zero>>, 1)
      /\ \A n \in Nat : Units(U, letters(n), n) /\ Units(U, zeros(n), n)
  BY <1>2, Parts
<1>4. Units(U, le(MaxPacket, 4), 4)
  BY <1>2, PacketSize
<1>5. Units(U, p1, 4)
  BY ZenonT(60), <1>3, Pair, Four
<1> HIDE DEF p1
<1>6. /\ Units(U, p2, 8) /\ Begins(p2, p1, 4)
      /\ Stands(p2, 4, le(MaxPacket, 4), 4)
  BY <1>4, <1>5, Put
<1> HIDE DEF p2
<1>7. /\ Units(U, p3, 9) /\ Begins(p3, p2, 8)
      /\ Stands(p3, 8, <<byte(255)>>, 1)
  BY <1>3, <1>6, Put
<1> HIDE DEF p3
<1>8. /\ Units(U, p4, 32) /\ Begins(p4, p3, 9)
      /\ Stands(p4, 9, zeros(23), 23)
  BY <1>3, <1>7, Put
<1> HIDE DEF p4
<1>9. /\ Units(U, p5, 36) /\ Begins(p5, p4, 32)
      /\ Stands(p5, 32, letters(4), 4)
  BY <1>3, <1>8, Put
<1> HIDE DEF p5
<1>10. /\ Units(U, p6, 37) /\ Begins(p6, p5, 36)
       /\ Stands(p6, 36, <<Zero>>, 1)
  BY <1>3, <1>9, Put
<1> HIDE DEF p6
<1>11. /\ Units(U, p7, 38) /\ Begins(p7, p6, 37)
       /\ Stands(p7, 37, <<byte(L)>>, 1)
  BY <1>2, <1>3, <1>10, Put
<1> HIDE DEF p7
<1>12. /\ Units(U, p8, 38 + L) /\ Begins(p8, p7, 38)
       /\ Stands(p8, 38, auth, L)
  BY <1>2, <1>11, Put
<1> HIDE DEF p8
<1>13. /\ Units(U, p9, 43 + L) /\ Begins(p9, p8, 38 + L)
       /\ Stands(p9, 38 + L, letters(5), 5)
  BY <1>3, <1>12, Put
<1> HIDE DEF p9
<1>14. /\ Units(U, p10, 44 + L) /\ Begins(p10, p9, 43 + L)
       /\ Stands(p10, 43 + L, <<Zero>>, 1)
  BY <1>3, <1>13, Put
<1> HIDE DEF p10
<1>15. /\ Units(U, p11, 65 + L) /\ Begins(p11, p10, 44 + L)
       /\ Stands(p11, 44 + L, letters(21), 21)
  BY <1>3, <1>14, Put
<1> HIDE DEF p11
<1>16. /\ Units(U, p, 66 + L) /\ Begins(p, p11, 65 + L)
       /\ Stands(p, 65 + L, <<Zero>>, 1)
  BY <1>3, <1>15, Put
<1> HIDE DEF p
<1>17. Begins(p, p10, 44 + L) /\ Begins(p, p9, 43 + L)
  BY <1>14, <1>15, <1>16, BeginsOn
<1>18. Begins(p, p8, 38 + L) /\ Begins(p, p7, 38)
  BY <1>12, <1>13, <1>17, BeginsOn
<1>19. Begins(p, p6, 37) /\ Begins(p, p5, 36) /\ Begins(p, p4, 32)
  BY <1>9, <1>10, <1>11, <1>18, BeginsOn
<1>20. Begins(p, p3, 9) /\ Begins(p, p2, 8) /\ Begins(p, p1, 4)
  BY <1>6, <1>7, <1>8, <1>19, BeginsOn
<1>21. Stands(p, 32, letters(4), 4) /\ Stands(p, 36, <<Zero>>, 1)
  BY <1>9, <1>10, <1>19, StandsOn
<1>22. Stands(p, 37, <<byte(L)>>, 1) /\ Stands(p, 38, auth, L)
  BY <1>11, <1>12, <1>18, StandsOn
<1>23. Stands(p, 0, p1, 4)
  BY <1>20 DEF Begins, Stands
<1> QED
  BY Zenon, <1>1, <1>16, <1>21, <1>22, <1>23 DEF Response, U, auth, p1

\* The server reads out of a response the authentication that the client put
\* into it.
LEMMA ResponseRead ==
  ASSUME NEW X, NEW hello, hello.caps = ServerCaps, NEW pw, NEW L \in Nat,
         Units(X, auth_of(hello, pw), L)
  PROVE  parse_handshake_response(build_handshake_response(hello, pw)) =
           auth_of(hello, pw)
<1> DEFINE p    == build_handshake_response(hello, pw)
           auth == auth_of(hello, pw)
           U    == Bytes \cup X
           caps == <<byte(8), byte(162), byte(8), byte(0)>>
<1>1. Response(U, p, auth, L)
  BY ResponsePlaces
<1>2. Units(X, auth, L)
  OBVIOUS
<1> HIDE DEF p, auth, U
<1>3. from_le(SubSeq(p, 1, 4)) = 8 + 256 * (162 + 256 * (8 + 256 * 0))
  <2>1. Units(U, caps, 4)
    BY ZenonT(60), Parts, Four DEF U
  <2>2. Units(U, p, 66 + L) /\ Stands(p, 0, caps, 4)
    BY <1>1 DEF Response
  <2> HIDE DEF caps
  <2>3. Part(p, 0, 4) = caps
    <3>1. 66 + L \in Nat /\ 0 + 4 <= 66 + L
      OBVIOUS
    <3> QED
      BY <2>1, <2>2, <3>1, PartIs
  <2>4. SubSeq(p, 1, 4) = caps
    BY <2>3 DEF Part
  <2>5. from_le(<<byte(8), byte(162), byte(8), byte(0)>>) =
          8 + 256 * (162 + 256 * (8 + 256 * 0))
    BY FourBytes
  <2> QED
    BY Zenon, <2>4, <2>5 DEF caps
<1> HIDE DEF caps
<1>4. terminator(p, 33) = 37
  <2>1. \A i \in 1 .. 4 : p[32 + i] # Zero
    BY <1>1 DEF Response, Stands, letters, Zero, byte
  <2>2. \A i \in 33 .. 37 - 1 : p[i] # Zero
    <3>1. ASSUME NEW i \in 33 .. 37 - 1
          PROVE  p[i] # Zero
      <4>1. i - 32 \in 1 .. 4 /\ 32 + (i - 32) = i
        OBVIOUS
      <4> QED
        BY <2>1, <4>1
    <3> QED
      BY <3>1
  <2>3. p[37] = Zero
    <3>1. p[36 + 1] = <<Zero>>[1]
      BY <1>1 DEF Response, Stands
    <3> QED
      BY <3>1
  <2>4. /\ Len(p) \in Nat /\ 37 <= Len(p)
        /\ 33 <= 37 /\ 33 \in Nat /\ 37 \in Nat
    BY <1>1 DEF Response, Units
  <2> QED
    BY <2>2, <2>3, <2>4, Terminates
<1>5. p[38][2] = L
  <2>1. p[37 + 1] = <<byte(L)>>[1]
    BY <1>1 DEF Response, Stands
  <2> QED
    BY <2>1 DEF byte
<1>6. SubSeq(p, 38 + 1, 38 + L) = auth
  <2>1. Units(U, p, 66 + L) /\ Stands(p, 38, auth, L)
    BY <1>1 DEF Response
  <2>2. 66 + L \in Nat /\ 38 + L <= 66 + L /\ 38 \in Nat
    OBVIOUS
  <2>3. Part(p, 38, L) = auth
    BY <1>2, <2>1, <2>2, PartIs
  <2> QED
    BY <2>3 DEF Part
<1>7. 37 + 1 = 38
  OBVIOUS
<1>8. parse_handshake_response(p) = auth
  BY ZenonT(60), <1>3, <1>4, <1>5, <1>6, <1>7, Agreed
     DEF parse_handshake_response
<1> QED
  BY <1>8 DEF p, auth

\* An element is in the XOR of two sets when it is in one of them.
LEMMA InSymDiff ==
  ASSUME NEW A, NEW B, NEW x
  PROVE  x \in SymDiff(A, B) <=>
           (x \in A /\ x \notin B) \/ (x \in B /\ x \notin A)
BY DEF SymDiff

\* The digests that are hashed again
LEMMA HashedTwice ==
  ASSUME NEW g, NEW h
  PROVE  double_hash(g) = double_hash(h) <=> g = h
<1>1. ASSUME double_hash(g) = double_hash(h)
      PROVE  g = h
  <2>1. <<"sha1", <<"digest", g>>>> \in double_hash(h)
    BY <1>1 DEF double_hash, sha1
  <2>2. <<"sha1", <<"digest", g>>>> = <<"sha1", <<"digest", h>>>>
    BY <2>1 DEF double_hash, sha1
  <2>3. <<"digest", g>> = <<"digest", h>>
    BY <2>2
  <2> QED
    BY <2>3
<1> QED
  BY <1>1

\* The server accepts the response of a client that has its password, and no
\* other.
LEMMA Verified ==
  ASSUME NEW sc, NEW pw, NEW mine, NEW hello, hello.scramble = sc
  PROVE  verify_native_password_hash(hash_native_password(mine), sc,
                                     auth_of(hello, pw))
           <=> mine # "" /\ pw = mine
<1> DEFINE stored == hash_native_password(mine)
           mix    == salted(sc, stored)
           sent   == compute_auth_response(pw, sc)
           hash   == IF pw = "" THEN {} ELSE SymDiff(sent, mix)
           of_(w) == <<"sha1", <<"password", w>>>>
           s1     == <<"sha1", <<"scramble and digest", sc,
                                 hash_native_password(pw)>>>>
           s2     == <<"sha1", <<"scramble and digest", sc, stored>>>>
<1>1. verify_native_password_hash(stored, sc, auth_of(hello, pw)) <=>
        double_hash(hash) = stored
  <2>1. CASE pw = ""
    BY <2>1 DEF verify_native_password_hash, auth_of
  <2>2. CASE pw # ""
    <3>1. auth_of(hello, pw) = <<<<"digest", sent>>>>
      BY <2>2 DEF auth_of
    <3>2. auth_of(hello, pw) # <<>> /\ auth_of(hello, pw)[1][2] = sent
      BY <3>1
    <3> QED
      BY <2>2, <3>2 DEF verify_native_password_hash
  <2> QED
    BY <2>1, <2>2
<1>2. double_hash(hash) = stored <=> hash = password_hash(mine)
  BY HashedTwice DEF hash_native_password
<1>3. password_hash(mine) = {of_(mine)} /\ password_hash(pw) = {of_(pw)}
  BY DEF password_hash, sha1
<1>4. mix = {s2} /\ sent = SymDiff({of_(pw)}, {s1})
  BY <1>3 DEF salted, sha1, compute_auth_response
<1>5. of_(pw) # s1 /\ of_(pw) # s2
  OBVIOUS
<1>6. of_(pw) = of_(mine) => pw = mine
  OBVIOUS
<1>7. CASE pw = ""
  BY <1>1, <1>2, <1>3, <1>7
<1>8. CASE pw # "" /\ pw # mine
  <2>1. of_(pw) \in sent /\ of_(pw) \notin mix
    <3> HIDE DEF of_, s1, s2, sent, mix
    <3> QED
      BY <1>4, <1>5, InSymDiff
  <2>2. of_(pw) \in SymDiff(sent, mix)
    <3> HIDE DEF of_, sent, mix
    <3> QED
      BY <2>1, InSymDiff
  <2>3. of_(pw) \in hash
    BY <1>8, <2>2
  <2>4. of_(pw) \notin password_hash(mine)
    BY <1>3, <1>6, <1>8
  <2>5. hash # password_hash(mine)
    BY <2>3, <2>4
  <2> HIDE DEF hash, stored
  <2>6. ~verify_native_password_hash(stored, sc, auth_of(hello, pw))
    BY <1>1, <1>2, <2>5
  <2> QED
    BY <1>8, <2>6 DEF stored
<1>9. CASE pw # "" /\ pw = mine
  <2>1. s1 = s2
    BY <1>9
  <2>2. SymDiff(sent, mix) = {of_(pw)}
    <3>1. \A x : x \in SymDiff(sent, mix) <=> x = of_(pw)
      <4> HIDE DEF of_, s1, s2, sent, mix
      <4> QED
        BY <1>4, <1>5, <2>1, InSymDiff
    <3> QED
      BY <3>1
  <2>3. hash = password_hash(mine)
    BY <1>3, <1>9, <2>2
  <2> QED
    BY <1>1, <1>2, <1>9, <2>3
<1> QED
  BY <1>7, <1>8, <1>9

-------------------------------------------------------------------------------
(* Logins: what is on its way before the server has judged one.             *)

\* Who is to be let in
Entitled(c) ==
  \/ setup.server = NoPassword
  \/ setup.server # "" /\ setup.client[c] = setup.server

\* A login that has been judged was judged rightly.
Judged(c) ==
  server[c].login # "none" => (server[c].login = "accepted") = Entitled(c)

\* What the client reads out of the greeting
Hello(c) == [caps |-> ServerCaps, scramble |-> scramble(c)]

\* What is on its way before the login is judged
Honest(c) ==
  /\ Judged(c)
  /\ server[c].phase = "login" /\ client[c].phase = "connect" =>
       to_client[c] = <<build_handshake(scramble(c), ServerCaps)>>
  /\ server[c].phase = "login" /\ client[c].phase = "login" =>
       to_server[c] = <<build_handshake_response(Hello(c), setup.client[c])>>

LoginInv == TalkInv /\ \A c \in Sessions : Honest(c)

\* The client reads the scramble of its own connection.
LEMMA HelloRead ==
  ASSUME NEW c
  PROVE  parse_server_handshake(build_handshake(scramble(c), ServerCaps)) =
           Hello(c)
<1>1. Units({scramble(c)[i] : i \in 1 .. 20}, scramble(c), 20)
  BY DEF Units, scramble
<1> QED
  BY Zenon, <1>1, GreetingRead DEF Hello

\* What a client sends for its password is a sequence.
LEMMA AuthUnits ==
  ASSUME NEW hello, NEW pw
  PROVE  \E X : \E L \in Nat : Units(X, auth_of(hello, pw), L)
<1>1. CASE pw = ""
  <2>1. Units({}, <<>>, 0)
    BY DEF Units
  <2>2. auth_of(hello, pw) = <<>>
    BY <1>1 DEF auth_of
  <2> QED
    BY Zenon, <2>1, <2>2
<1>2. CASE pw # ""
  <2> DEFINE unit == <<"digest", compute_auth_response(pw, hello.scramble)>>
  <2>1. auth_of(hello, pw) = <<unit>>
    BY <1>2 DEF auth_of
  <2> HIDE DEF unit
  <2>2. Units({unit}, <<unit>>, 1)
    BY DEF Units
  <2> QED
    BY Zenon, <2>1, <2>2
<1> QED
  BY <1>1, <1>2

\* A response to the greeting is accepted when its password is the server's.
LEMMA ResponseVerified ==
  ASSUME NEW hello, hello.caps = ServerCaps, NEW mine, NEW pw
  PROVE  verify_native_password_hash(
           hash_native_password(mine), hello.scramble,
           parse_handshake_response(build_handshake_response(hello, pw)))
           <=> mine # "" /\ pw = mine
<1>1. PICK sc : sc = hello.scramble
  OBVIOUS
<1>2. parse_handshake_response(build_handshake_response(hello, pw)) =
        auth_of(hello, pw)
  BY Zenon, AuthUnits, ResponseRead
<1>3. verify_native_password_hash(hash_native_password(mine), sc,
                                  auth_of(hello, pw))
        <=> mine # "" /\ pw = mine
  BY Zenon, <1>1, Verified
<1> QED
  BY Zenon, <1>1, <1>2, <1>3

\* The server accepts those whom it should.
LEMMA AcceptsRightly ==
  ASSUME NEW c
  PROVE  accepts(c, build_handshake_response(Hello(c), setup.client[c])) <=>
           Entitled(c)
<1>1. PICK mine : mine = setup.server
  OBVIOUS
<1>2. PICK pw : pw = setup.client[c]
  OBVIOUS
<1>3. PICK hello : hello = Hello(c)
  OBVIOUS
<1>4. hello.caps = ServerCaps /\ hello.scramble = scramble(c)
  BY <1>3 DEF Hello
<1>5. verify_native_password_hash(
        hash_native_password(mine), hello.scramble,
        parse_handshake_response(build_handshake_response(hello, pw)))
        <=> mine # "" /\ pw = mine
  BY Zenon, <1>4, ResponseVerified
<1> QED
  BY Zenon, <1>1, <1>2, <1>3, <1>4, <1>5 DEF accepts, Entitled

\* A step that neither sends nor judges a login leaves it as it was.
LEMMA HonestKept ==
  ASSUME NEW c, Honest(c), setup' = setup,
         server'[c].login = server[c].login,
         \/ server'[c].phase # "login"
         \/ client'[c].phase \notin {"connect", "login"}
         \/ /\ server'[c].phase = server[c].phase
            /\ client'[c].phase = client[c].phase
            /\ to_client'[c] = to_client[c]
            /\ to_server'[c] = to_server[c]
  PROVE  Honest(c)'
<1>1. Judged(c)'
  BY DEF Honest, Judged, Entitled
<1> QED
  BY <1>1 DEF Honest, Hello, scramble

-------------------------------------------------------------------------------
(* Every step keeps what is on its way.                                     *)

\* The new state of one connection is that of no other.
LEMMA Elsewhere ==
  ASSUME TalkInv, NEW c \in Sessions, NEW d \in Sessions, d # c
  PROVE  /\ \A x : /\ [server EXCEPT ![c] = x][d] = server[d]
                   /\ [client EXCEPT ![c] = x][d] = client[d]
                   /\ [to_server EXCEPT ![c] = x][d] = to_server[d]
                   /\ [to_client EXCEPT ![c] = x][d] = to_client[d]
BY DEF TalkInv

\* What a connection has in one state it has in the next.
Same(d) ==
  /\ setup' = setup
  /\ server'[d] = server[d] /\ client'[d] = client[d]
  /\ to_server'[d] = to_server[d] /\ to_client'[d] = to_client[d]

\* The step of one connection leaves the others as they are.
LEMMA OthersSame ==
  ASSUME TalkInv, NEW c \in Sessions,
         LoginStep(c) \/ ServerStep(c) \/ ClientStep(c) \/ Exit(c)
           \/ \E req \in Requests : Ask(c, req),
         NEW d \in Sessions, d # c
  PROVE  Same(d)
<1>1. CASE Greet(c)
  BY <1>1, Elsewhere DEF Same, Greet, Server
<1>2. CASE SendLogin(c)
  BY <1>2, Elsewhere DEF Same, SendLogin, Client
<1>3. CASE Login(c)
  BY <1>3, Elsewhere DEF Same, Login, Server
<1>4. CASE ReadLogin(c)
  BY <1>4, Elsewhere DEF Same, ReadLogin, Client
<1>5. CASE Answer(c)
  BY <1>5, Elsewhere DEF Same, Answer, Command, Server
<1>6. CASE TakeQuery(c)
  BY <1>6, Elsewhere DEF Same, TakeQuery, Command, Server
<1>7. CASE TakeInitDb(c)
  BY <1>7, Elsewhere DEF Same, TakeInitDb, Command, Server
<1>8. CASE Close(c)
  <2>1. to_server'[d] = to_server[d]
    <3>1. CASE Command(c, {"quit"})
      BY <3>1, Elsewhere DEF Command
    <3>2. CASE UNCHANGED to_server
      BY <3>2
    <3> QED
      BY <1>8, <3>1, <3>2 DEF Close
  <2>2. /\ UNCHANGED <<setup, client, to_client>>
        /\ \E x : server' = [server EXCEPT ![c] = x]
    BY <1>8 DEF Close, Server
  <2> QED
    BY <2>1, <2>2, Elsewhere DEF Same
<1>9. CASE Execute(c)
  BY <1>9, Elsewhere DEF Same, Execute, Server
<1>10. CASE Work(c)
  BY <1>10 DEF Same, Work
<1>11. CASE Respond(c)
  <2>1. /\ UNCHANGED <<setup, client, to_server>>
        /\ \E x : server' = [server EXCEPT ![c] = x]
        /\ \E x : to_client' = [to_client EXCEPT ![c] = x]
    <3>1. ASSUME NEW tags, NEW new, Reply(c, tags, new)
          PROVE  /\ \E x : server' = [server EXCEPT ![c] = x]
                 /\ \E x : to_client' = [to_client EXCEPT ![c] = x]
      BY <3>1 DEF Reply, Server
    <3> QED
      BY <1>11, <3>1 DEF Respond
  <2> QED
    BY <2>1, Elsewhere DEF Same
<1>12. CASE TaskDies(c)
  BY <1>12, Elsewhere DEF Same, TaskDies, Server
<1>13. CASE ClientStep(c)
  <2>1. CASE Receive(c)
    <3>1. /\ UNCHANGED <<setup, server, to_server>>
          /\ \E x : client' = [client EXCEPT ![c] = x]
          /\ \E x : to_client' = [to_client EXCEPT ![c] = x]
      BY <2>1 DEF Receive, Client
    <3> QED
      BY <3>1, Elsewhere DEF Same
  <2>2. CASE ReceiveNothing(c)
    BY <2>2, Elsewhere DEF Same, ReceiveNothing, Client
  <2> QED
    BY <1>13, <2>1, <2>2 DEF ClientStep
<1>14. CASE Exit(c)
  BY <1>14, Elsewhere DEF Same, Exit, Client
<1>15. CASE \E req \in Requests : Ask(c, req)
  <2>1. /\ UNCHANGED <<setup, server, to_client>>
        /\ \E x : client' = [client EXCEPT ![c] = x]
        /\ \E x : to_server' = [to_server EXCEPT ![c] = x]
    BY <1>15 DEF Ask, Client
  <2> QED
    BY <2>1, Elsewhere DEF Same
<1> QED
  BY <1>1, <1>2, <1>3, <1>4, <1>5, <1>6, <1>7, <1>8, <1>9, <1>10, <1>11,
     <1>12, <1>13, <1>14, <1>15 DEF LoginStep, ServerStep

\* What is on its way in the others stays as it was.
LEMMA OthersHonest ==
  ASSUME TalkInv, NEW c \in Sessions,
         LoginStep(c) \/ ServerStep(c) \/ ClientStep(c) \/ Exit(c)
           \/ \E req \in Requests : Ask(c, req),
         NEW d \in Sessions, d # c, Honest(d)
  PROVE  Honest(d)'
<1>1. Same(d)
  BY OthersSame
<1> QED
  BY <1>1, HonestKept DEF Same

\* The new state of a connection
LEMMA Here ==
  ASSUME TalkInv, NEW c \in Sessions
  PROVE  /\ \A x : /\ [server EXCEPT ![c] = x][c] = x
                   /\ [client EXCEPT ![c] = x][c] = x
                   /\ [to_server EXCEPT ![c] = x][c] = x
                   /\ [to_client EXCEPT ![c] = x][c] = x
BY DEF TalkInv

\* The phases of a login
LEMMA LoginPhases ==
  ASSUME TalkInv, NEW c \in Sessions
  PROVE  /\ server[c].phase = "greet" => client[c].phase = "connect"
         /\ client[c].phase = "connect" /\ to_client[c] # <<>> =>
              server[c].phase = "login"
         /\ server[c].phase = "login" /\ to_server[c] # <<>> =>
              client[c].phase = "login"
         /\ server[c] \in ServerRec /\ client[c] \in ClientRec
BY NotMoved DEF Good, Connecting, Talking

\* The greeting is on its way.
LEMMA GreetHonest ==
  ASSUME LoginInv, NEW c \in Sessions, Greet(c)
  PROVE  Honest(c)'
<1>1. TalkInv /\ Honest(c) /\ server[c] \in ServerRec
  BY LoginPhases DEF LoginInv
<1>2. /\ setup' = setup /\ client' = client
      /\ to_client'[c] = <<build_handshake(scramble(c), ServerCaps)>>
  BY <1>1, Here DEF Greet
<1>3. server'[c] = [server[c] EXCEPT !.phase = "login"]
  BY <1>1, Here DEF Greet, Server, goes
<1>4. server'[c].login = server[c].login
  BY <1>1, <1>3 DEF ServerRec
<1>5. client'[c].phase = "connect"
  BY <1>1, <1>2, LoginPhases DEF Greet
<1>6. Judged(c)'
  BY <1>1, <1>2, <1>4 DEF Honest, Judged, Entitled
<1> QED
  BY <1>2, <1>5, <1>6 DEF Honest, scramble

\* The response to it is on its way.
LEMMA SendLoginHonest ==
  ASSUME LoginInv, NEW c \in Sessions, SendLogin(c)
  PROVE  Honest(c)'
<1>1. TalkInv /\ Honest(c) /\ client[c] \in ClientRec
  BY LoginPhases DEF LoginInv
<1>2. /\ setup' = setup /\ server' = server
      /\ client[c].phase = "connect" /\ to_client[c] # <<>>
  BY DEF SendLogin
<1>3. to_client[c] = <<build_handshake(scramble(c), ServerCaps)>>
  BY <1>1, <1>2, LoginPhases DEF Honest
<1>4. Head(to_client[c]) = build_handshake(scramble(c), ServerCaps)
  BY Zenon, <1>3, OnePacket
<1>5. to_server'[c] =
        <<build_handshake_response(parse_server_handshake(Head(to_client[c])),
                                   setup.client[c])>>
  BY <1>1, Here DEF SendLogin
<1>6. to_server'[c] = <<build_handshake_response(Hello(c), setup.client[c])>>
  BY Zenon, <1>4, <1>5, HelloRead
<1>7. client'[c].phase = "login"
  <2>1. client'[c] = [client[c] EXCEPT !.phase = "login"]
    BY <1>1, Here DEF SendLogin, Client
  <2> QED
    BY <1>1, <2>1 DEF ClientRec
<1>8. Judged(c)'
  BY <1>1, <1>2 DEF Honest, Judged, Entitled
<1> QED
  BY <1>2, <1>6, <1>7, <1>8 DEF Honest, Hello, scramble

\* The server judges the response.
LEMMA LoginHonest ==
  ASSUME LoginInv, NEW c \in Sessions, Login(c)
  PROVE  Honest(c)'
<1>1. TalkInv /\ Honest(c) /\ server[c] \in ServerRec
  BY LoginPhases DEF LoginInv
<1>2. /\ setup' = setup
      /\ server[c].phase = "login" /\ to_server[c] # <<>>
  BY DEF Login
<1>3. to_server[c] = <<build_handshake_response(Hello(c), setup.client[c])>>
  BY <1>1, <1>2, LoginPhases DEF Honest
<1>4. Head(to_server[c]) = build_handshake_response(Hello(c), setup.client[c])
  BY Zenon, <1>3, OnePacket
<1>5. accepts(c, Head(to_server[c])) <=> Entitled(c)
  BY Zenon, <1>4, AcceptsRightly
<1>6. Entitled(c)' = Entitled(c)
  BY <1>2 DEF Entitled
<1> Entitled(c) \in BOOLEAN
  BY DEF Entitled
<1>7. CASE Entitled(c)
  <2>1. Server(c, [goes(c, "ready") EXCEPT !.login = "accepted"])
    BY <1>5, <1>7 DEF Login
  <2>2. server'[c] = [goes(c, "ready") EXCEPT !.login = "accepted"]
    BY <1>1, <2>1, Here DEF Server
  <2>3. server'[c].login = "accepted" /\ server'[c].phase = "ready"
    BY <1>1, <2>2 DEF goes, ServerRec
  <2> QED
    BY <1>6, <1>7, <2>3 DEF Honest, Judged
<1>8. CASE ~Entitled(c)
  <2>1. Server(c, [goes(c, "closed") EXCEPT !.login = "denied"])
    BY <1>5, <1>8 DEF Login
  <2>2. server'[c] = [goes(c, "closed") EXCEPT !.login = "denied"]
    BY <1>1, <2>1, Here DEF Server
  <2>3. server'[c].login = "denied" /\ server'[c].phase = "closed"
    BY <1>1, <2>2 DEF goes, ServerRec
  <2> QED
    BY <1>6, <1>8, <2>3 DEF Honest, Judged
<1> QED
  BY <1>7, <1>8

\* A client that has logged in, or was refused, sends no login again.
LEMMA ClientHonest ==
  ASSUME LoginInv, NEW c \in Sessions,
         \/ ReadLogin(c) \/ ClientStep(c) \/ Exit(c)
         \/ \E req \in Requests : Ask(c, req)
  PROVE  Honest(c)'
<1>1. TalkInv /\ Honest(c) /\ client[c] \in ClientRec
  BY LoginPhases DEF LoginInv
<1>2. setup' = setup /\ server' = server
  BY DEF ReadLogin, ClientStep, Receive, ReceiveNothing, Exit, Ask
<1>3. ASSUME NEW new, client' = [client EXCEPT ![c] = new],
             new.phase \notin {"connect", "login"}
      PROVE  client'[c].phase \notin {"connect", "login"}
  BY <1>1, <1>3, Here
<1>4. client'[c].phase \notin {"connect", "login"}
  <2>1. CASE ReadLogin(c)
    <3>1. PICK p \in {"prompt", "gone"} :
            client' = [client EXCEPT ![c] = [client[c] EXCEPT !.phase = p]]
      BY <2>1 DEF ReadLogin, Client
    <3> QED
      BY <1>1, <1>3, <3>1 DEF ClientRec
  <2>2. CASE Receive(c)
    <3>1. PICK s, a, i, o : client' = [client EXCEPT ![c] =
            [client[c] EXCEPT !.phase = "prompt", !.shown = s, !.answer = a,
                              !.in_step = i, !.on_prompt = o]]
      BY ZenonT(60), <2>2 DEF Receive, Client
    <3> QED
      BY <1>1, <1>3, <3>1 DEF ClientRec
  <2>3. CASE ReceiveNothing(c)
    BY <1>1, <1>3, <2>3 DEF ReceiveNothing, Client, ClientRec
  <2>4. CASE Exit(c)
    BY <1>1, <1>3, <2>4 DEF Exit, Client, ClientRec
  <2>5. ASSUME NEW req \in Requests, Ask(c, req)
        PROVE  client'[c].phase \notin {"connect", "login"}
    <3> DEFINE named == parse_use_db(req)
               new == [client[c] EXCEPT
                 !.phase     = IF req.kind = "quit" THEN "gone" ELSE "asked",
                 !.sent      = @ + 1,
                 !.prompt    = IF named = NoName THEN @ ELSE named,
                 !.on_prompt = IF switches_unseen(req) THEN "no"
                               ELSE IF named # NoName THEN "asked" ELSE @,
                 !.more      = ~single(req),
                 !.answer    = 0]
    <3>1. client' = [client EXCEPT ![c] = new]
      BY <2>5 DEF Ask, Client
    <3>2. new.phase \in {"gone", "asked"}
      BY <1>1 DEF ClientRec
    <3> HIDE DEF new
    <3> QED
      BY <1>3, <3>1, <3>2
  <2> QED
    BY <2>1, <2>2, <2>3, <2>4, <2>5 DEF ClientStep
<1> QED
  BY <1>1, <1>2, <1>4, HonestKept

\* A task that has judged its client judges it no more.
LEMMA ServerHonest ==
  ASSUME LoginInv, NEW c \in Sessions, ServerStep(c)
  PROVE  Honest(c)'
<1>1. TalkInv /\ Honest(c) /\ server[c] \in ServerRec
  BY LoginPhases DEF LoginInv
<1>2. setup' = setup
  BY DEF ServerStep, Answer, TakeQuery, TakeInitDb, Close, Execute, Work,
         Respond, TaskDies
<1>3. ASSUME NEW new, Server(c, new), new.login = server[c].login,
             new.phase # "login"
      PROVE  Honest(c)'
  <2>1. server'[c] = new
    BY <1>1, <1>3, Here DEF Server
  <2> QED
    BY <1>1, <1>2, <1>3, <2>1, HonestKept
<1>4. \A phase : /\ goes(c, phase).login = server[c].login
                 /\ goes(c, phase).phase = phase
  BY <1>1 DEF goes, ServerRec
<1>5. CASE Work(c)
  BY <1>1, <1>5, HonestKept DEF Work
<1>6. CASE Answer(c)
  <2> DEFINE new == [asked_next(c, "ready") EXCEPT !.produced = @ + 1]
  <2>1. Server(c, new)
    BY <1>6 DEF Answer
  <2>2. new.login = server[c].login /\ new.phase = "ready"
    BY <1>1 DEF asked_next, goes, ServerRec
  <2> HIDE DEF new
  <2> QED
    BY <1>3, <2>1, <2>2
<1>7. CASE TakeQuery(c)
  <2> DEFINE new == [asked_next(c, "query") EXCEPT
                       !.batch = Head(to_server[c]).statements]
  <2>1. Server(c, new)
    BY <1>7 DEF TakeQuery
  <2>2. new.login = server[c].login /\ new.phase = "query"
    BY <1>1 DEF asked_next, goes, ServerRec
  <2> HIDE DEF new
  <2> QED
    BY <1>3, <2>1, <2>2
<1>8. CASE TakeInitDb(c)
  <2> DEFINE new == [asked_next(c, "running") EXCEPT
                       !.batch = <<[start |-> "init_db",
                                    db    |-> Head(to_server[c]).db]>>]
  <2>1. Server(c, new)
    BY <1>8 DEF TakeInitDb
  <2>2. new.login = server[c].login /\ new.phase = "running"
    BY <1>1 DEF asked_next, goes, ServerRec
  <2> HIDE DEF new
  <2> QED
    BY <1>3, <2>1, <2>2
<1>9. CASE Close(c)
  <2>1. Server(c, goes(c, "closed"))
    BY <1>9 DEF Close
  <2> QED
    BY <1>3, <1>4, <2>1
<1>10. CASE Execute(c)
  <2>1. Server(c, goes(c, "running"))
    BY <1>10 DEF Execute
  <2> QED
    BY <1>3, <1>4, <2>1
<1>11. ASSUME NEW tags, NEW new, Reply(c, tags, new),
              new = [x \in DOMAIN server[c] |-> new[x]],
              new.login = server[c].login, new.phase # "login"
       PROVE  Honest(c)'
  <2> DEFINE next == [new EXCEPT !.produced = @ + 1]
  <2>1. Server(c, next)
    BY <1>11 DEF Reply
  <2>2. DOMAIN server[c] = {"phase", "login", "batch", "database", "request",
                            "produced"}
    BY <1>1 DEF ServerRec
  <2>3. next.login = new.login /\ next.phase = new.phase
    BY <1>11, <2>2
  <2> HIDE DEF next
  <2> QED
    BY <1>3, <1>11, <2>1, <2>3
<1>12. CASE Respond(c)
  <2>1. CASE Reply(c, <<"err">>, [goes(c, "ready") EXCEPT !.batch = <<>>])
    <3> DEFINE new == [goes(c, "ready") EXCEPT !.batch = <<>>]
    <3>1. /\ new = [x \in DOMAIN server[c] |-> new[x]]
          /\ new.login = server[c].login /\ new.phase = "ready"
      BY <1>1 DEF goes, ServerRec
    <3> HIDE DEF new
    <3> QED
      BY <1>11, <2>1, <3>1 DEF new
  <2>2. ASSUME NEW phase \in {"ready", "query"}, NEW tags, NEW rest, NEW db,
               Reply(c, tags, [goes(c, phase) EXCEPT !.batch = rest,
                                                     !.database = db])
        PROVE  Honest(c)'
    <3> DEFINE new == [goes(c, phase) EXCEPT !.batch = rest, !.database = db]
    <3>1. /\ new = [x \in DOMAIN server[c] |-> new[x]]
          /\ new.login = server[c].login /\ new.phase = phase
      BY <1>1 DEF goes, ServerRec
    <3>2. Reply(c, tags, new)
      BY <2>2
    <3> HIDE DEF new
    <3> QED
      BY <1>11, <3>1, <3>2
  <2> QED
    BY <1>12, <2>1, <2>2 DEF Respond
<1>13. CASE TaskDies(c)
  <2> DEFINE new == [goes(c, "closed") EXCEPT !.batch = <<>>]
  <2>1. Server(c, new)
    BY <1>13 DEF TaskDies
  <2>2. new.login = server[c].login /\ new.phase = "closed"
    BY <1>1 DEF goes, ServerRec
  <2> HIDE DEF new
  <2> QED
    BY <1>3, <2>1, <2>2
<1> QED
  BY <1>5, <1>6, <1>7, <1>8, <1>9, <1>10, <1>12, <1>13 DEF ServerStep

\* What is known of the logins is kept by every step.
LEMMA NextHonest ==
  ASSUME LoginInv, [Next]_vars
  PROVE  LoginInv'
<1>1. TalkInv /\ TalkInv'
  BY NextTalks DEF LoginInv
<1>2. CASE AllGone \/ UNCHANGED vars
  <2>1. UNCHANGED <<setup, server, client, to_server, to_client>>
    BY <1>2 DEF AllGone, vars
  <2> QED
    BY <1>1, <2>1, HonestKept DEF LoginInv
<1>3. ASSUME NEW c \in Sessions,
             \/ LoginStep(c) \/ ServerStep(c) \/ ClientStep(c) \/ Exit(c)
             \/ \E req \in Requests : Ask(c, req)
      PROVE  LoginInv'
  <2>1. Honest(c)'
    BY <1>3, GreetHonest, SendLoginHonest, LoginHonest, ClientHonest,
       ServerHonest DEF LoginStep
  <2>2. ASSUME NEW d \in Sessions, d # c
        PROVE  Honest(d)'
    BY <1>1, <1>3, <2>2, OthersHonest DEF LoginInv
  <2> QED
    BY <1>1, <2>1, <2>2 DEF LoginInv
<1> QED
  BY <1>2, <1>3 DEF Next

\* At the start nothing is judged and nothing is on its way.
LEMMA InitHonest == Init => LoginInv
<1> SUFFICES ASSUME Init PROVE LoginInv
  OBVIOUS
<1>1. \A c \in Sessions : server[c].phase = "greet" /\ server[c].login = "none"
  BY DEF Init
<1> QED
  BY <1>1, InitTalks DEF LoginInv, Honest, Judged

\* For any passwords the server and its clients were started with, and any
\* number of clients, a login is accepted exactly when the server asks for no
\* password or the client has its password, and that is not empty: what each
\* end writes the other reads at the same places, and the digests agree for
\* equal passwords only (client.rs:19-66, 95-157, handshake.rs:15-51, 64-136,
\* 171-192).
THEOREM LoginsJudgedRightly == Spec => []AuthRight
<1>1. LoginInv => AuthRight
  BY DEF LoginInv, Honest, Judged, Entitled, AuthRight
<1> QED
  BY <1>1, InitHonest, NextHonest, PTL DEF Spec
===============================================================================
