------------------------------- MODULE LogBytes --------------------------------
(***************************************************************************)
(* The bytes of the write-ahead log: serialize, append and the loop of     *)
(* replay (src/src/engine/wal.rs).  An append that is cut short, by a      *)
(* crash or a failing write, leaves the first bytes of an entry, and later *)
(* appends go right behind them.                                           *)
(*                                                                         *)
(* A byte of the log is known by its place: a byte of the magic, of the    *)
(* length, the type, or of the payload of an entry.  So no payload spells  *)
(* out a magic, and a length field put together from two entries, which    *)
(* comes to at least 2^16 * 7, is longer than the log: a log of up to 448  *)
(* KiB is meant.                                                           *)
(***************************************************************************)
EXTENDS Integers, SequencesExt

CONSTANTS
  Lens,         \* the lengths of entries, header included
  MaxAppends,   \* bound: appends, whole or not
  MaxTears      \* bound: appends cut short

HeaderSize == 7

ASSUME LogBytesAssumption ==
  /\ Lens \subseteq {n \in Nat : n > HeaderSize}
  /\ MaxAppends \in Nat /\ MaxTears \in Nat

VARIABLES
  log,       \* the file
  appended,  \* what was appended: entry numbers and lengths, in order
  torn,      \* the entries cut short
  decodable  \* those whose type would make sense of bytes not its own

vars == <<log, appended, torn, decodable>>

byte(part, no, n) == <<part, no, n>>
Magic == <<byte("magic", 0, 1), byte("magic", 0, 2)>>

\* The header is not counted in.
entry_len_Payload(n) == n - HeaderSize

\* The value of the length field of an entry of n bytes
entry_len(n) == n

serialize(no, n) ==
  Magic \o [i \in 1 .. 4 |-> byte("len", no, entry_len(n))]
        \o <<byte("type", no, 0)>>
        \o [i \in 1 .. n - HeaderSize |-> byte("payload", no, i)]

-----------------------------------------------------------------------------
(* replay.                                                                  *)

\* The bytes at pos are those of a length field of one entry.
whole_len(buf, pos) ==
  /\ buf[pos + 2][1] = "len"
  /\ \A i \in 3 .. 5 : buf[pos + i] = buf[pos + 2]

\* Not checked: what is missing at the end of the log is taken for empty.
entry_end_Clamped(buf, pos) ==
  IF whole_len(buf, pos) THEN Min({pos + buf[pos + 2][3], Len(buf) + 1}) ELSE 0

\* The place behind the entry at pos; 0 if it is truncated.
entry_end(buf, pos) ==
  IF whole_len(buf, pos) /\ pos + buf[pos + 2][3] <= Len(buf) + 1
  THEN pos + buf[pos + 2][3] ELSE 0

\* The first byte of the payload decides.
own_FirstByte(payload, no) == payload[1] = byte("payload", no, 1)

\* The payload is that of the entry.
own(payload, no) == \A i \in DOMAIN payload : payload[i] = byte("payload", no, i)

\* deserialize: the entry, an entry made of other bytes, nothing for an unknown
\* type, or an error
deserialize(type, payload) ==
  IF type[1] # "type"               THEN <<"nothing", payload>>
  ELSE IF own(payload, type[2])     THEN <<"entry", type[2]>>
  ELSE IF type[2] \in decodable     THEN <<"garbage", payload>>
  ELSE <<"error">>

\* What becomes of the bytes at pos
item_at(buf, pos) ==
  deserialize(buf[pos + 6],
              SubSeq(buf, pos + HeaderSize, entry_end(buf, pos) - 1))

\* The replay stops at pos.
stops_at(buf, pos) ==
  \/ pos + HeaderSize > Len(buf) + 1
  \/ SubSeq(buf, pos, pos + 1) # Magic
  \/ entry_end(buf, pos) = 0
  \/ item_at(buf, pos) = <<"error">>

\* What a replay makes of the log, in order
replay(buf) ==
  LET from[pos \in 1 .. Len(buf) + 1] ==
        IF stops_at(buf, pos) THEN <<>>
        ELSE <<item_at(buf, pos)>> \o from[entry_end(buf, pos)]
  IN  from[1]

-----------------------------------------------------------------------------
Init == log = <<>> /\ appended = <<>> /\ torn = {} /\ decodable = {}

Appends(n) == /\ Len(appended) < MaxAppends
              /\ appended' = Append(appended, n)

append(n) ==
  /\ Appends(n)
  /\ log' = log \o serialize(Len(appended) + 1, n)
  /\ UNCHANGED <<torn, decodable>>

\* k bytes of the entry are written.
append_torn(n, k, decodes) ==
  LET no == Len(appended) + 1
  IN  /\ Appends(n)
      /\ Cardinality(torn) < MaxTears
      /\ log' = log \o SubSeq(serialize(no, n), 1, k)
      /\ torn' = torn \cup {no}
      /\ decodable' = IF decodes THEN decodable \cup {no} ELSE decodable

Next ==
  \E n \in Lens :
    \/ append(n)
    \/ \E k \in 1 .. n - 1, decodes \in BOOLEAN : append_torn(n, k, decodes)

Spec == Init /\ [][Next]_vars

-----------------------------------------------------------------------------
\* Every entry that was appended before the first one cut short is replayed, in
\* order and before anything else (wal.rs:107-162).
IntactPrefix ==
  LET intact == Min({Len(appended)} \cup {no - 1 : no \in torn})
  IN  IsPrefix([i \in 1 .. intact |-> <<"entry", i>>], replay(log))

\* Whatever was cut short and appended after, replay finds only entries that
\* were appended whole, each once and in their order.  Entries are missing and
\* garbage is in between: of it, at most one for each entry cut short.
InOrder ==
  LET r       == replay(log)
      entries == {i \in DOMAIN r : r[i][1] = "entry"}
  IN  /\ \A i \in entries : r[i][2] \in DOMAIN appended \ torn
      /\ \A i, j \in entries : i < j => r[i][2] < r[j][2]
      /\ Cardinality(DOMAIN r \ entries) <= Cardinality(torn)

\* An append adds to what a replay finds and takes nothing away: restarts before
\* and after it agree on everything the first of them found (wal.rs:128-133).
ReplayStable == [][IsPrefix(replay(log), replay(log)')]_vars
===============================================================================
