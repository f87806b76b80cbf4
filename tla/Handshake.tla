------------------------------ MODULE Handshake -------------------------------
(***************************************************************************)
(* The packets of the login: build_handshake and parse_handshake_response  *)
(* of the server (src/src/protocol/handshake.rs), parse_server_handshake   *)
(* and build_handshake_response of the client (src/src/client.rs), and     *)
(* mysql_native_password on both sides.                                    *)
(*                                                                         *)
(* A payload is a sequence of units, at the offsets they have in the       *)
(* program.  A unit is a byte, a byte of the scramble, or a whole digest:  *)
(* the 20 bytes of a digest always travel together and are one unit here.  *)
(***************************************************************************)
EXTENDS Integers, Sequences, FiniteSetsExt, SequencesExt

byte(n)    == <<"byte", n>>
Zero       == byte(0)
zeros(n)   == [i \in 1 .. n |-> Zero]
letters(n) == [i \in 1 .. n |-> byte(97)]

\* to_le_bytes and from_le_bytes
le(n, width) == [i \in 1 .. width |-> byte((n \div 256 ^ (i - 1)) % 256)]
from_le(us) ==
  LET value[i \in 1 .. Len(us) + 1] ==
        IF i > Len(us) THEN 0 ELSE us[i][2] + 256 * value[i + 1]
  IN  value[1]

\* The place of the first zero at or after a place
terminator(p, from) == Min({i \in from .. Len(p) : p[i] = Zero})

CONNECT_WITH_DB == 8
PROTOCOL_41 == 512
SECURE_CONNECTION == 32768
PLUGIN_AUTH == 524288
LENENC_CLIENT_DATA == 2097152

bit(n, i) == (n \div 2 ^ i) % 2

\* The flags of both: the highest one is 2^21.
both(x, y) ==
  LET from[i \in 0 .. 22] == IF i = 22 THEN 0
                             ELSE 2 ^ i * bit(x, i) * bit(y, i) + from[i + 1]
  IN  from[0]

has(caps, flag) == (caps \div flag) % 2 = 1

\* The greeting has the flags in two halves.
low_half(caps)        == caps % 65536
high_half(caps)       == caps \div 65536
whole_caps(low, high) == low + 65536 * high

\* What handle_connection offers; LONG_PASSWORD, TRANSACTIONS, MULTI_RESULTS and
\* PS_MULTI_RESULTS decide nothing.
ServerCaps == PROTOCOL_41 + SECURE_CONNECTION + PLUGIN_AUTH + CONNECT_WITH_DB
                + 1 + 8192 + 131072 + 262144

ClientCaps == PROTOCOL_41 + SECURE_CONNECTION + PLUGIN_AUTH
                + LENENC_CLIENT_DATA + 8192 + CONNECT_WITH_DB

-----------------------------------------------------------------------------
(* mysql_native_password.  A digest is a set: of the SHA-1 values whose XOR  *)
(* it is.  SHA-1 is taken to be free of collisions.                          *)

sha1(message) == {<<"sha1", message>>}

password_hash(pw) == sha1(<<"password", pw>>)
double_hash(hash) == sha1(<<"digest", hash>>)

\* hash_native_password: what the server stores
hash_native_password(pw) == double_hash(password_hash(pw))

salted(scramble, double) == sha1(<<"scramble and digest", scramble, double>>)

compute_auth_response(pw, scramble) ==
  SymDiff(password_hash(pw), salted(scramble, hash_native_password(pw)))

\* verify_native_password_hash: zip stops at the end of the response, so an empty
\* one is hashed as it is.
verify_native_password_hash(stored, scramble, auth) ==
  LET mix == salted(scramble, stored)
      hash == IF auth = <<>> THEN {} ELSE SymDiff(auth[1][2], mix)
  IN  double_hash(hash) = stored

-----------------------------------------------------------------------------
build_handshake(scramble, caps) ==
  <<byte(10)>> \o letters(11) \o <<Zero>> \o le(1, 4)
    \o SubSeq(scramble, 1, 8) \o <<Zero>>
    \o le(low_half(caps), 2) \o <<byte(45)>> \o le(2, 2)
    \o le(high_half(caps), 2)
    \o <<byte(IF has(caps, PLUGIN_AUTH) THEN 21 ELSE 0)>> \o zeros(10)
    \o (IF has(caps, SECURE_CONNECTION)
        THEN SubSeq(scramble, 9, 20) \o <<Zero>> ELSE <<>>)
    \o (IF has(caps, PLUGIN_AUTH) THEN letters(21) \o <<Zero>> ELSE <<>>)

\* The filler byte is not counted out.
second_part_OneShort(len) == Min({11, Max({0, len - 9})})

\* How much of the scramble stands behind the capabilities
second_part(len) == Min({12, Max({0, len - 9})})

parse_server_handshake(p) ==
  LET s    == terminator(p, 2) + 5
      caps == whole_caps(from_le(SubSeq(p, s + 9, s + 10)),
                         from_le(SubSeq(p, s + 14, s + 15)))
      n    == IF ~has(caps, PLUGIN_AUTH) THEN 0 ELSE second_part(p[s + 16][2])
      rest == IF has(caps, SECURE_CONNECTION)
              THEN SubSeq(p, s + 27, s + 26 + n) ELSE <<>>
  IN  [caps     |-> caps,
       scramble |-> SubSeq(p, s, s + 7) \o rest \o zeros(12 - Len(rest))]

MaxPacket == 16777215

\* The database is always srrdb; an empty password is sent as no response.
build_handshake_response(hello, pw) ==
  LET auth == IF pw = "" THEN <<>>
              ELSE <<<<"digest", compute_auth_response(pw, hello.scramble)>>>>
  IN  le(both(ClientCaps, hello.caps), 4) \o le(MaxPacket, 4) \o <<byte(255)>>
        \o zeros(23)
        \o letters(4) \o <<Zero>>
        \o <<byte(Len(auth))>> \o auth
        \o letters(5) \o <<Zero>> \o letters(21) \o <<Zero>>

\* The auth_response; the server does not look at database and plugin.
parse_handshake_response(p) ==
  LET caps == from_le(SubSeq(p, 1, 4))
      a    == terminator(p, 33) + 1
  IN  IF has(caps, LENENC_CLIENT_DATA) \/ has(caps, SECURE_CONNECTION)
      THEN SubSeq(p, a + 1, a + p[a][2])
      ELSE SubSeq(p, a, terminator(p, a) - 1)
===============================================================================
