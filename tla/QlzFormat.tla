----------------------------- MODULE QlzFormat ------------------------------
(***************************************************************************)
(* The QLZ1 payload: what its control bytes and distances say, shared by   *)
(* the compressor of qlz.c, the decoder of the tests and the decoder of    *)
(* player.asm.  A control byte is a packet type and a length code; the     *)
(* sizes of both are parameters (4 types of 64 codes to a byte).           *)
(***************************************************************************)
EXTENDS Integers, Sequences

CONSTANTS
  CodeSpan,       (* length codes: 64 = QLZ_LITERAL_MAX                *)
  MatchMin,       (* QLZ_MATCH_MIN                                     *)
  ShortDistance,  (* the longest distance of a short match: 256        *)
  MaxDistance     (* QLZ_MAX_DISTANCE                                  *)

ByteSpan == 4 * CodeSpan
Byte == 0 .. ByteSpan - 1
LiteralMax == CodeSpan
MatchMax == CodeSpan - 1 + MatchMin

ASSUME QlzAssumption ==
  /\ {CodeSpan, MatchMin, ShortDistance, MaxDistance} \subseteq Nat \ {0}
  /\ ShortDistance <= ByteSpan
  /\ MaxDistance < ByteSpan * ByteSpan
  /\ 2 * MatchMin <= MatchMax + 1

Literal == 0
Short == 1
Long == 2
Continuation == 3

TypeOf(control) == control \div CodeSpan
LiteralLength(control) == (control % CodeSpan) + 1
MatchLength(control) == (control % CodeSpan) + MatchMin
LongDistance(high, low) == high * ByteSpan + low

(* A stream as it is stored: its header and its payload.                   *)
Stream(payload, size) ==
  [ magic |-> TRUE, size |-> size, payload_size |-> Len(payload), payload |-> payload ]

(* The copy of a match, byte by byte from distance back: it may read what  *)
(* it has just written.                                                    *)
Repeat(output, distance, length) ==
  output \o [k \in 1 .. length |->
               output[Len(output) - distance + 1 + ((k - 1) % distance)]]
=============================================================================
