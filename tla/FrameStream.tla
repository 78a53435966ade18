---------------------------- MODULE FrameStream -----------------------------
(***************************************************************************)
(* The playback stream: what convert_segment of src/src/vgm.c writes and   *)
(* play_frame of player.asm reads.  A frame record is a count, high byte   *)
(* first, and that many register writes of two bytes, so everything is a   *)
(* whole number of byte pairs.  Here a stream is a sequence of pairs and   *)
(* an offset counts pairs from 0: it is half the code's offset in bytes.   *)
(***************************************************************************)
EXTENDS Integers, Sequences

CONSTANT CountBase   (* 256: what one byte of a count can tell *)

ASSUME CountAssumption == CountBase \in 1 .. 256

(* UINT16_MAX, the largest count a record can start with.                  *)
MaxFrameWrites == CountBase * CountBase - 1

(* Mutant: a count is a single byte.                                       *)
CountPairOneByte(n) == <<0, n % CountBase>>

(* The uint16_t cast of a count, and its two bytes.                        *)
CountPair(n) == <<(n \div CountBase) % CountBase, n % CountBase>>

RecordCount(stream, at) == stream[at + 1][1] * CountBase + stream[at + 1][2]

AfterRecord(stream, at) == at + 1 + RecordCount(stream, at)

(* The writes of the record at an offset.                                  *)
RecordWrites(stream, at) == SubSeq(stream, at + 2, AfterRecord(stream, at))
-----------------------------------------------------------------------------
(* The offsets a reader of the whole stream comes to, in order; the last   *)
(* one, where it stops, is repeated.                                       *)
RecordOffset(stream) ==
  LET offset[n \in 0 .. Len(stream)] ==
        IF n = 0 THEN 0
        ELSE LET at == offset[n - 1]
             IN  IF at >= Len(stream) THEN at ELSE at + 1 + RecordCount(stream, at)
  IN  offset

Boundaries(stream) ==
  LET offset == RecordOffset(stream) IN {offset[n] : n \in 0 .. Len(stream)}

RecordsBefore(stream, at) == {b \in Boundaries(stream) : b < at}

RecordsFrom(stream, at) == {b \in Boundaries(stream) : at <= b /\ b < Len(stream)}

(* The reader stops exactly at the end.                                    *)
EndsOnRecord(stream) == Len(stream) \in Boundaries(stream)
=============================================================================
