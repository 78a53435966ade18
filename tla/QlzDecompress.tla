--------------------------- MODULE QlzDecompress ----------------------------
(***************************************************************************)
(* qlz_decompress of player.asm: one packet a step.  at stands for A0 less *)
(* the start of the payload, output for the bytes up to A1, D7 is the      *)
(* distance a continuation would extend, 0 when there is none.  A register *)
(* that is dead once the decoder has failed keeps its value.               *)
(***************************************************************************)
EXTENDS QlzFormat

VARIABLES
  stream,        (* the QLZ1 stream in the image                        *)
  DecodedSize,   (* DECODED_SIZE, by which player_start sets A3         *)
  at, output, D7, outcome

given == <<stream, DecodedSize>>
decompressVars == <<given, at, output, D7, outcome>>

DecompressInit ==
  /\ at = 0
  /\ output = << >>
  /\ D7 = 0
  /\ outcome = "header"

Left == Len(stream.payload) - at
Room == stream.size - Len(output)
ByteAt(k) == stream.payload[at + k]

Fails == outcome' = "failed" /\ UNCHANGED <<given, at, output, D7>>

Header ==
  /\ outcome = "header"
  /\ IF /\ stream.magic
        /\ stream.payload_size = Len(stream.payload)
        /\ stream.size = DecodedSize
     THEN outcome' = "decoding" /\ UNCHANGED <<given, at, output, D7>>
     ELSE Fails

(* A1 has not reached A3 and there is a control byte of this type.         *)
AtPacket(type) ==
  /\ outcome = "decoding"
  /\ Room # 0 /\ Left > 0
  /\ TypeOf(ByteAt(1)) = type

Literals ==
  /\ AtPacket(Literal)
  /\ LET length == LiteralLength(ByteAt(1))
     IN  IF length <= Left - 1 /\ length <= Room
         THEN /\ output' = output \o SubSeq(stream.payload, at + 2, at + 1 + length)
              /\ at' = at + 1 + length
              /\ D7' = 0
              /\ UNCHANGED <<given, outcome>>
         ELSE Fails

(* Mutant: the copy is not checked against the end of the output.          *)
CopyMatchUnchecked(distance, used) ==
  IF distance <= Len(output)
  THEN /\ output' = Repeat(output, distance, MatchLength(ByteAt(1)))
       /\ at' = at + used
       /\ D7' = distance
       /\ UNCHANGED <<given, outcome>>
  ELSE Fails

(* qlz_copy_match, after a packet of `used` bytes.                         *)
CopyMatch(distance, used) ==
  LET length == MatchLength(ByteAt(1))
  IN  IF distance <= Len(output) /\ length <= Room
      THEN /\ output' = Repeat(output, distance, length)
           /\ at' = at + used
           /\ D7' = distance
           /\ UNCHANGED <<given, outcome>>
      ELSE Fails

ShortMatch ==
  /\ AtPacket(Short)
  /\ IF Left >= 2 THEN CopyMatch(ByteAt(2) + 1, 2) ELSE Fails

LongMatch ==
  /\ AtPacket(Long)
  /\ IF Left >= 3 /\ LongDistance(ByteAt(2), ByteAt(3)) # 0
     THEN CopyMatch(LongDistance(ByteAt(2), ByteAt(3)), 3)
     ELSE Fails

Continue ==
  /\ AtPacket(Continuation)
  /\ IF D7 # 0 THEN CopyMatch(D7, 1) ELSE Fails

Truncated ==
  /\ outcome = "decoding"
  /\ Room # 0 /\ Left <= 0
  /\ Fails

Complete ==
  /\ outcome = "decoding" /\ Room = 0
  /\ IF Left = 0
     THEN outcome' = "decoded" /\ UNCHANGED <<given, at, output, D7>>
     ELSE Fails

DecompressNext ==
  \/ Header \/ Literals \/ ShortMatch \/ LongMatch \/ Continue \/ Truncated \/ Complete

DecompressSpec == DecompressInit /\ [][DecompressNext]_decompressVars
-----------------------------------------------------------------------------
(* On no payload does the decoder write past the decoded size it was given *)
(* or read past the end of the payload; a distance kept for continuations  *)
(* lies inside the output.                                                 *)
InBounds ==
  /\ Len(output) <= DecodedSize
  /\ at <= Len(stream.payload)
  /\ D7 <= Len(output)
=============================================================================
