---------------------------- MODULE QlzRoundTrip ----------------------------
(***************************************************************************)
(* From the frame stream through the compressor of qlz.c and the cartridge *)
(* to the decoder of player.asm.  The header and DECODED_SIZE are what     *)
(* qlz_stream_create and write_player_source make of the frame stream; on  *)
(* the way a byte of the payload may be damaged.                           *)
(***************************************************************************)
EXTENDS QlzCompress

CONSTANT Damage   (* what a damaged byte may read as *)

ASSUME DamageAssumption == Damage \subseteq Byte

VARIABLES
  stream, DecodedSize, at, output, D7, outcome,   (* of the decoder    *)
  loaded   (* "no", or how the payload came to be in memory            *)

Decoder == INSTANCE QlzDecompress

decoderVars == <<stream, DecodedSize, at, output, D7, outcome>>
roundTripVars == <<compressVars, decoderVars, loaded>>

RoundTripInit ==
  /\ CompressInit
  /\ Decoder!DecompressInit
  /\ stream = Stream(<< >>, 0)
  /\ DecodedSize = 0
  /\ loaded = "no"

Compress ==
  /\ CompressNext
  /\ UNCHANGED <<decoderVars, loaded>>

Load ==
  /\ compressed = "yes" /\ loaded = "no"
  /\ \/ loaded' = "intact" /\ stream' = Stream(payload, Size)
     \/ /\ loaded' = "damaged"
        /\ \E k \in DOMAIN payload, byte \in Damage :
             stream' = Stream([payload EXCEPT ![k] = byte], Size)
  /\ DecodedSize' = Size
  /\ UNCHANGED <<compressVars, at, output, D7, outcome>>

Decompress ==
  /\ loaded # "no"
  /\ Decoder!DecompressNext
  /\ UNCHANGED <<compressVars, loaded>>

RoundTripNext == Compress \/ Load \/ Decompress

RoundTripSpec == RoundTripInit /\ [][RoundTripNext]_roundTripVars
-----------------------------------------------------------------------------
(* Whatever the input, the player decodes the very frame stream the host   *)
(* compressed.                                                             *)
RoundTrip ==
  loaded = "intact" =>
    outcome # "failed" /\ (outcome = "decoded" => output = input)

(* However the payload is damaged, the decoder neither writes past the     *)
(* space BOOT reserved nor reads past the payload.                         *)
DecodesInBounds == Decoder!InBounds
=============================================================================
