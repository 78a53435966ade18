----------------------------- MODULE QlzDecode ------------------------------
(***************************************************************************)
(* qlz_decode of qlz.c, the decoder the tests check the compressor with.   *)
(* It decodes into an empty buffer, as every test has it do, and there is  *)
(* memory for it.  What only a failed decoding leaves behind is left as it *)
(* was.  The decoder that ships is another one, in 68000 assembly and run  *)
(* by no test: that they decide alike is checked here.                     *)
(***************************************************************************)
EXTENDS QlzFormat

VARIABLES stream, input_at, output, last_distance, can_continue, outcome

decodeVars == <<stream, input_at, output, last_distance, can_continue, outcome>>

Outcomes == {"header", "decoding", "decoded", "failed"}

DecodeTypeOK ==
  /\ stream \in [ magic : BOOLEAN, size : Nat, payload_size : Nat, payload : Seq(Byte) ]
  /\ input_at \in Nat
  /\ output \in Seq(Byte)
  /\ last_distance \in Nat
  /\ can_continue \in BOOLEAN
  /\ outcome \in Outcomes

DecodeInit ==
  /\ input_at = 0
  /\ output = << >>
  /\ last_distance = 0
  /\ can_continue = FALSE
  /\ outcome = "header"

(* What the input and the output still hold.                               *)
InputLeft == Len(stream.payload) - input_at
OutputLeft == stream.size - Len(output)
Input(k) == stream.payload[input_at + k]

Header ==
  /\ outcome = "header"
  /\ outcome' = IF stream.magic /\ stream.payload_size = Len(stream.payload)
                THEN "decoding" ELSE "failed"
  /\ UNCHANGED <<stream, input_at, output, last_distance, can_continue>>

Decoding == outcome = "decoding" /\ OutputLeft > 0

TypeIs(type) == Decoding /\ InputLeft > 0 /\ TypeOf(Input(1)) = type

LiteralFits ==
  LiteralLength(Input(1)) <= InputLeft - 1 /\ LiteralLength(Input(1)) <= OutputLeft

(* Mutant: a literal leaves the last match open to continuation.           *)
LiteralsKeepMatch ==
  /\ TypeIs(Literal) /\ LiteralFits
  /\ output' = output \o SubSeq(stream.payload, input_at + 2, input_at + 1 + LiteralLength(Input(1)))
  /\ input_at' = input_at + 1 + LiteralLength(Input(1))
  /\ UNCHANGED <<stream, last_distance, can_continue, outcome>>

Literals ==
  /\ TypeIs(Literal) /\ LiteralFits
  /\ output' = output \o SubSeq(stream.payload, input_at + 2, input_at + 1 + LiteralLength(Input(1)))
  /\ input_at' = input_at + 1 + LiteralLength(Input(1))
  /\ can_continue' = FALSE
  /\ UNCHANGED <<stream, last_distance, outcome>>

(* The matches the packet at hand may stand for: its distance and size.    *)
Matches ==
  (IF TypeIs(Short) /\ InputLeft >= 2
   THEN {[ distance |-> Input(2) + 1, used |-> 2 ]} ELSE {})
  \cup
  (IF TypeIs(Long) /\ InputLeft >= 3
   THEN {[ distance |-> LongDistance(Input(2), Input(3)), used |-> 3 ]} ELSE {})
  \cup
  (IF TypeIs(Continuation) /\ can_continue
   THEN {[ distance |-> last_distance, used |-> 1 ]} ELSE {})

(* Mutant: the end of the output is not looked at.                         *)
MatchFitsUnchecked(match) == match.distance # 0 /\ match.distance <= Len(output)

MatchFits(match) ==
  /\ match.distance # 0
  /\ match.distance <= Len(output)
  /\ MatchLength(Input(1)) <= OutputLeft

Match ==
  \E match \in Matches :
    /\ MatchFits(match)
    /\ output' = Repeat(output, match.distance, MatchLength(Input(1)))
    /\ input_at' = input_at + match.used
    /\ last_distance' = match.distance
    /\ can_continue' = TRUE
    /\ UNCHANGED <<stream, outcome>>

Malformed ==
  /\ Decoding
  /\ ~(TypeIs(Literal) /\ LiteralFits)
  /\ ~ \E match \in Matches : MatchFits(match)
  /\ outcome' = "failed"
  /\ UNCHANGED <<stream, input_at, output, last_distance, can_continue>>

Finish ==
  /\ outcome = "decoding" /\ OutputLeft = 0
  /\ outcome' = IF InputLeft = 0 THEN "decoded" ELSE "failed"
  /\ UNCHANGED <<stream, input_at, output, last_distance, can_continue>>

DecodeNext == Header \/ Literals \/ Match \/ Malformed \/ Finish

DecodeSpec == DecodeInit /\ [][DecodeNext]_decodeVars
-----------------------------------------------------------------------------
(* The decoder of player.asm, told the size it is to decode: D7 is the     *)
(* distance while a continuation may follow and 0 otherwise.               *)
Target == INSTANCE QlzDecompress WITH
  DecodedSize <- stream.size,
  at          <- input_at,
  D7          <- IF can_continue THEN last_distance ELSE 0

(* Packet by packet, the decoder that ships takes every payload, well      *)
(* formed or not, as the decoder of the tests takes it: what the tests     *)
(* find of the compressor's output holds on the QL too.                    *)
DecodesAsTarget == Target!DecompressSpec

(* On no payload does the decoder write past the size of the header or     *)
(* read past the end of the payload, and a distance that can be continued  *)
(* lies inside the output.                                                 *)
InBounds ==
  /\ Len(output) <= stream.size
  /\ input_at <= Len(stream.payload)
  /\ can_continue => last_distance \in 1 .. Len(output)
=============================================================================
