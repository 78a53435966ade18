--------------------------- MODULE ConverterChip ----------------------------
(***************************************************************************)
(* The clock converter between two chips: `ideal` hears every write of the *)
(* source song as it was logged, `chip` hears what converter_write emits   *)
(* for it.  Both start as the player leaves the board.  The question is    *)
(* whether the cache, the latches and the clipping of the converter keep   *)
(* the second chip at the pitch of the first through every sequence of     *)
(* writes and every forgetting of the cache at a loop point.               *)
(***************************************************************************)
EXTENDS Retuning

CONSTANT Value   (* the bytes a song writes; 0..255 in the code *)

ASSUME ValueAssumption == Value \subseteq Byte

VARIABLES
  converter,   (* the struct clock_converter                          *)
  ideal,       (* a chip at the source clock that hears the song      *)
  chip         (* the chip at the target clock that hears the stream  *)

vars == <<converter, ideal, chip>>

TypeOK ==
  /\ converter \in Converter
  /\ ideal \in Chip
  /\ chip \in Chip

Init ==
  /\ \E clock \in Clocks, pitch_conversion \in BOOLEAN :
       converter = NewConverter(clock, pitch_conversion)
  /\ ideal = PowerOn
  /\ chip = PowerOn

(* One call of converter_write; the frame it appends to reaches the chip.  *)
ConvertWrite(reg, value) ==
  /\ converter' = Converted(converter, reg, value)
  /\ ideal' = Hears(ideal, << <<reg, value>> >>)
  /\ chip' = Hears(chip, Emission(converter, reg, value))

(* vgm_convert reaches the loop point.                                     *)
EnterLoop ==
  /\ converter' = ForgetTarget(converter)
  /\ UNCHANGED <<ideal, chip>>

Next ==
  \/ \E reg \in Reg, value \in Value : ConvertWrite(reg, value)
  \/ EnterLoop

Spec == Init /\ [][Next]_vars
-----------------------------------------------------------------------------
(* Through every sequence of writes the chip sounds as the ideal chip      *)
(* does, every pitch retuned and everything else the same.                 *)
ChipFollowsSong == Follows(converter, ideal, chip)

(* What the theorems are proved from.                                      *)
IInv == InTune(converter, ideal, chip)
-----------------------------------------------------------------------------
(* The step is this write: its byte is the one source[] has afterwards.    *)
Wrote(reg, value) == converter'.source[reg] = value /\ ConvertWrite(reg, value)

(* A dropped write is a write the chip would not have noticed: hearing the *)
(* pair in full would leave the chip where the shortened emission does.    *)
NothingLostStep ==
  \A reg \in Reg \cap PsgPeriod, value \in Value :
    Adapts(converter) /\ Wrote(reg, value) =>
      LET pair == ScaledPair(converter.source_clock, converter'.source, reg)
      IN  chip' = Hears(chip, << <<LowOf(reg), pair[1]>>, <<HighOf(reg), pair[2]>> >>)

NothingLost == [][NothingLostStep]_vars

CountStays == converter'.clipped_values = converter.clipped_values

(* What the song asks for with the pair reg belongs to, as the ideal chip  *)
(* has it, and the end of the target chip's range.  A period is out of     *)
(* reach if the whole number nearest to it is longer than the longest...   *)
PeriodTooLong(period, longest) ==
  2 * period * TargetClock >= (2 * longest + 1) * converter.source_clock

(* ... and an FM pitch is missed at the top if none of the chip's pitches  *)
(* is nearer than the highest, and that is another one.                    *)
TopPitch == FnumMax * FmDivisor(7)

PitchMissedAtTop(pitch) ==
  pitch # TopPitch /\ 2 * pitch >= 2 * TopPitch - FmDivisor(7)

AskedPitch(c, l) == FmWanted(converter.source_clock, c.fm[l][2], c.fm[l][1])

Missed(c, reg) ==
  \/ reg \in PsgPeriod /\ PeriodTooLong(PairPeriod(c.regs, reg), PeriodMask(reg))
  \/ reg \in Noise /\ PeriodTooLong(c.regs[reg] % 32, 31)
  \/ reg \in FmCommit /\ PitchMissedAtTop(AskedPitch(c, reg))

AtRangeEnd(c, reg) ==
  \/ reg \in PsgPeriod /\ c.regs[LowOf(reg)] + 256 * c.regs[HighOf(reg)] = PeriodMask(reg)
  \/ reg \in Noise /\ c.regs[reg] = 31
  \/ reg \in FmCommit /\ c.fm[reg][1] % 64 = 63 /\ c.fm[reg][2] = 255

(* The clipping warning of cli.c counts writes, each at most once, and it  *)
(* counts a write exactly when what the song asks of the written pair is   *)
(* past the end of the target chip's range or missed there.  The pair then *)
(* is at that end: it was clipped, not wrapped by the casts to bytes.  The *)
(* code decides this from the block and the F-number its search ended      *)
(* with, or from a quotient; here it is said of the pitch asked for.       *)
ClippingStep ==
  \A reg \in Reg, value \in Value :
    Wrote(reg, value) =>
      IF Adapts(converter) /\ Missed(ideal', reg)
      THEN /\ converter'.clipped_values = converter.clipped_values + 1
           /\ AtRangeEnd(chip', reg)
      ELSE CountStays

ClippingIsHonest == [][ClippingStep /\ (EnterLoop => CountStays)]_vars

(* cli.c:321 says of the values counted that they "were clipped for        *)
(* QSound2", README 117 that the nearest pitch is selected and clipping is *)
(* reported: a counted FM pitch is above the chip's highest one.           *)
CountedStep ==
  \A reg \in Reg \cap FmCommit, value \in Value :
    /\ Wrote(reg, value)
    /\ converter'.clipped_values # converter.clipped_values
    => AskedPitch(ideal', reg) > TopPitch

OnlyClippedCounted == [][CountedStep]_vars
=============================================================================
