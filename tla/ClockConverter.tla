--------------------------- MODULE ClockConverter ---------------------------
(***************************************************************************)
(* The clock converter of src/src/vgm.c: one YM2203 register write of the  *)
(* source song goes in, zero, one or two register writes for QSound2's     *)
(* 2 MHz chip come out.  The C struct clock_converter is the record c; the *)
(* C functions that mutate it and append to a frame are split into         *)
(*   Emission(c, reg, value)  - the writes appended to the frame, and      *)
(*   Converted(c, reg, value) - the struct afterwards.                     *)
(***************************************************************************)
EXTENDS Ym2203

CONSTANTS
  TargetClock,   (* VGM_TARGET_CLOCK, 2,000,000 Hz in the code  *)
  FixtureClock   (* VGM_FIXTURE_CLOCK, 3,993,600 Hz in the code *)

ASSUME ClockAssumption ==
  /\ TargetClock \in Nat \ {0}
  /\ FixtureClock \in Nat \ {0}

FmBlock == 0 .. 7
FnumMax == 2047

Clocks == {TargetClock, FixtureClock}

NewConverter(clock, pitch_conversion) ==
  [ source                 |-> [r \in Reg |-> 0],
    target                 |-> [r \in Reg |-> 0],
    target_known           |-> [r \in Reg |-> FALSE],
    source_clock           |-> clock,
    clipped_values         |-> 0,
    fm_high_latch          |-> 0,
    fm_channel3_high_latch |-> 0,
    pitch_conversion       |-> pitch_conversion ]

Converter ==
  [ source                 : [Reg -> Byte],
    target                 : [Reg -> Byte],
    target_known           : [Reg -> BOOLEAN],
    source_clock           : Clocks,
    clipped_values         : Nat,
    fm_high_latch          : Byte,
    fm_channel3_high_latch : Byte,
    pitch_conversion       : BOOLEAN ]

Adapts(c) == c.pitch_conversion /\ c.source_clock # TargetClock

(* memset(converter.target_known, 0, ...): done before each loop segment.  *)
ForgetTarget(c) == [c EXCEPT !.target_known = [r \in Reg |-> FALSE]]
-----------------------------------------------------------------------------
(* Periods of the PSG section.                                             *)

RoundedPeriod(clock, period) == (period * TargetClock + clock \div 2) \div clock

PeriodClips(clock, period, maximum) == RoundedPeriod(clock, period) > maximum

ScalePeriod(clock, period, maximum) ==
  LET scaled == RoundedPeriod(clock, period)
  IN  IF period = 0 THEN 0
      ELSE IF scaled = 0 THEN 1
      ELSE IF scaled > maximum THEN maximum ELSE scaled

PeriodMask(reg) == IF reg \in PsgTone THEN 4095 ELSE 65535

PairPeriod(regs, reg) ==
  (regs[LowOf(reg)] + 256 * regs[HighOf(reg)]) % (PeriodMask(reg) + 1)

(* Mutant: the cast of the low byte is forgotten.                          *)
ScaledPairUncast(clock, regs, reg) ==
  LET target == ScalePeriod(clock, PairPeriod(regs, reg), PeriodMask(reg))
  IN  <<target, target \div 256>>

(* The period of reg's pair, scaled, as the bytes of its low and high      *)
(* registers.                                                              *)
ScaledPair(clock, regs, reg) ==
  LET target == ScalePeriod(clock, PairPeriod(regs, reg), PeriodMask(reg))
  IN  <<target % 256, (target \div 256) % 256>>

ScaledNoise(clock, value) == ScalePeriod(clock, value % 32, 31) % 256
-----------------------------------------------------------------------------
(* Block and F-number of the FM section.                                   *)

Distance(left, right) == IF left >= right THEN left - right ELSE right - left

FmWanted(clock, low, high) ==
  clock * (low + 256 * (high % 8)) * 2 ^ ((high \div 8) % 8)

FmDivisor(block) == TargetClock * 2 ^ block

FmCandidate(wanted, block) ==
  LET nearest == (wanted + FmDivisor(block) \div 2) \div FmDivisor(block)
  IN  IF nearest > FnumMax THEN FnumMax ELSE nearest

FmError(wanted, block) ==
  Distance(FmDivisor(block) * FmCandidate(wanted, block), wanted)

(* The loop keeps the first block with the smallest error.                 *)
BestBlock(wanted) ==
  CHOOSE block \in FmBlock :
    /\ \A other \in FmBlock : FmError(wanted, block) <= FmError(wanted, other)
    /\ \A lower \in FmBlock : lower < block => FmError(wanted, block) < FmError(wanted, lower)

(* The high and low register bytes that play (high, low) at TargetClock.   *)
FmPair(clock, low, high) ==
  LET wanted == FmWanted(clock, low, high)
      block  == BestBlock(wanted)
      fnum   == FmCandidate(wanted, block)
  IN  << 64 * (high \div 64) + 8 * block + fnum \div 256, fnum % 256 >>

(* Mutant: every pitch in the top block counts as clipped.                 *)
FmClipsInTopBlock(clock, low, high) ==
  LET wanted == FmWanted(clock, low, high)
  IN  wanted # 0 /\ BestBlock(wanted) = 7

(* Mutant: the candidate is tested when it is capped already.              *)
FmClipsOverCap(clock, low, high) ==
  LET wanted == FmWanted(clock, low, high)
      block  == BestBlock(wanted)
  IN  wanted # 0 /\ block = 7 /\ FmCandidate(wanted, block) > FnumMax

FmClips(clock, low, high) ==
  LET wanted == FmWanted(clock, low, high)
      block  == BestBlock(wanted)
  IN  /\ wanted # 0
      /\ block = 7
      /\ FmCandidate(wanted, block) = FnumMax
      /\ FmError(wanted, block) # 0
-----------------------------------------------------------------------------
(* converter_write.                                                        *)

(* Mutant: a register once written is never written again.                 *)
EmitChangedOnce(c, reg, value) ==
  IF c.target_known[reg] THEN <<>> ELSE << <<reg, value>> >>

EmitChanged(c, reg, value) ==
  IF c.target_known[reg] /\ c.target[reg] = value
  THEN <<>>
  ELSE << <<reg, value>> >>

(* Mutant: only the byte of the register written to is sent on.            *)
EmitPsgPairWrittenOnly(c, reg) ==
  LET pair == ScaledPair(c.source_clock, c.source, reg)
  IN  EmitChanged(c, reg, pair[reg - LowOf(reg) + 1])

EmitPsgPair(c, reg) ==
  LET pair == ScaledPair(c.source_clock, c.source, reg)
  IN  EmitChanged(c, LowOf(reg), pair[1]) \o EmitChanged(c, HighOf(reg), pair[2])

EmitFmPair(c, reg, low, high) ==
  LET pair == FmPair(c.source_clock, low, high)
  IN  << <<reg + 4, pair[1]>>, <<reg, pair[2]>> >>

Sourced(c, reg, value) == [c EXCEPT !.source[reg] = value]

(* Mutant: the writes of the channel-3 frequencies use the main latch.     *)
LatchForSharing(c, reg) == c.fm_high_latch

LatchFor(c, reg) ==
  IF reg \in FmLow THEN c.fm_high_latch ELSE c.fm_channel3_high_latch

(* What converter_write appends to the frame.                              *)
Emission(c, reg, value) ==
  LET s == Sourced(c, reg, value)
  IN  CASE ~Adapts(c) -> << <<reg, value>> >>
        [] Adapts(c) /\ reg \in PsgPeriod -> EmitPsgPair(s, reg)
        [] Adapts(c) /\ reg \in Noise ->
             EmitChanged(s, reg, ScaledNoise(c.source_clock, value))
        [] Adapts(c) /\ reg \in FmHigh \cup Fm3High -> <<>>
        [] Adapts(c) /\ reg \in FmCommit ->
             EmitFmPair(s, reg, value, LatchFor(c, reg))
        [] OTHER -> << <<reg, value>> >>

(* Whether the write is counted in clipped_values.                         *)
Clips(c, reg, value) ==
  LET s == Sourced(c, reg, value)
  IN  /\ Adapts(c)
      /\ \/ /\ reg \in PsgPeriod
            /\ PeriodClips(c.source_clock, PairPeriod(s.source, reg), PeriodMask(reg))
         \/ reg \in Noise /\ PeriodClips(c.source_clock, value % 32, 31)
         \/ reg \in FmCommit /\ FmClips(c.source_clock, value, LatchFor(c, reg))

(* Mutant: target_known is set but the byte is not kept.                   *)
NotedWithoutValue(c, writes) ==
  [c EXCEPT !.target_known =
     [r \in Reg |-> WritesTo(writes, {r}) # {} \/ c.target_known[r]]]

(* converter_emit's effect on the struct for every write of an emission.   *)
Noted(c, writes) ==
  [c EXCEPT !.target = [r \in Reg |-> LastValue(writes, WritesTo(writes, {r}), c.target[r])],
            !.target_known =
              [r \in Reg |-> WritesTo(writes, {r}) # {} \/ c.target_known[r]]]

Latched(c, reg, value) ==
  [c EXCEPT !.fm_high_latch = IF Adapts(c) /\ reg \in FmHigh THEN value ELSE @,
            !.fm_channel3_high_latch = IF Adapts(c) /\ reg \in Fm3High THEN value ELSE @]

Counted(c, clips) == [c EXCEPT !.clipped_values = IF clips THEN @ + 1 ELSE @]

(* The struct after converter_write.                                       *)
Converted(c, reg, value) ==
  Counted(Latched(Noted(Sourced(c, reg, value), Emission(c, reg, value)), reg, value),
          Clips(c, reg, value))
=============================================================================
