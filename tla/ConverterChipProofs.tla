------------------------ MODULE ConverterChipProofs -------------------------
(***************************************************************************)
(* The converter keeps the chip at the pitch of the song, for every pair   *)
(* of clocks, every set of registers and every sequence of writes.         *)
(***************************************************************************)
EXTENDS ConverterChip, ClockConverterProofs
-----------------------------------------------------------------------------
(* Init, the two actions, stuttering.                                      *)

(* Both chips and the cache start empty.                                   *)
LEMMA InitKeeps == Init => IInv
  <1> SUFFICES ASSUME Init PROVE IInv
    OBVIOUS
  <1>1. PICK clock \in Clocks, pitch_conversion \in BOOLEAN :
          converter = NewConverter(clock, pitch_conversion)
    BY DEF Init
  <1>2. ideal = PowerOn /\ chip = PowerOn
    BY DEF Init
  <1>3. /\ PowerOn \in Chip /\ PowerOn.high = 0 /\ PowerOn.high3 = 0
        /\ \A r \in Reg \cap (PsgPeriod \cup Noise) : PowerOn.regs[r] = 0
        /\ \A l \in FmCommit : PowerOn.fm[l] = Untuned
    BY DEF PowerOn, Chip, Byte
  <1>4. InTune(converter, PowerOn, PowerOn)
    BY <1>1, <1>3, SilentInTune
  <1> QED
    BY <1>2, <1>4 DEF IInv

(* A write of any register keeps the invariant.                            *)
LEMMA WriteKeeps ==
  ASSUME IInv, NEW reg \in Reg, NEW value \in Byte, ConvertWrite(reg, value)
  PROVE  IInv'
  BY WriteStaysInTune DEF IInv, ConvertWrite

(* At the loop point the cache forgets: what it no longer claims needs no  *)
(* proof, and everything else is as it was.                                *)
LEMMA LoopKeeps ==
  ASSUME IInv, EnterLoop
  PROVE  IInv'
  <1>1. converter \in Converter
    BY DEF IInv, InTune
  <1>2. converter' = [converter EXCEPT !.target_known = [r \in Reg |-> FALSE]]
    BY DEF EnterLoop, ForgetTarget
  <1>3. converter' \in Converter
    BY <1>1, <1>2 DEF Converter
  <1>4. /\ \A r \in Reg : ~converter'.target_known[r]
        /\ converter'.source = converter.source
        /\ converter'.source_clock = converter.source_clock
        /\ converter'.pitch_conversion = converter.pitch_conversion
        /\ converter'.fm_high_latch = converter.fm_high_latch
        /\ converter'.fm_channel3_high_latch = converter.fm_channel3_high_latch
    BY <1>1, <1>2 DEF Converter
  <1>5. ideal' = ideal /\ chip' = chip /\ InTune(converter, ideal, chip)
    BY DEF EnterLoop, IInv
  <1>6. InTune(converter', ideal, chip)
    BY <1>3, <1>4, <1>5, ForgottenStaysInTune
  <1> QED
    BY <1>5, <1>6 DEF IInv

(* IInv is inductive.                                                      *)
LEMMA StepKeeps == IInv /\ [Next]_vars => IInv'
  <1> SUFFICES ASSUME IInv, [Next]_vars PROVE IInv'
    OBVIOUS
  <1>1. ASSUME NEW reg \in Reg, NEW value \in Value, ConvertWrite(reg, value)
        PROVE  IInv'
    BY <1>1, ValueAssumption, WriteKeeps
  <1>2. CASE EnterLoop
    BY <1>2, LoopKeeps
  <1>3. CASE UNCHANGED vars
    BY <1>3 DEF vars, IInv
  <1> QED
    BY <1>1, <1>2, <1>3 DEF Next
-----------------------------------------------------------------------------
(* The inductive invariant holds in every reachable state.                 *)
THEOREM Invariance == Spec => []IInv
  <1> QED
    BY InitKeeps, StepKeeps, PTL DEF Spec

(* The struct, and the two chips, keep their types: in particular no byte  *)
(* the converter stores or sends leaves 0..255.                            *)
THEOREM TypeCorrectness == Spec => []TypeOK
  <1>1. IInv => TypeOK
    BY DEF IInv, InTune, TypeOK
  <1> QED
    BY <1>1, Invariance, PTL

(* What the converter is for: through every sequence of writes the target  *)
(* chip holds the retuned periods and frequencies of the source chip and   *)
(* everything else unchanged, although repeated bytes are dropped, latch   *)
(* writes are swallowed and the cache is forgotten at the loop point.      *)
THEOREM ChipFollows == Spec => []ChipFollowsSong
  <1>1. IInv => ChipFollowsSong
    BY DEF IInv, InTune, ChipFollowsSong
  <1> QED
    BY <1>1, Invariance, PTL
-----------------------------------------------------------------------------
(* A step of the converter is one write between the two chips.             *)
LEMMA StepIsOneWrite ==
  ASSUME NEW reg, NEW value, ConvertWrite(reg, value)
  PROVE  OneWrite(converter, ideal, chip, reg, value, converter', ideal', chip')
  BY DEF ConvertWrite, OneWrite

(* An action property from the invariant.                                  *)
THEOREM NoWriteLost == Spec => NothingLost
  <1>1. ASSUME IInv, [Next]_vars
        PROVE  [NothingLostStep]_vars
    <2> SUFFICES ASSUME NEW reg \in Reg \cap PsgPeriod, NEW value \in Value,
                        Adapts(converter), Wrote(reg, value)
                 PROVE  LET pair == ScaledPair(converter.source_clock, converter'.source, reg)
                        IN  chip' = Hears(chip, << <<LowOf(reg), pair[1]>>,
                                                   <<HighOf(reg), pair[2]>> >>)
      BY DEF NothingLostStep
    <2>1. value \in Byte
      BY ValueAssumption
    <2> QED
      BY <1>1, <2>1, StepIsOneWrite, ShortenedPair DEF IInv, Wrote
  <1> QED
    BY <1>1, Invariance, PTL DEF Spec, NothingLost
-----------------------------------------------------------------------------
(* A clipped period is the largest there is.                               *)
LEMMA ClippedPeriod ==
  ASSUME NEW clock \in Nat \ {0}, NEW period \in Nat, NEW maximum \in Nat,
         PeriodClips(clock, period, maximum)
  PROVE  ScalePeriod(clock, period, maximum) = maximum
  <1>1. RoundedPeriod(clock, period) \in Nat
    BY ClockAssumption, DivIsNat, TimesIsNat DEF RoundedPeriod
  <1>2. RoundedPeriod(clock, 0) = 0
    <2>1. /\ clock \div 2 \in Nat /\ clock \div 2 < clock
      OBVIOUS
    <2>2. 0 * TargetClock + clock \div 2 = clock \div 2
      BY <2>1, ClockAssumption
    <2>3. \A a \in Nat : a < clock => a \div clock = 0
      OBVIOUS
    <2> QED
      BY <2>1, <2>2, <2>3 DEF RoundedPeriod
  <1> QED
    BY <1>1, <1>2 DEF ScalePeriod, PeriodClips

(* The nearest pitch in the top block at the top F-number: the high byte   *)
(* has every bit of block and F-number set, and so has the low one.        *)
LEMMA ClippedFm ==
  ASSUME NEW clock \in Nat \ {0}, NEW low \in Byte, NEW high \in Byte,
         FmClips(clock, low, high)
  PROVE  /\ FmPair(clock, low, high)[2] = 255
         /\ FmPair(clock, low, high)[1] % 64 = 63
  <1> DEFINE wanted == FmWanted(clock, low, high)
             block  == BestBlock(wanted)
             fnum   == FmCandidate(wanted, block)
  <1>1. block = 7 /\ fnum = 2047
    BY DEF FmClips, FnumMax
  <1>2. FmPair(clock, low, high) = << 64 * (high \div 64) + 8 * block + fnum \div 256, fnum % 256 >>
    BY DEF FmPair
  <1> HIDE DEF block, fnum
  <1>3. high \div 64 \in Nat
    BY DEF Byte
  <1>4. 2047 \div 256 = 7 /\ 2047 % 256 = 255
    OBVIOUS
  <1>5. FmPair(clock, low, high) = << 64 * (high \div 64) + 63, 255 >>
    BY <1>1, <1>2, <1>3, <1>4
  <1>6. \A q \in Nat : (64 * q + 63) % 64 = 63
    OBVIOUS
  <1> QED
    BY <1>3, <1>5, <1>6

(* A quotient reaches a number when the dividend reaches that many of the  *)
(* divisor.                                                                *)
LEMMA DivReaches ==
  ASSUME NEW a \in Nat, NEW b \in Nat \ {0}, NEW q \in Nat
  PROVE  a \div b >= q <=> a >= b * q
  <1>1. PICK d \in Nat, r \in Nat : a \div b = d /\ a = b * d + r /\ r < b
    BY Z3
  <1>2. ASSUME d >= q
        PROVE  a >= b * q
    <2>1. PICK e \in Nat : d = q + e
      <3>1. d - q \in Nat /\ d = q + (d - q)
        BY <1>2
      <3> QED
        BY <3>1
    <2>2. b * d = b * q + b * e /\ b * e \in Nat /\ b * q \in Nat
      BY <2>1
    <2> QED
      BY <1>1, <2>2
  <1>3. ASSUME d < q
        PROVE  a < b * q
    <2>1. PICK e \in Nat : q = d + 1 + e
      <3>1. q - d - 1 \in Nat /\ q = d + 1 + (q - d - 1)
        BY <1>3
      <3> QED
        BY <3>1
    <2>2. b * q = b * d + b + b * e /\ b * e \in Nat /\ b * d \in Nat
      BY <2>1
    <2> QED
      BY <1>1, <2>2
  <1>4. b * q \in Nat
    OBVIOUS
  <1> QED
    BY <1>1, <1>2, <1>3, <1>4

(* scale_period counts a period when the nearest whole number to what it   *)
(* should be is longer than the longest: the added half divisor rounds.    *)
LEMMA TooLongIsClipped ==
  ASSUME NEW clock \in Nat \ {0}, NEW period \in Nat, NEW longest \in Nat
  PROVE  PeriodClips(clock, period, longest)
           <=> 2 * period * TargetClock >= (2 * longest + 1) * clock
  <1>1. PICK asked \in Nat : asked = period * TargetClock
    BY ClockAssumption, TimesIsNat
  <1>2. PICK half \in Nat : half = clock \div 2 /\ (clock = 2 * half \/ clock = 2 * half + 1)
    OBVIOUS
  <1>3. PICK most \in Nat : most = clock * longest
    OBVIOUS
  <1>4. RoundedPeriod(clock, period) = (asked + half) \div clock
    BY <1>1, <1>2 DEF RoundedPeriod
  <1>5. (asked + half) \div clock >= longest + 1 <=> asked + half >= clock * (longest + 1)
    BY DivReaches
  <1>6. clock * (longest + 1) = most + clock
    BY <1>3
  <1>7. (asked + half) \div clock \in Nat
    BY DivIsNat
  <1>8. PeriodClips(clock, period, longest) <=> asked + half >= most + clock
    BY <1>4, <1>5, <1>6, <1>7 DEF PeriodClips
  <1>9. 2 * period * TargetClock = 2 * asked
    BY <1>1, ClockAssumption
  <1>10. (2 * longest + 1) * clock = 2 * most + clock
    BY <1>3
  <1> QED
    BY <1>2, <1>8, <1>9, <1>10

(* What the song asks of an FM channel is a natural number.                *)
LEMMA WantedIsNat ==
  ASSUME NEW clock \in Nat \ {0}, NEW low \in Byte, NEW high \in Byte
  PROVE  FmWanted(clock, low, high) \in Nat
  <1>1. 2 ^ ((high \div 8) % 8) \in Nat
    <2>1. (high \div 8) % 8 \in FmBlock
      BY DEF Byte, FmBlock
    <2> QED
      BY <2>1, ShiftIsPositive
  <1>2. low + 256 * (high % 8) \in Nat
    BY DEF Byte
  <1>3. clock * (low + 256 * (high % 8)) \in Nat
    BY <1>2, TimesIsNat
  <1> QED
    BY <1>1, <1>3, TimesIsNat DEF FmWanted

(* The search looks at F-numbers of eleven bits.                           *)
LEMMA CandidateIsFnum ==
  ASSUME NEW wanted \in Nat, NEW block \in FmBlock
  PROVE  /\ FmDivisor(block) \in Nat \ {0}
         /\ FmCandidate(wanted, block) \in Nat /\ FmCandidate(wanted, block) <= 2047
  <1>1. FmDivisor(block) \in Nat \ {0}
    <2>1. 2 ^ block \in Nat \ {0}
      BY ShiftIsPositive
    <2> QED
      BY <2>1, ClockAssumption DEF FmDivisor
  <1>2. (wanted + FmDivisor(block) \div 2) \div FmDivisor(block) \in Nat
    BY <1>1, DivIsNat
  <1>3. FmCandidate(wanted, block) \in Nat /\ FmCandidate(wanted, block) <= 2047
    BY <1>2 DEF FmCandidate, FnumMax
  <1> QED
    BY <1>1, <1>3

(* The pitch a block offers, and how far off it is.                        *)
LEMMA PitchOffered ==
  ASSUME NEW wanted \in Nat, NEW block \in FmBlock
  PROVE  \E pitch \in Nat :
           /\ pitch = FmDivisor(block) * FmCandidate(wanted, block)
           /\ FmError(wanted, block) = Distance(pitch, wanted)
           /\ Distance(pitch, wanted) \in Int
  <1>1. FmDivisor(block) \in Nat /\ FmCandidate(wanted, block) \in Nat
    BY CandidateIsFnum
  <1>2. PICK pitch \in Nat : pitch = FmDivisor(block) * FmCandidate(wanted, block)
    <2>1. PICK d \in Nat, n \in Nat : d = FmDivisor(block) /\ n = FmCandidate(wanted, block)
      BY <1>1
    <2>2. d * n \in Nat
      BY TimesIsNat
    <2> QED
      BY <2>1, <2>2
  <1>3. FmError(wanted, block) = Distance(pitch, wanted)
    BY <1>2 DEF FmError
  <1>4. Distance(pitch, wanted) \in Int
    BY DEF Distance
  <1> QED
    BY <1>2, <1>3, <1>4

(* In the blocks below the top one even the largest F-number is at most    *)
(* half the chip's highest pitch.                                          *)
LEMMA LowerBlocksReach ==
  ASSUME NEW wanted \in Nat, NEW block \in FmBlock, block # 7
  PROVE  FmDivisor(block) * FmCandidate(wanted, block) <= 131008 * TargetClock
  <1>1. PICK shift \in {1, 2, 4, 8, 16, 32, 64} : 2 ^ block = shift
    <2>1. /\ 2^0 = 1 /\ 2^1 = 2 /\ 2^2 = 4 /\ 2^3 = 8
          /\ 2^4 = 16 /\ 2^5 = 32 /\ 2^6 = 64
      OBVIOUS
    <2>2. block \in {0, 1, 2, 3, 4, 5, 6}
      BY DEF FmBlock
    <2> QED
      BY <2>1, <2>2
  <1>2. FmDivisor(block) = TargetClock * shift
    BY <1>1 DEF FmDivisor
  <1>3. PICK n \in 0 .. 2047 : FmCandidate(wanted, block) = n
    <2>1. FmCandidate(wanted, block) \in Nat /\ FmCandidate(wanted, block) <= 2047
      BY CandidateIsFnum
    <2> QED
      BY <2>1
  <1>4. PICK less \in Nat : 131008 = shift * n + less
    <2>1. shift * n <= 131008 /\ shift * n \in Nat
      <3>1. \A k \in {1, 2, 4, 8, 16, 32, 64} : k * n <= 131008 /\ k * n \in Nat
        OBVIOUS
      <3> QED
        BY <1>1, <3>1
    <2>2. 131008 - shift * n \in Nat /\ 131008 = shift * n + (131008 - shift * n)
      BY <2>1
    <2> QED
      BY <2>2
  <1>5. PICK t \in Nat : t = TargetClock
    BY ClockAssumption
  <1>6. /\ t * (shift * n + less) = (t * shift) * n + t * less
        /\ t * less \in Nat /\ (t * shift) * n \in Nat
    OBVIOUS
  <1> QED
    BY <1>2, <1>3, <1>4, <1>5, <1>6

(* The search of converter_emit_fm_pair ends at the highest pitch, and     *)
(* that pitch is not the one asked for, exactly when what was asked for is *)
(* nearer to it than to the one below, and another.                        *)
LEMMA MissedIsClipped ==
  ASSUME NEW clock \in Nat \ {0}, NEW low \in Byte, NEW high \in Byte
  PROVE  FmClips(clock, low, high) <=> PitchMissedAtTop(FmWanted(clock, low, high))
  <1> DEFINE wanted == FmWanted(clock, low, high)
             nearest == (wanted + FmDivisor(7) \div 2) \div FmDivisor(7)
  <1>1. wanted \in Nat
    BY WantedIsNat
  <1> HIDE DEF wanted
  <1>2. PICK t \in Nat \ {0} : t = TargetClock
    BY ClockAssumption
  <1>3. FmDivisor(7) = 128 * t
    <2>1. 2 ^ 7 = 128
      OBVIOUS
    <2> QED
      BY <1>2, <2>1 DEF FmDivisor
  <1>4. TopPitch = 262016 * t
    BY <1>2, <1>3 DEF TopPitch, FnumMax
  <1>5. nearest \in Nat /\ (nearest >= 2047 <=> 2 * wanted >= 2 * TopPitch - FmDivisor(7))
    <2>1. FmDivisor(7) \div 2 = 64 * t
      BY <1>3
    <2>2. /\ nearest \in Nat
          /\ nearest >= 2047 <=> wanted + 64 * t >= (128 * t) * 2047
      <3>1. PICK a \in Nat, d \in Nat \ {0} : a = wanted + 64 * t /\ d = 128 * t
        <4>1. wanted + 64 * t \in Nat /\ 128 * t \in Nat \ {0}
          BY <1>1
        <4> QED
          BY <4>1
      <3>2. nearest = a \div d
        BY <1>3, <2>1, <3>1
      <3>3. a \div d \in Nat /\ (a \div d >= 2047 <=> a >= d * 2047)
        BY DivIsNat, DivReaches
      <3> QED
        BY <3>1, <3>2, <3>3
    <2> QED
      BY <1>1, <1>3, <1>4, <2>2
  <1>6. FmCandidate(wanted, 7) = 2047 <=> 2 * wanted >= 2 * TopPitch - FmDivisor(7)
    BY <1>5 DEF FmCandidate, FnumMax
  <1>7. ASSUME FmCandidate(wanted, 7) = 2047
        PROVE  FmError(wanted, 7) = Distance(TopPitch, wanted)
    BY <1>3, <1>4, <1>7 DEF FmError
  <1>8. Distance(TopPitch, wanted) # 0 <=> wanted # TopPitch
    BY <1>1, <1>4 DEF Distance
  <1>9. ASSUME 2 * wanted >= 2 * TopPitch - FmDivisor(7)
        PROVE  BestBlock(wanted) = 7
    <2>1. FmError(wanted, 7) = Distance(TopPitch, wanted)
      BY <1>6, <1>7, <1>9
    <2>2. ASSUME NEW block \in FmBlock, block # 7
          PROVE  FmError(wanted, 7) < FmError(wanted, block)
      <3>1. PICK p \in Nat : /\ p = FmDivisor(block) * FmCandidate(wanted, block)
                             /\ FmError(wanted, block) = Distance(p, wanted)
        BY <1>1, <2>2, PitchOffered
      <3>2. p <= 131008 * t
        BY <1>1, <1>2, <2>2, <3>1, LowerBlocksReach
      <3>3. FmError(wanted, block) = wanted - p
        BY <1>1, <1>3, <1>4, <1>9, <3>1, <3>2 DEF Distance
      <3> QED
        BY <1>1, <1>3, <1>4, <1>9, <2>1, <3>1, <3>2, <3>3 DEF Distance
    <2>3. 7 \in FmBlock /\ \A block \in FmBlock : block # 7 => block < 7
      BY DEF FmBlock
    <2>4. \A block \in FmBlock : FmError(wanted, block) \in Int
      BY <1>1, PitchOffered
    <2>5. \A other \in FmBlock : FmError(wanted, 7) <= FmError(wanted, other)
      BY <2>2, <2>3, <2>4
    <2>6. \A lower \in FmBlock : lower < 7 => FmError(wanted, 7) < FmError(wanted, lower)
      BY <2>2, <2>3
    <2>7. /\ BestBlock(wanted) \in FmBlock
          /\ FmError(wanted, BestBlock(wanted)) <= FmError(wanted, 7)
      BY <2>3, <2>5, <2>6 DEF BestBlock
    <2> QED
      BY <2>2, <2>3, <2>4, <2>7
  <1>10. FmClips(clock, low, high) <=>
           /\ wanted # 0 /\ BestBlock(wanted) = 7
           /\ FmCandidate(wanted, 7) = 2047 /\ FmError(wanted, 7) # 0
    BY DEF FmClips, FnumMax, wanted
  <1>11. 2 * wanted >= 2 * TopPitch - FmDivisor(7) => wanted # 0
    BY <1>1, <1>2, <1>3, <1>4
  <1>12. PitchMissedAtTop(wanted) <=>
           wanted # TopPitch /\ 2 * wanted >= 2 * TopPitch - FmDivisor(7)
    BY DEF PitchMissedAtTop
  <1>13. FmClips(clock, low, high) => PitchMissedAtTop(wanted)
    BY <1>6, <1>7, <1>8, <1>10, <1>12
  <1>14. PitchMissedAtTop(wanted) => FmClips(clock, low, high)
    BY <1>6, <1>7, <1>8, <1>9, <1>10, <1>11, <1>12
  <1> QED
    BY <1>13, <1>14 DEF wanted

(* A write that clips leaves its pair at the end of the range.             *)
LEMMA ClippedWrite ==
  ASSUME IInv, NEW reg \in Reg, NEW value \in Byte, ConvertWrite(reg, value),
         Clips(converter, reg, value)
  PROVE  AtRangeEnd(chip', reg)
  <1> DEFINE c == converter
             s == Sourced(c, reg, value)
  <1>1. c \in Converter /\ chip \in Chip /\ ideal \in Chip /\ Adapts(c)
    BY DEF IInv, InTune, Clips
  <1>2. /\ c.source_clock \in Nat \ {0} /\ s \in Converter
        /\ s.source = [c.source EXCEPT ![reg] = value]
    BY <1>1, SourcedIsConverter
  <1> HIDE DEF s
  <1>3. /\ IInv'
        /\ Adapts(converter)'
        /\ converter'.source_clock = c.source_clock
        /\ ideal' = Heard(ideal, reg, value)
    <2>1. IInv'
      BY WriteKeeps
    <2>2. /\ Adapts(converter') <=> Adapts(converter)
          /\ converter'.source_clock = converter.source_clock
          /\ ideal' = Heard(ideal, reg, value)
      <3>1. InTune(converter, ideal, chip)
        BY DEF IInv
      <3>2. OneWrite(converter, ideal, chip, reg, value, converter', ideal', chip')
        BY StepIsOneWrite
      <3>3. Adapts(converter') <=> Adapts(converter)
        BY <3>1, <3>2, SourceSide
      <3>4. converter'.source_clock = converter.source_clock
        BY <3>1, <3>2, SourceSide
      <3>5. ideal' = Heard(ideal, reg, value)
        BY <1>1, HearsOne DEF ConvertWrite
      <3> QED
        BY <3>3, <3>4, <3>5
    <2> QED
      BY <1>1, <2>1, <2>2
  <1>4. CASE reg \in PsgPeriod /\ PeriodClips(c.source_clock, PairPeriod(s.source, reg),
                                              PeriodMask(reg))
    <2> DEFINE mask == PeriodMask(reg)
               period == PairPeriod(s.source, reg)
    <2>1. mask \in {4095, 65535}
      BY DEF PeriodMask
    <2>2. s.source[LowOf(reg)] \in Byte /\ s.source[HighOf(reg)] \in Byte
      BY <1>2, <1>4, RegAssumption DEF Converter
    <2>3. period \in Nat
      <3>1. s.source[LowOf(reg)] + 256 * s.source[HighOf(reg)] \in Nat
        <4>1. \A a, b \in Byte : a + 256 * b \in Nat
          BY DEF Byte
        <4> QED
          BY <2>2, <4>1
      <3>2. \A n \in Nat : n % 4096 \in Nat /\ n % 65536 \in Nat
        OBVIOUS
      <3>3. mask + 1 = 4096 \/ mask + 1 = 65536
        BY <2>1
      <3> QED
        BY <3>1, <3>2, <3>3 DEF PairPeriod
    <2>4. ScalePeriod(c.source_clock, period, mask) = mask
      <3> HIDE DEF period, mask
      <3> QED
        BY <1>2, <1>4, <2>1, <2>3, ClippedPeriod DEF period, mask
    <2>5. converter'.source = s.source
      BY <1>1, <1>2, ConvertedFields DEF ConvertWrite
    <2>6. ScaledPair(c.source_clock, converter'.source, reg)
            = << mask % 256, (mask \div 256) % 256 >>
      BY <2>4, <2>5 DEF ScaledPair
    <2>7. chip' = Hears(chip, << <<LowOf(reg), mask % 256>>,
                                 <<HighOf(reg), (mask \div 256) % 256>> >>)
      BY <1>1, <1>4, <2>6, StepIsOneWrite, ShortenedPair DEF IInv
    <2>8. /\ mask % 256 \in Byte /\ (mask \div 256) % 256 \in Byte
          /\ (mask % 256) + 256 * ((mask \div 256) % 256) = mask
      BY <2>1 DEF Byte
    <2>9. chip' = WithRegs(chip, WithPair(chip.regs, LowOf(reg), mask % 256,
                                          HighOf(reg), (mask \div 256) % 256))
      <3> HIDE DEF mask
      <3> QED
        BY <1>1, <1>4, <2>7, <2>8, PeriodsArePlain, FullPair
    <2>10. /\ chip'.regs[LowOf(reg)] = mask % 256
           /\ chip'.regs[HighOf(reg)] = (mask \div 256) % 256
      <3>1. /\ chip.regs \in [Reg -> Byte] /\ LowOf(reg) \in Reg /\ HighOf(reg) \in Reg
            /\ LowOf(reg) # HighOf(reg)
        BY <1>1, <1>4, PeriodsArePlain DEF Chip, PlainReg
      <3>2. chip'.regs = WithPair(chip.regs, LowOf(reg), mask % 256,
                                  HighOf(reg), (mask \div 256) % 256)
        BY <1>1, <2>9 DEF WithRegs, Chip
      <3> HIDE DEF mask
      <3> QED
        BY <3>1, <3>2 DEF WithPair
    <2> QED
      BY <1>4, <2>8, <2>10 DEF AtRangeEnd
  <1>5. CASE reg \in Noise /\ PeriodClips(c.source_clock, value % 32, 31)
    <2>1. ScalePeriod(c.source_clock, value % 32, 31) = 31
      <3>1. value % 32 \in Nat
        BY DEF Byte
      <3> QED
        BY <1>2, <1>5, <3>1, ClippedPeriod
    <2>2. ScaledNoise(c.source_clock, value) = 31
      BY <2>1 DEF ScaledNoise
    <2>3. ideal'.regs[reg] = value
      BY <1>1, <1>3 DEF Heard, Chip
    <2>4. chip'.regs[reg] = 31
      BY <1>3, <1>5, <2>2, <2>3 DEF IInv, InTune, Follows, PsgFollows, NoiseWanted
    <2> QED
      BY <1>5, <2>4 DEF AtRangeEnd
  <1>6. CASE reg \in FmCommit /\ FmClips(c.source_clock, value, LatchFor(c, reg))
    <2> DEFINE latch == LatchFor(c, reg)
               pair == FmPair(c.source_clock, value, latch)
    <2>1. latch \in Byte
      BY <1>1 DEF LatchFor, Converter
    <2>2. latch = IF reg \in FmLow THEN ideal.high ELSE ideal.high3
      BY <1>1 DEF IInv, InTune, SourceRemembered, LatchFor
    <2>3. ideal'.fm[reg] = <<latch, value>>
      BY <1>3, <1>6, <2>2 DEF Heard
    <2>4. <<latch, value>> # Untuned
      BY DEF Untuned
    <2>5. chip'.fm[reg] = pair
      BY <1>3, <1>6, <2>3, <2>4 DEF IInv, InTune, Follows, FmFollows, FmRetuned
    <2>6. pair[2] = 255 /\ pair[1] % 64 = 63 /\ pair \in Byte \X Byte
      BY <1>2, <1>6, <2>1, ClippedFm, FmPairIsBytes
    <2>7. pair # Untuned
      <3>1. PICK hi \in Byte, lo \in Byte : pair = <<hi, lo>>
        BY <2>6
      <3>2. <<hi, lo>> # <<>>
        OBVIOUS
      <3> QED
        BY <3>1, <3>2 DEF Untuned
    <2> QED
      BY <1>6, <2>5, <2>6, <2>7 DEF AtRangeEnd
  <1> QED
    BY <1>1, <1>4, <1>5, <1>6 DEF Clips, s

(* What the converter counts from its own copies of the registers and from *)
(* its search is what the source chip asks for and the target chip cannot  *)
(* play.                                                                   *)
LEMMA CountedIfMissed ==
  ASSUME IInv, NEW reg \in Reg, NEW value \in Byte, ConvertWrite(reg, value),
         Adapts(converter)
  PROVE  Clips(converter, reg, value) <=> Missed(ideal', reg)
  <1> DEFINE c == converter
             s == Sourced(c, reg, value)
             clock == c.source_clock
             latch == LatchFor(c, reg)
  <1>1. c \in Converter /\ chip \in Chip /\ ideal \in Chip
    BY DEF IInv, InTune
  <1>2. /\ clock \in Nat \ {0} /\ s.source = [c.source EXCEPT ![reg] = value]
        /\ c.source \in [Reg -> Byte]
    BY <1>1, SourcedIsConverter DEF Converter
  <1> HIDE DEF s
  <1>3. ideal' = Heard(ideal, reg, value) /\ ideal'.regs = [ideal.regs EXCEPT ![reg] = value]
        /\ ideal.regs \in [Reg -> Byte]
    BY <1>1, HearsOne DEF ConvertWrite, Heard, Chip
  <1>4. \A r \in Reg \cap PsgPeriod : s.source[r] = ideal'.regs[r]
    BY <1>2, <1>3 DEF IInv, InTune, SourceRemembered
  <1>5. ASSUME reg \in PsgPeriod
        PROVE  PeriodClips(clock, PairPeriod(s.source, reg), PeriodMask(reg))
                 <=> PeriodTooLong(PairPeriod(ideal'.regs, reg), PeriodMask(reg))
    <2>1. LowOf(reg) \in Reg \cap PsgPeriod /\ HighOf(reg) \in Reg \cap PsgPeriod
      <3>1. LowOf(reg) \in Reg /\ HighOf(reg) \in Reg
        BY <1>5, RegAssumption
      <3>2. LowOf(reg) \in PsgPeriod /\ HighOf(reg) \in PsgPeriod
        BY <1>5 DEF PsgPeriod, PsgTone, EnvelopePeriod, LowOf, HighOf
      <3> QED
        BY <3>1, <3>2
    <2>2. PairPeriod(s.source, reg) = PairPeriod(ideal'.regs, reg)
      BY <1>4, <2>1 DEF PairPeriod
    <2>3. PeriodMask(reg) \in Nat
      BY DEF PeriodMask
    <2>4. PairPeriod(s.source, reg) \in Nat
      <3>1. s.source[LowOf(reg)] + 256 * s.source[HighOf(reg)] \in Nat
        <4>1. s.source[LowOf(reg)] \in Byte /\ s.source[HighOf(reg)] \in Byte
          BY <1>2, <2>1
        <4>2. \A a, b \in Byte : a + 256 * b \in Nat
          BY DEF Byte
        <4> QED
          BY <4>1, <4>2
      <3>2. \A n \in Nat : n % 4096 \in Nat /\ n % 65536 \in Nat
        OBVIOUS
      <3>3. PeriodMask(reg) + 1 = 4096 \/ PeriodMask(reg) + 1 = 65536
        BY DEF PeriodMask
      <3> QED
        BY <3>1, <3>2, <3>3 DEF PairPeriod
    <2> HIDE DEF clock
    <2>5. PeriodClips(clock, PairPeriod(s.source, reg), PeriodMask(reg))
            <=> 2 * PairPeriod(s.source, reg) * TargetClock >= (2 * PeriodMask(reg) + 1) * clock
      BY <1>2, <2>3, <2>4, TooLongIsClipped
    <2> QED
      BY <2>2, <2>5 DEF PeriodTooLong, clock
  <1>6. ASSUME reg \in Noise
        PROVE  PeriodClips(clock, value % 32, 31) <=> PeriodTooLong(ideal'.regs[reg] % 32, 31)
    <2>1. ideal'.regs[reg] = value /\ value % 32 \in Nat
      BY <1>3 DEF Byte
    <2> HIDE DEF clock
    <2>2. PeriodClips(clock, value % 32, 31)
            <=> 2 * (value % 32) * TargetClock >= (2 * 31 + 1) * clock
      BY <1>2, <2>1, TooLongIsClipped
    <2> QED
      BY <2>1, <2>2 DEF PeriodTooLong, clock
  <1>7. ASSUME reg \in FmCommit
        PROVE  FmClips(clock, value, latch) <=> PitchMissedAtTop(AskedPitch(ideal', reg))
    <2>1. latch \in Byte
      BY <1>1 DEF LatchFor, Converter
    <2>2. latch = IF reg \in FmLow THEN ideal.high ELSE ideal.high3
      BY DEF IInv, InTune, SourceRemembered, LatchFor
    <2>3. ideal'.fm[reg] = <<latch, value>>
      BY <1>3, <1>7, <2>2 DEF Heard
    <2>4. AskedPitch(ideal', reg) = FmWanted(clock, value, latch)
      BY <2>3 DEF AskedPitch
    <2> HIDE DEF clock, latch
    <2> QED
      BY <1>2, <2>1, <2>4, MissedIsClipped
  <1> QED
    BY <1>5, <1>6, <1>7 DEF Clips, Missed, s

(* The warning of cli.c tells the truth: a write is counted, once, exactly *)
(* when what the song asks of its pair is past the end of the target       *)
(* chip's range or missed there, and then that pair is at the end.         *)
THEOREM ClippingIsTold == Spec => ClippingIsHonest
  <1>1. ASSUME IInv, [Next]_vars
        PROVE  [ClippingStep /\ (EnterLoop => CountStays)]_vars
    <2>1. converter \in Converter /\ converter.clipped_values \in Nat
      BY <1>1 DEF IInv, InTune, Converter
    <2>2. ASSUME NEW reg \in Reg, NEW value \in Value, Wrote(reg, value)
          PROVE  IF Adapts(converter) /\ Missed(ideal', reg)
                 THEN /\ converter'.clipped_values = converter.clipped_values + 1
                      /\ AtRangeEnd(chip', reg)
                 ELSE CountStays
      <3>1. value \in Byte /\ ConvertWrite(reg, value)
        BY <2>2, ValueAssumption DEF Wrote
      <3>2. converter'.clipped_values
              = IF Clips(converter, reg, value) THEN converter.clipped_values + 1
                ELSE converter.clipped_values
        BY <2>1, <3>1, CountAfter DEF ConvertWrite
      <3>3. Clips(converter, reg, value) => Adapts(converter) /\ AtRangeEnd(chip', reg)
        BY <1>1, <3>1, ClippedWrite DEF Clips
      <3>4. Adapts(converter) => (Clips(converter, reg, value) <=> Missed(ideal', reg))
        BY <1>1, <3>1, CountedIfMissed
      <3> QED
        BY <3>2, <3>3, <3>4 DEF CountStays
    <2>3. ClippingStep
      BY <2>2, Zenon DEF ClippingStep
    <2>4. EnterLoop => CountStays
      BY <2>1 DEF EnterLoop, ForgetTarget, Converter, CountStays
    <2> QED
      BY <2>3, <2>4
  <1> QED
    BY <1>1, Invariance, PTL DEF Spec, ClippingIsHonest
=============================================================================
