------------------------ MODULE ClockConverterProofs ------------------------
(***************************************************************************)
(* Lemmas about the operators of Ym2203 and ClockConverter: what a chip    *)
(* makes of no write, one write and two, the bytes the converter computes, *)
(* and the struct after converter_write.                                   *)
(***************************************************************************)
EXTENDS Retuning, SequenceTheorems, Induction

-----------------------------------------------------------------------------
(* Arithmetic the backends want spelled out.                               *)

(* A quotient of naturals by a positive natural is a natural.              *)
LEMMA DivIsNat ==
  ASSUME NEW a \in Nat, NEW b \in Nat \ {0}
  PROVE  a \div b \in Nat
  OBVIOUS

(* A product of naturals is a natural.                                     *)
LEMMA TimesIsNat ==
  ASSUME NEW a \in Nat, NEW b \in Nat
  PROVE  a * b \in Nat
  OBVIOUS

(* 1u << block is a positive natural for each of the eight FM blocks.      *)
LEMMA ShiftIsPositive ==
  ASSUME NEW block \in FmBlock
  PROVE  2 ^ block \in Nat \ {0}
  <1>1. /\ 2^0 = 1 /\ 2^1 = 2 /\ 2^2 = 4 /\ 2^3 = 8
        /\ 2^4 = 16 /\ 2^5 = 32 /\ 2^6 = 64 /\ 2^7 = 128
    OBVIOUS
  <1>2. block \in {0, 1, 2, 3, 4, 5, 6, 7}
    BY DEF FmBlock
  <1>3. 2 ^ block \in {1, 2, 4, 8, 16, 32, 64, 128}
    <2>1. ASSUME NEW b \in {0, 1, 2, 3, 4, 5, 6, 7}, block = b
          PROVE  2 ^ block = 2 ^ b
      BY <2>1
    <2> QED
      BY <1>1, <1>2, <2>1
  <1> QED
    BY <1>3

(* Two lists of one element, joined.                                       *)
LEMMA JoinOfOnes ==
  ASSUME NEW S, NEW x \in S, NEW y \in S
  PROVE  <<x>> \o <<y>> = <<x, y>>
  <1> DEFINE s == <<x>> \o <<y>>
             t == <<x, y>>
  <1>1. <<x>> \in Seq(S) /\ <<y>> \in Seq(S) /\ t \in Seq(S)
    OBVIOUS
  <1>2. Len(<<x>>) = 1 /\ Len(<<y>>) = 1 /\ Len(t) = 2 /\ t[1] = x /\ t[2] = y
    OBVIOUS
  <1>3. Len(s) = 2 /\ s[1] = x /\ s[2] = y /\ s \in Seq(S)
    BY <1>1, <1>2, ConcatProperties
  <1> HIDE DEF s, t
  <1>4. \A i \in 1 .. Len(s) : s[i] = t[i]
    BY <1>2, <1>3
  <1>5. s = t
    BY <1>1, <1>2, <1>3, <1>4, SeqEqual
  <1> QED
    BY <1>5 DEF s, t
-----------------------------------------------------------------------------
(* What a chip makes of the emissions of converter_write.                  *)

(* One write, spelled out register by register and channel by channel.     *)
Heard(c, reg, value) ==
  [ regs  |-> [c.regs EXCEPT ![reg] = value],
    high  |-> IF reg \in FmHigh THEN value ELSE c.high,
    high3 |-> IF reg \in Fm3High THEN value ELSE c.high3,
    fm    |-> [l \in FmCommit |->
                 IF l = reg
                 THEN << IF l \in FmLow THEN c.high ELSE c.high3, value >>
                 ELSE c.fm[l]],
    key   |-> [k \in Channel |->
                 IF reg = KeyOnOff /\ value % 4 = k THEN value \div 16 ELSE c.key[k]] ]

(* No write leaves the chip alone.                                         *)
LEMMA HearsNone ==
  ASSUME NEW c \in Chip
  PROVE  Hears(c, <<>>) = c
  BY DEF Hears, Chip, LastValue, WritesTo, Tuned, KeyWrites, Byte, Channel

(* Hearing a list of one write is hearing the write.                       *)
LEMMA HearsOne ==
  ASSUME NEW c \in Chip, NEW reg \in Reg, NEW value \in Byte
  PROVE  Hears(c, << <<reg, value>> >>) = Heard(c, reg, value)
  <1> DEFINE ws == << <<reg, value>> >>
             h == Hears(c, ws)
  <1>1. h.regs = [c.regs EXCEPT ![reg] = value]
    BY DEF Hears, Chip, LastValue, LastOf, WritesTo
  <1>2. h.high = IF reg \in FmHigh THEN value ELSE c.high
    BY DEF Hears, LastValue, LastOf, WritesTo
  <1>3. h.high3 = IF reg \in Fm3High THEN value ELSE c.high3
    BY DEF Hears, LastValue, LastOf, WritesTo
  <1>4. ASSUME NEW l \in FmCommit
        PROVE  h.fm[l] = Heard(c, reg, value).fm[l]
    <2>1. h.fm[l] = Tuned(c, ws, l)
      BY DEF Hears
    <2>2. WritesTo(ws, {l}) = IF reg = l THEN {1} ELSE {}
      BY DEF WritesTo
    <2>3. /\ LastOf({1}) = 1
          /\ ws[1][2] = value
      BY DEF LastOf
    <2>4. /\ {j \in WritesTo(ws, FmHigh) : j < 1} = {}
          /\ {j \in WritesTo(ws, Fm3High) : j < 1} = {}
      BY DEF WritesTo
    <2>5. LatchAt(c, ws, l, 1) = IF l \in FmLow THEN c.high ELSE c.high3
      BY <2>4 DEF LatchAt, LastValue
    <2> QED
      BY <2>1, <2>2, <2>3, <2>5 DEF Heard, Tuned
  <1>5. ASSUME NEW k \in Channel
        PROVE  h.key[k] = Heard(c, reg, value).key[k]
    <2>1. KeyWrites(ws, k) = IF reg = KeyOnOff /\ value % 4 = k THEN {1} ELSE {}
      BY DEF KeyWrites, WritesTo
    <2>2. /\ LastOf({1}) = 1
          /\ ws[1][2] = value
      BY DEF LastOf
    <2>3. (c.key[k] * 16) \div 16 = c.key[k]
      BY DEF Chip
    <2>4. h.key[k] = LastValue(ws, KeyWrites(ws, k), c.key[k] * 16) \div 16
      BY DEF Hears
    <2> QED
      BY <2>1, <2>2, <2>3, <2>4 DEF Heard, LastValue
  <1> QED
    BY <1>1, <1>2, <1>3, <1>4, <1>5 DEF Hears, Heard

(* Hearing a list of two writes is hearing the one, then the other.        *)
LEMMA HearsTwo ==
  ASSUME NEW c \in Chip, NEW reg \in Reg, NEW value \in Byte,
         NEW reg2 \in Reg, NEW value2 \in Byte
  PROVE  Hears(c, << <<reg, value>>, <<reg2, value2>> >>)
           = Heard(Heard(c, reg, value), reg2, value2)
  <1> DEFINE ws == << <<reg, value>>, <<reg2, value2>> >>
             h == Hears(c, ws)
             g == Heard(Heard(c, reg, value), reg2, value2)
  <1>1. h.regs = g.regs
    <2> DEFINE last(r) == LastValue(ws, WritesTo(ws, {r}), c.regs[r])
    <2>1. h.regs = [r \in Reg |-> last(r)]
      BY DEF Hears
    <2>2. g.regs = [[c.regs EXCEPT ![reg] = value] EXCEPT ![reg2] = value2]
      BY DEF Heard
    <2>3. c.regs \in [Reg -> Byte]
      BY DEF Chip
    <2>4. ASSUME NEW r \in Reg
          PROVE  last(r) = IF r = reg2 THEN value2 ELSE IF r = reg THEN value ELSE c.regs[r]
      <3>1. WritesTo(ws, {r}) = (IF reg = r THEN {1} ELSE {}) \cup (IF reg2 = r THEN {2} ELSE {})
        BY DEF WritesTo
      <3>2. /\ LastOf({1}) = 1 /\ LastOf({2}) = 2 /\ LastOf({1, 2}) = 2
            /\ ws[1][2] = value /\ ws[2][2] = value2
        BY DEF LastOf
      <3>3. {1} \cup {2} = {1, 2}
        OBVIOUS
      <3> QED
        BY <3>1, <3>2, <3>3 DEF LastValue
    <2> HIDE DEF last
    <2> QED
      BY <2>1, <2>2, <2>3, <2>4
  <1>2. h.high = g.high
    BY DEF Hears, Heard, LastValue, LastOf, WritesTo
  <1>3. h.high3 = g.high3
    BY DEF Hears, Heard, LastValue, LastOf, WritesTo
  <1>4. ASSUME NEW l \in FmCommit
        PROVE  h.fm[l] = g.fm[l]
    <2>1. h.fm[l] = Tuned(c, ws, l)
      BY DEF Hears
    <2>2. CASE reg2 = l
      <3>1. WritesTo(ws, {l}) = IF reg = l THEN {1, 2} ELSE {2}
        BY <2>2 DEF WritesTo
      <3>2. /\ LastOf({1, 2}) = 2
            /\ LastOf({2}) = 2
        BY DEF LastOf
      <3>3. Tuned(c, ws, l) = << LatchAt(c, ws, l, 2), value2 >>
        BY <3>1, <3>2 DEF Tuned
      <3>4. LatchAt(c, ws, l, 2) = IF l \in FmLow THEN Heard(c, reg, value).high
                                                 ELSE Heard(c, reg, value).high3
        BY <2>2 DEF LatchAt, WritesTo, LastValue, LastOf, Heard
      <3> QED
        BY <2>1, <2>2, <3>3, <3>4 DEF Heard
    <2>3. CASE reg2 # l /\ reg = l
      <3>1. WritesTo(ws, {l}) = {1}
        BY <2>3 DEF WritesTo
      <3>2. LastOf({1}) = 1
        BY DEF LastOf
      <3>3. Tuned(c, ws, l) = << LatchAt(c, ws, l, 1), value >>
        BY <3>1, <3>2 DEF Tuned
      <3>4. LatchAt(c, ws, l, 1) = IF l \in FmLow THEN c.high ELSE c.high3
        BY DEF LatchAt, WritesTo, LastValue
      <3> QED
        BY <2>1, <2>3, <3>3, <3>4 DEF Heard
    <2>4. CASE reg2 # l /\ reg # l
      <3>1. WritesTo(ws, {l}) = {}
        BY <2>4 DEF WritesTo
      <3> QED
        BY <2>1, <2>4, <3>1 DEF Heard, Tuned
    <2> QED
      BY <2>2, <2>3, <2>4
  <1>5. ASSUME NEW k \in Channel
        PROVE  h.key[k] = g.key[k]
    <2> DEFINE first  == reg = KeyOnOff /\ value % 4 = k
               second == reg2 = KeyOnOff /\ value2 % 4 = k
    <2>1. KeyWrites(ws, k) = (IF first THEN {1} ELSE {}) \cup (IF second THEN {2} ELSE {})
      BY DEF KeyWrites, WritesTo
    <2>2. /\ LastOf({1}) = 1 /\ LastOf({2}) = 2 /\ LastOf({1, 2}) = 2
          /\ ws[1][2] = value /\ ws[2][2] = value2
      BY DEF LastOf
    <2>3. (c.key[k] * 16) \div 16 = c.key[k]
      BY DEF Chip
    <2>4. h.key[k] = LastValue(ws, KeyWrites(ws, k), c.key[k] * 16) \div 16
      BY DEF Hears
    <2>5. g.key[k] = IF second THEN value2 \div 16
                     ELSE IF first THEN value \div 16 ELSE c.key[k]
      BY DEF Heard
    <2>6. CASE second
      <3>1. KeyWrites(ws, k) \in {{2}, {1, 2}}
        BY <2>1, <2>6
      <3> QED
        BY <2>2, <2>4, <2>5, <2>6, <3>1 DEF LastValue
    <2>7. CASE ~second /\ first
      <3>1. KeyWrites(ws, k) = {1}
        BY <2>1, <2>7
      <3> QED
        BY <2>2, <2>4, <2>5, <2>7, <3>1 DEF LastValue
    <2>8. CASE ~second /\ ~first
      <3>1. KeyWrites(ws, k) = {}
        BY <2>1, <2>8
      <3> QED
        BY <2>3, <2>4, <2>5, <2>8, <3>1 DEF LastValue
    <2> QED
      BY <2>6, <2>7, <2>8
  <1> QED
    BY <1>1, <1>2, <1>3, <1>4, <1>5 DEF Hears, Heard

(* A chip stays a chip.                                                    *)
LEMMA HeardIsChip ==
  ASSUME NEW c \in Chip, NEW reg \in Reg, NEW value \in Byte
  PROVE  Heard(c, reg, value) \in Chip
  <1> DEFINE h == Heard(c, reg, value)
  <1>1. /\ c.regs \in [Reg -> Byte] /\ c.high \in Byte /\ c.high3 \in Byte
        /\ c.fm \in [FmCommit -> (Byte \X Byte) \cup {Untuned}]
        /\ c.key \in [Channel -> 0 .. 15]
    BY DEF Chip
  <1>2. h.regs \in [Reg -> Byte] /\ h.high \in Byte /\ h.high3 \in Byte
    BY <1>1 DEF Heard
  <1>3. h.fm \in [FmCommit -> (Byte \X Byte) \cup {Untuned}]
    BY <1>1 DEF Heard
  <1>4. value \div 16 \in 0 .. 15
    BY DEF Byte
  <1>5. h.key \in [Channel -> 0 .. 15]
    BY <1>1, <1>4 DEF Heard
  <1>6. h = [ regs |-> h.regs, high |-> h.high, high3 |-> h.high3, fm |-> h.fm, key |-> h.key ]
    BY DEF Heard
  <1> HIDE DEF h
  <1>7. h \in Chip
    BY <1>2, <1>3, <1>5, <1>6 DEF Chip
  <1> QED
    BY <1>7 DEF h
-----------------------------------------------------------------------------
(* The bytes the converter computes.                                       *)

(* scale_period returns a natural.                                         *)
LEMMA ScalePeriodIsNat ==
  ASSUME NEW clock \in Nat \ {0}, NEW period \in Nat, NEW maximum \in Nat
  PROVE  ScalePeriod(clock, period, maximum) \in Nat
  <1>1. RoundedPeriod(clock, period) \in Nat
    BY ClockAssumption, DivIsNat, TimesIsNat DEF RoundedPeriod
  <1> QED
    BY <1>1 DEF ScalePeriod

(* The period of a pair is made of two bytes, so it is a natural, and so   *)
(* are the two bytes of the scaled one.                                    *)
LEMMA ScaledPairIsBytes ==
  ASSUME NEW clock \in Nat \ {0}, NEW regs \in [Reg -> Byte],
         NEW reg \in Reg \cap PsgPeriod
  PROVE  ScaledPair(clock, regs, reg) \in Byte \X Byte
  <1>1. /\ LowOf(reg) \in Reg
        /\ HighOf(reg) \in Reg
    BY RegAssumption
  <1>2. PeriodMask(reg) \in {4095, 65535}
    BY DEF PeriodMask
  <1>3. regs[LowOf(reg)] + 256 * regs[HighOf(reg)] \in Nat
    <2>1. \A low, high \in Byte : low + 256 * high \in Nat
      BY DEF Byte
    <2>2. /\ regs[LowOf(reg)] \in Byte
          /\ regs[HighOf(reg)] \in Byte
      BY <1>1
    <2> HIDE DEF Byte
    <2> QED
      BY <2>1, <2>2
  <1>4. PairPeriod(regs, reg) \in Nat
    BY <1>2, <1>3 DEF PairPeriod
  <1>5. ScalePeriod(clock, PairPeriod(regs, reg), PeriodMask(reg)) \in Nat
    <2>1. PeriodMask(reg) \in Nat
      BY <1>2
    <2> QED
      BY <1>4, <2>1, ScalePeriodIsNat
  <1> QED
    BY <1>5 DEF ScaledPair, Byte

(* The scaled noise period is a byte.                                      *)
LEMMA ScaledNoiseIsByte ==
  ASSUME NEW clock \in Nat \ {0}, NEW value \in Byte
  PROVE  ScaledNoise(clock, value) \in Byte
  <1>1. value % 32 \in Nat
    BY DEF Byte
  <1>2. ScalePeriod(clock, value % 32, 31) \in Nat
    BY <1>1, ScalePeriodIsNat
  <1> QED
    BY <1>2 DEF ScaledNoise, Byte

(* Among the first blocks there is one the search of the nearest pitch     *)
(* would stop at: no error is below its own, and every earlier one is      *)
(* above it.                                                               *)
BestUpTo(error, n) ==
  \E block \in 0 .. n :
    /\ \A other \in 0 .. n : error[block] <= error[other]
    /\ \A lower \in 0 .. n : lower < block => error[block] < error[lower]

(* One more block keeps the best one or takes its place.                   *)
LEMMA BestOfOneMore ==
  ASSUME NEW error \in [FmBlock -> Int], NEW n \in 0 .. 6, BestUpTo(error, n)
  PROVE  BestUpTo(error, n + 1)
  <1>1. PICK block \in 0 .. n :
          /\ \A other \in 0 .. n : error[block] <= error[other]
          /\ \A lower \in 0 .. n : lower < block => error[block] < error[lower]
    BY DEF BestUpTo
  <1>2. \A k \in 0 .. n + 1 : k \in FmBlock /\ error[k] \in Int /\ (k \in 0 .. n \/ k = n + 1)
    BY DEF FmBlock
  <1>3. CASE error[block] <= error[n + 1]
    <2>1. block \in 0 .. n + 1
      OBVIOUS
    <2>2. \A other \in 0 .. n + 1 : error[block] <= error[other]
      BY <1>1, <1>2, <1>3
    <2>3. \A lower \in 0 .. n + 1 : lower < block => error[block] < error[lower]
      BY <1>1, <1>2
    <2> QED
      BY <2>1, <2>2, <2>3 DEF BestUpTo
  <1>4. CASE error[n + 1] < error[block]
    <2>1. n + 1 \in 0 .. n + 1
      OBVIOUS
    <2>2. \A other \in 0 .. n : error[n + 1] < error[other]
      BY <1>1, <1>2, <1>4
    <2>3. \A other \in 0 .. n + 1 : error[n + 1] <= error[other]
      BY <1>2, <2>1, <2>2
    <2>4. \A lower \in 0 .. n + 1 : lower < n + 1 => error[n + 1] < error[lower]
      BY <1>2, <2>2
    <2> QED
      BY <2>1, <2>3, <2>4 DEF BestUpTo
  <1> QED
    BY <1>2, <1>3, <1>4

(* The search over the eight blocks finds one.                             *)
LEMMA BestBlockIsBlock ==
  ASSUME NEW wanted \in Nat
  PROVE  BestBlock(wanted) \in FmBlock
  <1> DEFINE error == [block \in FmBlock |-> FmError(wanted, block)]
  <1>1. ASSUME NEW block \in FmBlock
        PROVE  FmError(wanted, block) \in Int
    <2>1. FmDivisor(block) \in Nat \ {0}
      <3>1. 2 ^ block \in Nat \ {0}
        BY ShiftIsPositive
      <3> HIDE DEF FmBlock
      <3> QED
        BY <3>1, ClockAssumption DEF FmDivisor
    <2>2. (wanted + FmDivisor(block) \div 2) \div FmDivisor(block) \in Nat
      BY <2>1, DivIsNat
    <2>3. FmCandidate(wanted, block) \in Nat
      BY <2>2 DEF FmCandidate, FnumMax
    <2>4. FmDivisor(block) * FmCandidate(wanted, block) \in Nat
      BY <2>1, <2>3, TimesIsNat
    <2> QED
      BY <2>4 DEF FmError, Distance
  <1>2. error \in [FmBlock -> Int]
    BY <1>1
  <1>3. BestUpTo(error, 0)
    BY <1>2 DEF BestUpTo, FmBlock
  <1> HIDE DEF error
  <1>4. BestUpTo(error, 7)
    BY <1>2, <1>3, BestOfOneMore
  <1>5. \E block \in FmBlock :
          /\ \A other \in FmBlock : FmError(wanted, block) <= FmError(wanted, other)
          /\ \A lower \in FmBlock :
               lower < block => FmError(wanted, block) < FmError(wanted, lower)
    BY <1>4 DEF error, BestUpTo, FmBlock
  <1> QED
    BY <1>5 DEF BestBlock

(* The two bytes of a retuned FM pair fit their registers: the block its   *)
(* three bits, the F-number its eleven, the upper bits those of the source.*)
LEMMA FmPairIsBytes ==
  ASSUME NEW clock \in Nat \ {0}, NEW low \in Byte, NEW high \in Byte
  PROVE  FmPair(clock, low, high) \in Byte \X Byte
  <1> DEFINE wanted == FmWanted(clock, low, high)
             block  == BestBlock(wanted)
             fnum   == FmCandidate(wanted, block)
  <1>1. wanted \in Nat
    <2>1. (high \div 8) % 8 \in FmBlock
      BY DEF Byte, FmBlock
    <2>2. 2 ^ ((high \div 8) % 8) \in Nat
      BY <2>1, ShiftIsPositive
    <2>3. low + 256 * (high % 8) \in Nat
      BY DEF Byte
    <2>4. clock * (low + 256 * (high % 8)) \in Nat
      BY <2>3, TimesIsNat
    <2> QED
      BY <2>2, <2>4, TimesIsNat DEF FmWanted
  <1> HIDE DEF wanted
  <1>2. block \in FmBlock
    BY <1>1, BestBlockIsBlock
  <1> HIDE DEF block
  <1>3. fnum \in 0 .. 2047
    <2>1. FmDivisor(block) \in Nat \ {0}
      <3>1. 2 ^ block \in Nat \ {0}
        BY <1>2, ShiftIsPositive
      <3> QED
        BY <3>1, ClockAssumption DEF FmDivisor
    <2>2. (wanted + FmDivisor(block) \div 2) \div FmDivisor(block) \in Nat
      BY <1>1, <2>1, DivIsNat
    <2> QED
      BY <2>2 DEF FmCandidate, FnumMax
  <1> HIDE DEF fnum
  <1>4. 64 * (high \div 64) + 8 * block + fnum \div 256 \in Byte
    BY <1>2, <1>3 DEF Byte, FmBlock
  <1>5. fnum % 256 \in Byte
    BY <1>3 DEF Byte
  <1> QED
    BY <1>4, <1>5 DEF FmPair, fnum, block, wanted
-----------------------------------------------------------------------------
(* The struct.                                                             *)

(* The converter's clock is a positive natural, and its type carries over  *)
(* to the struct that has the new source byte.                             *)
LEMMA SourcedIsConverter ==
  ASSUME NEW c \in Converter, NEW reg \in Reg, NEW value \in Byte
  PROVE  /\ Sourced(c, reg, value) \in Converter
         /\ Sourced(c, reg, value).source = [c.source EXCEPT ![reg] = value]
         /\ Sourced(c, reg, value).target = c.target
         /\ Sourced(c, reg, value).target_known = c.target_known
         /\ Sourced(c, reg, value).source_clock = c.source_clock
         /\ c.source_clock \in Nat \ {0}
  BY ClockAssumption DEF Sourced, Converter, Clocks

(* The struct after converter_write, field by field.                       *)
LEMMA ConvertedFields ==
  ASSUME NEW c \in Converter, NEW reg \in Reg, NEW value \in Byte
  PROVE  LET d == Converted(c, reg, value)
             e == Noted(c, Emission(c, reg, value))
         IN  /\ d.source = [c.source EXCEPT ![reg] = value]
             /\ d.target = e.target
             /\ d.target_known = e.target_known
             /\ d.source_clock = c.source_clock
             /\ d.pitch_conversion = c.pitch_conversion
             /\ d.clipped_values \in {c.clipped_values, c.clipped_values + 1}
             /\ d.fm_high_latch =
                  IF Adapts(c) /\ reg \in FmHigh THEN value ELSE c.fm_high_latch
             /\ d.fm_channel3_high_latch =
                  IF Adapts(c) /\ reg \in Fm3High THEN value ELSE c.fm_channel3_high_latch
             /\ d = [ source |-> d.source, target |-> d.target,
                      target_known |-> d.target_known,
                      source_clock |-> d.source_clock,
                      clipped_values |-> d.clipped_values,
                      fm_high_latch |-> d.fm_high_latch,
                      fm_channel3_high_latch |-> d.fm_channel3_high_latch,
                      pitch_conversion |-> d.pitch_conversion ]
  <1> DEFINE s == Sourced(c, reg, value)
             em == Emission(c, reg, value)
             n == Noted(s, em)
             l == Latched(n, reg, value)
             e == Noted(c, em)
  <1> HIDE DEF em
  <1>1. s = [ source |-> [c.source EXCEPT ![reg] = value], target |-> c.target,
              target_known |-> c.target_known, source_clock |-> c.source_clock,
              clipped_values |-> c.clipped_values, fm_high_latch |-> c.fm_high_latch,
              fm_channel3_high_latch |-> c.fm_channel3_high_latch,
              pitch_conversion |-> c.pitch_conversion ]
    BY DEF Sourced, Converter
  <1>0. /\ e.target = [r \in Reg |-> LastValue(em, WritesTo(em, {r}), c.target[r])]
        /\ e.target_known = [r \in Reg |-> WritesTo(em, {r}) # {} \/ c.target_known[r]]
    BY DEF Noted, Converter
  <1> HIDE DEF s, e
  <1>2. n = [ source |-> s.source, target |-> e.target,
              target_known |-> e.target_known, source_clock |-> c.source_clock,
              clipped_values |-> c.clipped_values, fm_high_latch |-> c.fm_high_latch,
              fm_channel3_high_latch |-> c.fm_channel3_high_latch,
              pitch_conversion |-> c.pitch_conversion ]
    <2>1. s.target = c.target /\ s.target_known = c.target_known
      BY <1>1
    <2>2. n = [s EXCEPT !.target = e.target, !.target_known = e.target_known]
      BY <1>0, <2>1, Zenon DEF Noted
    <2> QED
      BY <1>1, <2>2
  <1> HIDE DEF n
  <1>3. l = [ source |-> s.source, target |-> e.target,
              target_known |-> e.target_known, source_clock |-> c.source_clock,
              clipped_values |-> c.clipped_values,
              fm_high_latch |->
                IF Adapts(c) /\ reg \in FmHigh THEN value ELSE c.fm_high_latch,
              fm_channel3_high_latch |->
                IF Adapts(c) /\ reg \in Fm3High THEN value ELSE c.fm_channel3_high_latch,
              pitch_conversion |-> c.pitch_conversion ]
    <2>1. Adapts(n) <=> Adapts(c)
      BY <1>2 DEF Adapts
    <2> QED
      <3>1. n.fm_high_latch = c.fm_high_latch
            /\ n.fm_channel3_high_latch = c.fm_channel3_high_latch
        BY <1>2
      <3>2. l = [n EXCEPT
                   !.fm_high_latch =
                     IF Adapts(c) /\ reg \in FmHigh THEN value ELSE c.fm_high_latch,
                   !.fm_channel3_high_latch =
                     IF Adapts(c) /\ reg \in Fm3High THEN value ELSE c.fm_channel3_high_latch]
        BY <2>1, <3>1 DEF Latched
      <3> QED
        BY <1>2, <3>2
  <1> HIDE DEF l
  <1>4. Converted(c, reg, value) = Counted(l, Clips(c, reg, value))
    BY DEF Converted, l, n, s, em
  <1> QED
    BY <1>1, <1>3, <1>4 DEF Counted, e, em

(* The settings are not touched.                                           *)
LEMMA SettingsStay ==
  ASSUME NEW c \in Converter, NEW reg \in Reg, NEW value \in Byte
  PROVE  /\ Converted(c, reg, value).source_clock = c.source_clock
         /\ Converted(c, reg, value).pitch_conversion = c.pitch_conversion
  BY ConvertedFields

(* What converter_emit leaves in the cache after no write, one and two.    *)
LEMMA NotedNone ==
  ASSUME NEW c \in Converter
  PROVE  /\ Noted(c, <<>>).target = c.target
         /\ Noted(c, <<>>).target_known = c.target_known
  BY DEF Noted, Converter, LastValue, LastOf, WritesTo

(* One write sets its register's byte and marks it known.                  *)
LEMMA NotedOne ==
  ASSUME NEW c \in Converter, NEW reg \in Reg, NEW value \in Byte
  PROVE  LET d == Noted(c, << <<reg, value>> >>)
         IN  /\ d.target = [c.target EXCEPT ![reg] = value]
             /\ d.target_known = [c.target_known EXCEPT ![reg] = TRUE]
  <1> DEFINE ws == << <<reg, value>> >>
             d == Noted(c, ws)
  <1>1. /\ d.target = [r \in Reg |-> LastValue(ws, WritesTo(ws, {r}), c.target[r])]
        /\ d.target_known = [r \in Reg |-> WritesTo(ws, {r}) # {} \/ c.target_known[r]]
    BY DEF Noted, Converter
  <1> HIDE DEF d
  <1>2. /\ c.target \in [Reg -> Byte]
        /\ c.target_known \in [Reg -> BOOLEAN]
    BY DEF Converter
  <1>3. \A r \in Reg : WritesTo(ws, {r}) = IF r = reg THEN {1} ELSE {}
    BY DEF WritesTo
  <1>4. LastOf({1}) = 1 /\ LastOf({2}) = 2
    BY DEF LastOf
  <1>5. ASSUME NEW r \in Reg
        PROVE  LastValue(ws, WritesTo(ws, {r}), c.target[r])
                 = IF r = reg THEN value ELSE c.target[r]
    BY <1>3, <1>4 DEF LastValue
  <1>6. ASSUME NEW r \in Reg
        PROVE  (WritesTo(ws, {r}) # {} \/ c.target_known[r])
                 = IF r = reg THEN TRUE ELSE c.target_known[r]
    BY <1>2, <1>3
  <1> QED
    BY <1>1, <1>2, <1>5, <1>6 DEF d

(* Two writes to different registers set both bytes and mark both known.   *)
LEMMA NotedTwo ==
  ASSUME NEW c \in Converter, NEW reg \in Reg, NEW value \in Byte,
         NEW reg2 \in Reg, NEW value2 \in Byte, reg # reg2
  PROVE  LET d == Noted(c, << <<reg, value>>, <<reg2, value2>> >>)
         IN  /\ d.target = [c.target EXCEPT ![reg] = value, ![reg2] = value2]
             /\ d.target_known = [c.target_known EXCEPT ![reg] = TRUE, ![reg2] = TRUE]
  <1> DEFINE ws == << <<reg, value>>, <<reg2, value2>> >>
             d == Noted(c, ws)
  <1>1. /\ d.target = [r \in Reg |-> LastValue(ws, WritesTo(ws, {r}), c.target[r])]
        /\ d.target_known = [r \in Reg |-> WritesTo(ws, {r}) # {} \/ c.target_known[r]]
    BY DEF Noted, Converter
  <1> HIDE DEF d
  <1>2. /\ c.target \in [Reg -> Byte]
        /\ c.target_known \in [Reg -> BOOLEAN]
    BY DEF Converter
  <1>3. \A r \in Reg : WritesTo(ws, {r}) = IF r = reg THEN {1} ELSE IF r = reg2 THEN {2} ELSE {}
    BY DEF WritesTo
  <1>4. LastOf({1}) = 1 /\ LastOf({2}) = 2
    BY DEF LastOf
  <1>5. ASSUME NEW r \in Reg
        PROVE  LastValue(ws, WritesTo(ws, {r}), c.target[r])
                 = IF r = reg THEN value ELSE IF r = reg2 THEN value2 ELSE c.target[r]
    BY <1>3, <1>4 DEF LastValue
  <1>6. ASSUME NEW r \in Reg
        PROVE  (WritesTo(ws, {r}) # {} \/ c.target_known[r])
                 = IF r = reg \/ r = reg2 THEN TRUE ELSE c.target_known[r]
    BY <1>2, <1>3
  <1>7. d.target = [c.target EXCEPT ![reg] = value, ![reg2] = value2]
    <2>1. d.target = [r \in Reg |-> IF r = reg THEN value
                                    ELSE IF r = reg2 THEN value2 ELSE c.target[r]]
      BY <1>1, <1>5
    <2> QED
      BY <1>2, <2>1
  <1>8. d.target_known = [c.target_known EXCEPT ![reg] = TRUE, ![reg2] = TRUE]
    <2>1. d.target_known = [r \in Reg |-> IF r = reg \/ r = reg2 THEN TRUE
                                          ELSE c.target_known[r]]
      BY <1>1, <1>6
    <2> QED
      BY <1>2, <2>1
  <1> QED
    BY <1>7, <1>8 DEF d

(* The cache keeps the clip count's step: it is the count of Clips.        *)
LEMMA CountAfter ==
  ASSUME NEW c \in Converter, NEW reg \in Reg, NEW value \in Byte
  PROVE  Converted(c, reg, value).clipped_values
           = IF Clips(c, reg, value) THEN c.clipped_values + 1 ELSE c.clipped_values
  <1> DEFINE s == Sourced(c, reg, value)
             n == Noted(s, Emission(c, reg, value))
             l == Latched(n, reg, value)
  <1>1. s \in Converter /\ s.clipped_values = c.clipped_values
    BY SourcedIsConverter DEF Sourced, Converter
  <1> HIDE DEF s
  <1>2. /\ n = [s EXCEPT !.target = n.target, !.target_known = n.target_known]
        /\ n.clipped_values = s.clipped_values
    BY <1>1 DEF Noted, Converter
  <1> HIDE DEF n
  <1>3. /\ l.clipped_values = n.clipped_values
        /\ Counted(l, Clips(c, reg, value)).clipped_values
              = IF Clips(c, reg, value) THEN l.clipped_values + 1 ELSE l.clipped_values
    <2>1. n.clipped_values = c.clipped_values /\ DOMAIN n = DOMAIN s
      BY <1>1, <1>2
    <2>2. DOMAIN s = {"source", "target", "target_known", "source_clock", "clipped_values",
                      "fm_high_latch", "fm_channel3_high_latch", "pitch_conversion"}
      BY <1>1 DEF Converter
    <2>3. l.clipped_values = n.clipped_values /\ DOMAIN l = DOMAIN n
      BY <2>1, <2>2 DEF Latched
    <2> HIDE DEF l, n
    <2> QED
      BY <2>1, <2>2, <2>3 DEF Counted
  <1> QED
    BY <1>1, <1>2, <1>3 DEF Converted, l, n, s
-----------------------------------------------------------------------------
(* A write that is sent on as it came.                                     *)
LEMMA PassedOn ==
  ASSUME NEW c \in Converter, NEW reg \in Reg, NEW value \in Byte,
         ~Adapts(c) \/ reg \notin Pitched
  PROVE  Emission(c, reg, value) = << <<reg, value>> >>
  BY DEF Emission, Pitched, PsgPeriod, FmCommit, Noise, FmHigh, FmLow, Fm3High, Fm3Low,
         PsgTone, EnvelopePeriod

(* The four lists converter_emit_changed can append for two registers.     *)
LEMMA PairForms ==
  ASSUME NEW c \in Converter, NEW r1 \in Reg, NEW v1 \in Byte, NEW r2 \in Reg, NEW v2 \in Byte
  PROVE  EmitChanged(c, r1, v1) \o EmitChanged(c, r2, v2) =
           IF c.target_known[r1] /\ c.target[r1] = v1
           THEN IF c.target_known[r2] /\ c.target[r2] = v2
                THEN <<>>
                ELSE << <<r2, v2>> >>
           ELSE IF c.target_known[r2] /\ c.target[r2] = v2
                THEN << <<r1, v1>> >>
                ELSE << <<r1, v1>>, <<r2, v2>> >>
  <1> DEFINE same1 == c.target_known[r1] /\ c.target[r1] = v1
             same2 == c.target_known[r2] /\ c.target[r2] = v2
             e1 == IF same1 THEN <<>> ELSE << <<r1, v1>> >>
             e2 == IF same2 THEN <<>> ELSE << <<r2, v2>> >>
  <1>1. EmitChanged(c, r1, v1) = e1 /\ EmitChanged(c, r2, v2) = e2
    BY DEF EmitChanged
  <1>2. \A w \in Seq(Write) : <<>> \o w = w /\ w \o <<>> = w
    OBVIOUS
  <1>3. << <<r1, v1>> >> \in Seq(Write) /\ << <<r2, v2>> >> \in Seq(Write)
    BY DEF Write
  <1>4. << <<r1, v1>> >> \o << <<r2, v2>> >> = << <<r1, v1>>, <<r2, v2>> >>
    <2>1. <<r1, v1>> \in Write /\ <<r2, v2>> \in Write
      BY DEF Write
    <2> QED
      BY <2>1, JoinOfOnes
  <1>5. <<>> \o <<>> = <<>>
    OBVIOUS
  <1> QED
    BY <1>1, <1>2, <1>3, <1>4, <1>5
-----------------------------------------------------------------------------
(* What any call of converter_write appends and leaves is well typed.      *)

(* A set of positions that is not empty has a last one.                    *)
LEMMA LastOfIsLast ==
  ASSUME NEW n \in Nat, NEW At, At \subseteq 1 .. n, At # {}
  PROVE  /\ LastOf(At) \in At
         /\ \A j \in At : j <= LastOf(At)
  <1>1. \E k \in At : \A j \in At : j <= k
    <2>1. At \subseteq Nat /\ \A k \in At : k <= n
      OBVIOUS
    <2> QED
      BY <2>1, GreatestNumber
  <1> QED
    BY <1>1 DEF LastOf

(* converter_emit keeps bytes in the cache.                                *)
LEMMA NotedIsTyped ==
  ASSUME NEW c \in Converter, NEW writes \in Seq(Write)
  PROVE  /\ Noted(c, writes).target \in [Reg -> Byte]
         /\ Noted(c, writes).target_known \in [Reg -> BOOLEAN]
  <1>1. /\ Noted(c, writes).target
             = [r \in Reg |-> LastValue(writes, WritesTo(writes, {r}), c.target[r])]
        /\ Noted(c, writes).target_known
             = [r \in Reg |-> WritesTo(writes, {r}) # {} \/ c.target_known[r]]
    BY DEF Noted, Converter
  <1>2. c.target \in [Reg -> Byte] /\ c.target_known \in [Reg -> BOOLEAN]
    BY DEF Converter
  <1>3. ASSUME NEW r \in Reg
        PROVE  LastValue(writes, WritesTo(writes, {r}), c.target[r]) \in Byte
    <2> DEFINE At == WritesTo(writes, {r})
    <2>1. CASE At = {}
      BY <1>2, <2>1 DEF LastValue
    <2>2. CASE At # {}
      <3>1. Len(writes) \in Nat /\ At \subseteq 1 .. Len(writes)
        BY DEF WritesTo
      <3>2. LastOf(At) \in 1 .. Len(writes)
        BY <2>2, <3>1, LastOfIsLast
      <3>3. writes[LastOf(At)] \in Write
        BY <3>2
      <3> QED
        BY <2>2, <3>3 DEF LastValue, Write
    <2> QED
      BY <2>1, <2>2
  <1>4. [r \in Reg |-> WritesTo(writes, {r}) # {} \/ c.target_known[r]] \in [Reg -> BOOLEAN]
    BY <1>2, Zenon
  <1> QED
    BY <1>1, <1>3, <1>4

(* What a call appends is writes of bytes to registers.                    *)
LEMMA EmissionIsWrites ==
  ASSUME NEW c \in Converter, NEW reg \in Reg, NEW value \in Byte
  PROVE  Emission(c, reg, value) \in Seq(Write)
  <1> DEFINE s == Sourced(c, reg, value)
             em == Emission(c, reg, value)
             pair == ScaledPair(s.source_clock, s.source, reg)
             v == ScaledNoise(c.source_clock, value)
             fm == FmPair(s.source_clock, value, LatchFor(c, reg))
  <1>1. /\ s \in Converter /\ s.source_clock \in Nat \ {0} /\ c.source_clock \in Nat \ {0}
        /\ s.source \in [Reg -> Byte]
    BY SourcedIsConverter, ClockAssumption DEF Converter, Clocks
  <1>2. ASSUME NEW r \in Reg, NEW b \in Byte
        PROVE  EmitChanged(s, r, b) \in Seq(Write) /\ << <<r, b>> >> \in Seq(Write)
    <2>1. <<r, b>> \in Write
      BY DEF Write
    <2>2. << <<r, b>> >> \in Seq(Write) /\ << >> \in Seq(Write)
      BY <2>1
    <2> QED
      BY <2>2 DEF EmitChanged
  <1>3. ASSUME NEW a \in Seq(Write), NEW b \in Seq(Write)
        PROVE  a \o b \in Seq(Write)
    OBVIOUS
  <1>4. CASE ~Adapts(c)
    BY <1>2, <1>4, PassedOn
  <1>5. CASE Adapts(c) /\ reg \in PsgPeriod
    <2>1. em = EmitPsgPair(s, reg)
      BY <1>5 DEF Emission, PsgPeriod, PsgTone, EnvelopePeriod, Noise, FmHigh, Fm3High,
                  FmCommit, FmLow, Fm3Low
    <2>2. /\ LowOf(reg) \in Reg /\ HighOf(reg) \in Reg
          /\ pair[1] \in Byte /\ pair[2] \in Byte
      BY <1>1, <1>5, RegAssumption, ScaledPairIsBytes
    <2>3. /\ EmitChanged(s, LowOf(reg), pair[1]) \in Seq(Write)
          /\ EmitChanged(s, HighOf(reg), pair[2]) \in Seq(Write)
      BY <1>2, <2>2
    <2> QED
      BY <1>3, <2>1, <2>3 DEF EmitPsgPair
  <1>6. CASE Adapts(c) /\ reg \in Noise
    <2>1. em = EmitChanged(s, reg, v)
      BY <1>6 DEF Emission, PsgPeriod, PsgTone, EnvelopePeriod, Noise, FmHigh, Fm3High,
                  FmCommit, FmLow, Fm3Low
    <2>2. v \in Byte
      BY <1>1, ScaledNoiseIsByte
    <2> QED
      BY <1>2, <2>1, <2>2
  <1>7. CASE Adapts(c) /\ reg \in FmHigh \cup Fm3High
    <2>1. em = << >>
      BY <1>7 DEF Emission, PsgPeriod, PsgTone, EnvelopePeriod, Noise, FmHigh, Fm3High,
                  FmCommit, FmLow, Fm3Low
    <2> QED
      BY <2>1
  <1>8. CASE Adapts(c) /\ reg \in FmCommit
    <2>1. em = EmitFmPair(s, reg, value, LatchFor(c, reg))
      BY <1>8 DEF Emission, PsgPeriod, PsgTone, EnvelopePeriod, Noise, FmHigh, Fm3High,
                  FmCommit, FmLow, Fm3Low
    <2>2. LatchFor(c, reg) \in Byte
      BY DEF LatchFor, Converter
    <2>3. fm[1] \in Byte /\ fm[2] \in Byte /\ reg + 4 \in Reg
      BY <1>1, <1>8, <2>2, FmPairIsBytes, RegAssumption
    <2>4. <<reg + 4, fm[1]>> \in Write /\ <<reg, fm[2]>> \in Write
      BY <2>3 DEF Write
    <2>5. em = << <<reg + 4, fm[1]>>, <<reg, fm[2]>> >>
      BY <2>1 DEF EmitFmPair
    <2>6. << <<reg + 4, fm[1]>>, <<reg, fm[2]>> >> \in Seq(Write)
      <3> HIDE DEF fm
      <3> QED
        BY <2>4
    <2> QED
      BY <2>5, <2>6
  <1>9. CASE reg \notin Pitched
    BY <1>2, <1>9, PassedOn
  <1> QED
    BY <1>4, <1>5, <1>6, <1>7, <1>8, <1>9 DEF Pitched

(* The struct keeps its type.                                              *)
LEMMA ConvertedIsConverter ==
  ASSUME NEW c \in Converter, NEW reg \in Reg, NEW value \in Byte
  PROVE  Converted(c, reg, value) \in Converter
  <1> DEFINE d == Converted(c, reg, value)
             e == Noted(c, Emission(c, reg, value))
  <1>1. /\ d.source = [c.source EXCEPT ![reg] = value]
        /\ d.target = e.target /\ d.target_known = e.target_known
        /\ d.source_clock = c.source_clock
        /\ d.pitch_conversion = c.pitch_conversion
        /\ d.clipped_values \in {c.clipped_values, c.clipped_values + 1}
        /\ d.fm_high_latch \in {value, c.fm_high_latch}
        /\ d.fm_channel3_high_latch \in {value, c.fm_channel3_high_latch}
        /\ d = [ source |-> d.source, target |-> d.target,
                 target_known |-> d.target_known,
                 source_clock |-> d.source_clock,
                 clipped_values |-> d.clipped_values,
                 fm_high_latch |-> d.fm_high_latch,
                 fm_channel3_high_latch |-> d.fm_channel3_high_latch,
                 pitch_conversion |-> d.pitch_conversion ]
    BY ConvertedFields
  <1>2. e.target \in [Reg -> Byte] /\ e.target_known \in [Reg -> BOOLEAN]
    BY EmissionIsWrites, NotedIsTyped
  <1> HIDE DEF d, e
  <1>3. /\ c.source \in [Reg -> Byte] /\ c.source_clock \in Clocks
        /\ c.clipped_values \in Nat /\ c.fm_high_latch \in Byte
        /\ c.fm_channel3_high_latch \in Byte /\ c.pitch_conversion \in BOOLEAN
    BY DEF Converter
  <1>4. /\ d.source \in [Reg -> Byte] /\ d.clipped_values \in Nat
        /\ d.fm_high_latch \in Byte /\ d.fm_channel3_high_latch \in Byte
    BY <1>1, <1>3
  <1>5. d \in Converter
    BY <1>1, <1>2, <1>3, <1>4 DEF Converter
  <1> QED
    BY <1>5 DEF d
-----------------------------------------------------------------------------
(* The register map: what the provers need of the numbers.                 *)

(* Two registers of periods belong to one pair or to pairs with nothing in *)
(* common, and a register is one of its pair.                              *)
LEMMA PairsApart ==
  ASSUME NEW r \in PsgPeriod, NEW t \in PsgPeriod
  PROVE  /\ r = LowOf(r) \/ r = HighOf(r)
         /\ LowOf(r) # HighOf(r)
         /\ LowOf(r) \in PsgPeriod /\ HighOf(r) \in PsgPeriod
         /\ LowOf(r) = LowOf(t) => HighOf(r) = HighOf(t) /\ PeriodMask(r) = PeriodMask(t)
         /\ LowOf(r) # LowOf(t) =>
              LowOf(r) # HighOf(t) /\ HighOf(r) # LowOf(t) /\ HighOf(r) # HighOf(t)
  BY DEF PsgPeriod, PsgTone, EnvelopePeriod, LowOf, HighOf, PeriodMask

(* A register outside the FM frequencies and key on/off is only a byte.    *)
PlainReg == Reg \ (FmHigh \cup Fm3High \cup FmCommit \cup {KeyOnOff})

(* Such a register takes the byte and nothing else of the chip changes.    *)
LEMMA HeardPlain ==
  ASSUME NEW c \in Chip, NEW reg \in PlainReg, NEW value \in Byte
  PROVE  Heard(c, reg, value) = [c EXCEPT !.regs = [c.regs EXCEPT ![reg] = value]]
  <1>1. \A l \in FmCommit : l # reg
    BY DEF PlainReg
  <1>2. /\ reg \notin FmHigh /\ reg \notin Fm3High /\ reg # KeyOnOff
        /\ reg \in Reg
    BY DEF PlainReg
  <1>3. c = [ regs |-> c.regs, high |-> c.high, high3 |-> c.high3, fm |-> c.fm, key |-> c.key ]
    BY DEF Chip
  <1>4. c.fm = [l \in FmCommit |-> c.fm[l]] /\ c.key = [k \in Channel |-> c.key[k]]
    BY DEF Chip
  <1>5. Heard(c, reg, value).fm = c.fm
    BY <1>1, <1>4 DEF Heard
  <1>6. Heard(c, reg, value).key = c.key
    BY <1>2, <1>4 DEF Heard
  <1>7. /\ Heard(c, reg, value).regs = [c.regs EXCEPT ![reg] = value]
        /\ Heard(c, reg, value).high = c.high
        /\ Heard(c, reg, value).high3 = c.high3
    BY <1>2 DEF Heard
  <1>8. Heard(c, reg, value) =
          [ regs |-> Heard(c, reg, value).regs, high |-> Heard(c, reg, value).high,
            high3 |-> Heard(c, reg, value).high3, fm |-> Heard(c, reg, value).fm,
            key |-> Heard(c, reg, value).key ]
    BY DEF Heard
  <1> HIDE DEF PlainReg
  <1> QED
    BY <1>3, <1>5, <1>6, <1>7, <1>8

(* CacheCoherent, of any struct and any chip.                              *)
Coherent(c, h) == \A r \in Reg : c.target_known[r] => h.regs[r] = c.target[r]

(* What is appended for two registers that must hold v1 and v2.            *)
PairEmission(c, r1, v1, r2, v2) == EmitChanged(c, r1, v1) \o EmitChanged(c, r2, v2)

(* A register file with two registers set, and a chip with another file.   *)
WithPair(f, r1, v1, r2, v2) == [f EXCEPT ![r1] = v1, ![r2] = v2]
PairKnown(f, r1, r2) == [f EXCEPT ![r1] = TRUE, ![r2] = TRUE]
WithRegs(h, regs) == [h EXCEPT !.regs = regs]

(* converter_emit_changed twice, on a coherent cache: sent or not, the two *)
(* registers of the chip end with the two bytes, and so does the cache.    *)
LEMMA PairSent ==
  ASSUME NEW c \in Converter, NEW h \in Chip,
         NEW r1 \in PlainReg, NEW v1 \in Byte, NEW r2 \in PlainReg, NEW v2 \in Byte,
         r1 # r2, Coherent(c, h),
         NEW em, em = PairEmission(c, r1, v1, r2, v2)
  PROVE  /\ Hears(h, em) = WithRegs(h, WithPair(h.regs, r1, v1, r2, v2))
         /\ Noted(c, em).target = WithPair(c.target, r1, v1, r2, v2)
         /\ Noted(c, em).target_known = PairKnown(c.target_known, r1, r2)
  <1> DEFINE same1 == c.target_known[r1] /\ c.target[r1] = v1
             same2 == c.target_known[r2] /\ c.target[r2] = v2
  <1>1. r1 \in Reg /\ r2 \in Reg
    BY DEF PlainReg
  <1>2. /\ c.target \in [Reg -> Byte]
        /\ c.target_known \in [Reg -> BOOLEAN]
        /\ h.regs \in [Reg -> Byte]
    BY DEF Converter, Chip
  <1>3. h = [h EXCEPT !.regs = h.regs]
    BY DEF Chip
  <1>4. Heard(h, r1, v1) \in Chip /\ Heard(h, r2, v2) \in Chip
    BY <1>1, HeardIsChip
  <1>5. CASE same1 /\ same2
    <2>1. em = <<>>
      BY <1>1, <1>5, PairForms DEF PairEmission
    <2>2. h.regs[r1] = v1 /\ h.regs[r2] = v2
      BY <1>1, <1>5 DEF Coherent
    <2>3. h.regs = [h.regs EXCEPT ![r1] = v1, ![r2] = v2]
      BY <1>2, <2>2
    <2>4. /\ c.target = [c.target EXCEPT ![r1] = v1, ![r2] = v2]
          /\ c.target_known = [c.target_known EXCEPT ![r1] = TRUE, ![r2] = TRUE]
      BY <1>2, <1>5
    <2> QED
      BY <1>3, <2>1, <2>3, <2>4, HearsNone, NotedNone DEF WithPair, PairKnown, WithRegs
  <1>6. CASE same1 /\ ~same2
    <2>1. em = << <<r2, v2>> >>
      BY <1>1, <1>6, PairForms DEF PairEmission
    <2>2. h.regs[r1] = v1
      BY <1>1, <1>6 DEF Coherent
    <2>3. [h.regs EXCEPT ![r2] = v2] = [h.regs EXCEPT ![r1] = v1, ![r2] = v2]
      BY <1>2, <2>2
    <2>4. /\ [c.target EXCEPT ![r2] = v2] = [c.target EXCEPT ![r1] = v1, ![r2] = v2]
          /\ [c.target_known EXCEPT ![r2] = TRUE]
               = [c.target_known EXCEPT ![r1] = TRUE, ![r2] = TRUE]
      BY <1>2, <1>6
    <2> QED
      BY <1>1, <2>1, <2>3, <2>4, HearsOne, HeardPlain, NotedOne DEF WithPair, PairKnown, WithRegs
  <1>7. CASE ~same1 /\ same2
    <2>1. em = << <<r1, v1>> >>
      BY <1>1, <1>7, PairForms DEF PairEmission
    <2>2. h.regs[r2] = v2
      BY <1>1, <1>7 DEF Coherent
    <2>3. [h.regs EXCEPT ![r1] = v1] = [h.regs EXCEPT ![r1] = v1, ![r2] = v2]
      BY <1>2, <2>2
    <2>4. /\ [c.target EXCEPT ![r1] = v1] = [c.target EXCEPT ![r1] = v1, ![r2] = v2]
          /\ [c.target_known EXCEPT ![r1] = TRUE]
               = [c.target_known EXCEPT ![r1] = TRUE, ![r2] = TRUE]
      <3>1. [c.target EXCEPT ![r1] = v1] = [c.target EXCEPT ![r1] = v1, ![r2] = v2]
        BY <1>2, <1>7
      <3>2. [c.target_known EXCEPT ![r1] = TRUE]
              = [c.target_known EXCEPT ![r1] = TRUE, ![r2] = TRUE]
        BY <1>2, <1>7
      <3> QED
        BY <3>1, <3>2
    <2> QED
      BY <1>1, <2>1, <2>3, <2>4, HearsOne, HeardPlain, NotedOne DEF WithPair, PairKnown, WithRegs
  <1>8. CASE ~same1 /\ ~same2
    <2>1. em = << <<r1, v1>>, <<r2, v2>> >>
      BY <1>1, <1>8, PairForms DEF PairEmission
    <2>2. Hears(h, em) = Heard(Heard(h, r1, v1), r2, v2)
      BY <1>1, <2>1, HearsTwo
    <2>3. Heard(h, r1, v1) = [h EXCEPT !.regs = [h.regs EXCEPT ![r1] = v1]]
      BY HeardPlain
    <2>4. Heard(Heard(h, r1, v1), r2, v2)
            = [h EXCEPT !.regs = [h.regs EXCEPT ![r1] = v1, ![r2] = v2]]
      <3> DEFINE g == Heard(h, r1, v1)
      <3> HIDE DEF g
      <3>1. Heard(g, r2, v2) = [g EXCEPT !.regs = [g.regs EXCEPT ![r2] = v2]]
        BY <1>4, HeardPlain DEF g
      <3>2. g.regs = [h.regs EXCEPT ![r1] = v1]
        BY <2>3 DEF g, Chip
      <3> QED
        BY <2>3, <3>1, <3>2 DEF g, Chip
    <2>5. Hears(h, em) = WithRegs(h, WithPair(h.regs, r1, v1, r2, v2))
      BY <2>2, <2>4 DEF WithPair, WithRegs
    <2>6. /\ Noted(c, em).target = WithPair(c.target, r1, v1, r2, v2)
          /\ Noted(c, em).target_known = PairKnown(c.target_known, r1, r2)
      BY <1>1, <2>1, NotedTwo DEF WithPair, PairKnown
    <2> QED
      BY <2>5, <2>6
  <1> QED
    BY <1>5, <1>6, <1>7, <1>8
-----------------------------------------------------------------------------
(* One call of converter_write from a state of the invariant.  The five    *)
(* kinds of register differ in what reaches the chip and the cache.        *)

OneWrite(c, x, y, reg, value, d, x2, y2) ==
  /\ d = Converted(c, reg, value)
  /\ x2 = Hears(x, << <<reg, value>> >>)
  /\ y2 = Hears(y, Emission(c, reg, value))

(* A write that passes: the register is not Pitched, or nothing is adapted.*)
PassCase(c, reg)   == ~Adapts(c) \/ reg \notin Pitched
PairCase(c, reg)   == Adapts(c) /\ reg \in PsgPeriod
NoiseCase(c, reg)  == Adapts(c) /\ reg \in Noise
LatchCase(c, reg)  == Adapts(c) /\ reg \in FmHigh \cup Fm3High
CommitCase(c, reg) == Adapts(c) /\ reg \in FmCommit

(* Every call of converter_write is one of the five kinds.                 *)
LEMMA Cases ==
  ASSUME NEW c, NEW reg \in Reg
  PROVE  PassCase(c, reg) \/ PairCase(c, reg) \/ NoiseCase(c, reg) \/ LatchCase(c, reg) \/ CommitCase(c, reg)
  BY DEF PassCase, PairCase, NoiseCase, LatchCase, CommitCase, Pitched

(* What is sent in the four cases that adapt.                              *)
LEMMA EmissionOf ==
  ASSUME NEW c, NEW reg \in Reg, NEW value \in Byte
  PROVE  LET s == Sourced(c, reg, value)
             em == Emission(c, reg, value)
         IN  /\ PairCase(c, reg) => em = EmitPsgPair(s, reg)
             /\ NoiseCase(c, reg) =>
                  em = EmitChanged(s, reg, ScaledNoise(c.source_clock, value))
             /\ LatchCase(c, reg) => em = <<>>
             /\ CommitCase(c, reg) => em = EmitFmPair(s, reg, value, LatchFor(c, reg))
  <1>1. PairCase(c, reg) => reg \notin Noise \cup FmHigh \cup Fm3High \cup FmCommit
    BY DEF PairCase, PsgPeriod, PsgTone, EnvelopePeriod, Noise, FmHigh, Fm3High, FmCommit,
           FmLow, Fm3Low
  <1>2. NoiseCase(c, reg) => reg \notin PsgPeriod \cup FmHigh \cup Fm3High \cup FmCommit
    BY DEF NoiseCase, PsgPeriod, PsgTone, EnvelopePeriod, Noise, FmHigh, Fm3High, FmCommit,
           FmLow, Fm3Low
  <1>3. LatchCase(c, reg) => reg \notin PsgPeriod \cup Noise \cup FmCommit
    BY DEF LatchCase, PsgPeriod, PsgTone, EnvelopePeriod, Noise, FmHigh, Fm3High, FmCommit,
           FmLow, Fm3Low
  <1>4. CommitCase(c, reg) => reg \notin PsgPeriod \cup Noise \cup FmHigh \cup Fm3High
    BY DEF CommitCase, PsgPeriod, PsgTone, EnvelopePeriod, Noise, FmHigh, Fm3High, FmCommit,
           FmLow, Fm3Low
  <1>5. CASE PairCase(c, reg)
    BY <1>1, <1>5 DEF Emission, PairCase, NoiseCase, LatchCase, CommitCase
  <1>6. CASE NoiseCase(c, reg)
    BY <1>2, <1>6 DEF Emission, PairCase, NoiseCase, LatchCase, CommitCase
  <1>7. CASE LatchCase(c, reg)
    BY <1>3, <1>7 DEF Emission, PairCase, NoiseCase, LatchCase, CommitCase
  <1>8. CASE CommitCase(c, reg)
    BY <1>4, <1>8 DEF Emission, PairCase, NoiseCase, LatchCase, CommitCase
  <1> QED
    BY <1>5, <1>6, <1>7, <1>8

(* The part of the invariant that does not depend on the case: the source  *)
(* side, and that the kind of conversion never changes.                    *)
LEMMA SourceSide ==
  ASSUME NEW c, NEW x, NEW y, NEW d, NEW x2, NEW y2,
         InTune(c, x, y), NEW reg \in Reg, NEW value \in Byte, OneWrite(c, x, y, reg, value, d, x2, y2)
  PROVE  /\ x2 = Heard(x, reg, value)
         /\ x2 \in Chip
         /\ d.source \in [Reg -> Byte]
         /\ SourceRemembered(d, x2)
         /\ Adapts(d) <=> Adapts(c)
         /\ d.source_clock = c.source_clock
  <1>1. c \in Converter /\ x \in Chip
    BY DEF InTune
  <1>2. x2 = Heard(x, reg, value) /\ x2 \in Chip
    BY <1>1, HearsOne, HeardIsChip DEF OneWrite
  <1>3. /\ d.source = [c.source EXCEPT ![reg] = value]
        /\ d.source_clock = c.source_clock
        /\ d.pitch_conversion = c.pitch_conversion
        /\ d.fm_high_latch =
             IF Adapts(c) /\ reg \in FmHigh THEN value ELSE c.fm_high_latch
        /\ d.fm_channel3_high_latch =
             IF Adapts(c) /\ reg \in Fm3High THEN value
             ELSE c.fm_channel3_high_latch
    BY <1>1, ConvertedFields DEF OneWrite
  <1>4. Adapts(d) <=> Adapts(c)
    BY <1>3 DEF Adapts
  <1>5. c.source \in [Reg -> Byte] /\ x.regs \in [Reg -> Byte]
    BY <1>1 DEF Converter, Chip
  <1>6. \A r \in Reg \cap (PsgPeriod \cup Noise) : d.source[r] = x2.regs[r]
    <2>1. x2.regs = [x.regs EXCEPT ![reg] = value]
      BY <1>2 DEF Heard
    <2> QED
      BY <1>3, <1>5, <2>1 DEF InTune, SourceRemembered
  <1>7. Adapts(c) =>
          /\ d.fm_high_latch = x2.high
          /\ d.fm_channel3_high_latch = x2.high3
    BY <1>2, <1>3 DEF InTune, SourceRemembered, Heard
  <1>8. SourceRemembered(d, x2)
    BY <1>4, <1>6, <1>7 DEF SourceRemembered
  <1> QED
    BY <1>2, <1>3, <1>4, <1>5, <1>8

(* And what is left to show of the invariant once the target side of the   *)
(* step is known.                                                          *)
TargetSide(c, x, y) ==
  /\ y \in Chip
  /\ c.target \in [Reg -> Byte]
  /\ c.target_known \in [Reg -> BOOLEAN]
  /\ CacheCoherent(c, y)
  /\ RawIsExact(c, x, y)
  /\ Follows(c, x, y)

(* The source side always holds, so the target side is all that is left.   *)
LEMMA TwoSides ==
  ASSUME NEW c, NEW x, NEW y, NEW d, NEW x2, NEW y2,
         InTune(c, x, y), NEW reg \in Reg, NEW value \in Byte, OneWrite(c, x, y, reg, value, d, x2, y2), TargetSide(d, x2, y2)
  PROVE  InTune(d, x2, y2)
  <1>1. d \in Converter
    <2>1. c \in Converter
      BY DEF InTune
    <2>2. /\ d.source \in [Reg -> Byte]
          /\ d.target \in [Reg -> Byte]
          /\ d.target_known \in [Reg -> BOOLEAN]
      BY SourceSide DEF TargetSide
    <2>3. d = Converted(c, reg, value)
      BY DEF OneWrite
    <2>4. /\ d.source_clock \in Clocks
          /\ d.clipped_values \in Nat
          /\ d.pitch_conversion \in BOOLEAN
          /\ d.fm_high_latch \in Byte
          /\ d.fm_channel3_high_latch \in Byte
      <3>1. /\ c.source_clock \in Clocks
            /\ c.clipped_values \in Nat
            /\ c.pitch_conversion \in BOOLEAN
            /\ c.fm_high_latch \in Byte
            /\ c.fm_channel3_high_latch \in Byte
        BY <2>1 DEF Converter
      <3>2. /\ d.source_clock = c.source_clock
            /\ d.pitch_conversion = c.pitch_conversion
            /\ d.clipped_values \in
                 {c.clipped_values, c.clipped_values + 1}
            /\ d.fm_high_latch \in {value, c.fm_high_latch}
            /\ d.fm_channel3_high_latch \in {value, c.fm_channel3_high_latch}
        BY <2>1, <2>3, ConvertedFields
      <3> QED
        BY <3>1, <3>2
    <2>5. d = [ source |-> d.source, target |-> d.target,
              target_known |-> d.target_known,
              source_clock |-> d.source_clock,
              clipped_values |-> d.clipped_values,
              fm_high_latch |-> d.fm_high_latch,
              fm_channel3_high_latch |-> d.fm_channel3_high_latch,
              pitch_conversion |-> d.pitch_conversion ]
      BY <2>1, <2>3, ConvertedFields
    <2> QED
      BY <2>2, <2>4, <2>5 DEF Converter
  <1>2. x2 \in Chip /\ SourceRemembered(d, x2)
    BY SourceSide
  <1> QED
    BY <1>1, <1>2 DEF InTune, TargetSide
-----------------------------------------------------------------------------
(* The target side, case by case.                                          *)

(* The cache after converter_write is what noting the emission leaves.     *)
LEMMA CacheAfter ==
  ASSUME NEW c, NEW x, NEW y, NEW d, NEW x2, NEW y2,
         InTune(c, x, y), NEW reg \in Reg, NEW value \in Byte, OneWrite(c, x, y, reg, value, d, x2, y2)
  PROVE  /\ d.target = Noted(c, Emission(c, reg, value)).target
         /\ d.target_known
              = Noted(c, Emission(c, reg, value)).target_known
  <1>1. d = Converted(c, reg, value)
    BY DEF OneWrite
  <1>2. c \in Converter
    BY DEF InTune
  <1> QED
    BY <1>1, <1>2, ConvertedFields

(* A write passed on as it came leaves cache, chip and ideal chip agreeing.*)
LEMMA PassKeepsTarget ==
  ASSUME NEW c, NEW x, NEW y, NEW d, NEW x2, NEW y2,
         InTune(c, x, y), NEW reg \in Reg, NEW value \in Byte, OneWrite(c, x, y, reg, value, d, x2, y2),
         PassCase(c, reg)
  PROVE  TargetSide(d, x2, y2)
  <1>1. c \in Converter /\ x \in Chip /\ y \in Chip
    BY DEF InTune
  <1>2. Emission(c, reg, value) = << <<reg, value>> >>
    BY <1>1, PassedOn DEF PassCase
  <1>3. y2 = Heard(y, reg, value) /\ y2 \in Chip
    BY <1>1, <1>2, HearsOne, HeardIsChip DEF OneWrite
  <1>4. /\ d.target = [c.target EXCEPT ![reg] = value]
        /\ d.target_known = [c.target_known EXCEPT ![reg] = TRUE]
    <2>1. /\ d.target = Noted(c, << <<reg, value>> >>).target
          /\ d.target_known = Noted(c, << <<reg, value>> >>).target_known
      BY <1>2, CacheAfter
    <2> QED
      BY <1>1, <2>1, NotedOne
  <1>5. /\ c.target \in [Reg -> Byte] /\ c.target_known \in [Reg -> BOOLEAN]
        /\ y.regs \in [Reg -> Byte] /\ x.regs \in [Reg -> Byte]
    BY <1>1 DEF Converter, Chip
  <1>6. /\ d.target \in [Reg -> Byte]
        /\ d.target_known \in [Reg -> BOOLEAN]
    BY <1>4, <1>5
  <1>7. x2 = Heard(x, reg, value)
    BY SourceSide
  <1>8. /\ Adapts(d) <=> Adapts(c)
        /\ d.source_clock = c.source_clock
    BY SourceSide
  <1>9. /\ y2.regs = [y.regs EXCEPT ![reg] = value]
        /\ x2.regs = [x.regs EXCEPT ![reg] = value]
    BY <1>3, <1>7 DEF Heard
  <1>10. CacheCoherent(d, y2)
    BY <1>4, <1>5, <1>9 DEF InTune, CacheCoherent
  <1>11. RawIsExact(d, x2, y2)
    BY <1>3, <1>7, <1>8 DEF InTune, RawIsExact
  <1>12. CASE ~Adapts(c)
    <2>1. y2 = x2 /\ ~Adapts(d)
      BY <1>8, <1>11, <1>12 DEF RawIsExact
    <2>2. Follows(d, x2, y2)
      BY <2>1 DEF Follows, PsgFollows, FmFollows, OthersFollow, PairWanted,
                  NoiseWanted, FmRetuned
    <2> QED
      BY <1>3, <1>6, <1>10, <1>11, <2>2 DEF TargetSide
  <1>13. CASE Adapts(c)
    <2>1. reg \notin Pitched
      BY <1>13 DEF PassCase
    <2>2. /\ \A r \in Reg \cap PsgPeriod : LowOf(r) # reg /\ HighOf(r) # reg
          /\ \A r \in Reg \cap Noise : r # reg
          /\ \A l \in FmCommit : l # reg
      BY <2>1, PairsApart DEF Pitched
    <2>3. \A r \in Reg \cap PsgPeriod : LowOf(r) \in Reg /\ HighOf(r) \in Reg
      BY RegAssumption
    <2>4. PsgFollows(d, x2, y2)
      <3>1. ASSUME NEW r \in Reg \cap PsgPeriod
            PROVE  << y2.regs[LowOf(r)], y2.regs[HighOf(r)] >> = PairWanted(d, x2, r)
        <4>1. /\ y2.regs[LowOf(r)] = y.regs[LowOf(r)]
              /\ y2.regs[HighOf(r)] = y.regs[HighOf(r)]
              /\ x2.regs[LowOf(r)] = x.regs[LowOf(r)]
              /\ x2.regs[HighOf(r)] = x.regs[HighOf(r)]
          BY <1>5, <1>9, <2>2, <2>3
        <4>2. PairWanted(d, x2, r) = PairWanted(c, x, r)
          BY <1>8, <4>1 DEF PairWanted, ScaledPair, PairPeriod
        <4> QED
          BY <4>1, <4>2 DEF InTune, Follows, PsgFollows
      <3>2. ASSUME NEW r \in Reg \cap Noise
            PROVE  y2.regs[r] = NoiseWanted(d, x2, r)
        <4>1. /\ y2.regs[r] = y.regs[r]
              /\ x2.regs[r] = x.regs[r]
          BY <1>5, <1>9, <2>2
        <4> QED
          BY <1>8, <4>1 DEF InTune, Follows, PsgFollows, NoiseWanted
      <3> QED
        BY <3>1, <3>2 DEF PsgFollows
    <2>5. FmFollows(d, x2, y2)
      <3>1. \A l \in FmCommit : y2.fm[l] = y.fm[l] /\ x2.fm[l] = x.fm[l]
        BY <1>3, <1>7, <2>2 DEF Heard
      <3> QED
        BY <1>8, <3>1 DEF InTune, Follows, FmFollows, FmRetuned
    <2>6. OthersFollow(x2, y2)
      <3>1. \A r \in Reg \ Pitched : y2.regs[r] = x2.regs[r]
        BY <1>5, <1>9 DEF InTune, Follows, OthersFollow
      <3>2. y2.key = x2.key
        BY <1>3, <1>7 DEF Heard, InTune, Follows, OthersFollow
      <3> QED
        BY <3>1, <3>2 DEF OthersFollow
    <2> QED
      BY <1>3, <1>6, <1>10, <1>11, <2>4, <2>5, <2>6 DEF TargetSide, Follows
  <1> QED
    BY <1>12, <1>13

(* The bytes of a scaled pair depend on the two bytes of the source pair.  *)
LEMMA SamePair ==
  ASSUME NEW clock, NEW regs1, NEW regs2, NEW r \in PsgPeriod, NEW t \in PsgPeriod,
         LowOf(r) = LowOf(t),
         regs1[LowOf(r)] = regs2[LowOf(r)], regs1[HighOf(r)] = regs2[HighOf(r)]
  PROVE  ScaledPair(clock, regs1, r) = ScaledPair(clock, regs2, t)
  <1>1. HighOf(r) = HighOf(t) /\ PeriodMask(r) = PeriodMask(t)
    BY PairsApart
  <1>2. PairPeriod(regs1, r) = PairPeriod(regs2, t)
    BY <1>1 DEF PairPeriod
  <1> QED
    BY <1>1, <1>2 DEF ScaledPair

(* A write to one byte of a PSG period: both scaled bytes reach the chip,  *)
(* sent now or there already, and no other pair is touched.                *)
LEMMA PairKeepsTarget ==
  ASSUME NEW c, NEW x, NEW y, NEW d, NEW x2, NEW y2,
         InTune(c, x, y), NEW reg \in Reg, NEW value \in Byte, OneWrite(c, x, y, reg, value, d, x2, y2),
         PairCase(c, reg)
  PROVE  TargetSide(d, x2, y2)
  <1> DEFINE s    == Sourced(c, reg, value)
             pair == ScaledPair(c.source_clock, s.source, reg)
             low  == LowOf(reg)
             high == HighOf(reg)
             em   == EmitChanged(c, low, pair[1]) \o EmitChanged(c, high, pair[2])
  <1>1. c \in Converter /\ x \in Chip /\ y \in Chip /\ Adapts(c)
        /\ reg \in Reg \cap PsgPeriod
    BY DEF InTune, PairCase
  <1>2. /\ s \in Converter /\ s.target = c.target /\ s.target_known = c.target_known
        /\ s.source_clock = c.source_clock /\ c.source_clock \in Nat \ {0}
        /\ s.source = [c.source EXCEPT ![reg] = value]
    BY <1>1, SourcedIsConverter
  <1>3. s.source \in [Reg -> Byte]
    BY <1>2 DEF Converter
  <1>4. pair[1] \in Byte /\ pair[2] \in Byte
    BY <1>1, <1>2, <1>3, ScaledPairIsBytes
  <1>5. /\ low \in Reg /\ high \in Reg /\ low # high
        /\ low \in PsgPeriod /\ high \in PsgPeriod
    BY <1>1, RegAssumption, PairsApart
  <1>6. low \in PlainReg /\ high \in PlainReg
    BY <1>5 DEF PlainReg, PsgPeriod, PsgTone, EnvelopePeriod, FmHigh, Fm3High, FmCommit,
                FmLow, Fm3Low, KeyOnOff
  <1>7. Emission(c, reg, value) = em
    BY <1>2, EmissionOf DEF EmitPsgPair, EmitChanged
  <1> HIDE DEF pair, s
  <1>8. \A r \in Reg : c.target_known[r] => y.regs[r] = c.target[r]
    BY DEF InTune, CacheCoherent
  <1>a. em = PairEmission(c, low, pair[1], high, pair[2])
    BY DEF PairEmission
  <1> HIDE DEF em
  <1>9. /\ Hears(y, em) = WithRegs(y, WithPair(y.regs, low, pair[1], high, pair[2]))
        /\ Noted(c, em).target = WithPair(c.target, low, pair[1], high, pair[2])
        /\ Noted(c, em).target_known = PairKnown(c.target_known, low, high)
    <2>1. /\ c \in Converter /\ y \in Chip /\ Coherent(c, y)
          /\ low \in PlainReg /\ high \in PlainReg /\ low # high
      BY <1>1, <1>5, <1>6, <1>8 DEF Coherent
    <2> QED
      BY <1>4, <1>a, <2>1, PairSent
  <1>10. /\ d.target = [c.target EXCEPT ![low] = pair[1], ![high] = pair[2]]
         /\ d.target_known = [c.target_known EXCEPT ![low] = TRUE, ![high] = TRUE]
    BY <1>7, <1>9, CacheAfter DEF WithPair, PairKnown
  <1>11. y2 = [y EXCEPT !.regs = [y.regs EXCEPT ![low] = pair[1], ![high] = pair[2]]]
    BY <1>7, <1>9 DEF OneWrite, WithPair, WithRegs
  <1>12. /\ c.target \in [Reg -> Byte] /\ c.target_known \in [Reg -> BOOLEAN]
         /\ y.regs \in [Reg -> Byte] /\ x.regs \in [Reg -> Byte]
    BY <1>1 DEF Converter, Chip
  <1>13. /\ y2.regs = [y.regs EXCEPT ![low] = pair[1], ![high] = pair[2]]
         /\ y2.fm = y.fm /\ y2.key = y.key
    BY <1>1, <1>11 DEF Chip
  <1>14. y2 \in Chip
    BY <1>1, <1>4, <1>11, <1>12 DEF Chip
  <1>15. /\ d.target \in [Reg -> Byte]
         /\ d.target_known \in [Reg -> BOOLEAN]
    BY <1>4, <1>10, <1>12
  <1>16. CacheCoherent(d, y2)
    BY <1>5, <1>8, <1>10, <1>12, <1>13 DEF CacheCoherent
  <1>17. /\ x2 = Heard(x, reg, value)
         /\ Adapts(d) <=> Adapts(c)
         /\ d.source_clock = c.source_clock
         /\ SourceRemembered(d, x2)
    <2>1. x2 = Heard(x, reg, value)
      BY SourceSide
    <2>2. Adapts(d) <=> Adapts(c)
      BY SourceSide
    <2>3. d.source_clock = c.source_clock
      BY SourceSide
    <2>4. SourceRemembered(d, x2)
      BY SourceSide
    <2> QED
      BY <2>1, <2>2, <2>3, <2>4
  <1>18. RawIsExact(d, x2, y2)
    BY <1>1, <1>17 DEF RawIsExact
  <1>19. /\ x2.regs = [x.regs EXCEPT ![reg] = value]
         /\ x2.fm = x.fm
         /\ x2.key = x.key
    <2>1. reg \in PlainReg
      BY <1>1, <1>6, PairsApart
    <2>2. x2 = [x EXCEPT !.regs = [x.regs EXCEPT ![reg] = value]]
      BY <1>1, <1>17, <2>1, HeardPlain
    <2> QED
      BY <1>1, <2>2 DEF Chip
  <1>20. PsgFollows(d, x2, y2)
    <2>1. ASSUME NEW r \in Reg \cap PsgPeriod
          PROVE  << y2.regs[LowOf(r)], y2.regs[HighOf(r)] >>
                   = ScaledPair(c.source_clock, x2.regs, r)
      <3>1. LowOf(r) \in Reg /\ HighOf(r) \in Reg
        BY RegAssumption
      <3>2. CASE LowOf(r) = low
        <4>1. HighOf(r) = high
          BY <1>1, <3>2, PairsApart
        <4>2. s.source[low] = x2.regs[low] /\ s.source[high] = x2.regs[high]
          BY <1>2, <1>5, <1>12, <1>19 DEF InTune, SourceRemembered, Converter
        <4>3. pair = ScaledPair(c.source_clock, x2.regs, r)
          <5>1. reg \in PsgPeriod /\ r \in PsgPeriod /\ LowOf(reg) = LowOf(r)
            BY <1>1, <3>2
          <5>2. ScaledPair(c.source_clock, s.source, reg)
                  = ScaledPair(c.source_clock, x2.regs, r)
            <6> DEFINE regs1 == s.source
                       regs2 == x2.regs
                       clock == c.source_clock
            <6>1. regs1[LowOf(reg)] = regs2[LowOf(reg)] /\ regs1[HighOf(reg)] = regs2[HighOf(reg)]
              BY <4>2
            <6> HIDE DEF regs1, regs2, clock
            <6>2. ScaledPair(clock, regs1, reg) = ScaledPair(clock, regs2, r)
              BY <5>1, <6>1, SamePair
            <6> QED
              BY <6>2 DEF regs1, regs2, clock
          <5> QED
            BY <5>2 DEF pair
        <4>4. pair = << pair[1], pair[2] >>
          BY <4>3 DEF ScaledPair
        <4>5. y2.regs[low] = pair[1] /\ y2.regs[high] = pair[2]
          BY <1>5, <1>12, <1>13
        <4> QED
          BY <3>2, <4>1, <4>3, <4>4, <4>5
      <3>3. CASE LowOf(r) # low
        <4>1. LowOf(r) \notin {low, high} /\ HighOf(r) \notin {low, high}
              /\ reg \in {low, high}
          BY <1>1, <3>3, PairsApart
        <4>2. /\ y2.regs[LowOf(r)] = y.regs[LowOf(r)]
              /\ y2.regs[HighOf(r)] = y.regs[HighOf(r)]
              /\ x2.regs[LowOf(r)] = x.regs[LowOf(r)]
              /\ x2.regs[HighOf(r)] = x.regs[HighOf(r)]
          BY <1>12, <1>13, <1>19, <3>1, <4>1
        <4>3. ScaledPair(c.source_clock, x2.regs, r)
                = ScaledPair(c.source_clock, x.regs, r)
          BY <4>2, SamePair
        <4> QED
          BY <1>1, <4>2, <4>3 DEF InTune, Follows, PsgFollows, PairWanted
      <3> QED
        BY <3>2, <3>3
    <2>2. ASSUME NEW r \in Reg \cap Noise
          PROVE  y2.regs[r] = NoiseWanted(d, x2, r)
      <3>1. r \notin {low, high, reg}
        BY <1>1, <1>5 DEF Noise, PsgPeriod, PsgTone, EnvelopePeriod
      <3>2. y2.regs[r] = y.regs[r] /\ x2.regs[r] = x.regs[r]
        BY <1>12, <1>13, <1>19, <3>1
      <3> QED
        BY <1>17, <3>2 DEF InTune, Follows, PsgFollows, NoiseWanted
    <2> QED
      BY <1>1, <1>17, <2>1, <2>2 DEF PsgFollows, PairWanted
  <1>21. FmFollows(d, x2, y2)
    BY <1>13, <1>17, <1>19 DEF InTune, Follows, FmFollows, FmRetuned
  <1>22. OthersFollow(x2, y2)
    <2>1. low \in Pitched /\ high \in Pitched /\ reg \in Pitched
      BY <1>1, <1>5 DEF Pitched
    <2> QED
      BY <1>12, <1>13, <1>19, <2>1 DEF InTune, Follows, OthersFollow
  <1> QED
    BY <1>14, <1>15, <1>16, <1>18, <1>20, <1>21, <1>22 DEF TargetSide, Follows

(* A write to the noise period: the scaled byte is on the chip, sent now   *)
(* or there already.                                                       *)
LEMMA NoiseKeepsTarget ==
  ASSUME NEW c, NEW x, NEW y, NEW d, NEW x2, NEW y2,
         InTune(c, x, y), NEW reg \in Reg, NEW value \in Byte, OneWrite(c, x, y, reg, value, d, x2, y2),
         NoiseCase(c, reg)
  PROVE  TargetSide(d, x2, y2)
  <1> DEFINE s == Sourced(c, reg, value)
             v == ScaledNoise(c.source_clock, value)
             em == EmitChanged(c, reg, v)
  <1>1. c \in Converter /\ x \in Chip /\ y \in Chip /\ Adapts(c) /\ reg \in Noise
    BY DEF InTune, NoiseCase
  <1>2. /\ s.target = c.target /\ s.target_known = c.target_known
        /\ c.source_clock \in Nat \ {0}
    BY <1>1, SourcedIsConverter
  <1>3. v \in Byte
    BY <1>2, ScaledNoiseIsByte
  <1>4. reg \in PlainReg /\ reg \in Pitched
    BY <1>1 DEF Noise, PlainReg, Pitched, FmHigh, Fm3High, FmCommit, FmLow, Fm3Low, KeyOnOff
  <1>5. Emission(c, reg, value) = em
    BY <1>2, EmissionOf DEF EmitChanged
  <1> HIDE DEF v, s
  <1>6. /\ c.target \in [Reg -> Byte] /\ c.target_known \in [Reg -> BOOLEAN]
        /\ y.regs \in [Reg -> Byte] /\ x.regs \in [Reg -> Byte]
    BY <1>1 DEF Converter, Chip
  <1>7. /\ Hears(y, em) = WithRegs(y, [y.regs EXCEPT ![reg] = v])
        /\ Noted(c, em).target = [c.target EXCEPT ![reg] = v]
        /\ Noted(c, em).target_known = [c.target_known EXCEPT ![reg] = TRUE]
    <2>1. CASE c.target_known[reg] /\ c.target[reg] = v
      <3>1. em = <<>>
        BY <2>1 DEF EmitChanged
      <3>2. Hears(y, em) = y /\ Noted(c, em).target = c.target
            /\ Noted(c, em).target_known = c.target_known
        BY <1>1, <3>1, HearsNone, NotedNone
      <3>3. y.regs[reg] = v
        BY <2>1 DEF InTune, CacheCoherent
      <3>4. y.regs = [y.regs EXCEPT ![reg] = v]
        BY <1>6, <3>3
      <3>5. y = WithRegs(y, y.regs)
        BY <1>1 DEF Chip, WithRegs
      <3>6. c.target = [c.target EXCEPT ![reg] = v]
        BY <1>6, <2>1
      <3>7. c.target_known = [c.target_known EXCEPT ![reg] = TRUE]
        BY <1>6, <2>1
      <3> HIDE DEF em
      <3> QED
        BY <3>2, <3>4, <3>5, <3>6, <3>7
    <2>2. CASE ~(c.target_known[reg] /\ c.target[reg] = v)
      <3>1. em = << <<reg, v>> >>
        BY <2>2 DEF EmitChanged
      <3> HIDE DEF em
      <3>2. Hears(y, em) = Heard(y, reg, v)
        BY <1>1, <1>3, <3>1, HearsOne
      <3> QED
        BY <1>1, <1>3, <1>4, <3>1, <3>2, HeardPlain, NotedOne DEF WithRegs
    <2> QED
      BY <2>1, <2>2
  <1> HIDE DEF em
  <1>8. /\ d.target = [c.target EXCEPT ![reg] = v]
        /\ d.target_known = [c.target_known EXCEPT ![reg] = TRUE]
        /\ y2 = WithRegs(y, [y.regs EXCEPT ![reg] = v])
    <2>1. d.target = Noted(c, Emission(c, reg, value)).target
      BY CacheAfter
    <2>2. d.target_known = Noted(c, Emission(c, reg, value)).target_known
      BY CacheAfter
    <2> QED
      BY <1>5, <1>7, <2>1, <2>2 DEF OneWrite
  <1>9. /\ y2.regs = [y.regs EXCEPT ![reg] = v]
        /\ y2.fm = y.fm /\ y2.key = y.key
    BY <1>1, <1>8 DEF Chip, WithRegs
  <1>10. y2 \in Chip
    BY <1>1, <1>3, <1>6, <1>8 DEF Chip, WithRegs
  <1>11. /\ d.target \in [Reg -> Byte]
         /\ d.target_known \in [Reg -> BOOLEAN]
    BY <1>3, <1>6, <1>8
  <1>12. CacheCoherent(d, y2)
    BY <1>6, <1>8, <1>9 DEF InTune, CacheCoherent
  <1>13. /\ x2 = Heard(x, reg, value)
         /\ Adapts(d) <=> Adapts(c)
         /\ d.source_clock = c.source_clock
    <2>1. x2 = Heard(x, reg, value)
      BY SourceSide
    <2>2. Adapts(d) <=> Adapts(c)
      BY SourceSide
    <2>3. d.source_clock = c.source_clock
      BY SourceSide
    <2> QED
      BY <2>1, <2>2, <2>3
  <1>14. RawIsExact(d, x2, y2)
    BY <1>1, <1>13 DEF RawIsExact
  <1>15. /\ x2.regs = [x.regs EXCEPT ![reg] = value]
         /\ x2.fm = x.fm
         /\ x2.key = x.key
    <2>1. x2 = [x EXCEPT !.regs = [x.regs EXCEPT ![reg] = value]]
      BY <1>1, <1>4, <1>13, HeardPlain
    <2> QED
      BY <1>1, <2>1 DEF Chip
  <1>16. PsgFollows(d, x2, y2)
    <2>1. ASSUME NEW r \in Reg \cap PsgPeriod
          PROVE  << y2.regs[LowOf(r)], y2.regs[HighOf(r)] >>
                   = ScaledPair(c.source_clock, x2.regs, r)
      <3>1. /\ LowOf(r) \in Reg /\ HighOf(r) \in Reg
            /\ LowOf(r) \in PsgPeriod /\ HighOf(r) \in PsgPeriod
        BY RegAssumption, PairsApart
      <3>2. LowOf(r) # reg /\ HighOf(r) # reg
        BY <1>1, <3>1 DEF Noise, PsgPeriod, PsgTone, EnvelopePeriod
      <3>3. /\ y2.regs[LowOf(r)] = y.regs[LowOf(r)]
            /\ y2.regs[HighOf(r)] = y.regs[HighOf(r)]
            /\ x2.regs[LowOf(r)] = x.regs[LowOf(r)]
            /\ x2.regs[HighOf(r)] = x.regs[HighOf(r)]
        BY <1>6, <1>9, <1>15, <3>1, <3>2
      <3>4. ScaledPair(c.source_clock, x2.regs, r)
              = ScaledPair(c.source_clock, x.regs, r)
        BY <3>3, SamePair
      <3> QED
        BY <1>1, <3>3, <3>4 DEF InTune, Follows, PsgFollows, PairWanted
    <2>2. ASSUME NEW r \in Reg \cap Noise
          PROVE  y2.regs[r] = NoiseWanted(d, x2, r)
      <3>1. r = reg
        BY <1>1 DEF Noise
      <3>2. y2.regs[r] = v /\ x2.regs[r] = value
        BY <1>6, <1>9, <1>15, <3>1
      <3> QED
        BY <1>1, <1>13, <3>2 DEF NoiseWanted, v
    <2> QED
      BY <1>1, <1>13, <2>1, <2>2 DEF PsgFollows, PairWanted
  <1>17. FmFollows(d, x2, y2)
    BY <1>9, <1>13, <1>15 DEF InTune, Follows, FmFollows, FmRetuned
  <1>18. OthersFollow(x2, y2)
    BY <1>4, <1>6, <1>9, <1>15 DEF InTune, Follows, OthersFollow
  <1> QED
    BY <1>10, <1>11, <1>12, <1>14, <1>16, <1>17, <1>18 DEF TargetSide, Follows

(* A high FM byte goes to the converter's latch and nowhere else; on the   *)
(* source chip too it is not heard before a low byte commits it.           *)
LEMMA LatchKeepsTarget ==
  ASSUME NEW c, NEW x, NEW y, NEW d, NEW x2, NEW y2,
         InTune(c, x, y), NEW reg \in Reg, NEW value \in Byte, OneWrite(c, x, y, reg, value, d, x2, y2),
         LatchCase(c, reg)
  PROVE  TargetSide(d, x2, y2)
  <1>1. c \in Converter /\ x \in Chip /\ y \in Chip /\ Adapts(c)
        /\ reg \in FmHigh \cup Fm3High
    BY DEF InTune, LatchCase
  <1>2. Emission(c, reg, value) = <<>>
    BY EmissionOf
  <1>3. y2 = y /\ d.target = c.target /\ d.target_known = c.target_known
    <2>1. d.target = Noted(c, Emission(c, reg, value)).target
      BY CacheAfter
    <2>2. d.target_known = Noted(c, Emission(c, reg, value)).target_known
      BY CacheAfter
    <2> QED
      BY <1>1, <1>2, <2>1, <2>2, HearsNone, NotedNone DEF OneWrite
  <1>4. /\ c.target \in [Reg -> Byte] /\ c.target_known \in [Reg -> BOOLEAN]
        /\ x.regs \in [Reg -> Byte]
    BY <1>1 DEF Converter, Chip
  <1>5. /\ x2 = Heard(x, reg, value)
        /\ Adapts(d) <=> Adapts(c)
        /\ d.source_clock = c.source_clock
    <2>1. x2 = Heard(x, reg, value)
      BY SourceSide
    <2>2. Adapts(d) <=> Adapts(c)
      BY SourceSide
    <2>3. d.source_clock = c.source_clock
      BY SourceSide
    <2> QED
      BY <2>1, <2>2, <2>3
  <1>6. /\ reg \notin PsgPeriod /\ reg \notin Noise /\ reg \notin FmCommit
        /\ reg \in Pitched /\ reg # KeyOnOff
    BY <1>1 DEF PsgPeriod, PsgTone, EnvelopePeriod, Noise, FmHigh, Fm3High, FmCommit, FmLow,
                Fm3Low, Pitched, KeyOnOff
  <1>7. /\ x2.regs = [x.regs EXCEPT ![reg] = value]
        /\ \A l \in FmCommit : x2.fm[l] = x.fm[l]
        /\ \A k \in Channel : x2.key[k] = x.key[k]
    BY <1>5, <1>6 DEF Heard
  <1>8. x2.key = x.key
    BY <1>1, <1>5, <1>7 DEF Chip, Heard
  <1>9. CacheCoherent(d, y2) /\ RawIsExact(d, x2, y2)
    BY <1>1, <1>3, <1>5 DEF InTune, CacheCoherent, RawIsExact
  <1>10. PsgFollows(d, x2, y2)
    <2>1. ASSUME NEW r \in Reg \cap PsgPeriod
          PROVE  << y2.regs[LowOf(r)], y2.regs[HighOf(r)] >>
                   = ScaledPair(c.source_clock, x2.regs, r)
      <3>1. /\ LowOf(r) \in Reg /\ HighOf(r) \in Reg
            /\ LowOf(r) \in PsgPeriod /\ HighOf(r) \in PsgPeriod
        BY RegAssumption, PairsApart
      <3>2. /\ x2.regs[LowOf(r)] = x.regs[LowOf(r)]
            /\ x2.regs[HighOf(r)] = x.regs[HighOf(r)]
        BY <1>4, <1>6, <1>7, <3>1
      <3>3. ScaledPair(c.source_clock, x2.regs, r)
              = ScaledPair(c.source_clock, x.regs, r)
        BY <3>2, SamePair
      <3> QED
        BY <1>1, <1>3, <3>3 DEF InTune, Follows, PsgFollows, PairWanted
    <2>2. ASSUME NEW r \in Reg \cap Noise
          PROVE  y2.regs[r] = NoiseWanted(d, x2, r)
      <3>1. x2.regs[r] = x.regs[r]
        BY <1>4, <1>6, <1>7
      <3> QED
        BY <1>3, <1>5, <3>1 DEF InTune, Follows, PsgFollows, NoiseWanted
    <2> QED
      BY <1>1, <1>5, <2>1, <2>2 DEF PsgFollows, PairWanted
  <1>11. FmFollows(d, x2, y2)
    BY <1>3, <1>5, <1>7 DEF InTune, Follows, FmFollows, FmRetuned
  <1>12. OthersFollow(x2, y2)
    BY <1>3, <1>4, <1>6, <1>7, <1>8 DEF InTune, Follows, OthersFollow
  <1> QED
    BY <1>1, <1>3, <1>4, <1>9, <1>10, <1>11, <1>12 DEF TargetSide, Follows

(* The two chips after the pair that commits a frequency: only the latch   *)
(* of reg's group, reg's channel and the two FM registers change.          *)
LEMMA PairHeard ==
  ASSUME NEW h \in Chip, NEW reg \in Reg \cap FmCommit, NEW hi \in Byte, NEW lo \in Byte
  PROVE  LET g == Heard(Heard(h, reg + 4, hi), reg, lo)
         IN  /\ g \in Chip
             /\ \A r \in Reg : r \notin {reg, reg + 4} => g.regs[r] = h.regs[r]
             /\ g.regs[reg + 4] = hi
             /\ g.regs[reg] = lo
             /\ \A l \in FmCommit : g.fm[l] = IF l = reg THEN <<hi, lo>> ELSE h.fm[l]
             /\ g.key = h.key
  <1> DEFINE k == Heard(h, reg + 4, hi)
             g == Heard(k, reg, lo)
  <1>1. /\ reg \in Reg /\ reg + 4 \in Reg /\ reg # reg + 4
        /\ reg # KeyOnOff /\ reg + 4 # KeyOnOff
        /\ \A l \in FmCommit : l # reg + 4
        /\ reg \in FmLow => reg + 4 \in FmHigh
        /\ reg \notin FmLow => reg + 4 \in Fm3High
    BY RegAssumption DEF FmCommit, FmLow, Fm3Low, FmHigh, Fm3High, KeyOnOff
  <1>2. k \in Chip
    BY <1>1, HeardIsChip
  <1>3. /\ k.regs = [h.regs EXCEPT ![reg + 4] = hi]
        /\ reg \in FmLow => k.high = hi
        /\ reg \notin FmLow => k.high3 = hi
        /\ k.fm = [l \in FmCommit |-> h.fm[l]]
        /\ k.key = [c \in Channel |-> h.key[c]]
    BY <1>1 DEF Heard
  <1> HIDE DEF k
  <1>4. g \in Chip
    BY <1>1, <1>2, HeardIsChip
  <1>5. /\ g.regs = [k.regs EXCEPT ![reg] = lo]
        /\ g.fm = [l \in FmCommit |->
                     IF l = reg THEN << IF l \in FmLow THEN k.high ELSE k.high3, lo >>
                     ELSE k.fm[l]]
        /\ g.key = [c \in Channel |-> k.key[c]]
    BY <1>1 DEF Heard
  <1> HIDE DEF g
  <1>6. h.regs \in [Reg -> Byte] /\ h.key = [c \in Channel |-> h.key[c]]
    BY DEF Chip
  <1>7. /\ \A r \in Reg : r \notin {reg, reg + 4} => g.regs[r] = h.regs[r]
        /\ g.regs[reg + 4] = hi
        /\ g.regs[reg] = lo
    BY <1>1, <1>3, <1>5, <1>6
  <1>8. \A l \in FmCommit : g.fm[l] = IF l = reg THEN <<hi, lo>> ELSE h.fm[l]
    BY <1>3, <1>5
  <1>9. g.key = h.key
    BY <1>3, <1>5, <1>6
  <1> QED
    BY <1>4, <1>7, <1>8, <1>9 DEF g, k

(* A low FM byte is sent with the retuned high byte before it.  The pair   *)
(* retuned is the one the ideal chip commits, because the converter kept   *)
(* the latch of the register's group.                                      *)
LEMMA CommitKeepsTarget ==
  ASSUME NEW c, NEW x, NEW y, NEW d, NEW x2, NEW y2,
         InTune(c, x, y), NEW reg \in Reg, NEW value \in Byte, OneWrite(c, x, y, reg, value, d, x2, y2),
         CommitCase(c, reg)
  PROVE  TargetSide(d, x2, y2)
  <1> DEFINE latch == LatchFor(c, reg)
             pair  == FmPair(c.source_clock, value, latch)
             ws    == << <<reg + 4, pair[1]>>, <<reg, pair[2]>> >>
  <1>1. c \in Converter /\ x \in Chip /\ y \in Chip /\ Adapts(c)
        /\ reg \in Reg \cap FmCommit
    BY DEF InTune, CommitCase
  <1>2. c.source_clock \in Nat \ {0} /\ latch \in Byte
    BY <1>1, ClockAssumption DEF Converter, Clocks, LatchFor
  <1>3. pair[1] \in Byte /\ pair[2] \in Byte /\ pair = <<pair[1], pair[2]>>
    BY <1>2, FmPairIsBytes
  <1>4. Sourced(c, reg, value).source_clock = c.source_clock
    BY <1>1, SourcedIsConverter
  <1>5. Emission(c, reg, value) = ws
    BY <1>4, EmissionOf DEF EmitFmPair
  <1>6. latch = IF reg \in FmLow THEN x.high ELSE x.high3
    BY <1>1 DEF InTune, SourceRemembered, LatchFor
  <1> HIDE DEF latch
  <1>7. reg + 4 \in Reg /\ reg + 4 # reg
    BY <1>1, RegAssumption DEF FmCommit, FmLow, Fm3Low
  <1>8. /\ y2 = Heard(Heard(y, reg + 4, pair[1]), reg, pair[2])
        /\ d.target = [c.target EXCEPT ![reg + 4] = pair[1], ![reg] = pair[2]]
        /\ d.target_known
             = [c.target_known EXCEPT ![reg + 4] = TRUE, ![reg] = TRUE]
    <2> HIDE DEF pair
    <2>1. y2 = Hears(y, ws)
      BY <1>5 DEF OneWrite
    <2>2. /\ d.target = Noted(c, ws).target
          /\ d.target_known = Noted(c, ws).target_known
      BY <1>5, CacheAfter
    <2> QED
      BY <1>1, <1>3, <1>7, <2>1, <2>2, HearsTwo, NotedTwo
  <1>9. /\ c.target \in [Reg -> Byte] /\ c.target_known \in [Reg -> BOOLEAN]
        /\ y.regs \in [Reg -> Byte] /\ x.regs \in [Reg -> Byte]
    BY <1>1 DEF Converter, Chip
  <1>10. /\ y2 \in Chip
         /\ \A r \in Reg : r \notin {reg, reg + 4} => y2.regs[r] = y.regs[r]
         /\ y2.regs[reg + 4] = pair[1]
         /\ y2.regs[reg] = pair[2]
         /\ \A l \in FmCommit : y2.fm[l] = IF l = reg THEN pair ELSE y.fm[l]
         /\ y2.key = y.key
    <2> HIDE DEF pair
    <2> QED
      BY <1>1, <1>3, <1>8, PairHeard
  <1> HIDE DEF pair
  <1>11. /\ d.target \in [Reg -> Byte]
         /\ d.target_known \in [Reg -> BOOLEAN]
    BY <1>3, <1>8, <1>9
  <1>12. CacheCoherent(d, y2)
    BY <1>1, <1>7, <1>8, <1>9, <1>10 DEF InTune, CacheCoherent
  <1>13. /\ x2 = Heard(x, reg, value)
         /\ Adapts(d) <=> Adapts(c)
         /\ d.source_clock = c.source_clock
    <2>1. x2 = Heard(x, reg, value)
      BY SourceSide
    <2>2. Adapts(d) <=> Adapts(c)
      BY SourceSide
    <2>3. d.source_clock = c.source_clock
      BY SourceSide
    <2> QED
      BY <2>1, <2>2, <2>3
  <1>14. RawIsExact(d, x2, y2)
    BY <1>1, <1>13 DEF RawIsExact
  <1>15. /\ x2.regs = [x.regs EXCEPT ![reg] = value]
         /\ \A l \in FmCommit : x2.fm[l] = IF l = reg THEN <<latch, value>> ELSE x.fm[l]
    BY <1>6, <1>13 DEF Heard
  <1>16. x2.key = x.key
    <2>1. reg # KeyOnOff
      BY <1>1 DEF FmCommit, FmLow, Fm3Low, KeyOnOff
    <2>2. x2.key = [k \in Channel |-> x.key[k]]
      BY <1>13, <2>1 DEF Heard
    <2> QED
      BY <1>1, <2>2 DEF Chip
  <1>17. /\ \A r \in PsgPeriod \cup Noise : r # reg /\ r # reg + 4
         /\ reg \in Pitched /\ reg + 4 \in Pitched
    BY <1>1 DEF FmCommit, FmLow, Fm3Low, PsgPeriod, PsgTone, EnvelopePeriod, Noise, Pitched,
                FmHigh, Fm3High
  <1>18. PsgFollows(d, x2, y2)
    <2>1. ASSUME NEW r \in Reg \cap PsgPeriod
          PROVE  << y2.regs[LowOf(r)], y2.regs[HighOf(r)] >>
                   = ScaledPair(c.source_clock, x2.regs, r)
      <3>1. /\ LowOf(r) \in Reg /\ HighOf(r) \in Reg
            /\ LowOf(r) \in PsgPeriod /\ HighOf(r) \in PsgPeriod
        BY RegAssumption, PairsApart
      <3>2. /\ y2.regs[LowOf(r)] = y.regs[LowOf(r)]
            /\ y2.regs[HighOf(r)] = y.regs[HighOf(r)]
            /\ x2.regs[LowOf(r)] = x.regs[LowOf(r)]
            /\ x2.regs[HighOf(r)] = x.regs[HighOf(r)]
        BY <1>9, <1>10, <1>15, <1>17, <3>1
      <3>3. ScaledPair(c.source_clock, x2.regs, r)
              = ScaledPair(c.source_clock, x.regs, r)
        BY <3>2, SamePair
      <3> QED
        BY <1>1, <3>2, <3>3 DEF InTune, Follows, PsgFollows, PairWanted
    <2>2. ASSUME NEW r \in Reg \cap Noise
          PROVE  y2.regs[r] = NoiseWanted(d, x2, r)
      <3>1. x2.regs[r] = x.regs[r] /\ y2.regs[r] = y.regs[r]
        BY <1>9, <1>10, <1>15, <1>17
      <3> QED
        BY <1>13, <3>1 DEF InTune, Follows, PsgFollows, NoiseWanted
    <2> QED
      BY <1>1, <1>13, <2>1, <2>2 DEF PsgFollows, PairWanted
  <1>19. FmFollows(d, x2, y2)
    <2>1. ASSUME NEW l \in Reg \cap FmCommit
          PROVE  y2.fm[l] = FmRetuned(d, x2.fm[l])
      <3>1. CASE l = reg
        <4>1. y2.fm[l] = pair /\ x2.fm[l] = <<latch, value>>
          BY <1>10, <1>15, <3>1
        <4>2. <<latch, value>> # Untuned
          BY DEF Untuned
        <4> QED
          BY <1>1, <1>13, <4>1, <4>2 DEF FmRetuned, pair
      <3>2. CASE l # reg
        <4>1. y2.fm[l] = y.fm[l] /\ x2.fm[l] = x.fm[l]
          BY <1>10, <1>15, <3>2
        <4> QED
          BY <1>13, <4>1 DEF InTune, Follows, FmFollows, FmRetuned
      <3> QED
        BY <3>1, <3>2
    <2> QED
      BY <2>1 DEF FmFollows
  <1>20. OthersFollow(x2, y2)
    <2>1. ASSUME NEW r \in Reg \ Pitched
          PROVE  y2.regs[r] = x2.regs[r]
      <3>1. r # reg /\ r # reg + 4
        BY <1>17
      <3> QED
        BY <1>9, <1>10, <1>15, <3>1 DEF InTune, Follows, OthersFollow
    <2> QED
      BY <1>10, <1>16, <2>1 DEF InTune, Follows, OthersFollow
  <1> QED
    BY <1>10, <1>11, <1>12, <1>14, <1>18, <1>19, <1>20 DEF TargetSide, Follows
-----------------------------------------------------------------------------
(* How two chips come to be in tune, and what leaves them so.              *)

(* Chips with no period and no frequency set: a period of zero scales to   *)
(* zero, so they agree before the first write.                             *)
LEMMA SilentInTune ==
  ASSUME NEW clock \in Clocks, NEW p \in BOOLEAN, NEW h \in Chip,
         \A r \in Reg \cap (PsgPeriod \cup Noise) : h.regs[r] = 0,
         h.high = 0, h.high3 = 0, \A l \in FmCommit : h.fm[l] = Untuned
  PROVE  InTune(NewConverter(clock, p), h, h)
  <1> DEFINE c == NewConverter(clock, p)
  <1>1. c \in Converter
    BY DEF NewConverter, Converter, Byte
  <1>2. /\ \A r \in Reg : c.target_known[r] = FALSE /\ c.source[r] = 0
        /\ c.fm_high_latch = 0 /\ c.fm_channel3_high_latch = 0
    BY DEF NewConverter
  <1> HIDE DEF c
  <1>3. CacheCoherent(c, h) /\ RawIsExact(c, h, h) /\ SourceRemembered(c, h)
    BY <1>2 DEF CacheCoherent, RawIsExact, SourceRemembered
  <1>4. PsgFollows(c, h, h)
    <2>1. ASSUME NEW r \in Reg \cap PsgPeriod
          PROVE  << h.regs[LowOf(r)], h.regs[HighOf(r)] >> = PairWanted(c, h, r)
      <3>1. h.regs[LowOf(r)] = 0 /\ h.regs[HighOf(r)] = 0
        BY RegAssumption, PairsApart
      <3>2. PeriodMask(r) \in {4095, 65535}
        BY DEF PeriodMask
      <3>3. PairPeriod(h.regs, r) = 0
        BY <3>1, <3>2 DEF PairPeriod
      <3>4. ScaledPair(c.source_clock, h.regs, r) = <<0, 0>>
        BY <3>3 DEF ScaledPair, ScalePeriod
      <3> QED
        BY <3>1, <3>4 DEF PairWanted
    <2>2. ASSUME NEW r \in Reg \cap Noise
          PROVE  h.regs[r] = NoiseWanted(c, h, r)
      <3>1. h.regs[r] = 0
        OBVIOUS
      <3>2. ScaledNoise(c.source_clock, 0) = 0
        BY DEF ScaledNoise, ScalePeriod
      <3> QED
        BY <3>1, <3>2 DEF NoiseWanted
    <2> QED
      BY <2>1, <2>2 DEF PsgFollows
  <1>5. FmFollows(c, h, h) /\ OthersFollow(h, h)
    BY DEF FmFollows, FmRetuned, OthersFollow
  <1>6. InTune(c, h, h)
    BY <1>1, <1>3, <1>4, <1>5 DEF InTune, Follows
  <1> QED
    BY <1>6 DEF c

(* converter_write, whatever the register.                                 *)
LEMMA WriteStaysInTune ==
  ASSUME NEW c, NEW x, NEW y, InTune(c, x, y), NEW reg \in Reg, NEW value \in Byte
  PROVE  InTune(Converted(c, reg, value), Hears(x, << <<reg, value>> >>),
                Hears(y, Emission(c, reg, value)))
  <1>1. PICK d, x2, y2 : /\ d = Converted(c, reg, value)
                         /\ x2 = Hears(x, << <<reg, value>> >>)
                         /\ y2 = Hears(y, Emission(c, reg, value))
    OBVIOUS
  <1>2. OneWrite(c, x, y, reg, value, d, x2, y2)
    BY <1>1 DEF OneWrite
  <1>3. TargetSide(d, x2, y2)
    BY <1>2, Cases, PassKeepsTarget, PairKeepsTarget, NoiseKeepsTarget, LatchKeepsTarget,
       CommitKeepsTarget
  <1>4. InTune(d, x2, y2)
    BY <1>2, <1>3, TwoSides
  <1> QED
    BY <1>1, <1>4

(* Another struct that remembers the same of the source and relies on      *)
(* nothing of the chip: the cache forgotten, or another pass begun.        *)
LEMMA ForgottenStaysInTune ==
  ASSUME NEW c, NEW x, NEW y, InTune(c, x, y), NEW d \in Converter,
         d.source_clock = c.source_clock, d.pitch_conversion = c.pitch_conversion,
         \A r \in Reg \cap (PsgPeriod \cup Noise) : d.source[r] = c.source[r],
         Adapts(c) => /\ d.fm_high_latch = c.fm_high_latch
                      /\ d.fm_channel3_high_latch = c.fm_channel3_high_latch,
         \A r \in Reg : ~d.target_known[r]
  PROVE  InTune(d, x, y)
  <1>1. Adapts(d) <=> Adapts(c)
    BY DEF Adapts
  <1>2. CacheCoherent(d, y)
    BY DEF CacheCoherent
  <1>3. SourceRemembered(d, x) /\ RawIsExact(d, x, y)
    BY <1>1 DEF InTune, SourceRemembered, RawIsExact
  <1>4. Follows(d, x, y)
    BY <1>1 DEF InTune, Follows, PsgFollows, FmFollows, OthersFollow, PairWanted, NoiseWanted,
                FmRetuned
  <1> QED
    BY <1>2, <1>3, <1>4 DEF InTune

(* Whether a chip follows depends on the clock and the mode of the struct. *)
LEMMA FollowsByClock ==
  ASSUME NEW c, NEW d, d.source_clock = c.source_clock,
         d.pitch_conversion = c.pitch_conversion, NEW x, NEW y, Follows(c, x, y)
  PROVE  Follows(d, x, y)
  <1>1. Adapts(d) <=> Adapts(c)
    BY DEF Adapts
  <1> QED
    BY <1>1 DEF Follows, PsgFollows, FmFollows, PairWanted, NoiseWanted, FmRetuned

(* Writes no pitch depends on, made to both chips, are heard alike.        *)
LEMMA UnpitchedHeardAlike ==
  ASSUME NEW c, NEW x \in Chip, NEW y \in Chip, Follows(c, x, y), NEW ws,
         \A k \in DOMAIN ws : ws[k][1] \notin Pitched
  PROVE  Follows(c, Hears(x, ws), Hears(y, ws))
  <1> DEFINE x2 == Hears(x, ws)
             y2 == Hears(y, ws)
  <1>1. \A r \in Pitched : WritesTo(ws, {r}) = {}
    BY DEF WritesTo
  <1>2. /\ \A r \in Reg : /\ x2.regs[r] = LastValue(ws, WritesTo(ws, {r}), x.regs[r])
                          /\ y2.regs[r] = LastValue(ws, WritesTo(ws, {r}), y.regs[r])
        /\ \A l \in FmCommit : x2.fm[l] = Tuned(x, ws, l) /\ y2.fm[l] = Tuned(y, ws, l)
        /\ x2.key = [k \in Channel |-> LastValue(ws, KeyWrites(ws, k), x.key[k] * 16) \div 16]
        /\ y2.key = [k \in Channel |-> LastValue(ws, KeyWrites(ws, k), y.key[k] * 16) \div 16]
    BY DEF Hears
  <1> HIDE DEF x2, y2
  <1>3. \A r \in Reg \cap Pitched : x2.regs[r] = x.regs[r] /\ y2.regs[r] = y.regs[r]
    BY <1>1, <1>2 DEF LastValue
  <1>4. \A l \in FmCommit : x2.fm[l] = x.fm[l] /\ y2.fm[l] = y.fm[l]
    <2>1. \A l \in FmCommit : l \in Pitched
      BY DEF Pitched
    <2> QED
      BY <1>1, <1>2, <2>1 DEF Tuned
  <1>5. PsgFollows(c, x2, y2)
    <2>1. ASSUME NEW r \in Reg \cap PsgPeriod
          PROVE  << y2.regs[LowOf(r)], y2.regs[HighOf(r)] >> = PairWanted(c, x2, r)
      <3>1. /\ LowOf(r) \in Reg \cap Pitched /\ HighOf(r) \in Reg \cap Pitched
        BY RegAssumption, PairsApart DEF Pitched
      <3>2. /\ y2.regs[LowOf(r)] = y.regs[LowOf(r)] /\ y2.regs[HighOf(r)] = y.regs[HighOf(r)]
            /\ x2.regs[LowOf(r)] = x.regs[LowOf(r)] /\ x2.regs[HighOf(r)] = x.regs[HighOf(r)]
        BY <1>3, <3>1
      <3>3. PairWanted(c, x2, r) = PairWanted(c, x, r)
        BY <3>2 DEF PairWanted, ScaledPair, PairPeriod
      <3> QED
        BY <3>2, <3>3 DEF Follows, PsgFollows
    <2>2. ASSUME NEW r \in Reg \cap Noise
          PROVE  y2.regs[r] = NoiseWanted(c, x2, r)
      <3>1. r \in Pitched
        BY DEF Pitched
      <3> QED
        BY <1>3, <3>1 DEF Follows, PsgFollows, NoiseWanted
    <2> QED
      BY <2>1, <2>2 DEF PsgFollows
  <1>6. FmFollows(c, x2, y2)
    BY <1>4 DEF Follows, FmFollows, FmRetuned
  <1>7. OthersFollow(x2, y2)
    <2>1. y.key = x.key
      BY DEF Follows, OthersFollow
    <2>2. \A r \in Reg \ Pitched : y2.regs[r] = x2.regs[r]
      <3> SUFFICES ASSUME NEW r \in Reg, r \notin Pitched
                   PROVE  y2.regs[r] = x2.regs[r]
        OBVIOUS
      <3>1. y.regs[r] = x.regs[r]
        BY DEF Follows, OthersFollow
      <3>2. /\ x2.regs[r] = LastValue(ws, WritesTo(ws, {r}), x.regs[r])
            /\ y2.regs[r] = LastValue(ws, WritesTo(ws, {r}), y.regs[r])
        BY <1>2
      <3> QED
        BY <3>1, <3>2
    <2>3. y2.key = x2.key
      BY <1>2, <2>1, Zenon
    <2> QED
      BY <2>2, <2>3 DEF OthersFollow
  <1> QED
    BY <1>5, <1>6, <1>7 DEF Follows, x2, y2
-----------------------------------------------------------------------------
(* Both bytes of a period, sent in full, make the two registers hold them. *)
LEMMA FullPair ==
  ASSUME NEW h \in Chip,
         NEW r1 \in PlainReg, NEW v1 \in Byte, NEW r2 \in PlainReg, NEW v2 \in Byte
  PROVE  Hears(h, << <<r1, v1>>, <<r2, v2>> >>) = WithRegs(h, WithPair(h.regs, r1, v1, r2, v2))
  <1> DEFINE g == Heard(h, r1, v1)
  <1>1. r1 \in Reg /\ r2 \in Reg
    BY DEF PlainReg
  <1>2. Hears(h, << <<r1, v1>>, <<r2, v2>> >>) = Heard(g, r2, v2)
    BY <1>1, HearsTwo
  <1>3. g = [h EXCEPT !.regs = [h.regs EXCEPT ![r1] = v1]]
    BY HeardPlain
  <1>a. g \in Chip
    BY <1>1, HeardIsChip
  <1> HIDE DEF g
  <1>4. Heard(g, r2, v2) = [g EXCEPT !.regs = [g.regs EXCEPT ![r2] = v2]]
    BY <1>a, HeardPlain
  <1>5. g.regs = [h.regs EXCEPT ![r1] = v1]
    BY <1>3 DEF Chip
  <1>6. [g EXCEPT !.regs = WithPair(h.regs, r1, v1, r2, v2)]
          = [h EXCEPT !.regs = WithPair(h.regs, r1, v1, r2, v2)]
    BY <1>3 DEF Chip
  <1> QED
    BY <1>2, <1>4, <1>5, <1>6 DEF WithPair, WithRegs

(* The registers of the PSG periods are plain.                             *)
LEMMA PeriodsArePlain ==
  ASSUME NEW reg \in Reg \cap PsgPeriod
  PROVE  /\ LowOf(reg) \in PlainReg /\ HighOf(reg) \in PlainReg
         /\ LowOf(reg) # HighOf(reg)
  <1>1. /\ LowOf(reg) \in Reg /\ HighOf(reg) \in Reg /\ LowOf(reg) # HighOf(reg)
        /\ LowOf(reg) \in PsgPeriod /\ HighOf(reg) \in PsgPeriod
    BY RegAssumption, PairsApart
  <1> QED
    BY <1>1 DEF PlainReg, PsgPeriod, PsgTone, EnvelopePeriod, FmHigh, Fm3High, FmCommit,
                FmLow, Fm3Low, KeyOnOff

(* From a coherent cache, what converter_emit_changed sends of a pair does *)
(* what the pair in full would do.                                         *)
LEMMA ShortenedPair ==
  ASSUME NEW c, NEW x, NEW y, NEW d, NEW x2, NEW y2,
         InTune(c, x, y), NEW reg \in Reg \cap PsgPeriod, NEW value \in Byte,
         Adapts(c), OneWrite(c, x, y, reg, value, d, x2, y2)
  PROVE  LET pair == ScaledPair(c.source_clock, d.source, reg)
         IN  /\ pair \in Byte \X Byte
             /\ y2 = Hears(y, << <<LowOf(reg), pair[1]>>, <<HighOf(reg), pair[2]>> >>)
  <1> DEFINE s    == Sourced(c, reg, value)
             low  == LowOf(reg)
             high == HighOf(reg)
             pair == ScaledPair(c.source_clock, s.source, reg)
             em   == PairEmission(c, low, pair[1], high, pair[2])
  <1>1. c \in Converter /\ y \in Chip /\ Coherent(c, y) /\ PairCase(c, reg)
    BY DEF InTune, CacheCoherent, Coherent, PairCase
  <1>2. /\ s \in Converter /\ s.target = c.target /\ s.target_known = c.target_known
        /\ s.source_clock = c.source_clock /\ c.source_clock \in Nat \ {0}
        /\ s.source = [c.source EXCEPT ![reg] = value]
    BY <1>1, SourcedIsConverter
  <1>3. s.source \in [Reg -> Byte]
    BY <1>2 DEF Converter
  <1>4. pair \in Byte \X Byte
    BY <1>2, <1>3, ScaledPairIsBytes
  <1>5. Emission(c, reg, value) = em
    BY <1>1, <1>2, EmissionOf DEF EmitPsgPair, EmitChanged, PairEmission
  <1>6. d.source = s.source
    BY <1>1, <1>2, ConvertedFields DEF OneWrite
  <1> HIDE DEF pair, em, s
  <1>7. Hears(y, em) = WithRegs(y, WithPair(y.regs, low, pair[1], high, pair[2]))
    BY <1>1, <1>4, PeriodsArePlain, PairSent DEF em
  <1>8. Hears(y, << <<low, pair[1]>>, <<high, pair[2]>> >>)
          = WithRegs(y, WithPair(y.regs, low, pair[1], high, pair[2]))
    BY <1>1, <1>4, PeriodsArePlain, FullPair
  <1>9. y2 = Hears(y, em)
    BY <1>5 DEF OneWrite
  <1> QED
    BY <1>4, <1>6, <1>7, <1>8, <1>9 DEF pair

=============================================================================
