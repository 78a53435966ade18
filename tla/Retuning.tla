------------------------------ MODULE Retuning ------------------------------
(***************************************************************************)
(* What the clock converter is for, said of a struct c and two chips: x,   *)
(* at the source clock, has heard the song as it was logged, and y, at the *)
(* target clock, what converter_write made of it.                          *)
(***************************************************************************)
EXTENDS ClockConverter

(* A register the cache calls known holds on the chip what the cache says. *)
(* converter_emit_changed drops a write on the strength of this.           *)
CacheCoherent(c, y) ==
  \A r \in Reg : c.target_known[r] => y.regs[r] = c.target[r]

(* The pitch the source asks for, in the bytes of the target clock.        *)
PairWanted(c, x, r) ==
  IF Adapts(c)
  THEN ScaledPair(c.source_clock, x.regs, r)
  ELSE << x.regs[LowOf(r)], x.regs[HighOf(r)] >>

NoiseWanted(c, x, r) ==
  IF Adapts(c)
  THEN ScaledNoise(c.source_clock, x.regs[r])
  ELSE x.regs[r]

FmRetuned(c, pair) ==
  IF Adapts(c) /\ pair # Untuned
  THEN FmPair(c.source_clock, pair[2], pair[1])
  ELSE pair

(* Whatever was written, in whatever order, and whichever writes the       *)
(* converter dropped as repeated, every PSG period on the chip is the      *)
(* scaled period of the ideal chip: both bytes of it, although a write     *)
(* changes one source byte at a time.                                      *)
PsgFollows(c, x, y) ==
  /\ \A r \in Reg \cap PsgPeriod :
       << y.regs[LowOf(r)], y.regs[HighOf(r)] >> = PairWanted(c, x, r)
  /\ \A r \in Reg \cap Noise : y.regs[r] = NoiseWanted(c, x, r)

(* Every FM channel of the chip has the retuned block and F-number of the  *)
(* ideal chip's channel.  The source chip keeps one latch for the high     *)
(* bytes of three channels and another for those of channel 3's operators; *)
(* the converter swallows the latch writes and must remember both.         *)
FmFollows(c, x, y) ==
  \A l \in Reg \cap FmCommit : y.fm[l] = FmRetuned(c, x.fm[l])

(* The registers no pitch depends on, and the key states, are the song's.  *)
OthersFollow(x, y) ==
  /\ \A r \in Reg \ Pitched : y.regs[r] = x.regs[r]
  /\ y.key = x.key

Follows(c, x, y) == PsgFollows(c, x, y) /\ FmFollows(c, x, y) /\ OthersFollow(x, y)

(* The converter's own copy of the source registers and latches is that of *)
(* the ideal chip (the latches only while it adapts: else it never asks).  *)
SourceRemembered(c, x) ==
  /\ \A r \in Reg \cap (PsgPeriod \cup Noise) : c.source[r] = x.regs[r]
  /\ Adapts(c) => c.fm_high_latch = x.high /\ c.fm_channel3_high_latch = x.high3

(* Without pitch conversion the chip is the ideal chip, latches included.  *)
RawIsExact(c, x, y) == ~Adapts(c) => y = x

(* What a converter between the two chips keeps, write by write.           *)
InTune(c, x, y) ==
  /\ c \in Converter /\ x \in Chip /\ y \in Chip
  /\ CacheCoherent(c, y)
  /\ SourceRemembered(c, x)
  /\ RawIsExact(c, x, y)
  /\ Follows(c, x, y)
=============================================================================
