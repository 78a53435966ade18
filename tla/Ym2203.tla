------------------------------- MODULE Ym2203 -------------------------------
(***************************************************************************)
(* The sound chip both ends of QLVGM talk to: the YM2203 the VGM log was   *)
(* recorded from, and the one on the QSound2 board that player.asm writes  *)
(* to.  The chip is not part of the repository; the register map is the    *)
(* one src/src/vgm.c tests for and the behaviour is the one its converter  *)
(* relies on: a high FM byte waits in a latch until a low byte commits the *)
(* pair, and there are two latches, one for the three channels and one for *)
(* the operator frequencies of channel 3.                                  *)
(*                                                                         *)
(* A write is the pair of bytes <<register, value>>.                       *)
(***************************************************************************)
EXTENDS Integers, Sequences

CONSTANT Reg   (* the registers looked at; 0..255 in the code *)

Byte == 0 .. 255

PsgTone        == 0 .. 5
Noise          == {6}
EnvelopePeriod == {11, 12}
FmLow          == 160 .. 162
FmHigh         == 164 .. 166
Fm3Low         == 168 .. 170
Fm3High        == 172 .. 174
KeyOnOff       == 40

Channel == 0 .. 2

PsgPeriod == PsgTone \cup EnvelopePeriod
FmCommit  == FmLow \cup Fm3Low

(* The registers a pitch depends on.                                       *)
Pitched == PsgPeriod \cup Noise \cup FmCommit \cup FmHigh \cup Fm3High

(* A period is the pair of registers LowOf, HighOf.                        *)
LowOf(reg)  == IF reg \in PsgTone THEN 2 * (reg \div 2) ELSE 11
HighOf(reg) == LowOf(reg) + 1

(* A register that belongs to a pair is looked at with its partner.        *)
ASSUME RegAssumption ==
  /\ Reg \subseteq Byte
  /\ \A r \in Reg \cap PsgPeriod : {LowOf(r), HighOf(r)} \subseteq Reg
  /\ \A r \in Reg \cap FmCommit : r + 4 \in Reg

Write == Reg \X Byte
-----------------------------------------------------------------------------
(* The frequency of an FM channel no low byte has been written to.         *)
Untuned == <<>>

PowerOn ==
  [ regs  |-> [r \in Reg |-> 0],
    high  |-> 0,
    high3 |-> 0,
    fm    |-> [l \in FmCommit |-> Untuned],
    key   |-> [c \in Channel |-> 0] ]

Chip ==
  [ regs  : [Reg -> Byte],
    high  : Byte,
    high3 : Byte,
    fm    : [FmCommit -> (Byte \X Byte) \cup {Untuned}],
    key   : [Channel -> 0 .. 15] ]

(* The last of a set of positions of a list of writes, and the value the   *)
(* last write among them gave.                                             *)
LastOf(At) == CHOOSE k \in At : \A j \in At : j <= k

LastValue(writes, At, otherwise) ==
  IF At = {} THEN otherwise ELSE writes[LastOf(At)][2]

WritesTo(writes, regs) == {k \in DOMAIN writes : writes[k][1] \in regs}

KeyWrites(writes, channel) ==
  {k \in WritesTo(writes, {KeyOnOff}) : writes[k][2] % 4 = channel}

(* The latch register l commits, as it stands before position k.           *)
LatchAt(chip, writes, l, k) ==
  IF l \in FmLow
  THEN LastValue(writes, {j \in WritesTo(writes, FmHigh) : j < k}, chip.high)
  ELSE LastValue(writes, {j \in WritesTo(writes, Fm3High) : j < k}, chip.high3)

Tuned(chip, writes, l) ==
  LET At == WritesTo(writes, {l})
  IN  IF At = {} THEN chip.fm[l]
      ELSE << LatchAt(chip, writes, l, LastOf(At)), writes[LastOf(At)][2] >>

(* The chip after a list of writes.                                        *)
Hears(chip, writes) ==
  [ regs  |-> [r \in Reg |-> LastValue(writes, WritesTo(writes, {r}), chip.regs[r])],
    high  |-> LastValue(writes, WritesTo(writes, FmHigh), chip.high),
    high3 |-> LastValue(writes, WritesTo(writes, Fm3High), chip.high3),
    fm    |-> [l \in FmCommit |-> Tuned(chip, writes, l)],
    key   |-> [c \in Channel |->
                 LastValue(writes, KeyWrites(writes, c), chip.key[c] * 16) \div 16] ]
=============================================================================
