--------------------------- MODULE PlaybackProofs ---------------------------
(***************************************************************************)
(* The player for every song vgm_convert returns.  Its pointers stand on   *)
(* the records of the stream (PlaybackInv), what it plays is the score     *)
(* (ScoreIsKept), and what the chip sounds is the song (SongIsHeard): each *)
(* record of the stream carries a converter from the frame before it to    *)
(* the frame after it (SongCarries), and the player goes from one record   *)
(* to the next, or round the loop to one whose converter goes on from the  *)
(* last (TuneInv).                                                         *)
(***************************************************************************)
EXTENDS Playback, VgmProofs
-----------------------------------------------------------------------------
(* The player.                                                             *)

(* Player.tla speaks of the stream as vgm.c's modules do.                  *)
LEMMA SameStream ==
  /\ \A s : TargetPlayer!Boundaries(s) = Boundaries(s)
  /\ \A s : TargetPlayer!EndsOnRecord(s) = EndsOnRecord(s)
  /\ \A s, at : TargetPlayer!RecordsFrom(s, at) = RecordsFrom(s, at)
  /\ \A s, at : TargetPlayer!AfterRecord(s, at) = AfterRecord(s, at)
  /\ \A s, at : TargetPlayer!RecordWrites(s, at) = RecordWrites(s, at)
  <1>1. \A s, at : TargetPlayer!RecordCount(s, at) = RecordCount(s, at)
    BY DEF TargetPlayer!RecordCount, RecordCount
  <1>2. \A s, at : TargetPlayer!AfterRecord(s, at) = AfterRecord(s, at)
    BY <1>1 DEF TargetPlayer!AfterRecord, AfterRecord
  <1>3. \A s : TargetPlayer!Boundaries(s) = Boundaries(s)
    BY DEF TargetPlayer!Boundaries, Boundaries, TargetPlayer!RecordOffset, RecordOffset,
           TargetPlayer!RecordCount, RecordCount
  <1> QED
    BY <1>2, <1>3 DEF TargetPlayer!EndsOnRecord, EndsOnRecord, TargetPlayer!RecordsFrom,
         RecordsFrom, TargetPlayer!RecordWrites, RecordWrites

(* So does it of the chip.                                                 *)
LEMMA SameChip ==
  /\ TargetPlayer!PowerOn = PowerOn
  /\ TargetPlayer!Chip = Chip
  /\ \A c, w : TargetPlayer!Hears(c, w) = Hears(c, w)
  <1>1. TargetPlayer!Chip = Chip
    BY DEF TargetPlayer!Chip, Chip, TargetPlayer!Byte, Byte, TargetPlayer!FmCommit, FmCommit,
           TargetPlayer!FmLow, FmLow, TargetPlayer!Fm3Low, Fm3Low, TargetPlayer!Untuned, Untuned,
           TargetPlayer!Channel, Channel
  <1>2. TargetPlayer!PowerOn = PowerOn
    BY DEF TargetPlayer!PowerOn, PowerOn, TargetPlayer!FmCommit, FmCommit,
           TargetPlayer!FmLow, FmLow, TargetPlayer!Fm3Low, Fm3Low, TargetPlayer!Untuned, Untuned,
           TargetPlayer!Channel, Channel
  <1>3. \A c, w : TargetPlayer!Hears(c, w) = Hears(c, w)
    BY DEF TargetPlayer!Hears, Hears, TargetPlayer!LastValue, LastValue,
           TargetPlayer!WritesTo, WritesTo, TargetPlayer!Tuned, Tuned,
           TargetPlayer!KeyWrites, KeyWrites, TargetPlayer!LatchAt, LatchAt,
           TargetPlayer!LastOf, LastOf, TargetPlayer!KeyOnOff, KeyOnOff,
           TargetPlayer!FmHigh, FmHigh, TargetPlayer!Fm3High, Fm3High,
           TargetPlayer!FmCommit, FmCommit,
           TargetPlayer!FmLow, FmLow, TargetPlayer!Fm3Low, Fm3Low, TargetPlayer!Channel, Channel
  <1> QED
    BY <1>1, <1>2, <1>3

(* The last of some positions of a list is one of them.                    *)
LEMMA LastIsOne ==
  ASSUME NEW n \in Nat, NEW At \in SUBSET (1 .. n), At # {}
  PROVE  LastOf(At) \in At
  <1>1. At \subseteq Nat /\ \A k \in At : k <= n
    OBVIOUS
  <1>2. \E k \in At : \A j \in At : j <= k
    BY <1>1, GreatestNumber
  <1> QED
    BY <1>2 DEF LastOf

(* A chip that hears bytes stays a chip.                                   *)
LEMMA HearsIsChip ==
  ASSUME NEW c \in Chip, NEW writes \in Seq(Pair)
  PROVE  Hears(c, writes) \in Chip
  <1>0. /\ c.regs \in [Reg -> Byte] /\ c.high \in Byte /\ c.high3 \in Byte
        /\ c.fm \in [FmCommit -> (Byte \X Byte) \cup {Untuned}]
        /\ c.key \in [Channel -> 0 .. 15]
    BY DEF Chip
  <1>1. \A k \in DOMAIN writes : writes[k][2] \in Byte
    <2>1. \A p \in Pair : p[2] \in Byte
      <3>1. \A A, B : \A p \in A \X B : p[2] \in B
        OBVIOUS
      <3> QED
        BY <3>1 DEF Pair, Byte
    <2> QED
      BY <2>1
  <1>2. ASSUME NEW At \in SUBSET (DOMAIN writes), At # {}
        PROVE  LastOf(At) \in At
    <2>1. PICK n \in Nat : n = Len(writes) /\ DOMAIN writes = 1 .. n
      OBVIOUS
    <2> QED
      BY <1>2, <2>1, LastIsOne
  <1>3. ASSUME NEW At \in SUBSET (DOMAIN writes), NEW otherwise \in Byte
        PROVE  LastValue(writes, At, otherwise) \in Byte
    BY <1>1, <1>2 DEF LastValue
  <1>4. \A regs : WritesTo(writes, regs) \in SUBSET (DOMAIN writes)
    BY DEF WritesTo
  <1>5. \A l \in FmCommit : \A k : LatchAt(c, writes, l, k) \in Byte
    <2> TAKE l \in FmCommit
    <2> TAKE k
    <2>1. /\ {j \in WritesTo(writes, FmHigh) : j < k} \in SUBSET (DOMAIN writes)
          /\ {j \in WritesTo(writes, Fm3High) : j < k} \in SUBSET (DOMAIN writes)
      BY <1>4
    <2> QED
      BY <1>0, <1>3, <2>1 DEF LatchAt
  <1>6. \A l \in FmCommit : Tuned(c, writes, l) \in (Byte \X Byte) \cup {Untuned}
    <2> TAKE l \in FmCommit
    <2> DEFINE At == WritesTo(writes, {l})
               latch == LatchAt(c, writes, l, LastOf(At))
    <2>1. CASE At = {}
      BY <1>0, <2>1 DEF Tuned
    <2>2. CASE At # {}
      <3>1. At \in SUBSET (DOMAIN writes)
        BY <1>4
      <3>2. latch \in Byte
        BY <1>5
      <3>3. Tuned(c, writes, l) = << latch, writes[LastOf(At)][2] >>
        BY <2>2 DEF Tuned
      <3> HIDE DEF At, latch
      <3>4. LastOf(At) \in DOMAIN writes
        BY <1>2, <2>2, <3>1
      <3>5. writes[LastOf(At)][2] \in Byte
        BY <1>1, <3>4
      <3> QED
        BY <3>2, <3>3, <3>5
    <2> QED
      BY <2>1, <2>2
  <1>7. \A k \in Channel : LastValue(writes, KeyWrites(writes, k), c.key[k] * 16) \div 16
                             \in 0 .. 15
    <2> TAKE k \in Channel
    <2>1. KeyWrites(writes, k) \in SUBSET (DOMAIN writes)
      BY <1>4 DEF KeyWrites
    <2>2. c.key[k] * 16 \in Byte
      <3>1. PICK v \in 0 .. 15 : v = c.key[k]
        BY <1>0
      <3>2. v * 16 \in Byte
        BY DEF Byte
      <3> QED
        BY <3>1, <3>2
    <2>3. PICK v \in Byte : v = LastValue(writes, KeyWrites(writes, k), c.key[k] * 16)
      BY <1>3, <2>1, <2>2
    <2>4. v \div 16 \in 0 .. 15
      BY DEF Byte
    <2> QED
      BY <2>3, <2>4
  <1>8. /\ \A r \in Reg : LastValue(writes, WritesTo(writes, {r}), c.regs[r]) \in Byte
        /\ LastValue(writes, WritesTo(writes, FmHigh), c.high) \in Byte
        /\ LastValue(writes, WritesTo(writes, Fm3High), c.high3) \in Byte
    BY <1>0, <1>3, <1>4
  <1> QED
    BY <1>6, <1>7, <1>8 DEF Hears, Chip

(* What the player itself writes are bytes.                                *)
LEMMA ResetIsWrites ==
  TargetPlayer!ResetWrites \in Seq(Pair) /\ TargetPlayer!SilenceWrites \in Seq(Pair)
  <1> DEFINE first == [k \in 1 .. 14 |-> <<k - 1, IF k - 1 = 7 THEN 63 ELSE 0>>]
             rest  == << <<39, 0>>, <<40, 0>>, <<40, 1>>, <<40, 2>> >>
  <1>2. first \in Seq(Pair)
    <2>1. \A k \in 1 .. 14 : <<k - 1, IF k - 1 = 7 THEN 63 ELSE 0>> \in Pair
      BY DEF Pair
    <2> QED
      BY <2>1
  <1>3. rest \in Seq(Pair)
    <2>1. <<39, 0>> \in Pair /\ <<40, 0>> \in Pair /\ <<40, 1>> \in Pair /\ <<40, 2>> \in Pair
      BY DEF Pair
    <2> QED
      BY <2>1
  <1>4. TargetPlayer!ResetWrites \in Seq(Pair)
    <2>1. TargetPlayer!ResetWrites = first \o rest
      BY DEF TargetPlayer!ResetWrites
    <2> HIDE DEF first, rest
    <2> QED
      BY <1>2, <1>3, <2>1
  <1>5. TargetPlayer!SilenceWrites \in Seq(Pair)
    <2>1. /\ <<7, 63>> \in Pair /\ <<8, 0>> \in Pair /\ <<9, 0>> \in Pair /\ <<10, 0>> \in Pair
          /\ <<40, 0>> \in Pair /\ <<40, 1>> \in Pair /\ <<40, 2>> \in Pair
      BY DEF Pair
    <2> QED
      BY <2>1 DEF TargetPlayer!SilenceWrites
  <1> QED
    BY <1>4, <1>5
-----------------------------------------------------------------------------
(* The player at a mark of the stream.                                     *)
AtMark(b, k) ==
  /\ SongMarks(b)
  /\ k \in 0 .. converted.frame_count
  /\ state.STREAM = DecodedAt + b[k]

(* While it plays, the song is done, and the player's pointers are those   *)
(* player_start made of it, the stream pointer moved on to a later mark.   *)
PlayingInv ==
  running # "no" =>
    /\ step = "done"
    /\ \E b, k : AtMark(b, k)
    /\ state.END = DecodedAt + Len(converted.stream)
    /\ state.LOOP = TargetPlayer!LoopAddress(converted.loop_offset)
    /\ state.FINISHED => state.STREAM >= state.END

PlaybackInv ==
  /\ ConvertInv
  /\ TargetPlayer!PlayerTypes
  /\ test_frames \in Nat
  /\ running = "no" => state = TargetPlayer!Blank
  /\ PlayingInv

(* The host is done before the player begins, and never comes back.        *)
LEMMA ConvertIsOver ==
  ASSUME step = "done" PROVE ~Next
  BY DEF Next, BeginSegment, ConvertWrite, BeginAppend, AppendFrame, TooManyWrites, SkipIntro,
         EndSegment, JoinLoop, OutOfMemory

(* What the host does, the player does not see before it is done.          *)
LEMMA ConvertKeepsPlayback ==
  ASSUME PlaybackInv, Convert
  PROVE  PlaybackInv'
  <1>1. Next /\ UNCHANGED <<test_frames, running, state, chip>>
    BY DEF Convert
  <1>2. running = "no"
    BY <1>1, ConvertIsOver DEF PlaybackInv, PlayingInv
  <1>3. ConvertInv'
    BY <1>1, ConversionKeeps DEF PlaybackInv
  <1>4. TargetPlayer!PlayerTypes'
    BY <1>1 DEF PlaybackInv, TargetPlayer!PlayerTypes
  <1> QED
    BY <1>1, <1>2, <1>3, <1>4 DEF PlaybackInv, PlayingInv

(* The frame counter, a byte, and what it decides.                         *)
LEMMA CounterIsByte ==
  ASSUME PlaybackInv
  PROVE  TargetPlayer!Tested \in 0 .. TestWrap - 1
  <1>1. PICK n \in Nat : n = state.TEST
    BY DEF PlaybackInv, TargetPlayer!PlayerTypes
  <1>2. TestWrap \in Nat \ {0}
    BY TestAssumption
  <1>3. (n + 1) % TestWrap \in 0 .. TestWrap - 1
    BY <1>2
  <1> QED
    BY <1>1, <1>2, <1>3 DEF TargetPlayer!Tested

State == [ STREAM : Nat, END : Nat, LOOP : Nat, FINISHED : BOOLEAN, TEST : 0 .. TestWrap - 1 ]

(* The end of every frame.                                                 *)
LEMMA FrameKeeps ==
  ASSUME PlaybackInv, running = "yes", UNCHANGED convertVars,
         NEW new \in State, new.END = state.END, new.LOOP = state.LOOP,
         NEW b, NEW k, SongMarks(b), k \in 0 .. converted.frame_count,
         new.STREAM = DecodedAt + b[k],
         new.FINISHED => new.STREAM >= new.END,
         TargetPlayer!AfterFrame(new), chip' \in Chip
  PROVE  PlaybackInv'
  <1>1. /\ state' = [new EXCEPT !.TEST = TargetPlayer!Tested]
        /\ running' \in {"yes", "left"} /\ test_frames' = test_frames
    BY DEF TargetPlayer!AfterFrame, TargetPlayer!fromHost
  <1>2. step = "done" /\ converted' = converted /\ song' = song /\ step' = step
    BY DEF PlaybackInv, PlayingInv, convertVars
  <1>3. /\ state' \in State
        /\ state'.STREAM = new.STREAM /\ state'.END = new.END
        /\ state'.LOOP = new.LOOP /\ state'.FINISHED = new.FINISHED
    BY <1>1, CounterIsByte DEF State
  <1>4. ConvertInv'
    BY ConversionStutters DEF PlaybackInv
  <1>5. TargetPlayer!PlayerTypes'
    BY <1>1, <1>3, SameChip DEF TargetPlayer!PlayerTypes, State
  <1>6. AtMark(b, k)'
    BY <1>2, <1>3 DEF AtMark, SongMarks, LoopMark
  <1>7. TargetPlayer!LoopAddress(converted'.loop_offset)
          = TargetPlayer!LoopAddress(converted.loop_offset)
    BY <1>2
  <1>8. PlayingInv'
    BY <1>2, <1>3, <1>6, <1>7 DEF PlayingInv, PlaybackInv
  <1> QED
    BY <1>1, <1>4, <1>5, <1>8 DEF PlaybackInv

(* A record played from a mark leads to the next one.                      *)
LEMMA RecordAtMark ==
  ASSUME ConvertInv, step = "done", NEW b, SongMarks(b),
         NEW k, k \in 0 .. converted.frame_count - 1
  PROVE  /\ k + 1 \in 0 .. converted.frame_count
         /\ b[k] \in Nat /\ b[k + 1] \in Nat /\ b[k] < b[k + 1]
         /\ b[k + 1] = AfterRecord(converted.stream, b[k])
         /\ b[k + 1] <= Len(converted.stream)
         /\ RecordWrites(converted.stream, b[k]) \in Seq(Pair)
  <1>1. converted.stream \in Seq(Pair) /\ converted.frame_count \in Nat
    BY DEF ConvertInv, TypesHold, Result
  <1> DEFINE s == converted.stream
             n == converted.frame_count
  <1>2. Marks(s, n, b)
    BY DEF SongMarks
  <1> HIDE DEF s
  <1>3. s \in Seq(Pair) /\ n \in Nat
    BY <1>1 DEF s
  <1> HIDE DEF n
  <1>4. k \in 0 .. n - 1
    BY DEF n
  <1>5. k + 1 \in 0 .. n /\ k \in 0 .. k + 1 /\ k < k + 1 /\ n \in 0 .. n /\ k + 1 \in 0 .. n
    BY <1>3, <1>4
  <1>6. /\ \A y \in 0 .. n : \A j \in 0 .. y : b[j] <= b[y] /\ (j < y => b[j] < b[y])
        /\ \A j \in 0 .. n : b[j] \in Nat
    BY <1>2, <1>3, MarksRise
  <1>7. b[n] = Len(s) /\ b[k + 1] = AfterRecord(s, b[k])
    BY <1>2, <1>4 DEF Marks
  <1>8. b[k + 1] <= b[n] /\ b[k] < b[k + 1] /\ b[k] \in Nat /\ b[k + 1] \in Nat
    <2>1. k + 1 \in 0 .. n /\ k \in 0 .. n
      BY <1>3, <1>4
    <2> QED
      BY <1>5, <1>6, <2>1
  <1>9. RecordWrites(s, b[k]) \in Seq(Pair)
    <2>1. PICK x \in Nat, y \in Nat : x = b[k] /\ y = b[k + 1] /\ x < y /\ y <= Len(s)
      BY <1>7, <1>8
    <2>2. SubSeq(s, x + 2, y) \in Seq(Pair)
      BY <1>3, <2>1
    <2> QED
      BY <1>7, <2>1, <2>2 DEF RecordWrites
  <1> QED
    BY <1>5, <1>7, <1>8, <1>9 DEF s, n

(* player_start stands at the first record, or at the end of no records.   *)
LEMMA BeginKeepsPlayback ==
  ASSUME PlaybackInv, Begin
  PROVE  PlaybackInv'
  <1>1. /\ step = "done" /\ UNCHANGED convertVars
        /\ running' = "yes" /\ test_frames' = test_frames
        /\ state' = [ STREAM   |-> DecodedAt,
                      END      |-> DecodedAt + Len(converted.stream),
                      LOOP     |-> TargetPlayer!LoopAddress(converted.loop_offset),
                      FINISHED |-> FALSE,
                      TEST     |-> 0 ]
        /\ chip' = Hears(chip, TargetPlayer!ResetWrites)
    BY SameChip DEF Begin, TargetPlayer!Start, TargetPlayer!fromHost
  <1>2. converted \in Result /\ chip \in Chip /\ TestWrap \in Nat \ {0}
    BY SameChip, TestAssumption
       DEF PlaybackInv, ConvertInv, TypesHold, TargetPlayer!PlayerTypes
  <1>3. chip' \in Chip
    BY <1>1, <1>2, ResetIsWrites, HearsIsChip
  <1>4. state' \in State
    <2>1. /\ Len(converted.stream) \in Nat /\ DecodedAt \in Nat
          /\ converted.loop_offset \in Nat \cup {NoLoop}
      BY <1>2 DEF Result, DecodedAt
    <2>2. TargetPlayer!LoopAddress(converted.loop_offset) \in Nat
      BY <2>1 DEF TargetPlayer!LoopAddress
    <2> QED
      BY <1>1, <1>2, <2>1, <2>2 DEF State
  <1>5. PICK b : SongMarks(b)
    BY <1>1, SongIsMarked DEF PlaybackInv
  <1>6. converted' = converted /\ song' = song /\ step' = step
    BY <1>1 DEF convertVars
  <1>7. AtMark(b, 0)'
    <2>1. b[0] = 0 /\ converted.frame_count \in Nat
      BY <1>2, <1>5 DEF SongMarks, Marks, Result
    <2>2. 0 \in 0 .. converted.frame_count /\ state'.STREAM = DecodedAt + b[0]
      BY <1>1, <2>1 DEF DecodedAt
    <2> QED
      BY <1>5, <1>6, <2>2 DEF AtMark, SongMarks, LoopMark
  <1>8. ConvertInv'
    BY <1>1, ConversionStutters DEF PlaybackInv
  <1>9. TargetPlayer!PlayerTypes'
    BY <1>1, <1>3, <1>4, SameChip DEF TargetPlayer!PlayerTypes, State
  <1>10. PlayingInv'
    BY <1>1, <1>6, <1>7 DEF PlayingInv
  <1> QED
    BY <1>1, <1>8, <1>9, <1>10 DEF PlaybackInv

(* A record of the stream is played and the pointer moved behind it.       *)
LEMMA RecordKeeps ==
  ASSUME PlaybackInv, running = "yes", ~state.FINISHED, UNCHANGED convertVars,
         NEW b, SongMarks(b), NEW k, k \in 0 .. converted.frame_count - 1,
         NEW address, address = DecodedAt + b[k], TargetPlayer!PlayRecord(address)
  PROVE  /\ PlaybackInv'
         /\ k + 1 \in 0 .. converted.frame_count
         /\ state'.STREAM = DecodedAt + b[k + 1] /\ state'.FINISHED = FALSE
  <1> DEFINE after == AfterRecord(converted.stream, b[k])
             new == [state EXCEPT !.STREAM = DecodedAt + after]
  <1>0. ConvertInv /\ step = "done" /\ state \in State /\ chip \in Chip
    BY SameChip DEF PlaybackInv, PlayingInv, TargetPlayer!PlayerTypes, State
  <1>1. /\ k + 1 \in 0 .. converted.frame_count
        /\ b[k] \in Nat /\ b[k + 1] \in Nat /\ b[k + 1] = after
        /\ RecordWrites(converted.stream, b[k]) \in Seq(Pair)
    BY <1>0, RecordAtMark
  <1>2. address - DecodedAt = b[k]
    BY <1>1 DEF DecodedAt
  <1>3. /\ chip' = Hears(chip, RecordWrites(converted.stream, b[k]))
        /\ TargetPlayer!AfterFrame(new)
    BY <1>2, SameChip, SameStream DEF TargetPlayer!PlayRecord
  <1>4. chip' \in Chip
    BY <1>0, <1>1, <1>3, HearsIsChip
  <1>5. /\ new \in State /\ new.END = state.END /\ new.LOOP = state.LOOP
        /\ new.STREAM = DecodedAt + b[k + 1] /\ new.FINISHED = FALSE
    BY <1>0, <1>1 DEF State, DecodedAt
  <1>6. state'.STREAM = new.STREAM /\ state'.FINISHED = new.FINISHED
    BY <1>3, <1>5 DEF TargetPlayer!AfterFrame, State
  <1> HIDE DEF new, after
  <1>7. PlaybackInv'
    BY <1>1, <1>3, <1>4, <1>5, FrameKeeps
  <1> QED
    BY <1>1, <1>5, <1>6, <1>7

(* Where the player is, and what the two ways to play a record mean.       *)
LEMMA PlayerAtMark ==
  ASSUME PlaybackInv, running # "no", NEW b, NEW k, AtMark(b, k)
  PROVE  /\ TargetPlayer!AtEnd(state) <=> k = converted.frame_count
         /\ song.has_loop /\ state.LOOP # 0 =>
              /\ LoopMark \in 0 .. converted.frame_count - 1
              /\ state.LOOP = DecodedAt + b[LoopMark]
         /\ song.has_loop <=> state.LOOP # 0
  <1>1. /\ ConvertInv /\ step = "done" /\ converted \in Result
        /\ state.END = DecodedAt + Len(converted.stream)
        /\ state.LOOP = TargetPlayer!LoopAddress(converted.loop_offset)
    BY DEF PlaybackInv, PlayingInv, ConvertInv, TypesHold
  <1> DEFINE s == converted.stream
             n == converted.frame_count
  <1>3. s \in Seq(Pair) /\ n \in Nat /\ Marks(s, n, b) /\ k \in 0 .. n
        /\ state.STREAM = DecodedAt + b[k]
    BY <1>1 DEF AtMark, SongMarks, Result
  <1>4. TargetPlayer!AtEnd(state) <=> k = n
    <2> HIDE DEF s, n
    <2>1. b[n] = Len(s) /\ b[k] \in Nat /\ Len(s) \in Nat
      BY <1>3 DEF Marks
    <2>2. k # n => b[k] < Len(s)
      <3>1. k # n => k \in 0 .. n - 1
        BY <1>3
      <3> QED
        BY <1>3, <3>1 DEF Marks
    <2>3. state.STREAM >= state.END <=> b[k] >= Len(s)
      BY <1>1, <1>3, <2>1 DEF DecodedAt, s
    <2> QED
      BY <2>1, <2>2, <2>3 DEF TargetPlayer!AtEnd
  <1>5. CASE ~song.has_loop
    <2>1. converted.loop_offset = NoLoop
      BY <1>1, <1>5, SongIsMarked
    <2>2. state.LOOP = 0
      BY <1>1, <2>1 DEF TargetPlayer!LoopAddress
    <2> QED
      BY <1>4, <1>5, <2>2
  <1>6. CASE song.has_loop
    <2>1. /\ converted.loop_frame_count = FrameTotal(song, "first")
          /\ FrameTotal(song, "first") \in Nat \ {0}
          /\ FrameTotal(song, "intro") \in Nat
          /\ frame_count["intro"] = FrameTotal(song, "intro")
          /\ LoopMark \in {frame_count["intro"], frame_count["intro"] + FrameTotal(song, "first")}
      BY <1>1, <1>6, SongIsMarked
    <2>2. LoopMark \in Nat /\ LoopMark < n
      <3>1. PICK m \in Nat \ {0} : m = FrameTotal(song, "first")
        BY <2>1
      <3>2. LoopMark = n - m
        BY <2>1, <3>1 DEF LoopMark
      <3>3. LoopMark \in Nat
        BY <2>1
      <3> QED
        BY <1>3, <3>1, <3>2, <3>3
    <2>3. LoopMark \in 0 .. n - 1
      BY <1>3, <2>2
    <2>4. b[LoopMark] = converted.loop_offset /\ b[LoopMark] \in Nat
      <3>1. LoopMark \in 0 .. n
        BY <1>3, <2>2
      <3> QED
        BY <1>3, <1>6, <3>1 DEF AtMark, SongMarks, Marks
    <2>5. state.LOOP = DecodedAt + b[LoopMark] /\ state.LOOP # 0
      BY <1>1, <2>4 DEF TargetPlayer!LoopAddress, NoLoop, DecodedAt
    <2> QED
      BY <1>4, <1>6, <2>3, <2>5
  <1> QED
    BY <1>5, <1>6

(* While it plays, the player is at a mark of the stream, at its end just  *)
(* after the last record, and its loop pointer is at the loop's mark.      *)
LEMMA PlayerIsAt ==
  ASSUME PlaybackInv, running # "no"
  PROVE  \E b, k :
           /\ AtMark(b, k)
           /\ TargetPlayer!AtEnd(state) <=> k = converted.frame_count
           /\ song.has_loop /\ state.LOOP # 0 =>
                /\ LoopMark \in 0 .. converted.frame_count - 1
                /\ state.LOOP = DecodedAt + b[LoopMark]
           /\ song.has_loop <=> state.LOOP # 0
  <1>1. PICK b, k : AtMark(b, k)
    BY DEF PlaybackInv, PlayingInv
  <1> QED
    BY <1>1, PlayerAtMark

(* The frames in which the player has a song to play.                      *)
LEMMA PlayKeepsPlayback ==
  ASSUME PlaybackInv, PlayRecord
  PROVE  PlaybackInv'
  <1>1. /\ UNCHANGED convertVars /\ running = "yes" /\ ~state.FINISHED
    BY DEF PlayRecord, TargetPlayer!PlayNext, TargetPlayer!PlayLoop
  <1>2. PICK b, k :
           /\ AtMark(b, k)
           /\ TargetPlayer!AtEnd(state) <=> k = converted.frame_count
           /\ song.has_loop /\ state.LOOP # 0 =>
                /\ LoopMark \in 0 .. converted.frame_count - 1
                /\ state.LOOP = DecodedAt + b[LoopMark]
           /\ song.has_loop <=> state.LOOP # 0
    BY <1>1, PlayerIsAt
  <1>3. SongMarks(b) /\ k \in 0 .. converted.frame_count /\ state.STREAM = DecodedAt + b[k]
        /\ converted.frame_count \in Nat
    BY <1>2 DEF AtMark, PlaybackInv, ConvertInv, TypesHold, Result
  <1>4. CASE TargetPlayer!PlayNext
    <2>1. ~TargetPlayer!AtEnd(state) /\ TargetPlayer!PlayRecord(state.STREAM)
      BY <1>4 DEF TargetPlayer!PlayNext
    <2>2. k \in 0 .. converted.frame_count - 1
      BY <1>2, <1>3, <2>1
    <2> QED
      BY <1>1, <1>3, <2>1, <2>2, RecordKeeps
  <1>5. CASE TargetPlayer!PlayLoop
    <2>1. state.LOOP # 0 /\ TargetPlayer!PlayRecord(state.LOOP)
      BY <1>5 DEF TargetPlayer!PlayLoop
    <2> QED
      BY <1>1, <1>2, <1>3, <2>1, RecordKeeps
  <1> QED
    BY <1>4, <1>5 DEF PlayRecord

(* The end of a song without a loop, and the frames after it.              *)
LEMMA SilenceKeepsPlayback ==
  ASSUME PlaybackInv, Finish \/ StayFinished
  PROVE  PlaybackInv'
  <1>1. UNCHANGED convertVars /\ running = "yes"
    BY DEF Finish, StayFinished, TargetPlayer!Finish, TargetPlayer!StayFinished
  <1>2. PICK b, k : AtMark(b, k)
    BY <1>1 DEF PlaybackInv, PlayingInv
  <1>3. SongMarks(b) /\ k \in 0 .. converted.frame_count /\ state.STREAM = DecodedAt + b[k]
    BY <1>2 DEF AtMark
  <1>4. state \in State /\ chip \in Chip
    BY SameChip DEF PlaybackInv, TargetPlayer!PlayerTypes, State
  <1>5. CASE Finish
    <2> DEFINE new == [state EXCEPT !.FINISHED = TRUE]
    <2>1. /\ TargetPlayer!AtEnd(state) /\ TargetPlayer!AfterFrame(new)
          /\ chip' = Hears(chip, TargetPlayer!SilenceWrites)
      BY <1>5, SameChip DEF Finish, TargetPlayer!Finish
    <2>2. chip' \in Chip
      BY <1>4, <2>1, ResetIsWrites, HearsIsChip
    <2>3. /\ new \in State /\ new.END = state.END /\ new.LOOP = state.LOOP
          /\ new.STREAM = state.STREAM /\ new.STREAM >= new.END
      BY <1>4, <2>1 DEF State, TargetPlayer!AtEnd
    <2> HIDE DEF new
    <2> QED
      BY <1>1, <1>3, <2>1, <2>2, <2>3, FrameKeeps
  <1>6. CASE StayFinished
    <2>1. TargetPlayer!AfterFrame(state) /\ chip' = chip
          /\ (state.FINISHED => state.STREAM >= state.END)
      BY <1>1, <1>6 DEF StayFinished, TargetPlayer!StayFinished, PlaybackInv, PlayingInv
    <2> QED
      BY <1>1, <1>3, <1>4, <2>1, FrameKeeps
  <1> QED
    BY <1>5, <1>6

(* Every step keeps the player on its marks.                               *)
LEMMA PlaybackKeeps == PlaybackInv /\ [PlaybackNext]_vars => PlaybackInv'
  <1> SUFFICES ASSUME PlaybackInv, [PlaybackNext]_vars
               PROVE  PlaybackInv'
    OBVIOUS
  <1>1. CASE Convert
    BY <1>1, ConvertKeepsPlayback
  <1>2. CASE Begin
    BY <1>2, BeginKeepsPlayback
  <1>3. CASE PlayRecord
    BY <1>3, PlayKeepsPlayback
  <1>4. CASE Finish \/ StayFinished
    BY <1>4, SilenceKeepsPlayback
  <1>5. CASE UNCHANGED vars
    <2>1. /\ UNCHANGED convertVars
          /\ UNCHANGED <<test_frames, running, state, chip, step, converted, song>>
      BY <1>5 DEF vars, convertVars
    <2>2. ConvertInv'
      BY <2>1, ConversionStutters DEF PlaybackInv
    <2> QED
      BY <2>1, <2>2 DEF PlaybackInv, PlayingInv, AtMark, SongMarks, LoopMark,
                        TargetPlayer!PlayerTypes
  <1> QED
    BY <1>1, <1>2, <1>3, <1>4, <1>5 DEF PlaybackNext

(* The types and pointers of the player, whatever the song: it holds from  *)
(* the first call of convert_segment to the last frame.                    *)
LEMMA PlaybackInvariance == PlaybackSpec => []PlaybackInv
  <1>1. PlaybackInit => PlaybackInv
    <2> SUFFICES ASSUME PlaybackInit PROVE PlaybackInv
      OBVIOUS
    <2>1. ConvertInv
      BY ConversionStarts DEF PlaybackInit
    <2>2. running = "no" /\ state = TargetPlayer!Blank /\ chip = PowerOn
      BY SameChip DEF PlaybackInit, TargetPlayer!PlayerInit
    <2>3. test_frames \in Nat /\ 0 \in 0 .. TestWrap - 1
      BY TestAssumption DEF PlaybackInit
    <2>4. PowerOn \in Chip
      BY DEF PowerOn, Chip, Byte
    <2>5. TargetPlayer!PlayerTypes
      BY <2>2, <2>3, <2>4, SameChip DEF TargetPlayer!PlayerTypes, TargetPlayer!Blank
    <2> QED
      BY <2>1, <2>2, <2>3, <2>5 DEF PlaybackInv, PlayingInv
  <1> QED
    BY <1>1, PlaybackKeeps, PTL DEF PlaybackSpec

(* Of any song, and even after the test exit, the player's pointers are    *)
(* addresses of the decoded stream: STREAM one of its bytes or the one     *)
(* behind it, LOOP one of its bytes.  What else the player keeps has the   *)
(* width it has in player.asm.                                             *)
THEOREM PlayerTyped == PlaybackSpec => []PlayerTypeOK
  <1>1. ASSUME PlaybackInv, running # "no"
        PROVE  /\ state.END = DecodedAt + Len(converted.stream)
               /\ state.STREAM \in DecodedAt .. state.END
               /\ state.LOOP # 0 => state.LOOP \in DecodedAt .. state.END - 1
    <2>1. PICK b, k :
           /\ AtMark(b, k)
           /\ song.has_loop /\ state.LOOP # 0 =>
                /\ LoopMark \in 0 .. converted.frame_count - 1
                /\ state.LOOP = DecodedAt + b[LoopMark]
           /\ song.has_loop <=> state.LOOP # 0
      BY <1>1, PlayerIsAt
    <2>2. PICK s, n : s = converted.stream /\ n = converted.frame_count
      OBVIOUS
    <2>3. /\ s \in Seq(Pair) /\ n \in Nat /\ Marks(s, n, b) /\ k \in 0 .. n
          /\ state.STREAM = DecodedAt + b[k]
          /\ state.END = DecodedAt + Len(s)
      BY <1>1, <2>1, <2>2
         DEF AtMark, SongMarks, PlaybackInv, PlayingInv, ConvertInv, TypesHold, Result
    <2>4. /\ Len(s) \in Nat /\ b[n] = Len(s)
          /\ \A j \in 0 .. n : b[j] \in Nat /\ b[j] <= Len(s)
          /\ \A j \in 0 .. n - 1 : b[j] < Len(s)
      <3>1. b[n] = Len(s) /\ n \in 0 .. n /\ Len(s) \in Nat
        BY <2>3 DEF Marks
      <3>2. \A j \in 0 .. n : b[j] \in Nat /\ b[j] <= b[n] /\ (j < n => b[j] < b[n])
        BY <2>3, <3>1, MarksRise
      <3>3. \A j \in 0 .. n - 1 : j \in 0 .. n /\ j < n
        BY <2>3
      <3> QED
        BY <3>1, <3>2, <3>3
    <2>5. state.STREAM \in DecodedAt .. state.END
      BY <2>3, <2>4 DEF DecodedAt
    <2>6. state.LOOP # 0 => state.LOOP \in DecodedAt .. state.END - 1
      <3> SUFFICES ASSUME state.LOOP # 0
                   PROVE  state.LOOP \in DecodedAt .. state.END - 1
        OBVIOUS
      <3>1. LoopMark \in 0 .. n - 1 /\ state.LOOP = DecodedAt + b[LoopMark]
        BY <2>1, <2>2
      <3>2. PICK x \in Nat : x = b[LoopMark] /\ x < Len(s)
        <4>1. LoopMark \in 0 .. n
          BY <2>3, <3>1
        <4> QED
          BY <2>4, <3>1, <4>1
      <3> QED
        BY <2>3, <2>4, <3>1, <3>2 DEF DecodedAt
    <2> QED
      BY <2>2, <2>3, <2>5, <2>6
  <1>2. PlaybackInv => PlayerTypeOK
    BY <1>1 DEF PlaybackInv, PlayerTypeOK, TargetPlayer!PlayerTypeOK,
                TargetPlayer!PointersInside
  <1> QED
    BY <1>2, PlaybackInvariance, PTL

(* For any song the player's two pointers stand on records of the stream   *)
(* or at its end: it never takes a byte that vgm.c wrote as a write for a  *)
(* count, nor one behind the stream.                                       *)
THEOREM PlayerStaysOnRecords == PlaybackSpec => []PointersOnRecords
  <1>1. ASSUME PlaybackInv, running = "yes"
        PROVE  /\ state.STREAM - DecodedAt \in Boundaries(converted.stream)
               /\ EndsOnRecord(converted.stream)
               /\ state.LOOP # 0 => state.LOOP - DecodedAt \in RecordsFrom(converted.stream, 0)
    <2>1. PICK b, k :
           /\ AtMark(b, k)
           /\ song.has_loop /\ state.LOOP # 0 =>
                /\ LoopMark \in 0 .. converted.frame_count - 1
                /\ state.LOOP = DecodedAt + b[LoopMark]
           /\ song.has_loop <=> state.LOOP # 0
      BY <1>1, PlayerIsAt
    <2>2. PICK s, n : s = converted.stream /\ n = converted.frame_count
      OBVIOUS
    <2>3. /\ s \in Seq(Pair) /\ n \in Nat /\ Marks(s, n, b) /\ k \in 0 .. n
          /\ state.STREAM = DecodedAt + b[k]
      BY <1>1, <2>1, <2>2
         DEF AtMark, SongMarks, PlaybackInv, ConvertInv, TypesHold, Result
    <2>4. /\ EndsOnRecord(s) /\ b[0] = 0 /\ n \in 0 .. n /\ 0 \in 0 .. n
          /\ \A j \in 0 .. n - 1 : b[j] \in RecordsFrom(s, b[0])
      <3>1. 0 \in 0 .. n /\ n \in 0 .. n
        BY <2>3
      <3>2. b[0] = 0
        BY <2>3 DEF Marks
      <3> QED
        BY <2>3, <3>1, <3>2, BoundariesAreMarks
    <2>5. b[k] \in Boundaries(s) /\ b[k] \in Nat
      <3>1. b[k] \in Nat /\ b[n] = Len(s)
        BY <2>3 DEF Marks
      <3>2. CASE k = n
        BY <2>4, <3>1, <3>2 DEF EndsOnRecord
      <3>3. CASE k # n
        <4>1. k \in 0 .. n - 1
          BY <2>3, <3>3
        <4> QED
          BY <2>4, <3>1, <4>1 DEF RecordsFrom
      <3> QED
        BY <3>2, <3>3
    <2>6. state.STREAM - DecodedAt = b[k]
      BY <2>3, <2>5 DEF DecodedAt
    <2>7. state.LOOP # 0 => state.LOOP - DecodedAt \in RecordsFrom(s, 0)
      <3> SUFFICES ASSUME state.LOOP # 0
                   PROVE  state.LOOP - DecodedAt \in RecordsFrom(s, 0)
        OBVIOUS
      <3>1. LoopMark \in 0 .. n - 1 /\ state.LOOP = DecodedAt + b[LoopMark]
        BY <2>1, <2>2
      <3>2. b[LoopMark] \in Nat
        BY <2>3, <3>1 DEF Marks
      <3> QED
        BY <2>4, <3>1, <3>2 DEF DecodedAt
    <2> QED
      BY <2>2, <2>4, <2>5, <2>6, <2>7
  <1>2. PlaybackInv => PointersOnRecords
    BY <1>1, SameStream DEF PointersOnRecords, TargetPlayer!PointersOnRecords
  <1> QED
    BY <1>2, PlaybackInvariance, PTL

-----------------------------------------------------------------------------
(* The player against the score.                                           *)

(* Before a mark there are as many records as marks.                       *)
LEMMA RecordsBeforeMark ==
  ASSUME NEW stream \in Seq(Pair), NEW n \in Nat, NEW b, Marks(stream, n, b),
         NEW k, k \in 0 .. n
  PROVE  Cardinality(RecordsBefore(stream, b[k])) = k
  <1> DEFINE All   == RecordsFrom(stream, 0)
             After == RecordsFrom(stream, b[k])
  <1>1. b[0] = 0 /\ 0 \in 0 .. n /\ Len(stream) \in Nat /\ b[k] \in Nat
    BY DEF Marks
  <1>2. Cardinality(All) = n
    <2>1. Cardinality(RecordsFrom(stream, b[0])) = n - 0
      BY <1>1, BoundariesAreMarks
    <2> QED
      BY <1>1, <2>1
  <1>3. Cardinality(After) = n - k
    BY BoundariesAreMarks
  <1>4. Boundaries(stream) \subseteq Nat
    <2> DEFINE g == [j \in 0 .. Len(stream) |-> IF j <= n THEN b[j] ELSE Len(stream)]
    <2>1. \A j \in 0 .. Len(stream) : g[j] \in Nat
      <3> SUFFICES ASSUME NEW j \in 0 .. Len(stream) PROVE g[j] \in Nat
        OBVIOUS
      <3>1. j <= n => j \in 0 .. n
        OBVIOUS
      <3> QED
        BY <1>1, <3>1 DEF Marks
    <2>2. Boundaries(stream) = {g[j] : j \in 0 .. Len(stream)}
      BY OffsetsAreMarks DEF Boundaries
    <2> HIDE DEF g
    <2> QED
      BY <2>1, <2>2
  <1>5. b[k] <= Len(stream)
    <2>1. n \in 0 .. n /\ k \in 0 .. n
      OBVIOUS
    <2>2. b[k] <= b[n]
      BY <2>1, MarksRise
    <2> QED
      BY <2>2 DEF Marks
  <1>6. RecordsBefore(stream, b[k]) = All \ After /\ After \subseteq All
    BY <1>1, <1>4, <1>5 DEF RecordsBefore, RecordsFrom
  <1>7. IsFiniteSet(All)
    <2>1. All \subseteq 0 .. Len(stream)
      BY <1>1, <1>4 DEF RecordsFrom
    <2>2. IsFiniteSet(0 .. Len(stream))
      BY <1>1, FS_Interval
    <2> QED
      BY <2>1, <2>2, FS_Subset
  <1> HIDE DEF All, After
  <1>8. Cardinality(All \ After) = Cardinality(All) - Cardinality(All \cap After)
    BY <1>7, FS_Difference
  <1>9. Cardinality(All \cap After) = n - k
    <2>1. All \cap After = After
      BY <1>6
    <2> QED
      BY <1>3, <2>1
  <1>10. Cardinality(All \ After) = k
    <2>1. PICK c : c = Cardinality(All \ After)
      OBVIOUS
    <2>2. c = n - (n - k)
      BY <1>2, <1>8, <1>9, <2>1
    <2>3. c = k
      BY <2>2
    <2> QED
      BY <2>1, <2>3
  <1> QED
    BY <1>6, <1>10

(* What is left of a number after the next, by division.                   *)
LEMMA NextRest ==
  ASSUME NEW a \in Nat, NEW m \in Nat \ {0}
  PROVE  /\ a % m \in 0 .. m - 1
         /\ (a + 1) % m = IF a % m = m - 1 THEN 0 ELSE (a % m) + 1
  <1>1. PICK q \in Nat, r \in 0 .. m - 1 : r = a % m /\ q = a \div m /\ a = q * m + r
    BY DivMod
  <1>2. PICK p \in Nat, t \in 0 .. m - 1 :
           t = (a + 1) % m /\ p = (a + 1) \div m /\ a + 1 = p * m + t
    <2>1. a + 1 \in Nat
      OBVIOUS
    <2> QED
      BY <2>1, DivMod
  <1>3. p * m + t = q * m + (r + 1)
    BY <1>1, <1>2
  <1>4. (p - q) * m = r + 1 - t
    BY <1>3
  <1>5. r + 1 - t \in (1 - m) + 1 .. m
    OBVIOUS
  <1>6. p - q \in {0, 1}
    <2>1. p - q <= 1
      <3> SUFFICES ASSUME p - q >= 2 PROVE FALSE
        OBVIOUS
      <3>1. (p - q) * m >= 2 * m
        OBVIOUS
      <3> QED
        BY <1>4, <1>5, <3>1
    <2>2. p - q >= 0
      <3> SUFFICES ASSUME p - q <= -1 PROVE FALSE
        OBVIOUS
      <3>1. (p - q) * m <= (-1) * m
        OBVIOUS
      <3> QED
        BY <1>4, <1>5, <3>1
    <2> QED
      BY <2>1, <2>2
  <1>7. CASE p - q = 0
    <2>1. t = r + 1
      BY <1>4, <1>7
    <2> QED
      BY <1>1, <1>2, <2>1
  <1>8. CASE p - q = 1
    <2>1. t = r + 1 - m
      BY <1>4, <1>8
    <2> QED
      BY <1>1, <1>2, <2>1
  <1> QED
    BY <1>6, <1>7, <1>8

(* The frame of the song the record at mark k holds.                       *)
Shown(k) ==
  IF song.has_loop /\ k >= frame_count["intro"]
  THEN frame_count["intro"] + ((k - frame_count["intro"]) % converted.loop_frame_count)
  ELSE k

(* NextFrame is that of the player's mark, before a step and after it.     *)
LEMMA NextFrameShown ==
  ASSUME ConvertInv, step = "done", NEW b, NEW k, SongMarks(b),
         k \in 0 .. converted.frame_count
  PROVE  /\ running # "no" /\ state.STREAM = DecodedAt + b[k] => NextFrame = Shown(k)
         /\ UNCHANGED convertVars /\ running' # "no" /\ state'.STREAM = DecodedAt + b[k]
              => NextFrame' = Shown(k)
  <1>1. converted \in Result
    BY DEF ConvertInv, TypesHold
  <1>2. b[k] \in Nat /\ Cardinality(RecordsBefore(converted.stream, b[k])) = k
    <2>1. PICK s, n : s = converted.stream /\ n = converted.frame_count
      OBVIOUS
    <2>2. s \in Seq(Pair) /\ n \in Nat /\ Marks(s, n, b) /\ k \in 0 .. n
      BY <1>1, <2>1 DEF Result, SongMarks
    <2> QED
      BY <2>1, <2>2, RecordsBeforeMark DEF Marks
  <1>3. ASSUME running # "no", state.STREAM = DecodedAt + b[k] PROVE NextFrame = Shown(k)
    <2>1. state.STREAM - DecodedAt = b[k]
      BY <1>2, <1>3 DEF DecodedAt
    <2> QED
      BY <1>2, <1>3, <2>1 DEF NextFrame, Shown
  <1>4. ASSUME UNCHANGED convertVars, running' # "no", state'.STREAM = DecodedAt + b[k]
        PROVE  NextFrame' = Shown(k)
    <2>1. state'.STREAM - DecodedAt = b[k]
      BY <1>2, <1>4 DEF DecodedAt
    <2>2. converted' = converted /\ song' = song /\ frame_count' = frame_count
      BY <1>4 DEF convertVars
    <2>3. Cardinality(RecordsBefore(converted'.stream, state'.STREAM - DecodedAt)) = k
      BY <1>2, <2>1, <2>2
    <2> QED
      BY <1>4, <2>2, <2>3 DEF NextFrame, Shown
  <1> QED
    BY <1>3, <1>4

(* Score.tla counts the frames of the song as the host did.                *)
LEMMA ScoreCounts ==
  ASSUME ConvertInv, step = "done"
  PROVE  /\ frame_count["intro"] \in Nat /\ converted.frame_count \in Nat
         /\ Promise!IntroFrames(song) = frame_count["intro"]
         /\ song.has_loop =>
              /\ converted.loop_frame_count \in Nat \ {0}
              /\ Promise!LastFrame(song) = frame_count["intro"] + converted.loop_frame_count - 1
              /\ LoopMark \in {frame_count["intro"],
                               frame_count["intro"] + converted.loop_frame_count}
              /\ converted.frame_count = LoopMark + converted.loop_frame_count
         /\ ~song.has_loop =>
              /\ Promise!LastFrame(song) = frame_count["intro"] - 1
              /\ converted.frame_count = frame_count["intro"]
  <1>1. \A seg : Promise!FrameTotal(song, seg) = FrameTotal(song, seg)
    BY DEF Promise!FrameTotal, FrameTotal, Promise!CeilDiv, CeilDiv, Promise!Duration, Duration,
           Promise!FrameOf, FrameOf, Promise!StartSample, StartSample,
           Promise!SegmentWrites, SegmentWrites, Promise!Max, Max
  <1>2. Promise!IntroIsEmpty(song) <=> IntroIsEmpty(song)
    BY DEF Promise!IntroIsEmpty, IntroIsEmpty, Promise!Duration, Duration,
           Promise!SegmentWrites, SegmentWrites
  <1>3. WellFormed(song) /\ converted \in Result
    BY DEF ConvertInv, TypesHold
  <1>4. /\ frame_count["intro"] = FrameTotal(song, "intro") /\ FrameTotal(song, "intro") \in Nat
        /\ song.has_loop =>
              /\ converted.loop_frame_count = FrameTotal(song, "first")
              /\ FrameTotal(song, "first") \in Nat \ {0}
              /\ LoopMark \in {frame_count["intro"],
                               frame_count["intro"] + FrameTotal(song, "first")}
        /\ ~song.has_loop => converted.frame_count = frame_count["intro"]
    BY SongIsMarked
  <1>5. Promise!IntroFrames(song) = frame_count["intro"]
    <2>1. IntroIsEmpty(song) => FrameTotal(song, "intro") = 0
      BY <1>3, SkippedIsEmpty
    <2> QED
      BY <1>1, <1>2, <1>4, <2>1 DEF Promise!IntroFrames
  <1>6. Promise!LoopFrames(song) = IF song.has_loop THEN FrameTotal(song, "first") ELSE 0
    BY <1>1 DEF Promise!LoopFrames
  <1>7. Promise!LastFrame(song) = frame_count["intro"] + Promise!LoopFrames(song) - 1
    BY <1>5 DEF Promise!LastFrame
  <1>8. converted.frame_count \in Nat
    BY <1>3 DEF Result
  <1>9. CASE song.has_loop
    <2>1. PICK m \in Nat \ {0} : m = FrameTotal(song, "first")
      BY <1>4, <1>9
    <2>2. LoopMark \in Nat /\ LoopMark = converted.frame_count - m
      BY <1>4, <1>9, <2>1 DEF LoopMark
    <2>3. converted.frame_count = LoopMark + m
      BY <1>8, <2>1, <2>2
    <2> QED
      BY <1>4, <1>5, <1>6, <1>7, <1>8, <1>9, <2>1, <2>3
  <1>10. CASE ~song.has_loop
    BY <1>4, <1>5, <1>6, <1>7, <1>8, <1>10
  <1> QED
    BY <1>9, <1>10

(* The frame after a record is the next of the song, or the loop's first.  *)
LEMMA ShownNext ==
  ASSUME ConvertInv, step = "done", NEW k, k \in 0 .. converted.frame_count - 1
  PROVE  /\ Shown(k) <= Promise!LastFrame(song)
         /\ Shown(k + 1) = IF Shown(k) = Promise!LastFrame(song) /\ song.has_loop
                           THEN Promise!IntroFrames(song) ELSE Shown(k) + 1
  <1> DEFINE n == converted.frame_count
             x == frame_count["intro"]
             m == converted.loop_frame_count
  <1>1. x \in Nat /\ n \in Nat /\ k \in Nat /\ k < n /\ Promise!IntroFrames(song) = x
    BY ScoreCounts
  <1>2. CASE ~song.has_loop
    <2>1. n = x /\ Promise!LastFrame(song) = x - 1
      BY <1>2, ScoreCounts
    <2> QED
      BY <1>1, <1>2, <2>1 DEF Shown
  <1>3. CASE song.has_loop
    <2>1. m \in Nat \ {0} /\ Promise!LastFrame(song) = x + m - 1
      BY <1>3, ScoreCounts
    <2>2. \A j : Shown(j) = IF j >= x THEN x + ((j - x) % m) ELSE j
      BY <1>3 DEF Shown
    <2> HIDE DEF n, x, m
    <2>3. CASE k + 1 < x
      BY <1>1, <1>3, <2>1, <2>2, <2>3
    <2>4. CASE k + 1 = x
      <3>1. 0 % m = 0
        BY <2>1
      <3>2. Shown(k) = k /\ Shown(k + 1) = x
        BY <1>1, <2>2, <2>4, <3>1
      <3> QED
        BY <1>1, <1>3, <2>1, <2>4, <3>2
    <2>5. CASE k >= x
      <3>1. PICK a \in Nat : a = k - x
        BY <1>1, <2>5
      <3>2. a % m \in 0 .. m - 1 /\ (a + 1) % m = IF a % m = m - 1 THEN 0 ELSE (a % m) + 1
        BY <2>1, NextRest
      <3>3. Shown(k) = x + (a % m)
        BY <2>2, <2>5, <3>1
      <3>4. k + 1 - x = a + 1 /\ k + 1 >= x
        BY <1>1, <2>5, <3>1
      <3>5. Shown(k + 1) = x + ((a + 1) % m)
        <4>1. PICK j : j = k + 1
          OBVIOUS
        <4>2. PICK d : d = j - x
          OBVIOUS
        <4>3. Shown(j) = x + (d % m)
          BY <2>2, <3>4, <4>1, <4>2
        <4>4. d = a + 1
          BY <1>1, <3>1, <4>1, <4>2
        <4> QED
          BY <4>1, <4>3, <4>4
      <3>6. PICK r \in 0 .. m - 1 : r = a % m
        BY <3>2
      <3> QED
        BY <1>1, <1>3, <2>1, <3>2, <3>3, <3>5, <3>6
    <2> QED
      BY <1>1, <2>3, <2>4, <2>5
  <1> QED
    BY <1>2, <1>3

(* At the end of a looping song the frame of the loop point comes next.    *)
LEMMA ShownAtEnd ==
  ASSUME ConvertInv, step = "done"
  PROVE  /\ song.has_loop => Shown(converted.frame_count) = Shown(LoopMark)
         /\ ~song.has_loop => Shown(converted.frame_count) = Promise!LastFrame(song) + 1
         /\ Shown(0) = 0
  <1> DEFINE n == converted.frame_count
             x == frame_count["intro"]
             m == converted.loop_frame_count
  <1>1. x \in Nat /\ n \in Nat
    BY ScoreCounts
  <1>2. CASE ~song.has_loop
    <2>1. n = x /\ Promise!LastFrame(song) = x - 1
      BY <1>2, ScoreCounts
    <2> QED
      BY <1>1, <1>2, <2>1 DEF Shown
  <1>3. CASE song.has_loop
    <2>1. m \in Nat \ {0} /\ LoopMark \in {x, x + m} /\ n = LoopMark + m
      BY <1>3, ScoreCounts
    <2>2. \A j : Shown(j) = IF j >= x THEN x + ((j - x) % m) ELSE j
      BY <1>3 DEF Shown
    <2> HIDE DEF n, x, m
    <2>3. 0 % m = 0 /\ m % m = 0 /\ (m + m) % m = 0
      <3>1. 0 % m = 0
        BY <2>1
      <3>2. \A a \in Nat : a % m = 0 => (a + m) % m = 0
        <4> SUFFICES ASSUME NEW a \in Nat, a % m = 0 PROVE (a + m) % m = 0
          OBVIOUS
        <4>1. PICK q \in Nat : a = q * m
          <5>1. a \div m \in Nat /\ a = (a \div m) * m + (a % m)
            BY <2>1, DivMod
          <5>2. PICK q \in Nat : q = a \div m
            BY <5>1
          <5> QED
            BY <2>1, <5>1, <5>2
        <4>2. a + m \in Nat
          BY <2>1
        <4>3. PICK p \in Nat, t \in 0 .. m - 1 : t = (a + m) % m /\ a + m = p * m + t
          <5>1. PICK c \in Nat : c = a + m
            BY <4>2
          <5>2. c \div m \in Nat /\ c % m \in 0 .. m - 1 /\ c = (c \div m) * m + (c % m)
            BY <2>1, DivMod
          <5> QED
            BY <5>1, <5>2
        <4>4. (q + 1 - p) * m = t
          BY <2>1, <4>1, <4>3
        <4>5. q + 1 - p <= 0
          <5> SUFFICES ASSUME q + 1 - p >= 1 PROVE FALSE
            OBVIOUS
          <5>1. (q + 1 - p) * m >= m
            BY <2>1
          <5> QED
            BY <2>1, <4>3, <4>4, <5>1
        <4>6. q + 1 - p >= 0
          <5> SUFFICES ASSUME q + 1 - p <= -1 PROVE FALSE
            OBVIOUS
          <5>1. (q + 1 - p) * m < 0
            BY <2>1
          <5> QED
            BY <2>1, <4>3, <4>4, <5>1
        <4>7. q + 1 - p = 0
          BY <4>5, <4>6
        <4> QED
          BY <2>1, <4>3, <4>4, <4>7
      <3>3. m \in Nat /\ 0 + m = m
        BY <2>1
      <3> QED
        BY <3>1, <3>2, <3>3
    <2>4. ASSUME NEW j \in Nat, NEW a \in Nat, j = x + a, a % m = 0
          PROVE  Shown(j) = x
      <3>1. j >= x /\ j - x = a
        BY <1>1, <2>4
      <3>2. PICK d : d = j - x
        OBVIOUS
      <3>3. Shown(j) = x + (d % m)
        BY <2>2, <3>1, <3>2
      <3>4. d = a
        BY <3>1, <3>2
      <3> QED
        BY <1>1, <2>4, <3>3, <3>4
    <2>5. Shown(x) = x /\ Shown(x + m) = x /\ Shown(x + m + m) = x
      <3>1. PICK j \in Nat, k \in Nat, mm \in Nat : j = x + m /\ k = x + m + m /\ mm = m + m
        BY <1>1, <2>1
      <3>2. k = x + mm /\ mm % m = 0 /\ m \in Nat /\ x = x + 0 /\ 0 \in Nat
        BY <1>1, <2>1, <2>3, <3>1
      <3> QED
        BY <1>1, <2>3, <2>4, <3>1, <3>2
    <2>6. Shown(0) = 0
      <3>1. CASE x = 0
        BY <2>2, <2>3, <3>1
      <3>2. CASE x # 0
        BY <1>1, <2>2, <3>2
      <3> QED
        BY <3>1, <3>2
    <2>7. Shown(n) = Shown(LoopMark)
      <3>1. CASE LoopMark = x
        BY <2>1, <2>5, <3>1
      <3>2. CASE LoopMark = x + m
        BY <2>1, <2>5, <3>2
      <3> QED
        BY <2>1, <3>1, <3>2
    <2> QED
      BY <1>3, <2>6, <2>7 DEF n
  <1> QED
    BY <1>2, <1>3

(* Score.tla's chip is the player's.                                       *)
LEMMA ScoreChip ==
  /\ Promise!PowerOn = PowerOn
  /\ Promise!Chip = Chip
  /\ \A c, w : Promise!Hears(c, w) = Hears(c, w)
  <1>1. Promise!Chip = Chip
    BY DEF Promise!Chip, Chip, Promise!Byte, Byte, Promise!FmCommit, FmCommit,
           Promise!FmLow, FmLow, Promise!Fm3Low, Fm3Low, Promise!Untuned, Untuned,
           Promise!Channel, Channel
  <1>2. Promise!PowerOn = PowerOn
    BY DEF Promise!PowerOn, PowerOn, Promise!FmCommit, FmCommit,
           Promise!FmLow, FmLow, Promise!Fm3Low, Fm3Low, Promise!Untuned, Untuned,
           Promise!Channel, Channel
  <1>3. \A c, w : Promise!Hears(c, w) = Hears(c, w)
    BY DEF Promise!Hears, Hears, Promise!LastValue, LastValue,
           Promise!WritesTo, WritesTo, Promise!Tuned, Tuned,
           Promise!KeyWrites, KeyWrites, Promise!LatchAt, LatchAt,
           Promise!LastOf, LastOf, Promise!KeyOnOff, KeyOnOff,
           Promise!FmHigh, FmHigh, Promise!Fm3High, Fm3High,
           Promise!FmCommit, FmCommit,
           Promise!FmLow, FmLow, Promise!Fm3Low, Fm3Low, Promise!Channel, Channel
  <1> QED
    BY <1>1, <1>2, <1>3

(* A record played is a frame of the score.                                *)
LEMMA RecordIsBatch ==
  ASSUME PlaybackInv, running = "yes", ~state.FINISHED, UNCHANGED convertVars,
         NEW b, SongMarks(b), NEW k, k \in 0 .. converted.frame_count - 1,
         NEW address, address = DecodedAt + b[k], TargetPlayer!PlayRecord(address),
         NextFrame = Shown(k), ideal' = Hears(ideal, Promise!Batch(song, NextFrame))
  PROVE  Promise!PlayBatch
  <1>1. ConvertInv /\ step = "done"
    BY DEF PlaybackInv, PlayingInv
  <1>2. /\ k + 1 \in 0 .. converted.frame_count
        /\ state'.STREAM = DecodedAt + b[k + 1] /\ state'.FINISHED = FALSE
    BY RecordKeeps
  <1>3. running' # "no"
    BY DEF TargetPlayer!PlayRecord, TargetPlayer!AfterFrame
  <1>4. NextFrame' = Shown(k + 1)
    BY <1>1, <1>2, <1>3, NextFrameShown
  <1>5. /\ Shown(k) <= Promise!LastFrame(song)
        /\ Shown(k + 1) = IF Shown(k) = Promise!LastFrame(song) /\ song.has_loop
                          THEN Promise!IntroFrames(song) ELSE Shown(k) + 1
    BY <1>1, ShownNext
  <1>6. state'.FINISHED = state.FINISHED
    <2>1. state.FINISHED \in BOOLEAN
      BY DEF PlaybackInv, TargetPlayer!PlayerTypes
    <2> QED
      BY <1>2, <2>1
  <1>7. song' = song /\ ideal' = Promise!Hears(ideal, Promise!Batch(song, NextFrame))
    BY ScoreChip DEF convertVars
  <1> QED
    BY <1>4, <1>5, <1>6, <1>7 DEF Promise!PlayBatch

(* Either way a record is played, it is the score's next frame.            *)
LEMMA PlayIsBatch ==
  ASSUME PlaybackInv, PlayRecord
  PROVE  Promise!PlayBatch
  <1>1. /\ UNCHANGED convertVars /\ running = "yes" /\ ~state.FINISHED
        /\ ideal' = Hears(ideal, Promise!Batch(song, NextFrame))
    BY DEF PlayRecord, TargetPlayer!PlayNext, TargetPlayer!PlayLoop
  <1>2. ConvertInv /\ step = "done"
    BY <1>1 DEF PlaybackInv, PlayingInv
  <1>3. PICK b, k :
           /\ AtMark(b, k)
           /\ TargetPlayer!AtEnd(state) <=> k = converted.frame_count
           /\ song.has_loop /\ state.LOOP # 0 =>
                /\ LoopMark \in 0 .. converted.frame_count - 1
                /\ state.LOOP = DecodedAt + b[LoopMark]
           /\ song.has_loop <=> state.LOOP # 0
    BY <1>1, PlayerIsAt
  <1>4. SongMarks(b) /\ k \in 0 .. converted.frame_count /\ state.STREAM = DecodedAt + b[k]
        /\ converted.frame_count \in Nat
    BY <1>3 DEF AtMark, PlaybackInv, ConvertInv, TypesHold, Result
  <1>5. NextFrame = Shown(k)
    BY <1>1, <1>2, <1>4, NextFrameShown
  <1>6. CASE TargetPlayer!PlayNext
    <2>1. ~TargetPlayer!AtEnd(state) /\ TargetPlayer!PlayRecord(state.STREAM)
      BY <1>6 DEF TargetPlayer!PlayNext
    <2>2. k \in 0 .. converted.frame_count - 1
      BY <1>3, <1>4, <2>1
    <2> QED
      BY <1>1, <1>4, <1>5, <2>1, <2>2, RecordIsBatch
  <1>7. CASE TargetPlayer!PlayLoop
    <2>1. state.LOOP # 0 /\ TargetPlayer!PlayRecord(state.LOOP) /\ TargetPlayer!AtEnd(state)
      BY <1>7 DEF TargetPlayer!PlayLoop
    <2>2. NextFrame = Shown(LoopMark)
      BY <1>2, <1>3, <1>5, <2>1, ShownAtEnd
    <2> QED
      BY <1>1, <1>3, <1>4, <2>1, <2>2, RecordIsBatch
  <1> QED
    BY <1>6, <1>7 DEF PlayRecord

(* The player's last writes are the score's silence.                       *)
LEMMA FinishIsSilence ==
  ASSUME PlaybackInv, Finish
  PROVE  Promise!FallSilent
  <1>1. /\ UNCHANGED convertVars /\ running = "yes" /\ ~state.FINISHED
        /\ TargetPlayer!AtEnd(state) /\ state.LOOP = 0
        /\ TargetPlayer!AfterFrame([state EXCEPT !.FINISHED = TRUE])
        /\ ideal' = Hears(ideal, TargetPlayer!SilenceWrites)
    BY DEF Finish, TargetPlayer!Finish
  <1>2. ConvertInv /\ step = "done"
    BY <1>1 DEF PlaybackInv, PlayingInv
  <1>3. PICK b, k : /\ AtMark(b, k)
                    /\ TargetPlayer!AtEnd(state) <=> k = converted.frame_count
                    /\ song.has_loop <=> state.LOOP # 0
    BY <1>1, PlayerIsAt
  <1>4. SongMarks(b) /\ k \in 0 .. converted.frame_count /\ state.STREAM = DecodedAt + b[k]
    BY <1>3 DEF AtMark
  <1>5. state \in State
    BY DEF PlaybackInv, TargetPlayer!PlayerTypes, State
  <1>6. state'.STREAM = state.STREAM /\ state'.FINISHED = TRUE /\ running' # "no"
    BY <1>1, <1>5 DEF TargetPlayer!AfterFrame, State
  <1>7. NextFrame = Shown(k) /\ NextFrame' = Shown(k)
    BY <1>1, <1>2, <1>4, <1>6, NextFrameShown
  <1>8. Shown(k) = Promise!LastFrame(song) + 1
    BY <1>1, <1>2, <1>3, ShownAtEnd
  <1>9. Promise!LastFrame(song) \in Int
    <2>1. ~song.has_loop
      BY <1>1, <1>3
    <2> QED
      BY <1>2, <2>1, ScoreCounts
  <1>10. song' = song /\ ideal' = Promise!Hears(ideal, TargetPlayer!SilenceWrites)
    BY <1>1, ScoreChip DEF convertVars
  <1> QED
    BY <1>1, <1>6, <1>7, <1>8, <1>9, <1>10 DEF Promise!FallSilent

(* The host's steps, the player's start and its frames after the end are   *)
(* none of the score's.                                                    *)
LEMMA RestIsStutter ==
  ASSUME PlaybackInv, Convert \/ Begin \/ StayFinished \/ UNCHANGED vars
  PROVE  UNCHANGED Promise!scoreVars
  <1>1. CASE Convert
    <2>1. running = "no" /\ running' = "no" /\ UNCHANGED <<state, ideal>> /\ Next
      BY <1>1, ConvertIsOver DEF Convert, PlaybackInv, PlayingInv
    <2>2. song' = song
      BY <2>1 DEF Next, BeginSegment, ConvertWrite, BeginAppend, AppendFrame, TooManyWrites,
                  SkipIntro, EndSegment, JoinLoop, OutOfMemory, Fail
    <2>3. NextFrame = 0 /\ NextFrame' = 0
      BY <2>1 DEF NextFrame
    <2> QED
      BY <2>1, <2>2, <2>3 DEF Promise!scoreVars
  <1>2. CASE Begin
    <2>1. /\ step = "done" /\ running = "no" /\ running' = "yes" /\ UNCHANGED convertVars
          /\ state'.STREAM = DecodedAt /\ state'.FINISHED = FALSE /\ ideal' = ideal
      BY <1>2 DEF Begin, TargetPlayer!Start
    <2>2. ConvertInv /\ state.FINISHED = FALSE
      BY <2>1 DEF PlaybackInv, TargetPlayer!Blank
    <2>3. PICK b : SongMarks(b)
      BY <2>1, <2>2, SongIsMarked
    <2>4. 0 \in 0 .. converted.frame_count /\ b[0] = 0
      <3>1. converted.frame_count \in Nat
        BY <2>1, <2>2, ScoreCounts
      <3> QED
        BY <2>3, <3>1 DEF SongMarks, Marks
    <2>5. state'.STREAM = DecodedAt + b[0]
      BY <2>1, <2>4 DEF DecodedAt
    <2>6. NextFrame' = Shown(0) /\ Shown(0) = 0
      BY <2>1, <2>2, <2>3, <2>4, <2>5, NextFrameShown, ShownAtEnd
    <2>7. NextFrame = 0 /\ song' = song
      BY <2>1 DEF NextFrame, convertVars
    <2> QED
      BY <2>1, <2>2, <2>6, <2>7 DEF Promise!scoreVars
  <1>3. CASE StayFinished
    <2>1. /\ UNCHANGED convertVars /\ running = "yes" /\ ideal' = ideal
          /\ TargetPlayer!AfterFrame(state)
      BY <1>3 DEF StayFinished, TargetPlayer!StayFinished
    <2>2. state \in State
      BY DEF PlaybackInv, TargetPlayer!PlayerTypes, State
    <2>3. /\ state'.STREAM = state.STREAM /\ state'.FINISHED = state.FINISHED
          /\ running' # "no"
      BY <2>1, <2>2 DEF TargetPlayer!AfterFrame, State
    <2>4. converted' = converted /\ song' = song /\ frame_count' = frame_count
      BY <2>1 DEF convertVars
    <2>5. NextFrame' = NextFrame
      BY <2>1, <2>3, <2>4 DEF NextFrame
    <2> QED
      BY <2>1, <2>3, <2>4, <2>5 DEF Promise!scoreVars
  <1>4. CASE UNCHANGED vars
    <2>1. UNCHANGED <<song, converted, frame_count, running, state, ideal>>
      BY <1>4 DEF vars, convertVars
    <2>2. NextFrame' = NextFrame
      BY <2>1 DEF NextFrame
    <2> QED
      BY <2>1, <2>2 DEF Promise!scoreVars
  <1> QED
    BY <1>1, <1>2, <1>3, <1>4

(* Conversion and player together keep to the score: each frame of the     *)
(* player plays the next frame of the song, in order, then the frame of    *)
(* the loop point, for ever, or falls silent once.                         *)
THEOREM ScoreIsKept == PlaybackSpec => KeepsToScore
  <1>1. PlaybackInit => Promise!ScoreInit
    <2>1. PlaybackInit => state.FINISHED = FALSE
      BY DEF PlaybackInit, TargetPlayer!PlayerInit, TargetPlayer!Blank
    <2>2. PlaybackInit => NextFrame = 0
      BY DEF PlaybackInit, TargetPlayer!PlayerInit, NextFrame
    <2>3. PlaybackInit => ideal = Promise!Hears(Promise!PowerOn, TargetPlayer!ResetWrites)
      BY ScoreChip DEF PlaybackInit
    <2> QED
      BY <2>1, <2>2, <2>3 DEF Promise!ScoreInit
  <1>2. PlaybackInv /\ [PlaybackNext]_vars
          => [Promise!PlayBatch \/ Promise!FallSilent]_Promise!scoreVars
    <2> SUFFICES ASSUME PlaybackInv, [PlaybackNext]_vars
                 PROVE  \/ Promise!PlayBatch \/ Promise!FallSilent
                        \/ UNCHANGED Promise!scoreVars
      BY DEF Promise!scoreVars
    <2> QED
      BY PlayIsBatch, FinishIsSilence, RestIsStutter DEF PlaybackNext
  <1> QED
    BY <1>1, <1>2, PlaybackInvariance, PTL DEF PlaybackSpec, KeepsToScore, Promise!ScoreSpec

-----------------------------------------------------------------------------
(* What a chip hears of a list of writes, it hears of its parts in turn.   *)

(* Positions in a list, and in the two it is made of.                      *)
OneBehind(W, A, B, n, m) ==
  /\ n \in Nat /\ m \in Nat
  /\ A \subseteq 1 .. n /\ B \subseteq 1 .. m /\ W \subseteq 1 .. n + m
  /\ \A k \in 1 .. n : k \in W <=> k \in A
  /\ \A k \in Nat : k > n => (k \in W <=> k - n \in B)

(* The last of two sets of places one behind the other.                    *)
LEMMA LastOfBehind ==
  ASSUME NEW n, NEW m, NEW A, NEW B, NEW W, OneBehind(W, A, B, n, m)
  PROVE  /\ B = {} => W = A
         /\ B # {} => W # {} /\ LastOf(W) = n + LastOf(B) /\ LastOf(B) \in B
         /\ A # {} => LastOf(A) \in A
  <1>0. /\ n \in Nat /\ m \in Nat
        /\ A \subseteq 1 .. n /\ B \subseteq 1 .. m /\ W \subseteq 1 .. n + m
    BY DEF OneBehind
  <1>1. ASSUME B = {}
        PROVE  W = A
    <2>1. \A k \in W : k \in 1 .. n
      BY <1>0, <1>1 DEF OneBehind
    <2> QED
      BY <1>0, <2>1 DEF OneBehind
  <1>2. ASSUME B # {}
        PROVE  W # {} /\ LastOf(W) = n + LastOf(B) /\ LastOf(B) \in B
    <2>1. PICK b \in 1 .. m : b = LastOf(B) /\ b \in B /\ \A j \in B : j <= b
      BY <1>0, <1>2, LastOfIsLast
    <2>0. PICK w : w = n + b
      OBVIOUS
    <2>2. w \in Nat /\ w = n + b /\ w > n /\ w - n = b
      BY <1>0, <2>0
    <2>3. w \in W
      BY <1>0, <2>1, <2>2 DEF OneBehind
    <2>4. ASSUME NEW j \in W PROVE j <= w
      <3>1. CASE j \in 1 .. n
        BY <1>0, <2>2, <3>1
      <3>2. CASE j \notin 1 .. n
        <4>1. j \in Nat /\ j > n /\ j - n \in Int
          BY <1>0, <3>2
        <4>2. j - n \in B
          BY <1>0, <4>1 DEF OneBehind
        <4>3. j - n <= b
          BY <2>1, <4>2
        <4> QED
          BY <1>0, <2>2, <4>1, <4>3
      <3> QED
        BY <3>1, <3>2
    <2>5. LastOf(W) \in W /\ \A j \in W : j <= LastOf(W)
      <3>1. W # {} /\ n + m \in Nat
        BY <1>0, <2>3
      <3>2. PICK x \in Nat : x = n + m /\ W \subseteq 1 .. x
        BY <1>0, <3>1
      <3> QED
        BY <3>1, <3>2, LastOfIsLast
    <2>6. LastOf(W) = w
      <3>1. LastOf(W) <= w /\ w <= LastOf(W)
        BY <2>3, <2>4, <2>5
      <3>0. LastOf(W) \in W
        BY <2>3, <2>5
      <3>4. \A z \in W : z \in Int
        BY <1>0
      <3>2. PICK z \in Int : z = LastOf(W)
        BY <3>0, <3>4
      <3>3. z <= w /\ w <= z
        BY <3>1, <3>2
      <3> QED
        BY <2>2, <3>2, <3>3
    <2> QED
      BY <2>1, <2>2, <2>3, <2>6
  <1>3. ASSUME A # {}
        PROVE  LastOf(A) \in A
    BY <1>0, <1>3, LastOfIsLast
  <1> QED
    BY <1>1, <1>2, <1>3

(* w is a and, behind it, b.                                               *)
TwoParts(w, a, b) ==
  /\ a \in Seq(Pair) /\ b \in Seq(Pair) /\ w \in Seq(Pair)
  /\ Len(w) = Len(a) + Len(b)
  /\ \A k \in 1 .. Len(a) : w[k] = a[k]
  /\ \A k \in 1 .. Len(b) : w[Len(a) + k] = b[k]

(* Two sequences joined are the one and then the other.                    *)
LEMMA JoinHasTwoParts ==
  ASSUME NEW a \in Seq(Pair), NEW b \in Seq(Pair), NEW w, Joins(w, a, b)
  PROVE  TwoParts(w, a, b)
  <1>1. w = a \o b
    BY DEF Joins
  <1>2. /\ w \in Seq(Pair) /\ Len(w) = Len(a) + Len(b)
        /\ \A k \in 1 .. Len(a) + Len(b) : w[k] = IF k <= Len(a) THEN a[k] ELSE b[k - Len(a)]
    BY <1>1, ConcatProperties
  <1>3. ASSUME NEW k \in 1 .. Len(a) PROVE w[k] = a[k]
    <2>1. k \in 1 .. Len(a) + Len(b) /\ k <= Len(a)
      OBVIOUS
    <2> QED
      BY <1>2, <2>1
  <1>4. ASSUME NEW k \in 1 .. Len(b) PROVE w[Len(a) + k] = b[k]
    <2>1. PICK j : j = Len(a) + k
      OBVIOUS
    <2>2. j \in 1 .. Len(a) + Len(b) /\ ~(j <= Len(a)) /\ j - Len(a) = k
      BY <2>1
    <2> QED
      BY <1>2, <2>1, <2>2
  <1> QED
    BY <1>2, <1>3, <1>4 DEF TwoParts

(* The value that counts after both parts is the second's, or where it has *)
(* none the first's.                                                       *)
LEMMA ValueBehind ==
  ASSUME NEW a, NEW b, NEW w, TwoParts(w, a, b), NEW A, NEW B, NEW W, NEW n, NEW m,
         OneBehind(W, A, B, n, m), n = Len(a), m = Len(b), NEW o
  PROVE  LastValue(w, W, o) = LastValue(b, B, LastValue(a, A, o))
  <1>1. /\ n \in Nat /\ m \in Nat /\ A \subseteq 1 .. n /\ B \subseteq 1 .. m
    BY DEF OneBehind
  <1>3. B = {} => W = A
    BY LastOfBehind
  <1>4. B # {} => W # {} /\ LastOf(W) = n + LastOf(B) /\ LastOf(B) \in B
    BY LastOfBehind
  <1>5. A # {} => LastOf(A) \in A
    BY LastOfBehind
  <1>6. CASE B = {}
    <2>1. A # {} => w[LastOf(A)] = a[LastOf(A)]
      BY <1>1, <1>5 DEF TwoParts
    <2> QED
      BY <1>3, <1>6, <2>1 DEF LastValue
  <1>7. CASE B # {}
    <2>1. w[n + LastOf(B)] = b[LastOf(B)]
      BY <1>1, <1>4, <1>7 DEF TwoParts
    <2> QED
      BY <1>4, <1>7, <2>1 DEF LastValue
  <1> QED
    BY <1>6, <1>7

(* The positions of the writes in G, in a list of two parts.               *)
WritesIn(x, G) == {k \in DOMAIN x : x[k] \in G}

(* The places of some writes are those of the first part and then those of *)
(* the second.                                                             *)
LEMMA WritesBehind ==
  ASSUME NEW a, NEW b, NEW w, TwoParts(w, a, b), NEW G
  PROVE  OneBehind(WritesIn(w, G), WritesIn(a, G), WritesIn(b, G), Len(a), Len(b))
  <1>1. PICK n \in Nat, m \in Nat : /\ n = Len(a) /\ m = Len(b)
        /\ DOMAIN a = 1 .. n /\ DOMAIN b = 1 .. m /\ DOMAIN w = 1 .. n + m
    BY DEF TwoParts
  <1>2. ASSUME NEW k \in 1 .. n
        PROVE  k \in WritesIn(w, G) <=> k \in WritesIn(a, G)
    <2>1. w[k] = a[k] /\ k \in 1 .. n + m
      BY <1>1 DEF TwoParts
    <2> QED
      BY <1>1, <2>1 DEF WritesIn
  <1>3. ASSUME NEW k \in Nat, k > n
        PROVE  k \in WritesIn(w, G) <=> k - n \in WritesIn(b, G)
    <2>1. PICK j \in Int : j = k - n
      BY <1>1
    <2>0. k = n + j
      BY <1>1, <2>1
    <2>2. k \in 1 .. n + m <=> j \in 1 .. m
      BY <1>1, <1>3, <2>0, <2>1
    <2>3. j \in 1 .. m => w[k] = b[j]
      BY <1>1, <2>0 DEF TwoParts
    <2> QED
      BY <1>1, <2>1, <2>2, <2>3 DEF WritesIn
  <1> QED
    BY <1>1, <1>2, <1>3 DEF OneBehind, WritesIn

(* So of the value the last of them gave.                                  *)
LEMMA LastBehind ==
  ASSUME NEW a, NEW b, NEW w, TwoParts(w, a, b), NEW G, NEW o
  PROVE  LastValue(w, WritesIn(w, G), o)
           = LastValue(b, WritesIn(b, G), LastValue(a, WritesIn(a, G), o))
  <1>1. PICK n, m : n = Len(a) /\ m = Len(b)
    OBVIOUS
  <1>2. OneBehind(WritesIn(w, G), WritesIn(a, G), WritesIn(b, G), n, m)
    BY <1>1, WritesBehind
  <1> QED
    BY <1>1, <1>2, ValueBehind

To(regs) == {p \in Pair : p[1] \in regs}
KeyOf(c) == {p \in Pair : p[1] \in {KeyOnOff} /\ p[2] % 4 = c}

(* The writes to some registers, and those of a channel's key, are such    *)
(* writes.                                                                 *)
LEMMA WritesToAre ==
  ASSUME NEW x \in Seq(Pair)
  PROVE  /\ \A regs : WritesTo(x, regs) = WritesIn(x, To(regs))
         /\ \A c : KeyWrites(x, c) = WritesIn(x, KeyOf(c))
  <1>1. \A k \in DOMAIN x : x[k] \in Pair
    BY ElementOfSeq
  <1>2. ASSUME NEW regs
        PROVE  WritesTo(x, regs) = WritesIn(x, To(regs))
    BY <1>1 DEF WritesTo, WritesIn, To
  <1>3. ASSUME NEW c
        PROVE  KeyWrites(x, c) = WritesIn(x, KeyOf(c))
    BY <1>1 DEF WritesTo, KeyWrites, WritesIn, KeyOf
  <1> QED
    BY <1>2, <1>3

(* What a register or a key is left at by both parts.                      *)
LEMMA ValueOfTwoParts ==
  ASSUME NEW a, NEW b, NEW w, TwoParts(w, a, b), NEW o
  PROVE  /\ \A regs : LastValue(w, WritesTo(w, regs), o)
                        = LastValue(b, WritesTo(b, regs), LastValue(a, WritesTo(a, regs), o))
         /\ \A c : LastValue(w, KeyWrites(w, c), o)
                     = LastValue(b, KeyWrites(b, c), LastValue(a, KeyWrites(a, c), o))
  <1>1. a \in Seq(Pair) /\ b \in Seq(Pair) /\ w \in Seq(Pair)
    BY DEF TwoParts
  <1>2. ASSUME NEW regs
        PROVE  LastValue(w, WritesTo(w, regs), o)
                 = LastValue(b, WritesTo(b, regs), LastValue(a, WritesTo(a, regs), o))
    <2>1. /\ WritesTo(w, regs) = WritesIn(w, To(regs))
          /\ WritesTo(a, regs) = WritesIn(a, To(regs))
          /\ WritesTo(b, regs) = WritesIn(b, To(regs))
      BY <1>1, WritesToAre
    <2> QED
      BY <2>1, LastBehind
  <1>3. ASSUME NEW c
        PROVE  LastValue(w, KeyWrites(w, c), o)
                 = LastValue(b, KeyWrites(b, c), LastValue(a, KeyWrites(a, c), o))
    <2>1. /\ KeyWrites(w, c) = WritesIn(w, KeyOf(c))
          /\ KeyWrites(a, c) = WritesIn(a, KeyOf(c))
          /\ KeyWrites(b, c) = WritesIn(b, KeyOf(c))
      BY <1>1, WritesToAre
    <2> QED
      BY <2>1, LastBehind
  <1> QED
    BY <1>2, <1>3

(* The last write that commits a pair, and the latch it commits, are the   *)
(* second list's if it commits the pair at all.                            *)
Until(x, regs, k) == {t \in WritesTo(x, regs) : t < k}

(* What a latch holds at a write of the second part.                       *)
LEMMA LatchBehind ==
  ASSUME NEW a, NEW b, NEW w, TwoParts(w, a, b), NEW n, n = Len(a),
         NEW regs, NEW k \in Nat \ {0}, NEW j, j = n + k, NEW o
  PROVE  LastValue(w, Until(w, regs, j), o)
           = LastValue(b, Until(b, regs, k), LastValue(a, WritesTo(a, regs), o))
  <1> DEFINE W == {t \in WritesTo(w, regs) : t < j}
             B == {t \in WritesTo(b, regs) : t < k}
             A == WritesTo(a, regs)
             G == To(regs)
  <1>1. PICK m : m = Len(b)
    OBVIOUS
  <1>2. a \in Seq(Pair) /\ b \in Seq(Pair) /\ w \in Seq(Pair)
    BY DEF TwoParts
  <1>3. /\ WritesTo(w, regs) = WritesIn(w, G)
        /\ A = WritesIn(a, G)
        /\ WritesTo(b, regs) = WritesIn(b, G)
    BY <1>2, WritesToAre
  <1>4. OneBehind(WritesIn(w, G), WritesIn(a, G), WritesIn(b, G), n, m)
    BY <1>1, WritesBehind
  <1> HIDE DEF G
  <1>5. OneBehind(WritesTo(w, regs), A, WritesTo(b, regs), n, m)
    BY <1>3, <1>4
  <1> HIDE DEF A
  <1>6. OneBehind(W, A, B, n, m)
    <2>1. /\ n \in Nat /\ m \in Nat
          /\ A \subseteq 1 .. n /\ B \subseteq 1 .. m /\ W \subseteq 1 .. n + m
      BY <1>5 DEF OneBehind
    <2>2. ASSUME NEW t \in 1 .. n
          PROVE  t \in W <=> t \in A
      <3>1. t < j
        BY <2>1
      <3> QED
        BY <1>5, <3>1 DEF OneBehind
    <2>3. ASSUME NEW t \in Nat, t > n
          PROVE  t \in W <=> t - n \in B
      <3>1. t < j <=> t - n < k
        BY <2>1
      <3> QED
        BY <1>5, <2>3, <3>1 DEF OneBehind
    <2> QED
      BY <2>1, <2>2, <2>3 DEF OneBehind
  <1> HIDE DEF W, B
  <1>7. LastValue(w, W, o) = LastValue(b, B, LastValue(a, A, o))
    BY <1>1, <1>6, ValueBehind
  <1> QED
    BY <1>7 DEF W, B, A, Until

(* What has been heard is a chip.                                          *)
LEMMA LastIsByte ==
  ASSUME NEW w \in Seq(Pair), NEW K, K \subseteq DOMAIN w, NEW o \in Byte
  PROVE  LastValue(w, K, o) \in Byte
  <1>1. CASE K = {}
    BY <1>1 DEF LastValue
  <1>2. CASE K # {}
    <2>1. Len(w) \in Nat /\ DOMAIN w = 1 .. Len(w)
      OBVIOUS
    <2>2. PICK m \in Nat : m = Len(w)
      BY <2>1
    <2>3. PICK k \in DOMAIN w : k = LastOf(K)
      <3>1. K \subseteq 1 .. m
        BY <2>1, <2>2
      <3> QED
        BY <1>2, <3>1, LastOfIsLast
    <2>4. w[k] \in Pair
      BY <2>3, ElementOfSeq
    <2> QED
      BY <1>2, <2>3, <2>4 DEF LastValue, Pair, Byte
  <1> QED
    BY <1>1, <1>2

(* A pair committed by the two lists is the one committed by the second,   *)
(* of the latch the first one left.                                        *)
LEMMA TunedJoins ==
  ASSUME NEW h \in Chip, NEW a, NEW b, NEW w, TwoParts(w, a, b), NEW g, g = Hears(h, a),
         NEW l \in FmCommit
  PROVE  Tuned(h, w, l) = Tuned(g, b, l)
  <1> DEFINE W == WritesTo(w, {l})
             A == WritesTo(a, {l})
             B == WritesTo(b, {l})
  <1>1. a \in Seq(Pair) /\ b \in Seq(Pair) /\ w \in Seq(Pair)
    BY DEF TwoParts
  <1>2. PICK n, m : n = Len(a) /\ m = Len(b)
    OBVIOUS
  <1>3. OneBehind(W, A, B, n, m)
    <2>1. /\ W = WritesIn(w, To({l}))
          /\ A = WritesIn(a, To({l}))
          /\ B = WritesIn(b, To({l}))
      BY <1>1, WritesToAre
    <2>2. OneBehind(WritesIn(w, To({l})), WritesIn(a, To({l})), WritesIn(b, To({l})), n, m)
      BY <1>2, WritesBehind
    <2> QED
      BY <2>1, <2>2
  <1>4. /\ g.fm[l] = Tuned(h, a, l)
        /\ g.high = LastValue(a, WritesTo(a, FmHigh), h.high)
        /\ g.high3 = LastValue(a, WritesTo(a, Fm3High), h.high3)
    BY DEF Hears
  <1>5. /\ n \in Nat /\ m \in Nat /\ A \subseteq 1 .. n /\ B \subseteq 1 .. m
        /\ \A k \in 1 .. n : k \in W <=> k \in A
    BY <1>3 DEF OneBehind
  <1> HIDE DEF W, A, B
  <1>6. CASE B = {}
    <2>1. W = A
      BY <1>3, <1>6, LastOfBehind
    <2>2. Tuned(g, b, l) = Tuned(h, a, l)
      BY <1>4, <1>6 DEF Tuned, B
    <2>3. CASE A = {}
      BY <2>1, <2>2, <2>3 DEF Tuned, A, W
    <2>4. CASE A # {}
      <3>1. PICK k \in 1 .. n : k = LastOf(A) /\ k \in A
        BY <1>5, <2>4, LastOfIsLast
      <3>2. w[k] = a[k]
        BY <1>2, <3>1 DEF TwoParts
      <3>3. ASSUME NEW regs
            PROVE  {j \in WritesTo(w, regs) : j < k} = {j \in WritesTo(a, regs) : j < k}
        <4>1. /\ WritesTo(w, regs) = WritesIn(w, To(regs))
              /\ WritesTo(a, regs) = WritesIn(a, To(regs))
          BY <1>1, WritesToAre
        <4>2. OneBehind(WritesIn(w, To(regs)), WritesIn(a, To(regs)), WritesIn(b, To(regs)), n, m)
          BY <1>2, WritesBehind
        <4>3. /\ \A j \in 1 .. n : j \in WritesTo(w, regs) <=> j \in WritesTo(a, regs)
              /\ WritesTo(w, regs) \subseteq 1 .. n + m
              /\ WritesTo(a, regs) \subseteq 1 .. n
          BY <4>1, <4>2 DEF OneBehind
        <4> QED
          BY <1>5, <3>1, <4>3
      <3>4. ASSUME NEW regs, NEW o
            PROVE  LastValue(w, {j \in WritesTo(w, regs) : j < k}, o)
                     = LastValue(a, {j \in WritesTo(a, regs) : j < k}, o)
        <4>1. PICK K : /\ K = {j \in WritesTo(a, regs) : j < k}
                       /\ K = {j \in WritesTo(w, regs) : j < k}
          BY <3>3
        <4>2. K \subseteq 1 .. n
          BY <1>1, <1>2, <4>1 DEF WritesTo
        <4>3. K # {} => LastOf(K) \in 1 .. n
          BY <1>5, <4>2, LastOfIsLast
        <4>4. K # {} => w[LastOf(K)] = a[LastOf(K)]
          BY <1>2, <4>3 DEF TwoParts
        <4> QED
          BY <4>1, <4>4 DEF LastValue
      <3>5. LatchAt(h, w, l, k) = LatchAt(h, a, l, k)
        BY <3>4 DEF LatchAt
      <3>6. Tuned(h, a, l) = << LatchAt(h, a, l, k), a[k][2] >>
        BY <2>4, <3>1 DEF Tuned, A
      <3>7. Tuned(h, w, l) = << LatchAt(h, w, l, k), w[k][2] >>
        BY <2>1, <2>4, <3>1 DEF Tuned, W
      <3> QED
        BY <2>2, <3>2, <3>5, <3>6, <3>7
    <2> QED
      BY <2>3, <2>4
  <1>7. CASE B # {}
    <2>1. W # {} /\ LastOf(W) = n + LastOf(B) /\ LastOf(B) \in B
      BY <1>3, <1>7, LastOfBehind
    <2>2. PICK k \in 1 .. m : k = LastOf(B)
      BY <1>5, <2>1
    <2>3. PICK j : j = n + k /\ j = LastOf(W)
      BY <2>1, <2>2
    <2>4. w[j] = b[k]
      BY <1>2, <2>2, <2>3 DEF TwoParts
    <2>5. k \in Nat \ {0}
      BY <1>5, <2>2
    <2>6. LastValue(w, Until(w, FmHigh, j), h.high) = LastValue(b, Until(b, FmHigh, k), g.high)
      <3>1. LastValue(w, Until(w, FmHigh, j), h.high)
              = LastValue(b, Until(b, FmHigh, k), LastValue(a, WritesTo(a, FmHigh), h.high))
        BY <1>1, <1>2, <2>3, <2>5, LatchBehind
      <3> QED
        BY <1>4, <3>1
    <2>10. LastValue(w, Until(w, Fm3High, j), h.high3) = LastValue(b, Until(b, Fm3High, k), g.high3)
      <3>1. LastValue(w, Until(w, Fm3High, j), h.high3)
              = LastValue(b, Until(b, Fm3High, k), LastValue(a, WritesTo(a, Fm3High), h.high3))
        BY <1>1, <1>2, <2>3, <2>5, LatchBehind
      <3> QED
        BY <1>4, <3>1
    <2>7. LatchAt(h, w, l, j) = LatchAt(g, b, l, k)
      BY <2>6, <2>10 DEF LatchAt, Until
    <2>8. Tuned(h, w, l) = << LatchAt(h, w, l, j), w[j][2] >>
      BY <2>1, <2>3 DEF Tuned, W
    <2>9. Tuned(g, b, l) = << LatchAt(g, b, l, k), b[k][2] >>
      BY <1>7, <2>2 DEF Tuned, B
    <2> QED
      BY <2>4, <2>7, <2>8, <2>9
  <1> QED
    BY <1>6, <1>7

(* To hear two batches joined is to hear the one and then the other.       *)
LEMMA HearsJoin ==
  ASSUME NEW h \in Chip, NEW a \in Seq(Pair), NEW b \in Seq(Pair), NEW w, Joins(w, a, b)
  PROVE  Hears(h, w) = Hears(Hears(h, a), b)
  <1>1. TwoParts(w, a, b)
    BY JoinHasTwoParts
  <1>2. PICK g \in Chip : g = Hears(h, a)
    BY HearsIsChip
  <1>3. /\ g.regs = [r \in Reg |-> LastValue(a, WritesTo(a, {r}), h.regs[r])]
        /\ g.high = LastValue(a, WritesTo(a, FmHigh), h.high)
        /\ g.high3 = LastValue(a, WritesTo(a, Fm3High), h.high3)
        /\ g.key = [c \in Channel |-> LastValue(a, KeyWrites(a, c), h.key[c] * 16) \div 16]
    BY <1>2 DEF Hears
  <1>4. ASSUME NEW r \in Reg
        PROVE  LastValue(w, WritesTo(w, {r}), h.regs[r])
                 = LastValue(b, WritesTo(b, {r}), g.regs[r])
    <2>1. g.regs[r] = LastValue(a, WritesTo(a, {r}), h.regs[r])
      BY <1>3
    <2> QED
      BY <1>1, <2>1, ValueOfTwoParts
  <1>5. LastValue(w, WritesTo(w, FmHigh), h.high) = LastValue(b, WritesTo(b, FmHigh), g.high)
    BY <1>1, <1>3, ValueOfTwoParts
  <1>6. LastValue(w, WritesTo(w, Fm3High), h.high3) = LastValue(b, WritesTo(b, Fm3High), g.high3)
    BY <1>1, <1>3, ValueOfTwoParts
  <1>7. ASSUME NEW c \in Channel
        PROVE  LastValue(w, KeyWrites(w, c), h.key[c] * 16) \div 16
                 = LastValue(b, KeyWrites(b, c), g.key[c] * 16) \div 16
    <2>1. PICK v \in Byte : v = LastValue(a, KeyWrites(a, c), h.key[c] * 16)
      <3>4. PICK v \in 0 .. 15 : v = h.key[c]
        BY DEF Chip
      <3>6. v * 16 \in Byte
        BY DEF Byte
      <3>5. h.key[c] * 16 \in Byte
        BY <3>4, <3>6
      <3>1. h.key[c] * 16 \in Byte /\ KeyWrites(a, c) \subseteq DOMAIN a
        BY <3>5 DEF KeyWrites, WritesTo
      <3> QED
        BY <3>1, LastIsByte
    <2>2. g.key[c] = v \div 16
      BY <1>3, <2>1
    <2>3. LastValue(w, KeyWrites(w, c), h.key[c] * 16) = LastValue(b, KeyWrites(b, c), v)
      BY <1>1, <2>1, ValueOfTwoParts
    <2>4. CASE KeyWrites(b, c) = {}
      <3>1. ((v \div 16) * 16) \div 16 = v \div 16
        BY DEF Byte
      <3> QED
        BY <2>2, <2>3, <2>4, <3>1 DEF LastValue
    <2>5. CASE KeyWrites(b, c) # {}
      BY <2>3, <2>5 DEF LastValue
    <2> QED
      BY <2>4, <2>5
  <1>8. \A l \in FmCommit : Tuned(h, w, l) = Tuned(g, b, l)
    BY <1>1, <1>2, TunedJoins
  <1>9. Hears(h, w) = Hears(g, b)
    BY <1>4, <1>5, <1>6, <1>7, <1>8 DEF Hears
  <1> QED
    BY <1>2, <1>9

-----------------------------------------------------------------------------
(* What a converter carries from a chip at the source clock to one at the  *)
(* target clock: c before the writes, d after, sent what it made of them.  *)
Carries(c, d, written, sent) ==
  \A x, y : InTune(c, x, y) => InTune(d, Hears(x, written), Hears(y, sent))

(* No write changes nothing.                                               *)
LEMMA CarriesNothing ==
  ASSUME NEW c
  PROVE  Carries(c, c, <<>>, <<>>)
  <1> SUFFICES ASSUME NEW x, NEW y, InTune(c, x, y)
               PROVE  InTune(c, Hears(x, <<>>), Hears(y, <<>>))
    BY DEF Carries
  <1>1. x \in Chip /\ y \in Chip
    BY DEF InTune
  <1>2. Hears(x, <<>>) = x /\ Hears(y, <<>>) = y
    BY <1>1, HearsNone
  <1> QED
    BY <1>2

(* One more write, and what the converter made of it.                      *)
LEMMA CarriesMore ==
  ASSUME NEW c, NEW d, NEW u \in Seq(Pair), NEW v \in Seq(Pair), Carries(c, d, u, v),
         NEW reg \in Reg, NEW value \in Byte, NEW u2, u2 = Append(u, <<reg, value>>),
         NEW em, em = Emission(d, reg, value), em \in Seq(Pair), NEW v2, Joins(v2, v, em)
  PROVE  Carries(c, Converted(d, reg, value), u2, v2)
  <1> DEFINE w == << <<reg, value>> >>
  <1> SUFFICES ASSUME NEW x, NEW y, InTune(c, x, y)
               PROVE  InTune(Converted(d, reg, value), Hears(x, u2), Hears(y, v2))
    BY DEF Carries
  <1>1. x \in Chip /\ y \in Chip
    BY DEF InTune
  <1>2. PICK x2, y2 : x2 = Hears(x, u) /\ y2 = Hears(y, v)
    OBVIOUS
  <1>3. InTune(d, x2, y2)
    BY <1>2 DEF Carries
  <1>4. InTune(Converted(d, reg, value), Hears(x2, w), Hears(y2, em))
    BY <1>3, WriteStaysInTune
  <1>5. Hears(y, v2) = Hears(y2, em)
    BY <1>1, <1>2, HearsJoin
  <1>9. PICK e \in Pair : e = <<reg, value>>
    BY WriteIsPair DEF Write
  <1>6. w \in Seq(Pair)
    BY <1>9
  <1>7. Joins(u2, u, w)
    <2>1. Append(u, e) = u \o <<e>>
      BY AppendIsConcat
    <2> QED
      BY <1>9, <2>1 DEF Joins
  <1> HIDE DEF w
  <1>8. Hears(x, u2) = Hears(x2, w)
    BY <1>1, <1>2, <1>6, <1>7, HearsJoin
  <1> QED
    BY <1>4, <1>5, <1>8

(* The converter between the frames of a pass, when k writes are made: at  *)
(* carries every frame's writes of the song to what is sent of them.       *)
Untouched(s, seg, k, j) ==
  \A m \in Base(s, seg) + 1 .. Base(s, seg) + k : FrameOf(s, seg, m) < j

FrameCarried(s, seg, k, fr, at, j) ==
  Carries(at[j], at[j + 1], Picked(Pairs(s), Mine(s, seg, k, j, {})), fr[j])

Carried(s, seg, k, x, at, c) ==
  /\ at \in [Nat -> Converter]
  /\ at[0] = c
  /\ \A j \in Nat : at[j].source_clock = c.source_clock
                      /\ at[j].pitch_conversion = c.pitch_conversion
  /\ \A j \in 0 .. FrameTotal(s, seg) : Untouched(s, seg, k, j) => at[j] = x[1]
  /\ \A j \in 0 .. FrameTotal(s, seg) - 1 : Untouched(s, seg, k, j) => x[2][j] = <<>>
  /\ \A j \in 0 .. FrameTotal(s, seg) - 1 : FrameCarried(s, seg, k, x[2], at, j)

(* A frame no write is in yet.                                             *)
LEMMA UntouchedIsEmpty ==
  ASSUME NEW s, NEW seg, IsSegment(s, seg), NEW k, NEW j \in Nat, Untouched(s, seg, k, j)
  PROVE  Picked(Pairs(s), Mine(s, seg, k, j, {})) = <<>>
  <1>1. Mine(s, seg, k, j, {}) = {}
    BY DEF Mine, Untouched
  <1>2. Pairs(s) \in Seq(Pair)
    BY PairsOfSong
  <1> QED
    BY <1>1, <1>2, PickedNone

(* Before the first write of a pass no frame has been touched.             *)
LEMMA CarriedAtFirst ==
  ASSUME NEW s, NEW seg, IsSegment(s, seg), NEW c \in Converter, NEW f, IsPass(s, seg, c, f)
  PROVE  \E at : Carried(s, seg, 0, f[0], at, c)
  <1>1. PICK b \in Nat, total \in Nat : b = Base(s, seg) /\ total = FrameTotal(s, seg)
    BY SegmentSpan, FramesOfSegment
  <1>2. b + 1 .. b + 0 = {}
    OBVIOUS
  <1>3. \A j : Untouched(s, seg, 0, j)
    BY <1>1, <1>2 DEF Untouched
  <1>4. f[0][1] = c /\ \A j \in 0 .. FrameTotal(s, seg) - 1 : f[0][2][j] = <<>>
    BY PassBegun
  <1> DEFINE at == [j \in Nat |-> c]
  <1>5. at \in [Nat -> Converter] /\ \A j \in Nat : at[j] = c
    OBVIOUS
  <1> HIDE DEF at
  <1>6. ASSUME NEW j \in 0 .. FrameTotal(s, seg) - 1
        PROVE  FrameCarried(s, seg, 0, f[0][2], at, j)
    <2>1. j \in Nat /\ j + 1 \in Nat
      BY <1>1
    <2>2. at[j] = c /\ at[j + 1] = c
      BY <1>5, <2>1
    <2>3. Picked(Pairs(s), Mine(s, seg, 0, j, {})) = <<>>
      BY <1>3, <2>1, UntouchedIsEmpty
    <2>4. f[0][2][j] = <<>>
      BY <1>4
    <2> QED
      BY <2>2, <2>3, <2>4, CarriesNothing DEF FrameCarried
  <1>7. \A j \in 0 .. FrameTotal(s, seg) : j \in Nat
    BY <1>1
  <1> QED
    BY <1>4, <1>5, <1>6, <1>7 DEF Carried

(* One more write: the frames behind its own begin with what it leaves.    *)
LEMMA CarriedNext ==
  ASSUME NEW s, NEW seg, IsSegment(s, seg), NEW c \in Converter, NEW f, IsPass(s, seg, c, f),
         NEW k \in 0 .. WriteTotal(s, seg) - 1, NEW at, Carried(s, seg, k, f[k], at, c)
  PROVE  \E bt : Carried(s, seg, k + 1, f[k + 1], bt, c)
  <1>0. PICK b \in Nat, total \in Nat, L \in Nat :
          b = Base(s, seg) /\ total = FrameTotal(s, seg) /\ L = WriteTotal(s, seg)
    BY SegmentSpan, FramesOfSegment
  <1>1. PICK m, n, reg, value, d : /\ m = Base(s, seg) + k + 1 /\ n = FrameOf(s, seg, m)
                                   /\ reg = s.writes[m].reg /\ value = s.writes[m].value
                                   /\ d = f[k][1]
    OBVIOUS
  <1>w. WriteOfPass(s, seg, f, k, m, n, reg, value, d)
    BY <1>1 DEF WriteOfPass
  <1>2. /\ m \in SegmentWrites(s, seg) /\ m \in 1 .. Len(s.writes)
        /\ reg \in Reg /\ value \in Byte /\ d \in Converter
        /\ n \in 0 .. FrameTotal(s, seg) - 1
        /\ f[k][2] \in PassFrames(s, seg) /\ Emission(d, reg, value) \in Seq(Write)
        /\ f[k + 1][1] = Converted(d, reg, value)
    BY <1>w, PassGoes
  <1>3. Joins(f[k + 1][2][n], f[k][2][n], Emission(d, reg, value))
    BY <1>w, PassGoes
  <1>4. \A j \in 0 .. FrameTotal(s, seg) - 1 : j # n => f[k + 1][2][j] = f[k][2][j]
    BY <1>w, PassGoes
  <1>5. PICK e \in Converter : e = Converted(d, reg, value)
    BY <1>2, ConvertedIsConverter
  <1>6. e.source_clock = d.source_clock /\ e.pitch_conversion = d.pitch_conversion
    <2>0. reg \in Reg /\ value \in Byte /\ d \in Converter
      BY <1>2
    <2>1. Converted(d, reg, value).source_clock = d.source_clock
      BY <2>0, SettingsStay
    <2>2. Converted(d, reg, value).pitch_conversion = d.pitch_conversion
      BY <2>0, SettingsStay
    <2> QED
      BY <1>5, <2>1, <2>2
  <1>7. n \in Nat /\ n + 1 \in Nat /\ n \in 0 .. total - 1 /\ n + 1 \in 0 .. total
        /\ k + 1 \in Nat /\ k \in 0 .. L - 1
    BY <1>0, <1>2
  <1> DEFINE bt == [j \in Nat |-> IF j > n THEN e ELSE at[j]]
  <1>8. at \in [Nat -> Converter] /\ at[0] = c
        /\ \A j \in Nat : at[j].source_clock = c.source_clock
                          /\ at[j].pitch_conversion = c.pitch_conversion
    BY DEF Carried
  <1>9. bt \in [Nat -> Converter] /\ \A j \in Nat : bt[j] = IF j > n THEN e ELSE at[j]
    BY <1>8
  <1> HIDE DEF bt
  <1>10. at[n + 1] = d
    <2>1. Untouched(s, seg, k, n + 1)
      <3> SUFFICES ASSUME NEW w \in Base(s, seg) + 1 .. Base(s, seg) + k
                   PROVE  FrameOf(s, seg, w) < n + 1
        BY DEF Untouched
      <3>1. w \in SegmentWrites(s, seg) /\ w <= m
        <4>1. SegmentWrites(s, seg) = Base(s, seg) + 1 .. Final(s, seg)
              /\ Final(s, seg) = b + L /\ Final(s, seg) \in Nat
          BY <1>0, SegmentSpan DEF WriteTotal
        <4>2. m = b + k + 1 /\ w \in b + 1 .. b + k /\ k + 1 <= L
          BY <1>0, <1>1, <1>7
        <4>3. w \in b + 1 .. b + L /\ w <= m
          BY <1>0, <1>7, <4>2
        <4> QED
          BY <1>0, <4>1, <4>3
      <3>2. FrameOf(s, seg, w) <= n
        BY <1>1, <1>2, <3>1, FramesInOrder
      <3>3. FrameOf(s, seg, w) \in 0 .. FrameTotal(s, seg) - 1
        BY <3>1, FramesOfSegment
      <3> QED
        BY <1>7, <3>2, <3>3
    <2>2. n + 1 \in 0 .. FrameTotal(s, seg)
      BY <1>0, <1>7
    <2> QED
      BY <1>1, <2>1, <2>2 DEF Carried
  <1>11. d.source_clock = c.source_clock /\ d.pitch_conversion = c.pitch_conversion
    BY <1>7, <1>8, <1>10
  <1>12. bt[0] = c
    BY <1>7, <1>8, <1>9
  <1>13. ASSUME NEW j \in Nat
         PROVE  bt[j].source_clock = c.source_clock /\ bt[j].pitch_conversion = c.pitch_conversion
    BY <1>6, <1>8, <1>9, <1>11
  <1>14. ASSUME NEW j, Untouched(s, seg, k + 1, j)
         PROVE  j > n /\ Untouched(s, seg, k, j)
    <2>1. m \in Base(s, seg) + 1 .. Base(s, seg) + (k + 1)
      BY <1>0, <1>1, <1>7
    <2>2. n < j
      BY <1>1, <1>14, <2>1 DEF Untouched
    <2>3. \A w \in Base(s, seg) + 1 .. Base(s, seg) + k :
            w \in Base(s, seg) + 1 .. Base(s, seg) + (k + 1)
      BY <1>0, <1>7
    <2> QED
      BY <1>14, <2>2, <2>3 DEF Untouched
  <1>15. ASSUME NEW j \in 0 .. FrameTotal(s, seg), Untouched(s, seg, k + 1, j)
         PROVE  bt[j] = f[k + 1][1]
    BY <1>0, <1>2, <1>5, <1>9, <1>14, <1>15
  <1>16. ASSUME NEW j \in 0 .. FrameTotal(s, seg) - 1, Untouched(s, seg, k + 1, j)
         PROVE  f[k + 1][2][j] = <<>>
    <2>1. j # n /\ Untouched(s, seg, k, j)
      BY <1>7, <1>14, <1>16
    <2>2. f[k][2][j] = <<>>
      BY <2>1 DEF Carried
    <2> QED
      BY <1>4, <2>1, <2>2
  <1>17. ASSUME NEW j \in 0 .. FrameTotal(s, seg) - 1
         PROVE  FrameCarried(s, seg, k + 1, f[k + 1][2], bt, j)
    <2>0. j \in Nat /\ j + 1 \in Nat
      BY <1>0
    <2>1. FrameCarried(s, seg, k, f[k][2], at, j)
      BY DEF Carried
    <2>2. Mine(s, seg, k + 1, j, {})
            = IF n = j THEN Mine(s, seg, k, j, {}) \cup {m} ELSE Mine(s, seg, k, j, {})
      BY <1>1, MineNext
    <2>3. CASE j < n
      <3>1. bt[j] = at[j] /\ bt[j + 1] = at[j + 1]
        BY <1>7, <1>9, <2>0, <2>3
      <3>2. j # n /\ f[k + 1][2][j] = f[k][2][j]
        BY <1>4, <1>7, <2>3
      <3> QED
        BY <2>1, <2>2, <3>1, <3>2 DEF FrameCarried
    <2>4. CASE j = n
      <3>1. bt[j] = at[j] /\ bt[j + 1] = e /\ at[j + 1] = d
        BY <1>7, <1>9, <1>10, <2>0, <2>4
      <3>2. PICK K : K = Mine(s, seg, k, j, {})
        OBVIOUS
      <3>3. Pairs(s) \in Seq(Pair) /\ m \in 1 .. Len(Pairs(s)) /\ Pairs(s)[m] = <<reg, value>>
        BY <1>1, <1>2, PairsOfSong
      <3>4. \A w \in K : w < m
        BY <1>1, <3>2, MineNext
      <3>5. PICK u \in Seq(Pair) : u = Picked(Pairs(s), K)
        BY <3>3, PickedTyped
      <3>6. Picked(Pairs(s), K \cup {m}) = Append(u, <<reg, value>>)
        BY <3>3, <3>4, <3>5, PickedMore
      <3>7. PICK v \in Seq(Pair) : v = f[k][2][j]
        <4>1. f[k][2][j] \in Seq(Write)
          BY <1>2 DEF PassFrames
        <4> QED
          BY <4>1, SeqMonotonic, WriteIsPair
      <3>8. PICK em \in Seq(Pair) : em = Emission(d, reg, value)
        BY <1>2, SeqMonotonic, WriteIsPair
      <3>9. PICK u2, v2 : u2 = Append(u, <<reg, value>>) /\ v2 = f[k + 1][2][j]
        OBVIOUS
      <3>10. Joins(v2, v, em)
        BY <1>3, <2>4, <3>7, <3>8, <3>9
      <3>11. Carries(at[j], d, u, v)
        BY <2>1, <3>1, <3>2, <3>5, <3>7 DEF FrameCarried
      <3>12. Carries(at[j], e, u2, v2)
        BY <1>2, <1>5, <3>8, <3>9, <3>10, <3>11, CarriesMore
      <3> QED
        BY <2>2, <2>4, <3>1, <3>2, <3>6, <3>9, <3>12 DEF FrameCarried
    <2>5. CASE j > n
      <3>1. bt[j] = e /\ bt[j + 1] = e
        BY <1>7, <1>9, <2>0, <2>5
      <3>2. Untouched(s, seg, k + 1, j)
        <4> SUFFICES ASSUME NEW w \in Base(s, seg) + 1 .. Base(s, seg) + (k + 1)
                     PROVE  FrameOf(s, seg, w) < j
          BY DEF Untouched
        <4>1. w \in SegmentWrites(s, seg) /\ w <= m
          <5>1. SegmentWrites(s, seg) = Base(s, seg) + 1 .. Final(s, seg)
                /\ Final(s, seg) = b + L /\ Final(s, seg) \in Nat
            BY <1>0, SegmentSpan DEF WriteTotal
          <5>2. m = b + k + 1 /\ w \in b + 1 .. b + (k + 1) /\ k + 1 <= L
            BY <1>0, <1>1, <1>7
          <5>3. w \in b + 1 .. b + L /\ w <= m
            BY <1>0, <1>7, <5>2
          <5> QED
            BY <1>0, <5>1, <5>3
        <4>2. FrameOf(s, seg, w) <= n
          BY <1>1, <1>2, <4>1, FramesInOrder
        <4>3. FrameOf(s, seg, w) \in 0 .. FrameTotal(s, seg) - 1
          BY <4>1, FramesOfSegment
        <4> QED
          BY <1>7, <2>0, <2>5, <4>2, <4>3
      <3>3. f[k + 1][2][j] = <<>>
        BY <1>16, <3>2
      <3>4. Picked(Pairs(s), Mine(s, seg, k + 1, j, {})) = <<>>
        BY <2>0, <3>2, UntouchedIsEmpty
      <3> QED
        BY <3>1, <3>3, <3>4, CarriesNothing DEF FrameCarried
    <2> QED
      BY <1>7, <2>0, <2>3, <2>4, <2>5
  <1>18. Carried(s, seg, k + 1, f[k + 1], bt, c)
    BY <1>9, <1>12, <1>13, <1>15, <1>16, <1>17 DEF Carried
  <1> QED
    BY <1>18

(* So a pass carries each of its frames in turn.                           *)
LEMMA PassCarries ==
  ASSUME NEW s, NEW seg, IsSegment(s, seg), NEW c \in Converter, NEW f, IsPass(s, seg, c, f)
  PROVE  \E at : /\ Carried(s, seg, WriteTotal(s, seg), f[WriteTotal(s, seg)], at, c)
                 /\ at[FrameTotal(s, seg)] = f[WriteTotal(s, seg)][1]
  <1>0. PICK L \in Nat : L = WriteTotal(s, seg)
    BY SegmentSpan
  <1> DEFINE Good == {k \in 0 .. L : \E at : Carried(s, seg, k, f[k], at, c)}
  <1>1. 0 \in Good
    BY CarriedAtFirst
  <1>2. ASSUME NEW k \in 0 .. L - 1, k \in Good
        PROVE  k + 1 \in Good
    <2>1. k \in 0 .. WriteTotal(s, seg) - 1 /\ k + 1 \in 0 .. L
      BY <1>0
    <2>2. PICK at : Carried(s, seg, k, f[k], at, c)
      BY <1>2
    <2>3. \E bt : Carried(s, seg, k + 1, f[k + 1], bt, c)
      BY <2>1, <2>2, CarriedNext
    <2> QED
      BY <2>1, <2>3
  <1> HIDE DEF Good
  <1>3. 0 .. L \subseteq Good
    BY <1>1, <1>2, EveryNumberUpTo
  <1>4. PICK at : Carried(s, seg, L, f[L], at, c)
    <2>1. L \in Good
      BY <1>3
    <2> QED
      BY <2>1 DEF Good
  <1>5. PICK total \in Nat : total = FrameTotal(s, seg)
    BY FramesOfSegment
  <1>6. Untouched(s, seg, L, total)
    <2> SUFFICES ASSUME NEW w \in Base(s, seg) + 1 .. Base(s, seg) + L
                 PROVE  FrameOf(s, seg, w) < total
      BY DEF Untouched
    <2>1. w \in SegmentWrites(s, seg)
      BY <1>0, SegmentSpan DEF WriteTotal
    <2>2. FrameOf(s, seg, w) \in 0 .. FrameTotal(s, seg) - 1
      BY <2>1, FramesOfSegment
    <2> QED
      BY <1>5, <2>2
  <1>7. at[total] = f[L][1]
    BY <1>4, <1>5, <1>6 DEF Carried
  <1> QED
    BY <1>0, <1>4, <1>5, <1>7

-----------------------------------------------------------------------------
(* The score's batches are the song's frames.                              *)

(* What is picked of a stretch is the stretch.                             *)
LEMMA PickedStretch ==
  ASSUME NEW S, NEW s \in Seq(S), NEW lo \in 1 .. Len(s), NEW hi \in lo .. Len(s)
  PROVE  Picked(s, lo .. hi) = SubSeq(s, lo, hi)
  <1>1. Len(s) \in Nat /\ lo \in Nat /\ hi \in Nat
    OBVIOUS
  <1>2. PICK last \in Nat : last = (hi - lo) + 1
    OBVIOUS
  <1> DEFINE Good == {e \in 0 .. last : Picked(s, lo .. (lo + e) - 1) = SubSeq(s, lo, (lo + e) - 1)}
  <1>3. 0 \in Good
    <2>1. PICK x \in Int : x = (lo + 0) - 1 /\ x < lo
      OBVIOUS
    <2>2. PICK K : K = lo .. x
      OBVIOUS
    <2>3. \A n \in 1 .. Len(s) : n \notin K
      BY <2>1, <2>2
    <2>4. Picked(s, K) = <<>>
      BY <2>3, PickedNone
    <2>5. SubSeq(s, lo, x) = <<>>
      BY <2>1, SubSeqEmpty
    <2>6. Picked(s, lo .. x) = SubSeq(s, lo, x)
      BY <2>2, <2>4, <2>5
    <2>7. 0 \in 0 .. last
      BY <1>2
    <2> QED
      BY <2>1, <2>6, <2>7
  <1>4. ASSUME NEW e \in 0 .. last - 1, e \in Good
        PROVE  e + 1 \in Good
    <2>1. PICK x \in Int, y \in lo .. Len(s) :
             x = (lo + e) - 1 /\ y = x + 1 /\ y = (lo + (e + 1)) - 1 /\ y - 1 = x
      <3>1. PICK y \in lo .. Len(s) : y = lo + e
        BY <1>2
      <3>2. PICK x \in Int : x = (lo + e) - 1
        OBVIOUS
      <3> QED
        BY <3>1, <3>2
    <2>2. PICK K : K = lo .. x
      OBVIOUS
    <2>3. Picked(s, K) = SubSeq(s, lo, x)
      BY <1>4, <2>1, <2>2
    <2>4. y \in 1 .. Len(s) /\ \A n \in K : n < y
      BY <1>1, <2>1, <2>2
    <2>5. Picked(s, K \cup {y}) = Append(Picked(s, K), s[y])
      BY <2>4, PickedMore
    <2>6. K \cup {y} = lo .. y
      BY <1>1, <2>1, <2>2
    <2>7. SubSeq(s, lo, y) = SubSeq(s, lo, x) \o << s[y] >>
      BY <2>1, SubSeqRecursiveSecond
    <2>8. Append(Picked(s, K), s[y]) = Picked(s, K) \o << s[y] >>
      <3>1. Picked(s, K) \in Seq(S)
        BY PickedTyped
      <3>2. s[y] \in S
        BY <2>4, ElementOfSeq
      <3> QED
        BY <3>1, <3>2, AppendIsConcat
    <2>9. Picked(s, lo .. y) = SubSeq(s, lo, y)
      BY <2>3, <2>5, <2>6, <2>7, <2>8
    <2> QED
      BY <1>2, <2>1, <2>9
  <1> HIDE DEF Good
  <1>5. 0 .. last \subseteq Good
    BY <1>3, <1>4, EveryNumberUpTo
  <1>6. last \in Good /\ (lo + last) - 1 = hi
    BY <1>1, <1>2, <1>5
  <1> QED
    BY <1>6 DEF Good

(* The writes of a frame follow one another.                               *)
Frame(s, seg, j) == {m \in SegmentWrites(s, seg) : FrameOf(s, seg, m) = j}

(* The writes of a frame follow one another in the song.                   *)
LEMMA FrameIsStretch ==
  ASSUME NEW s, NEW seg, IsSegment(s, seg), NEW j, Frame(s, seg, j) # {}
  PROVE  \E lo \in 1 .. Len(s.writes) : \E hi \in lo .. Len(s.writes) :
            /\ Frame(s, seg, j) = lo .. hi
            /\ Min(Frame(s, seg, j)) = lo /\ Max(Frame(s, seg, j)) = hi
  <1> DEFINE F == Frame(s, seg, j)
  <1>1. PICK b \in Nat, e \in Nat, L \in Nat :
           /\ b = Base(s, seg) /\ e = Final(s, seg) /\ L = Len(s.writes) /\ e <= L
           /\ SegmentWrites(s, seg) = b + 1 .. e
    BY SegmentSpan
  <1>2. F \subseteq b + 1 .. e /\ F # {}
    BY <1>1 DEF Frame
  <1>3. \A m \in F : FrameOf(s, seg, m) = j /\ m \in SegmentWrites(s, seg)
    BY DEF Frame
  <1>4. \A m \in SegmentWrites(s, seg) : FrameOf(s, seg, m) = j => m \in F
    BY DEF Frame
  <1> HIDE DEF F
  <1>5. PICK lo \in F : \A m \in F : lo <= m
    <2>1. F \subseteq Nat
      BY <1>1, <1>2
    <2> QED
      BY <1>2, <2>1, LeastNumber
  <1>6. PICK hi \in F : \A m \in F : m <= hi
    <2>1. F \subseteq Nat /\ \A m \in F : m <= e
      BY <1>1, <1>2
    <2> QED
      BY <1>2, <2>1, GreatestNumber
  <1>7. lo \in b + 1 .. e /\ hi \in b + 1 .. e /\ lo <= hi
    BY <1>2, <1>5, <1>6
  <1>8. F = lo .. hi
    <2>1. ASSUME NEW m \in F PROVE m \in lo .. hi
      <3>1. m \in Int /\ lo <= m /\ m <= hi
        BY <1>2, <1>5, <1>6
      <3> QED
        BY <1>7, <3>1
    <2>2. ASSUME NEW m \in lo .. hi PROVE m \in F
      <3>1. m \in SegmentWrites(s, seg)
        BY <1>1, <1>7
      <3>6. lo \in SegmentWrites(s, seg) /\ hi \in SegmentWrites(s, seg) /\ lo <= m /\ m <= hi
        BY <1>3, <1>7
      <3>7. FrameOf(s, seg, lo) <= FrameOf(s, seg, m)
        BY <3>1, <3>6, FramesInOrder
      <3>8. FrameOf(s, seg, m) <= FrameOf(s, seg, hi)
        BY <3>1, <3>6, FramesInOrder
      <3>2. FrameOf(s, seg, lo) <= FrameOf(s, seg, m) /\ FrameOf(s, seg, m) <= FrameOf(s, seg, hi)
        BY <3>7, <3>8
      <3>3. FrameOf(s, seg, lo) = j /\ FrameOf(s, seg, hi) = j
        BY <1>3
      <3>4. FrameOf(s, seg, m) \in Int /\ FrameOf(s, seg, lo) \in Int
        <4>1. FrameOf(s, seg, m) \in 0 .. FrameTotal(s, seg) - 1
              /\ FrameOf(s, seg, lo) \in 0 .. FrameTotal(s, seg) - 1
              /\ FrameTotal(s, seg) \in Nat
          BY <1>3, <3>1, FramesOfSegment
        <4> QED
          BY <4>1
      <3>5. FrameOf(s, seg, m) = j
        BY <3>2, <3>3, <3>4
      <3> QED
        BY <1>4, <3>1, <3>5
    <2> QED
      BY <2>1, <2>2
  <1>9. Min(F) = lo
    <2>1. F \subseteq Nat
      BY <1>1, <1>2
    <2> QED
      BY <1>5, <2>1, MinIsLeast
  <1>10. Max(F) = hi
    <2>1. ASSUME NEW x \in F, \A y \in F : x >= y
          PROVE  x = hi
      <3>1. x >= hi /\ x <= hi /\ x \in Int
        BY <1>2, <1>6, <2>1
      <3> QED
        BY <1>7, <3>1
    <2>2. \A y \in F : hi >= y
      <3>1. \A y \in F : y \in Int /\ y <= hi
        BY <1>2, <1>6
      <3> QED
        BY <1>7, <3>1
    <2> QED
      BY <1>6, <2>1, <2>2 DEF Max
  <1>11. lo \in 1 .. Len(s.writes) /\ hi \in lo .. Len(s.writes)
    BY <1>1, <1>7
  <1> QED
    BY <1>8, <1>9, <1>10, <1>11 DEF F

(* The writes of frame j of a pass, as the song has them.                  *)
Written(s, seg, j) ==
  Picked(Pairs(s), Mine(s, Part(seg), WriteTotal(s, Part(seg)), j, {}))

(* The writes a pass has put into a frame by its end are all the frame's.  *)
LEMMA WrittenIsFrame ==
  ASSUME NEW s, NEW seg, IsSegment(s, seg), NEW j
  PROVE  Mine(s, Part(seg), WriteTotal(s, Part(seg)), j, {}) = Frame(s, Part(seg), j)
  <1>1. PICK p : p = Part(seg) /\ IsSegment(s, p)
    BY PartOfSong
  <1>2. /\ Base(s, p) \in Nat /\ Final(s, p) \in Nat
        /\ SegmentWrites(s, p) = Base(s, p) + 1 .. Final(s, p)
    BY <1>1, SegmentSpan
  <1>3. Base(s, p) + WriteTotal(s, p) = Final(s, p)
    BY <1>2 DEF WriteTotal
  <1> QED
    BY <1>1, <1>2, <1>3 DEF Mine, Frame

(* They are a stretch of the song, or none.                                *)
LEMMA WrittenIsBatch ==
  ASSUME NEW s, NEW seg, IsSegment(s, seg), NEW j
  PROVE  Written(s, seg, j)
           = LET mine == Frame(s, Part(seg), j)
             IN  IF mine = {} THEN <<>> ELSE SubSeq(Pairs(s), Min(mine), Max(mine))
  <1>0. PICK p : p = Part(seg) /\ IsSegment(s, p)
    BY PartOfSong
  <1> DEFINE mine == Frame(s, p, j)
  <1>1. Written(s, seg, j) = Picked(Pairs(s), mine)
    BY <1>0, WrittenIsFrame DEF Written
  <1>2. Pairs(s) \in Seq(Pair) /\ Len(Pairs(s)) = Len(s.writes)
    BY <1>0, PairsOfSong
  <1> HIDE DEF mine
  <1>3. CASE mine = {}
    <2>1. Picked(Pairs(s), {}) = <<>>
      BY <1>2, PickedNone
    <2> QED
      BY <1>0, <1>1, <1>3, <2>1 DEF mine
  <1>4. CASE mine # {}
    <2>1. PICK lo \in 1 .. Len(s.writes), hi \in 1 .. Len(s.writes) :
             hi \in lo .. Len(s.writes) /\ mine = lo .. hi /\ Min(mine) = lo /\ Max(mine) = hi
      <3>1. PICK lo \in 1 .. Len(s.writes) : \E hi \in lo .. Len(s.writes) :
              /\ Frame(s, p, j) = lo .. hi
              /\ Min(Frame(s, p, j)) = lo /\ Max(Frame(s, p, j)) = hi
        BY <1>0, <1>4, FrameIsStretch DEF mine
      <3>2. PICK hi \in lo .. Len(s.writes) :
              /\ Frame(s, p, j) = lo .. hi
              /\ Min(Frame(s, p, j)) = lo /\ Max(Frame(s, p, j)) = hi
        BY <3>1
      <3>3. hi \in 1 .. Len(s.writes)
        OBVIOUS
      <3> QED
        BY <3>2, <3>3 DEF mine
    <2>2. Picked(Pairs(s), lo .. hi) = SubSeq(Pairs(s), lo, hi)
      <3>1. lo \in 1 .. Len(Pairs(s)) /\ hi \in lo .. Len(Pairs(s))
        BY <1>2, <2>1
      <3> QED
        BY <1>2, <3>1, PickedStretch
    <2> QED
      BY <1>0, <1>1, <1>4, <2>1, <2>2 DEF mine
  <1> QED
    BY <1>3, <1>4

-----------------------------------------------------------------------------
(* The records of streams that are joined are the records of each.         *)
LEMMA RecordInFirst ==
  ASSUME NEW s \in Seq(Pair), NEW t \in Seq(Pair), NEW st, Joins(st, s, t),
         NEW x \in Nat, NEW y \in Nat, x < y, y <= Len(s),
         AfterRecord(s, x) = y, AfterRecord(st, x) = y
  PROVE  RecordWrites(st, x) = RecordWrites(s, x)
  <1>1. RecordWrites(st, x) = SubSeq(st, x + 2, y) /\ RecordWrites(s, x) = SubSeq(s, x + 2, y)
    BY DEF RecordWrites
  <1>2. CASE y < x + 2
    <2>1. x + 2 \in Int /\ y \in Int
      OBVIOUS
    <2>2. SubSeq(st, x + 2, y) = <<>>
      BY <1>2, <2>1, SubSeqEmpty
    <2>3. SubSeq(s, x + 2, y) = <<>>
      BY <1>2, <2>1, SubSeqEmpty
    <2> QED
      BY <1>1, <2>2, <2>3
  <1>3. CASE ~(y < x + 2)
    <2>1. PICK m \in 1 .. Len(s) : m = x + 2
      BY <1>3
    <2>2. y \in 1 .. Len(s)
      OBVIOUS
    <2>3. SubSeq(s \o t, m, y) = SubSeq(s, m, y)
      BY <2>2, SubSeqOfConcat1
    <2> QED
      BY <1>1, <2>1, <2>3 DEF Joins
  <1> QED
    BY <1>2, <1>3

(* A record of the second stream stays the record it was.                  *)
LEMMA RecordInSecond ==
  ASSUME NEW s \in Seq(Pair), NEW t \in Seq(Pair), NEW st, Joins(st, s, t),
         NEW x \in Nat, NEW y \in Nat, x < y, y <= Len(t), AfterRecord(t, x) = y,
         NEW z, z = Len(s) + x, AfterRecord(st, z) = Len(s) + y
  PROVE  RecordWrites(st, z) = RecordWrites(t, x)
  <1>0. PICK l \in Nat, w \in Nat : l = Len(s) /\ w = l + y
    OBVIOUS
  <1>1. RecordWrites(st, z) = SubSeq(st, z + 2, w) /\ RecordWrites(t, x) = SubSeq(t, x + 2, y)
    BY <1>0 DEF RecordWrites
  <1>2. CASE y < x + 2
    <2>1. x + 2 \in Int /\ y \in Int /\ z + 2 \in Int /\ w \in Int /\ w < z + 2
      BY <1>0, <1>2
    <2>2. SubSeq(st, z + 2, w) = <<>>
      BY <2>1, SubSeqEmpty
    <2>3. SubSeq(t, x + 2, y) = <<>>
      BY <1>2, <2>1, SubSeqEmpty
    <2> QED
      BY <1>1, <2>2, <2>3
  <1>3. CASE ~(y < x + 2)
    <2>1. PICK m \in Len(s) + 1 .. Len(s) + Len(t) : m = z + 2
      BY <1>0, <1>3
    <2>2. w \in Len(s) + 1 .. Len(s) + Len(t)
      BY <1>0
    <2>3. SubSeq(s \o t, m, w) = SubSeq(t, m - Len(s), w - Len(s))
      BY <2>1, <2>2, SubSeqOfConcat2
    <2>4. m - Len(s) = x + 2 /\ w - Len(s) = y
      BY <1>0, <2>1
    <2> QED
      BY <1>1, <2>1, <2>3, <2>4 DEF Joins
  <1> QED
    BY <1>2, <1>3

(* st has the n records rows tells, at the marks b.                        *)
Rows(st, n, b, rows) ==
  Marks(st, n, b) /\ \A j \in 0 .. n - 1 : RecordWrites(st, b[j]) = rows[j]

(* A mark and the next are inside the stream.                              *)
LEMMA NextMark ==
  ASSUME NEW s \in Seq(Pair), NEW n \in Nat, NEW b, Marks(s, n, b), NEW j \in 0 .. n - 1
  PROVE  /\ b[j] \in Nat /\ b[j + 1] \in Nat /\ b[j] < b[j + 1] /\ b[j + 1] <= Len(s)
         /\ b[j + 1] = AfterRecord(s, b[j])
  <1>1. j \in 0 .. n /\ j + 1 \in 0 .. n /\ n \in 0 .. n /\ j \in 0 .. j + 1 /\ j < j + 1
        /\ j + 1 \in 0 .. n
    OBVIOUS
  <1>2. /\ \A y \in 0 .. n : \A k \in 0 .. y : b[k] <= b[y] /\ (k < y => b[k] < b[y])
        /\ \A k \in 0 .. n : b[k] \in Nat
    BY MarksRise
  <1>3. b[n] = Len(s) /\ b[j + 1] = AfterRecord(s, b[j])
    BY DEF Marks
  <1>4. b[j] < b[j + 1]
    BY <1>1, <1>2
  <1>5. b[j + 1] <= b[n]
    BY <1>1, <1>2
  <1> QED
    BY <1>1, <1>2, <1>3, <1>4, <1>5

(* So do all of them: the records of two streams joined.                   *)
LEMMA RowsJoin ==
  ASSUME NEW s \in Seq(Pair), NEW n \in Nat, NEW b, Marks(s, n, b),
         NEW t \in Seq(Pair), NEW m \in Nat, NEW c, Marks(t, m, c),
         NEW st, Joins(st, s, t), NEW d, Marks(st, n + m, d),
         KeepMarks(d, n, b, m, c, Len(s))
  PROVE  /\ \A j \in 0 .. n - 1 : RecordWrites(st, d[j]) = RecordWrites(s, b[j])
         /\ \A j \in 0 .. m - 1 : RecordWrites(st, d[n + j]) = RecordWrites(t, c[j])
  <1>1. ASSUME NEW j \in 0 .. n - 1
        PROVE  RecordWrites(st, d[j]) = RecordWrites(s, b[j])
    <2>1. j \in 0 .. n /\ j + 1 \in 0 .. n /\ j \in 0 .. (n + m) - 1
      OBVIOUS
    <2>2. d[j] = b[j] /\ d[j + 1] = b[j + 1]
      BY <2>1 DEF KeepMarks
    <2>3. d[j + 1] = AfterRecord(st, d[j])
      BY <2>1 DEF Marks
    <2>4. PICK x, y : x = b[j] /\ y = b[j + 1]
      OBVIOUS
    <2>5. x \in Nat /\ y \in Nat /\ x < y /\ y <= Len(s) /\ AfterRecord(s, x) = y
      BY <2>4, NextMark
    <2>6. AfterRecord(st, x) = y
      BY <2>2, <2>3, <2>4
    <2>7. RecordWrites(st, x) = RecordWrites(s, x)
      BY <2>5, <2>6, RecordInFirst
    <2> QED
      BY <2>2, <2>4, <2>7
  <1>2. ASSUME NEW j \in 0 .. m - 1
        PROVE  RecordWrites(st, d[n + j]) = RecordWrites(t, c[j])
    <2>1. PICK p \in Nat : p = n + j
      OBVIOUS
    <2>2. p \in 0 .. (n + m) - 1 /\ j \in 0 .. m /\ j + 1 \in 0 .. m /\ p + 1 = n + (j + 1)
      BY <2>1
    <2>3. d[p] = Len(s) + c[j] /\ d[p + 1] = Len(s) + c[j + 1]
      BY <2>1, <2>2 DEF KeepMarks
    <2>4. d[p + 1] = AfterRecord(st, d[p])
      BY <2>2 DEF Marks
    <2>5. PICK x, y, z : x = c[j] /\ y = c[j + 1] /\ z = d[p]
      OBVIOUS
    <2>6. x \in Nat /\ y \in Nat /\ x < y /\ y <= Len(t) /\ AfterRecord(t, x) = y
      BY <2>5, NextMark
    <2>7. z = Len(s) + x /\ AfterRecord(st, z) = Len(s) + y
      BY <2>3, <2>4, <2>5
    <2>8. RecordWrites(st, z) = RecordWrites(t, x)
      BY <2>6, <2>7, RecordInSecond
    <2> QED
      BY <2>1, <2>5, <2>8
  <1> QED
    BY <1>1, <1>2

(* A count and its writes are one record of them.                          *)
LEMMA RowOfOne ==
  ASSUME NEW writes \in Seq(Pair), Len(writes) <= MaxFrameWrites,
         NEW rec, Joins(rec, << CountPair(Len(writes)) >>, writes)
  PROVE  /\ rec \in Seq(Pair)
         /\ \E b : Marks(rec, 1, b) /\ b[0] = 0 /\ RecordWrites(rec, 0) = writes
  <1>0. PICK L \in Nat : L = Len(writes)
    OBVIOUS
  <1>1. PICK count : count = << CountPair(Len(writes)) >>
    OBVIOUS
  <1>2. rec = count \o writes
    BY <1>1 DEF Joins
  <1>3. rec \in Seq(Pair) /\ IsStream(rec, 1)
    BY <1>1, <1>2, OneRecord
  <1>4. PICK b : Marks(rec, 1, b)
    BY <1>3 DEF IsStream
  <1>5. CountPair(L) \in Pair
    <2>1. L \in 0 .. MaxFrameWrites
      <3>1. CountBase * CountBase \in Nat
        BY CountAssumption
      <3> QED
        BY <1>0, <3>1 DEF MaxFrameWrites
    <2> QED
      BY <2>1, CountIsRead
  <1>6. count \in Seq(Pair) /\ Len(count) = 1
    BY <1>0, <1>1, <1>5
  <1>7. Len(rec) = 1 + L
    BY <1>0, <1>2, <1>6, ConcatProperties
  <1>8. b[0] = 0 /\ b[1] = 1 + L /\ b[1] = AfterRecord(rec, 0)
    <2>1. 0 \in 0 .. 1 - 1 /\ 0 + 1 = 1
      OBVIOUS
    <2>2. b[0] = 0 /\ b[1] = Len(rec) /\ b[0 + 1] = AfterRecord(rec, b[0])
      BY <1>4, <2>1 DEF Marks
    <2> QED
      BY <1>7, <2>1, <2>2
  <1>9. RecordWrites(rec, 0) = SubSeq(rec, 2, 1 + L)
    BY <1>8 DEF RecordWrites
  <1>10. SubSeq(rec, 2, 1 + L) = writes
    <2>1. CASE L = 0
      <3>1. SubSeq(rec, 2, 1) = <<>>
        BY SubSeqEmpty
      <3>2. writes = <<>>
        BY <1>0, <2>1, EmptySeq
      <3> QED
        BY <2>1, <3>1, <3>2
    <2>2. CASE L # 0
      <3>1. 2 \in Len(count) + 1 .. Len(count) + Len(writes)
            /\ 1 + L \in Len(count) + 1 .. Len(count) + Len(writes)
            /\ 2 - Len(count) = 1 /\ (1 + L) - Len(count) = L
        BY <1>0, <1>6, <2>2
      <3>2. PICK hi : hi = 1 + L
        OBVIOUS
      <3>3. SubSeq(count \o writes, 2, hi) = SubSeq(writes, 2 - Len(count), hi - Len(count))
        BY <1>6, <3>1, <3>2, SubSeqOfConcat2
      <3>4. SubSeq(writes, 1, L) = writes
        BY <1>0, SubSeqFull
      <3> QED
        BY <1>2, <3>1, <3>2, <3>3, <3>4
    <2> QED
      BY <2>1, <2>2
  <1> QED
    BY <1>3, <1>4, <1>8, <1>9, <1>10

(* Streams are joined in turn.                                             *)
LEMMA PairsInTurn ==
  ASSUME NEW x \in Seq(Pair), NEW y \in Seq(Pair), NEW z \in Seq(Pair)
  PROVE  (x \o y) \o z = x \o (y \o z)
  <1>1. PICK S : S = Pair
    OBVIOUS
  <1>2. x \in Seq(S) /\ y \in Seq(S) /\ z \in Seq(S)
    BY <1>1
  <1> QED
    BY <1>2, ConcatInTurn

(* The stream of a row of frames has their records.                        *)
LEMMA RowsOfStreams ==
  ASSUME NEW total \in Nat, NEW fr \in [0 .. total - 1 -> Seq(Write)],
         NEW h, Streams(fr, h), Counted16(fr, total)
  PROVE  h[total] \in Seq(Pair) /\ \E b : Rows(h[total], total, b, fr)
  <1> DEFINE Good == {j \in 0 .. total : \E b : Rows(h[j], j, b, fr)}
  <1>0. \A j \in 0 .. total : j \in Nat /\ h[j] \in Seq(Pair)
    BY DEF Streams
  <1>1. 0 \in Good
    <2>1. PICK b : Marks(<<>>, 0, b)
      BY NoRecords DEF IsStream
    <2>2. h[0] = <<>> /\ 0 .. 0 - 1 = {} /\ 0 \in 0 .. total
      BY DEF Streams
    <2>3. Rows(h[0], 0, b, fr)
      BY <2>1, <2>2 DEF Rows
    <2> QED
      BY <2>2, <2>3
  <1>2. ASSUME NEW j \in 0 .. total - 1, j \in Good
        PROVE  j + 1 \in Good
    <2>1. j \in Nat /\ j + 1 \in 0 .. total /\ j \in 0 .. total
      OBVIOUS
    <2>2. PICK b : Rows(h[j], j, b, fr)
      BY <1>2
    <2>3. PICK w \in Seq(Pair) : w = fr[j]
      BY SeqMonotonic, WriteIsPair
    <2>4. Len(w) <= MaxFrameWrites
      BY <2>3 DEF Counted16
    <2>5. PICK count, rec, st : /\ count = << CountPair(Len(w)) >> /\ rec = count \o w
                                /\ st = h[j + 1]
      OBVIOUS
    <2>6. Joins(rec, << CountPair(Len(w)) >>, w)
      BY <2>5 DEF Joins
    <2>7. rec \in Seq(Pair)
      BY <2>4, <2>6, RowOfOne
    <2>8. PICK e : Marks(rec, 1, e) /\ e[0] = 0 /\ RecordWrites(rec, 0) = w
      BY <2>4, <2>6, RowOfOne
    <2>9. PICK s \in Seq(Pair) : s = h[j]
      BY <1>0, <2>1
    <2>10. Joins(st, s, rec)
      <3>1. j \in DOMAIN fr
        OBVIOUS
      <3>2. h[j + 1] = h[j] \o << CountPair(Len(fr[j])) >> \o fr[j]
        BY <2>1, <3>1 DEF Streams
      <3>3. st = (s \o count) \o w
        BY <2>3, <2>5, <2>9, <3>2
      <3>4. count \in Seq(Pair)
        <4>1. PICK L \in Nat : L = Len(w)
          OBVIOUS
        <4>2. L \in 0 .. MaxFrameWrites
          <5>1. CountBase * CountBase \in Nat
            BY CountAssumption
          <5> QED
            BY <2>4, <4>1, <5>1 DEF MaxFrameWrites
        <4>3. CountPair(L) \in Pair
          BY <4>2, CountIsRead
        <4> QED
          BY <2>5, <4>1, <4>3
      <3>5. (s \o count) \o w = s \o (count \o w)
        <4>1. s \in Seq(Pair) /\ w \in Seq(Pair)
          BY <2>4, <2>9
        <4> QED
          BY <3>4, <4>1, PairsInTurn
      <3> QED
        BY <2>5, <3>3, <3>5 DEF Joins
    <2>11. Marks(s, j, b) /\ \A q \in 0 .. j - 1 : RecordWrites(s, b[q]) = fr[q]
      BY <2>2, <2>9 DEF Rows
    <2>12. 1 \in Nat
      OBVIOUS
    <2>13. PICK d : Marks(st, j + 1, d) /\ KeepMarks(d, j, b, 1, e, Len(s))
      BY <2>1, <2>7, <2>8, <2>10, <2>11, <2>12, JoinedMarks
    <2>14. \A q \in 0 .. j - 1 : RecordWrites(st, d[q]) = RecordWrites(s, b[q])
      BY <2>1, <2>7, <2>8, <2>10, <2>11, <2>12, <2>13, RowsJoin
    <2>15. \A q \in 0 .. 1 - 1 : RecordWrites(st, d[j + q]) = RecordWrites(rec, e[q])
      BY <2>1, <2>7, <2>8, <2>10, <2>11, <2>12, <2>13, RowsJoin
    <2>16. RecordWrites(st, d[j]) = w
      <3>1. 0 \in 0 .. 1 - 1 /\ j + 0 = j
        OBVIOUS
      <3> QED
        BY <2>8, <2>15, <3>1
    <2>17. \A q \in 0 .. (j + 1) - 1 : RecordWrites(st, d[q]) = fr[q]
      <3>1. \A q \in 0 .. (j + 1) - 1 : q = j \/ q \in 0 .. j - 1
        BY <2>1
      <3> QED
        BY <2>3, <2>11, <2>14, <2>16, <3>1
    <2>18. Rows(h[j + 1], j + 1, d, fr)
      BY <2>5, <2>13, <2>17 DEF Rows
    <2> QED
      BY <2>1, <2>18
  <1> HIDE DEF Good
  <1>3. 0 .. total \subseteq Good
    BY <1>1, <1>2, EveryNumberUpTo
  <1>4. total \in Good /\ total \in 0 .. total
    BY <1>3
  <1> QED
    BY <1>0, <1>4 DEF Good

-----------------------------------------------------------------------------
(* A stream whose records the converter made, with the converters between  *)
(* them: row[j] is what the song writes in the frame of record j.          *)
OfSong(s, p, c) == c \in Converter /\ c.source_clock = s.clock_hz /\ c.pitch_conversion = p

CarriedStream(s, p, st, n, b, a, row) ==
  /\ Marks(st, n, b)
  /\ \A j \in 0 .. n : OfSong(s, p, a[j])
  /\ \A j \in 0 .. n - 1 : Carries(a[j], a[j + 1], row[j], RecordWrites(st, b[j]))

(* The chips that are in tune by c are by d, which goes on from there.     *)
Turns(c, d) == \A x, y : InTune(c, x, y) => InTune(d, x, y)

(* A chip with every period at 0 and no FM channel tuned.                   *)
Unpitched(h) ==
  /\ h \in Chip /\ h.high = 0 /\ h.high3 = 0
  /\ \A r \in Reg \cap (PsgPeriod \cup Noise) : h.regs[r] = 0
  /\ \A l \in FmCommit : h.fm[l] = Untuned

(* A converter to begin the song with.                                     *)
Ready(c) == \A h : Unpitched(h) => InTune(c, h, h)

(* The converter a pass begins with goes on from one that remembers as     *)
(* much: that its cache is forgotten only makes it send more.              *)
LEMMA StartTurns ==
  ASSUME NEW s, NEW p, NEW c, NEW n, OfSong(s, p, c), Remembers(s, c, n),
         NEW seg, NEW d, Start(s, p, d, seg), Before(s, seg) = n
  PROVE  Turns(c, d)
  <1> SUFFICES ASSUME NEW x, NEW y, InTune(c, x, y)
               PROVE  InTune(d, x, y)
    BY DEF Turns
  <1>1. /\ d \in Converter /\ d.pitch_conversion = p /\ Remembers(s, d, n)
        /\ d.target_known = [r \in Reg |-> FALSE]
    BY DEF Start
  <1>2. d.source_clock = c.source_clock /\ d.pitch_conversion = c.pitch_conversion
    BY <1>1 DEF Remembers, OfSong
  <1>3. \A r \in Reg \cap (PsgPeriod \cup Noise) : d.source[r] = c.source[r]
    BY <1>1 DEF Remembers
  <1>4. Adapts(d) <=> Adapts(c)
    BY <1>2 DEF Adapts
  <1>5. Adapts(c) => /\ d.fm_high_latch = c.fm_high_latch
                     /\ d.fm_channel3_high_latch = c.fm_channel3_high_latch
    BY <1>1, <1>4 DEF Remembers
  <1>6. \A r \in Reg : ~d.target_known[r]
    BY <1>1
  <1> QED
    BY <1>1, <1>2, <1>3, <1>5, <1>6, ForgottenStaysInTune

(* The first pass begins with a converter that has nothing to remember.    *)
LEMMA StartReady ==
  ASSUME NEW s, NEW p \in BOOLEAN, s.clock_hz \in Clocks,
         NEW seg, NEW d, Start(s, p, d, seg), Before(s, seg) = 0
  PROVE  Ready(d)
  <1> SUFFICES ASSUME NEW h, Unpitched(h)
               PROVE  InTune(d, h, h)
    BY DEF Ready
  <1>1. PICK c : c = NewConverter(s.clock_hz, p)
    OBVIOUS
  <1>2. InTune(c, h, h)
    BY <1>1, SilentInTune DEF Unpitched
  <1>3. Remembers(s, c, 0)
    BY <1>1, NewRemembers
  <1>4. OfSong(s, p, c)
    <2>1. c \in Converter
      BY <1>2 DEF InTune
    <2> QED
      BY <1>1, <2>1 DEF OfSong, NewConverter
  <1>5. Turns(c, d)
    BY <1>3, <1>4, StartTurns
  <1> QED
    BY <1>2, <1>5 DEF Turns

(* The stream of a call of convert_segment.                                *)
LEMMA PassIsCarried ==
  ASSUME NEW s, NEW seg, IsSegment(s, seg), NEW p, NEW out, IsOutputOfPass(s, p, seg, out),
         NEW total, total = FrameTotal(s, seg)
  PROVE  \E b, a, row :
           /\ CarriedStream(s, p, out, total, b, a, row)
           /\ \A j \in 0 .. total - 1 : row[j] = Written(s, seg, j)
           /\ Start(s, p, a[0], seg)
           /\ Remembers(s, a[total], Final(s, seg))
  <1>0. total \in Nat
    BY FramesOfSegment
  <1>1. PICK q : /\ q = Part(seg) /\ IsSegment(s, q) /\ WriteTotal(s, q) = WriteTotal(s, seg)
                 /\ FrameTotal(s, q) = total
    BY PartOfSong
  <1>2. PICK c, f, h : /\ Start(s, p, c, seg) /\ IsPass(s, q, c, f)
                       /\ Streams(f[WriteTotal(s, q)][2], h)
                       /\ Counted16(f[WriteTotal(s, q)][2], total)
                       /\ out = h[total]
    BY <1>1 DEF IsOutputOfPass
  <1>31. PICK L \in Nat : L = WriteTotal(s, q)
    BY <1>1, SegmentSpan
  <1>3. PICK fr : L = WriteTotal(s, q) /\ fr = f[WriteTotal(s, q)][2]
    BY <1>31
  <1>4. fr \in [0 .. total - 1 -> Seq(Write)]
    BY <1>1, <1>2, <1>3, PassBegun DEF PassFrames
  <1>5. PICK b : Rows(out, total, b, fr)
    BY <1>0, <1>2, <1>3, <1>4, RowsOfStreams
  <1>6. c \in Converter /\ c.pitch_conversion = p /\ c.source_clock = s.clock_hz
    BY <1>2 DEF Start, Remembers
  <1>7. PICK a : /\ Carried(s, q, L, f[L], a, c)
                 /\ a[total] = f[L][1]
    BY <1>1, <1>2, <1>3, <1>6, PassCarries
  <1>8. \A j \in 0 .. total : OfSong(s, p, a[j])
    <2>1. \A j \in 0 .. total : j \in Nat
      BY <1>0
    <2> QED
      BY <1>6, <1>7, <2>1 DEF Carried, OfSong
  <1> DEFINE row == [j \in 0 .. total - 1 |-> Written(s, seg, j)]
  <1>9. \A j \in 0 .. total - 1 : row[j] = Written(s, seg, j)
    OBVIOUS
  <1> HIDE DEF row
  <1>10. ASSUME NEW j \in 0 .. total - 1
         PROVE  Carries(a[j], a[j + 1], row[j], RecordWrites(out, b[j]))
    <2>1. FrameCarried(s, q, L, f[L][2], a, j)
      BY <1>1, <1>7 DEF Carried
    <2>2. Carries(a[j], a[j + 1], Picked(Pairs(s), Mine(s, q, L, j, {})), fr[j])
      BY <1>3, <2>1 DEF FrameCarried
    <2>3. row[j] = Picked(Pairs(s), Mine(s, q, L, j, {}))
      BY <1>1, <1>3, <1>9 DEF Written
    <2>4. RecordWrites(out, b[j]) = fr[j]
      BY <1>5 DEF Rows
    <2> QED
      BY <2>2, <2>3, <2>4
  <1>11. CarriedStream(s, p, out, total, b, a, row)
    BY <1>5, <1>8, <1>10 DEF CarriedStream, Rows
  <1>12. Start(s, p, a[0], seg)
    BY <1>2, <1>7 DEF Carried
  <1>13. Remembers(s, a[total], Final(s, seg))
    <2>1. IsPass(s, Part(seg), c, f) /\ a[total] = f[WriteTotal(s, seg)][1]
      BY <1>1, <1>2, <1>3, <1>7
    <2> QED
      BY <1>2, <2>1, PassRemembers
  <1> QED
    BY <1>9, <1>11, <1>12, <1>13

(* A row that begins with n elements of a and goes on with m of e.         *)
InARow(g, a, n, e, m) ==
  /\ \A j \in 0 .. n - 1 : g[j] = a[j]
  /\ \A j \in 0 .. m - 1 : g[n + j] = e[j]

(* Two functions in a row make one.                                        *)
LEMMA RowExists ==
  ASSUME NEW n \in Nat, NEW m \in Nat, NEW a, NEW e
  PROVE  \E g : InARow(g, a, n, e, m)
  <1> DEFINE g == [j \in 0 .. (n + m) - 1 |-> IF j < n THEN a[j] ELSE e[j - n]]
  <1>1. ASSUME NEW j \in 0 .. n - 1 PROVE g[j] = a[j]
    <2>1. j \in 0 .. (n + m) - 1 /\ j < n
      OBVIOUS
    <2> QED
      BY <2>1
  <1>2. ASSUME NEW j \in 0 .. m - 1 PROVE g[n + j] = e[j]
    <2>1. PICK k \in Nat : k = n + j
      OBVIOUS
    <2>2. k \in 0 .. (n + m) - 1 /\ ~(k < n) /\ k - n = j
      BY <2>1
    <2>3. g[k] = e[k - n]
      BY <2>2
    <2> QED
      BY <2>1, <2>2, <2>3
  <1> HIDE DEF g
  <1>3. InARow(g, a, n, e, m)
    BY <1>1, <1>2 DEF InARow
  <1> QED
    BY <1>3

(* Two such streams, one behind the other, are one.                        *)
LEMMA CarriedJoin ==
  ASSUME NEW z, NEW p,
         NEW s \in Seq(Pair), NEW n \in Nat, NEW b, NEW a, NEW u,
         CarriedStream(z, p, s, n, b, a, u),
         NEW t \in Seq(Pair), NEW m \in Nat, NEW c, NEW e, NEW v,
         CarriedStream(z, p, t, m, c, e, v),
         Turns(a[n], e[0]), NEW st, Joins(st, s, t)
  PROVE  \E d, g, w : /\ CarriedStream(z, p, st, n + m, d, g, w)
                      /\ KeepMarks(d, n, b, m, c, Len(s))
                      /\ InARow(g, a, n, e, m + 1) /\ InARow(w, u, n, v, m)
  <1>1. Marks(s, n, b) /\ Marks(t, m, c)
    BY DEF CarriedStream
  <1>2. PICK d : Marks(st, n + m, d) /\ KeepMarks(d, n, b, m, c, Len(s))
    BY <1>1, JoinedMarks
  <1>3. \A j \in 0 .. n - 1 : RecordWrites(st, d[j]) = RecordWrites(s, b[j])
    BY <1>1, <1>2, RowsJoin
  <1>4. \A j \in 0 .. m - 1 : RecordWrites(st, d[n + j]) = RecordWrites(t, c[j])
    BY <1>1, <1>2, RowsJoin
  <1>5. PICK m2 \in Nat : m2 = m + 1
    OBVIOUS
  <1>6. PICK g : InARow(g, a, n, e, m2)
    BY RowExists
  <1>7. PICK w : InARow(w, u, n, v, m)
    BY RowExists
  <1>8. /\ \A j \in 0 .. n - 1 : g[j] = a[j] /\ w[j] = u[j]
        /\ \A j \in 0 .. m - 1 : w[n + j] = v[j]
        /\ \A j \in 0 .. m : g[n + j] = e[j]
    <2>1. \A j \in 0 .. m : j \in 0 .. m2 - 1
      BY <1>5
    <2> QED
      BY <1>6, <1>7, <2>1 DEF InARow
  <1>9. /\ \A j \in 0 .. n : OfSong(z, p, a[j])
        /\ \A j \in 0 .. n - 1 : Carries(a[j], a[j + 1], u[j], RecordWrites(s, b[j]))
    BY DEF CarriedStream
  <1>10. /\ \A j \in 0 .. m : OfSong(z, p, e[j])
         /\ \A j \in 0 .. m - 1 : Carries(e[j], e[j + 1], v[j], RecordWrites(t, c[j]))
    BY DEF CarriedStream
  <1>11. ASSUME NEW j \in 0 .. n + m
         PROVE  OfSong(z, p, g[j])
    <2>1. CASE j < n
      <3>1. j \in 0 .. n - 1 /\ j \in 0 .. n
        BY <2>1
      <3> QED
        BY <1>8, <1>9, <3>1
    <2>2. CASE ~(j < n)
      <3>1. PICK k \in 0 .. m : j = n + k
        <4>1. j - n \in 0 .. m /\ j = n + (j - n)
          BY <2>2
        <4> QED
          BY <4>1
      <3> QED
        BY <1>8, <1>10, <3>1
    <2> QED
      BY <2>1, <2>2
  <1>12. ASSUME NEW j \in 0 .. (n + m) - 1
         PROVE  Carries(g[j], g[j + 1], w[j], RecordWrites(st, d[j]))
    <2>1. CASE j < n
      <3>1. j \in 0 .. n - 1
        BY <2>1
      <3>2. Carries(a[j], a[j + 1], u[j], RecordWrites(s, b[j]))
        BY <1>9, <3>1
      <3>3. g[j] = a[j] /\ w[j] = u[j] /\ RecordWrites(st, d[j]) = RecordWrites(s, b[j])
        BY <1>3, <1>8, <3>1
      <3>4. CASE j + 1 < n
        <4>1. j + 1 \in 0 .. n - 1
          BY <3>4
        <4>2. g[j + 1] = a[j + 1]
          BY <1>8, <4>1
        <4> QED
          BY <3>2, <3>3, <4>2
      <3>5. CASE ~(j + 1 < n)
        <4>1. j + 1 = n /\ n + 0 = n /\ 0 \in 0 .. m
          BY <3>1, <3>5
        <4>2. g[j + 1] = e[0] /\ a[j + 1] = a[n]
          BY <1>8, <4>1
        <4>3. Carries(a[j], e[0], u[j], RecordWrites(s, b[j]))
          BY <3>2, <4>2 DEF Carries, Turns
        <4> QED
          BY <3>3, <4>2, <4>3
      <3> QED
        BY <3>4, <3>5
    <2>2. CASE ~(j < n)
      <3>1. PICK k \in 0 .. m - 1 : j = n + k
        <4>1. j - n \in 0 .. m - 1 /\ j = n + (j - n)
          BY <2>2
        <4> QED
          BY <4>1
      <3>2. k \in 0 .. m /\ k + 1 \in 0 .. m /\ j + 1 = n + (k + 1)
        BY <3>1
      <3>3. g[j] = e[k] /\ g[j + 1] = e[k + 1] /\ w[j] = v[k]
            /\ RecordWrites(st, d[j]) = RecordWrites(t, c[k])
        BY <1>4, <1>8, <3>1, <3>2
      <3> QED
        BY <1>10, <3>3
    <2> QED
      BY <2>1, <2>2
  <1>13. CarriedStream(z, p, st, n + m, d, g, w)
    BY <1>2, <1>11, <1>12 DEF CarriedStream
  <1> QED
    BY <1>2, <1>5, <1>6, <1>7, <1>13

-----------------------------------------------------------------------------
(* The song returned, carried from its first record to its last and round. *)

(* A stream has its marks once.                                            *)
LEMMA MarksAreOne ==
  ASSUME NEW s, NEW n \in Nat, NEW b, Marks(s, n, b), NEW c, Marks(s, n, c)
  PROVE  \A j \in 0 .. n : b[j] = c[j]
  <1> DEFINE K == {j \in 0 .. n : b[j] = c[j]}
  <1>1. 0 \in K
    BY DEF Marks
  <1>2. ASSUME NEW j \in 0 .. n - 1, j \in K
        PROVE  j + 1 \in K
    <2>1. b[j] = c[j] /\ j + 1 \in 0 .. n
      BY <1>2
    <2>2. b[j + 1] = AfterRecord(s, b[j]) /\ c[j + 1] = AfterRecord(s, c[j])
      BY DEF Marks
    <2> QED
      BY <2>1, <2>2
  <1> HIDE DEF K
  <1>3. 0 .. n \subseteq K
    BY <1>1, <1>2, EveryNumberUpTo
  <1> QED
    BY <1>3 DEF K

(* Score.tla cuts the song into frames as the host did.                    *)
LEMMA ScoreFrames ==
  /\ \A seg : Promise!SegmentWrites(song, seg) = SegmentWrites(song, seg)
  /\ \A seg, k : Promise!FrameOf(song, seg, k) = FrameOf(song, seg, k)
  /\ Promise!Pairs(song) = Pairs(song)
  /\ \A S : Promise!Min(S) = Min(S) /\ Promise!Max(S) = Max(S)
  BY DEF Promise!SegmentWrites, SegmentWrites, Promise!FrameOf, FrameOf,
         Promise!StartSample, StartSample, Promise!Pairs, Pairs,
         Promise!Min, Min, Promise!Max, Max

(* The batch of a frame of the score is what the song writes in it.        *)
LEMMA BatchIsWritten ==
  ASSUME ConvertInv, step = "done", NEW n \in Nat, NEW seg, NEW j,
         IF n < frame_count["intro"] THEN seg = "intro" /\ j = n
         ELSE song.has_loop /\ seg = "first" /\ j = n - frame_count["intro"]
  PROVE  Promise!Batch(song, n) = Written(song, seg, j)
  <1>1. WellFormed(song) /\ frame_count["intro"] \in Nat
        /\ Promise!IntroFrames(song) = frame_count["intro"]
    BY ScoreCounts DEF ConvertInv, TypesHold
  <1>2. IsSegment(song, seg) /\ Part(seg) = seg
    BY <1>1 DEF IsSegment, Segment, Part
  <1>3. seg = (IF n < frame_count["intro"] THEN "intro" ELSE "first")
        /\ j = (IF seg = "intro" THEN n ELSE n - frame_count["intro"])
    OBVIOUS
  <1> DEFINE mine == Frame(song, seg, j)
  <1>4. mine = {m \in Promise!SegmentWrites(song, seg) : Promise!FrameOf(song, seg, m) = j}
    BY ScoreFrames DEF Frame
  <1>5. Promise!Batch(song, n)
          = IF mine = {} THEN <<>>
            ELSE SubSeq(Promise!Pairs(song), Promise!Min(mine), Promise!Max(mine))
    <2>1. PICK x : x = frame_count["intro"]
      OBVIOUS
    <2>2. PICK F : F = mine
      OBVIOUS
    <2>3. F = {m \in Promise!SegmentWrites(song, seg) : Promise!FrameOf(song, seg, m) = j}
      BY <1>4, <2>2
    <2> HIDE DEF mine
    <2>4. Promise!Batch(song, n)
          = IF F = {} THEN <<>>
            ELSE SubSeq(Promise!Pairs(song), Promise!Min(F), Promise!Max(F))
      BY <1>1, <1>3, <2>3 DEF Promise!Batch
    <2> QED
      BY <2>2, <2>4
  <1>6. Written(song, seg, j)
          = IF mine = {} THEN <<>> ELSE SubSeq(Pairs(song), Min(mine), Max(mine))
    BY <1>2, WrittenIsBatch
  <1> HIDE DEF mine
  <1> QED
    BY <1>5, <1>6, ScoreFrames

(* Both passes of the loop are of the same writes.                         *)
LEMMA PassesWriteAlike ==
  \A s, j : Written(s, "steady", j) = Written(s, "first", j)
  BY DEF Written, Part

(* A row that is carried begins ready if its parts do.                     *)
LEMMA RowIsReady ==
  ASSUME NEW g, NEW a, NEW n \in Nat, NEW e, NEW m \in Nat, InARow(g, a, n, e, m + 1),
         Ready(a[0]), Turns(a[n], e[0])
  PROVE  Ready(g[0])
  <1>1. CASE n = 0
    <2>1. 0 \in 0 .. (m + 1) - 1 /\ n + 0 = 0
      BY <1>1
    <2>2. g[0] = e[0]
      BY <2>1 DEF InARow
    <2>3. Turns(a[0], e[0])
      BY <1>1
    <2> QED
      BY <2>2, <2>3 DEF Turns, Ready
  <1>2. CASE n # 0
    <2>1. 0 \in 0 .. n - 1
      BY <1>2
    <2> QED
      BY <2>1 DEF InARow
  <1> QED
    BY <1>1, <1>2

(* A segment's call, when the song is done.                                *)
LEMMA SegmentIsCarried ==
  ASSUME PassInv, step = "done", NEW seg \in Segment, seg # "intro" => song.has_loop,
         NEW total, total = FrameTotal(song, seg)
  PROVE  /\ total \in Nat /\ output[seg] \in Seq(Pair) /\ IsSegment(song, seg)
         /\ \E b, a, row :
              /\ CarriedStream(song, Pitch, output[seg], total, b, a, row)
              /\ \A j \in 0 .. total - 1 : row[j] = Written(song, seg, j)
              /\ Start(song, Pitch, a[0], seg)
              /\ Remembers(song, a[total], Final(song, seg))
  <1>1. TypesHold /\ StreamsGrow /\ ResultIsJoined
    BY DEF PassInv, ConvertInv
  <1>2. seg \in Behind
    <2>1. song.has_loop => segment = "steady"
      BY <1>1 DEF ResultIsJoined
    <2>2. ~song.has_loop => segment = "intro"
      BY <1>1 DEF ResultIsJoined
    <2> QED
      BY <2>1, <2>2 DEF Behind, Segment
  <1>3. IsOutputOfPass(song, Pitch, seg, output[seg])
    BY <1>2 DEF PassInv, PassesMade
  <1>4. IsSegment(song, seg)
    BY <1>1 DEF IsSegment, TypesHold
  <1>5. output[seg] \in Seq(Pair)
    BY <1>1 DEF TypesHold
  <1>6. total \in Nat
    BY <1>4, FramesOfSegment
  <1> QED
    BY <1>3, <1>4, <1>5, <1>6, PassIsCarried

(* The intro and the first pass of the loop, one behind the other, and the *)
(* pass that follows either pass.                                          *)
LoopParts(x, n, m, d, g, w, c, e, v) ==
  /\ CarriedStream(song, Pitch, x, n + m, d, g, w) /\ Ready(g[0])
  /\ CarriedStream(song, Pitch, output["steady"], m, c, e, v)
  /\ Turns(g[n + m], e[0]) /\ Turns(e[m], e[0])
  /\ \A j \in 0 .. (n + m) - 1 : w[j] = Promise!Batch(song, j)
  /\ \A j \in 0 .. m - 1 : v[j] = Promise!Batch(song, n + j)
  /\ d[n] = Len(output["intro"])
  /\ LoopIsStable(output) =>
       \A j \in 0 .. m - 1 : RecordWrites(x, d[n + j]) = RecordWrites(output["steady"], c[j])

(* The streams of a song with a loop are carried, and the converters turn  *)
(* from each to the next.                                                  *)
LEMMA LoopIsCarried ==
  ASSUME PassInv, step = "done", song.has_loop,
         NEW n, n = FrameTotal(song, "intro"), NEW m, m = FrameTotal(song, "first"),
         NEW x, Joins(x, output["intro"], output["first"])
  PROVE  \E d, g, w, c, e, v : LoopParts(x, n, m, d, g, w, c, e, v)
  <1>0. ConvertInv /\ WellFormed(song) /\ Pitch \in BOOLEAN /\ "intro" \in Segment
        /\ "first" \in Segment /\ "steady" \in Segment
    BY DEF PassInv, ConvertInv, TypesHold, Pitch, Converter, Segment
  <1>1. n \in Nat /\ output["intro"] \in Seq(Pair)
    BY <1>0, SegmentIsCarried
  <1>2. PICK b0, a0, r0 :
          /\ CarriedStream(song, Pitch, output["intro"], n, b0, a0, r0)
          /\ \A j \in 0 .. n - 1 : r0[j] = Written(song, "intro", j)
          /\ Start(song, Pitch, a0[0], "intro")
          /\ Remembers(song, a0[n], Final(song, "intro"))
    BY <1>0, SegmentIsCarried
  <1>3. m \in Nat /\ output["first"] \in Seq(Pair) /\ IsSegment(song, "first")
    BY <1>0, SegmentIsCarried
  <1>4. PICK b1, a1, r1 :
          /\ CarriedStream(song, Pitch, output["first"], m, b1, a1, r1)
          /\ \A j \in 0 .. m - 1 : r1[j] = Written(song, "first", j)
          /\ Start(song, Pitch, a1[0], "first")
          /\ Remembers(song, a1[m], Final(song, "first"))
    BY <1>0, SegmentIsCarried
  <1>5. m = FrameTotal(song, "steady")
    BY PassesAlike
  <1>6. PICK c, e, v :
          /\ CarriedStream(song, Pitch, output["steady"], m, c, e, v)
          /\ \A j \in 0 .. m - 1 : v[j] = Written(song, "steady", j)
          /\ Start(song, Pitch, e[0], "steady")
          /\ Remembers(song, e[m], Final(song, "steady"))
    BY <1>0, <1>5, SegmentIsCarried
  <1>7. /\ Final(song, "intro") = song.loop_write /\ Before(song, "first") = song.loop_write
        /\ Final(song, "first") = Len(song.writes) /\ Before(song, "steady") = Len(song.writes)
        /\ Final(song, "steady") = Len(song.writes) /\ Before(song, "intro") = 0
    BY DEF Final, Before, Base
  <1>8. OfSong(song, Pitch, a0[n]) /\ OfSong(song, Pitch, a1[m]) /\ OfSong(song, Pitch, e[m])
    <2>1. n \in 0 .. n /\ m \in 0 .. m
      BY <1>1, <1>3
    <2> QED
      BY <1>2, <1>4, <1>6, <2>1 DEF CarriedStream
  <1>9. Turns(a0[n], a1[0])
    BY <1>2, <1>4, <1>7, <1>8, StartTurns
  <1>10. Turns(a1[m], e[0])
    BY <1>4, <1>6, <1>7, <1>8, StartTurns
  <1>11. Turns(e[m], e[0])
    BY <1>6, <1>7, <1>8, StartTurns
  <1>12. Ready(a0[0])
    <2>1. song.clock_hz \in Clocks
      BY <1>0 DEF WellFormed, vgm_song
    <2> QED
      BY <1>0, <1>2, <1>7, <2>1, StartReady
  <1>13. PICK d, g, w :
           /\ CarriedStream(song, Pitch, x, n + m, d, g, w)
           /\ KeepMarks(d, n, b0, m, b1, Len(output["intro"]))
           /\ InARow(g, a0, n, a1, m + 1) /\ InARow(w, r0, n, r1, m)
    <2>1. PICK s \in Seq(Pair), t \in Seq(Pair) : s = output["intro"] /\ t = output["first"]
      BY <1>1, <1>3
    <2>2. CarriedStream(song, Pitch, s, n, b0, a0, r0)
      BY <1>2, <2>1
    <2>3. CarriedStream(song, Pitch, t, m, b1, a1, r1)
      BY <1>4, <2>1
    <2>4. Joins(x, s, t)
      BY <2>1
    <2>5. \E d, g, w : /\ CarriedStream(song, Pitch, x, n + m, d, g, w)
                       /\ KeepMarks(d, n, b0, m, b1, Len(s))
                       /\ InARow(g, a0, n, a1, m + 1) /\ InARow(w, r0, n, r1, m)
      BY <1>1, <1>3, <1>9, <2>2, <2>3, <2>4, CarriedJoin
    <2> QED
      BY <2>1, <2>5
  <1>14. Ready(g[0])
    BY <1>1, <1>3, <1>9, <1>12, <1>13, RowIsReady
  <1>15. Turns(g[n + m], e[0])
    <2>1. m \in 0 .. (m + 1) - 1
      BY <1>3
    <2>2. g[n + m] = a1[m]
      BY <1>13, <2>1 DEF InARow
    <2> QED
      BY <1>10, <2>2
  <1>16. frame_count["intro"] = n
    BY <1>0, SongIsMarked
  <1>17. ASSUME NEW j \in 0 .. (n + m) - 1
         PROVE  w[j] = Promise!Batch(song, j)
    <2>1. j \in Nat
      BY <1>1, <1>3
    <2>2. CASE j < n
      <3>1. j \in 0 .. n - 1
        BY <1>1, <2>1, <2>2
      <3>2. w[j] = r0[j] /\ r0[j] = Written(song, "intro", j)
        BY <1>2, <1>13, <3>1 DEF InARow
      <3>3. Promise!Batch(song, j) = Written(song, "intro", j)
        BY <1>0, <1>16, <2>1, <2>2, BatchIsWritten
      <3> QED
        BY <3>2, <3>3
    <2>3. CASE ~(j < n)
      <3>1. PICK q \in 0 .. m - 1 : j = n + q /\ q = j - n
        <4>1. j - n \in 0 .. m - 1 /\ j = n + (j - n)
          BY <1>1, <1>3, <2>3
        <4> QED
          BY <4>1
      <3>2. w[j] = r1[q] /\ r1[q] = Written(song, "first", q)
        BY <1>4, <1>13, <3>1 DEF InARow
      <3>3. Promise!Batch(song, j) = Written(song, "first", q)
        BY <1>0, <1>16, <2>1, <2>3, <3>1, BatchIsWritten
      <3> QED
        BY <3>2, <3>3
    <2> QED
      BY <2>2, <2>3
  <1>18. ASSUME NEW j \in 0 .. m - 1
         PROVE  v[j] = Promise!Batch(song, n + j)
    <2>1. PICK q \in Nat : q = n + j
      BY <1>1, <1>3
    <2>2. ~(q < n) /\ j = q - n
      BY <1>1, <1>3, <2>1
    <2>3. Promise!Batch(song, q) = Written(song, "first", j)
      BY <1>0, <1>16, <2>2, BatchIsWritten
    <2> QED
      BY <1>6, <2>1, <2>3, PassesWriteAlike
  <1>19. d[n] = Len(output["intro"])
    <2>1. n \in 0 .. n
      BY <1>1
    <2>2. d[n] = b0[n]
      BY <1>13, <2>1 DEF KeepMarks
    <2> QED
      BY <1>2, <2>2 DEF CarriedStream, Marks
  <1>20. ASSUME LoopIsStable(output), NEW j \in 0 .. m - 1
         PROVE  RecordWrites(x, d[n + j]) = RecordWrites(output["steady"], c[j])
    <2>1. Marks(output["first"], m, b1) /\ Marks(output["first"], m, c)
          /\ Marks(output["intro"], n, b0) /\ Marks(x, n + m, d)
          /\ KeepMarks(d, n, b0, m, b1, Len(output["intro"]))
      BY <1>2, <1>4, <1>6, <1>13, <1>20 DEF CarriedStream, LoopIsStable
    <2>2. \A k \in 0 .. m : b1[k] = c[k]
      BY <1>3, <2>1, MarksAreOne
    <2>3. j \in 0 .. m
      BY <1>3
    <2>4. b1[j] = c[j]
      BY <2>2, <2>3
    <2>5. \A k \in 0 .. m - 1 : RecordWrites(x, d[n + k]) = RecordWrites(output["first"], b1[k])
      BY <1>1, <1>3, <2>1, RowsJoin
    <2>6. output["first"] = output["steady"]
      BY <1>20 DEF LoopIsStable
    <2> QED
      BY <2>4, <2>5, <2>6
  <1>21. LoopParts(x, n, m, d, g, w, c, e, v)
    BY <1>6, <1>11, <1>13, <1>14, <1>15, <1>17, <1>18, <1>19, <1>20 DEF LoopParts
  <1> QED
    BY <1>21

(* The rest of a small number is the number.                               *)
LEMMA SmallRest ==
  ASSUME NEW m \in Nat \ {0}, NEW j \in 0 .. m - 1
  PROVE  j % m = j
  OBVIOUS

(* A whole loop more does not change the rest.                             *)
LEMMA RestOfSum ==
  ASSUME NEW m \in Nat \ {0}, NEW j \in 0 .. m - 1
  PROVE  (m + j) % m = j
  OBVIOUS

(* Each frame of the song is shown once before the loop comes round.       *)
InTurn(n, m, N) ==
  /\ \A j \in 0 .. N - 1 : Shown(j) = j
  /\ \A j \in 0 .. m - 1 : Shown(N + j) = n + j

(* The score comes round with the loop.                                    *)
LEMMA ShownInTurn ==
  ASSUME ConvertInv, step = "done", song.has_loop,
         NEW n, n = frame_count["intro"], NEW m, m = converted.loop_frame_count,
         NEW N, N = n + m
  PROVE  /\ n \in Nat /\ m \in Nat \ {0}
         /\ InTurn(n, m, N)
  <1>1. n \in Nat /\ m \in Nat \ {0}
    BY ScoreCounts
  <1>2. \A j : Shown(j) = IF j >= n THEN n + ((j - n) % m) ELSE j
    BY DEF Shown
  <1>3. ASSUME NEW j \in 0 .. N - 1
        PROVE  Shown(j) = j
    <2>1. CASE j >= n
      <3>1. PICK d \in 0 .. m - 1 : d = j - n /\ j = n + d
        BY <1>1, <2>1
      <3>2. d % m = d
        BY <1>1, SmallRest
      <3>3. Shown(j) = n + (d % m)
        BY <1>2, <2>1, <3>1
      <3> QED
        BY <3>1, <3>2, <3>3
    <2>2. CASE ~(j >= n)
      BY <1>2, <2>2
    <2> QED
      BY <2>1, <2>2
  <1>4. ASSUME NEW j \in 0 .. m - 1
        PROVE  Shown(N + j) = n + j
    <2>1. PICK k \in Nat, d \in Nat : k = N + j /\ d = m + j /\ d = k - n /\ k >= n
      BY <1>1
    <2>2. Shown(k) = n + (d % m)
      BY <1>2, <2>1
    <2>3. d % m = j
      BY <1>1, <2>1, RestOfSum
    <2> QED
      BY <2>1, <2>2, <2>3
  <1> QED
    BY <1>1, <1>3, <1>4 DEF InTurn

(* The song's record k, with the converter before it and after it.         *)
RecordCarries(b, a, k) ==
  Carries(a[k], a[k + 1], Promise!Batch(song, Shown(k)), RecordWrites(converted.stream, b[k]))

(* The song's converters: a from its first record to its last, and e each  *)
(* time the player comes round.                                            *)
SongCarries(b, a, e) ==
  /\ SongMarks(b)
  /\ Ready(a[0])
  /\ \A k \in 0 .. converted.frame_count : OfSong(song, Pitch, a[k])
  /\ \A k \in 0 .. converted.frame_count - 1 : RecordCarries(b, a, k)
  /\ song.has_loop =>
       /\ Turns(a[converted.frame_count], e[LoopMark])
       /\ Turns(e[converted.frame_count], e[LoopMark])
       /\ \A k \in LoopMark .. converted.frame_count : OfSong(song, Pitch, e[k])
       /\ \A k \in LoopMark .. converted.frame_count - 1 : RecordCarries(b, e, k)

(* A song without a loop.                                                  *)
LEMMA PlainSongIsCarried ==
  ASSUME PassInv, step = "done", ~song.has_loop
  PROVE  \E b, a, e : SongCarries(b, a, e)
  <1>0. ConvertInv /\ TypesHold /\ WellFormed(song) /\ Pitch \in BOOLEAN /\ "intro" \in Segment
    BY DEF PassInv, ConvertInv, TypesHold, Pitch, Converter, Segment
  <1>1. PICK n \in Nat : n = FrameTotal(song, "intro")
    BY <1>0, SegmentIsCarried
  <1>2. PICK b, a, r :
          /\ CarriedStream(song, Pitch, output["intro"], n, b, a, r)
          /\ \A j \in 0 .. n - 1 : r[j] = Written(song, "intro", j)
          /\ Start(song, Pitch, a[0], "intro")
    BY <1>0, <1>1, SegmentIsCarried
  <1>3. /\ converted.stream = output["intro"] /\ converted.frame_count = n
        /\ frame_count["intro"] = n
    BY <1>0, <1>1, SongIsMarked DEF ConvertInv, ResultIsJoined
  <1>4. SongMarks(b)
    BY <1>2, <1>3 DEF SongMarks, CarriedStream
  <1>5. Ready(a[0])
    <2>1. song.clock_hz \in Clocks /\ Before(song, "intro") = 0
      BY <1>0 DEF WellFormed, vgm_song, Before, Base
    <2> QED
      BY <1>0, <1>2, <2>1, StartReady
  <1>6. ASSUME NEW k \in 0 .. n - 1
        PROVE  RecordCarries(b, a, k)
    <2>1. Shown(k) = k /\ k \in Nat /\ k < n
      BY DEF Shown
    <2>2. Promise!Batch(song, k) = Written(song, "intro", k)
      BY <1>0, <1>3, <2>1, BatchIsWritten
    <2>3. Carries(a[k], a[k + 1], r[k], RecordWrites(output["intro"], b[k]))
      BY <1>2 DEF CarriedStream
    <2> QED
      BY <1>2, <1>3, <2>1, <2>2, <2>3 DEF RecordCarries
  <1>7. \A k \in 0 .. n : OfSong(song, Pitch, a[k])
    BY <1>2 DEF CarriedStream
  <1>8. SongCarries(b, a, a)
    BY <1>3, <1>4, <1>5, <1>6, <1>7 DEF SongCarries
  <1> QED
    BY <1>8

(* What the song returned is made of, when it has a loop: n frames of      *)
(* intro and m of loop, x the stream of both.                              *)
JoinedLoop(n, m, x) ==
  /\ n \in Nat /\ m \in Nat \ {0}
  /\ frame_count["intro"] = n /\ converted.loop_frame_count = m
  /\ output["intro"] \in Seq(Pair) /\ output["steady"] \in Seq(Pair)
  /\ x \in Seq(Pair) /\ Len(x) = Len(output["intro"]) + Len(output["first"])
  /\ LoopIsStable(output) =>
       /\ converted.stream = x /\ converted.frame_count = n + m
       /\ converted.loop_offset = Len(output["intro"])
  /\ ~LoopIsStable(output) =>
       /\ Joins(converted.stream, x, output["steady"])
       /\ converted.frame_count = (n + m) + m
       /\ converted.loop_offset = Len(x)

(* The song returned is put together as JoinedLoop says.                   *)
LEMMA LoopIsJoined ==
  ASSUME ConvertInv, step = "done", song.has_loop,
         NEW n, n = FrameTotal(song, "intro"), NEW m, m = FrameTotal(song, "first"),
         NEW x, Joins(x, output["intro"], output["first"])
  PROVE  JoinedLoop(n, m, x)
  <1>1. /\ n \in Nat /\ m \in Nat \ {0}
        /\ frame_count["intro"] = n /\ converted.loop_frame_count = m
    BY SongIsMarked
  <1>2. PICK a \in Seq(Pair), b \in Seq(Pair), c \in Seq(Pair) :
          a = output["intro"] /\ b = output["first"] /\ c = output["steady"]
    BY DEF ConvertInv, TypesHold, Segment
  <1>3. x = a \o b
    BY <1>2 DEF Joins
  <1>4. x \in Seq(Pair) /\ Len(x) = Len(a) + Len(b) /\ x \o <<>> = x
    BY <1>3, ConcatProperties, ConcatEmptySeq
  <1>5. /\ segment = "steady"
        /\ converted.stream = a \o b \o (IF LoopIsStable(output) THEN <<>> ELSE c)
        /\ converted.loop_offset = LoopStart(output)
        /\ converted.frame_count = frame_count["intro"] + frame_count["first"]
             + (IF LoopIsStable(output) THEN 0 ELSE frame_count["steady"])
        /\ converted.loop_frame_count = frame_count["steady"]
    BY <1>2 DEF ConvertInv, ResultIsJoined
  <1>6. frame_count["first"] = m
    <2>1. "first" \in Behind /\ "first" \in Segment
      BY <1>5 DEF Behind, Segment
    <2>2. StreamsGrow
      BY DEF ConvertInv
    <2>3. frame_count["first"] = FrameTotal(song, "first")
      BY <2>1, <2>2 DEF StreamsGrow
    <2> QED
      BY <2>3
  <1>7. converted.stream = x \o (IF LoopIsStable(output) THEN <<>> ELSE c)
    BY <1>3, <1>5
  <1>8. ASSUME LoopIsStable(output)
        PROVE  /\ converted.stream = x /\ converted.frame_count = n + m
               /\ converted.loop_offset = Len(output["intro"])
    <2>1. converted.frame_count = n + m
      BY <1>1, <1>5, <1>6, <1>8
    <2>2. converted.stream = x \o <<>>
      BY <1>7, <1>8
    <2>3. converted.loop_offset = Len(output["intro"])
      BY <1>5, <1>8 DEF LoopStart
    <2> QED
      BY <1>4, <2>1, <2>2, <2>3
  <1>9. ASSUME ~LoopIsStable(output)
        PROVE  /\ Joins(converted.stream, x, output["steady"])
               /\ converted.frame_count = (n + m) + m
               /\ converted.loop_offset = Len(x)
    <2>1. converted.frame_count = (n + m) + m
      BY <1>1, <1>5, <1>6, <1>9
    <2>2. Joins(converted.stream, x, output["steady"])
      BY <1>2, <1>7, <1>9 DEF Joins
    <2>3. converted.loop_offset = Len(x)
      BY <1>2, <1>4, <1>5, <1>9 DEF LoopStart
    <2> QED
      BY <2>1, <2>2, <2>3
  <1> QED
    BY <1>1, <1>2, <1>4, <1>8, <1>9 DEF JoinedLoop

(* A song whose loop is not unrolled: the pass that repeats is the first.  *)
LEMMA StableSongIsCarried ==
  ASSUME PassInv, step = "done", song.has_loop, LoopIsStable(output)
  PROVE  \E b, a, e : SongCarries(b, a, e)
  <1>0. ConvertInv
    BY DEF PassInv
  <1>1. PICK n, m : n = FrameTotal(song, "intro") /\ m = FrameTotal(song, "first")
    OBVIOUS
  <1>2. PICK x : Joins(x, output["intro"], output["first"])
    BY DEF Joins
  <1>3. /\ n \in Nat /\ m \in Nat \ {0}
        /\ frame_count["intro"] = n /\ converted.loop_frame_count = m
        /\ converted.stream = x /\ converted.frame_count = n + m
        /\ converted.loop_offset = Len(output["intro"])
    <2>1. JoinedLoop(n, m, x)
      BY <1>0, <1>1, <1>2, LoopIsJoined
    <2> QED
      BY <2>1 DEF JoinedLoop
  <1>4. PICK d, g, w, c, e, v : LoopParts(x, n, m, d, g, w, c, e, v)
    BY <1>1, <1>2, LoopIsCarried
  <1>5. /\ CarriedStream(song, Pitch, x, n + m, d, g, w) /\ Ready(g[0])
        /\ CarriedStream(song, Pitch, output["steady"], m, c, e, v)
        /\ Turns(g[n + m], e[0]) /\ Turns(e[m], e[0])
        /\ \A j \in 0 .. (n + m) - 1 : w[j] = Promise!Batch(song, j)
        /\ \A j \in 0 .. m - 1 : v[j] = Promise!Batch(song, n + j)
        /\ d[n] = Len(output["intro"])
        /\ \A j \in 0 .. m - 1 : RecordWrites(x, d[n + j]) = RecordWrites(output["steady"], c[j])
    BY <1>4 DEF LoopParts
  <1>6. PICK N \in Nat, M \in Nat : N = n + m /\ M = m + 1
    BY <1>3
  <1>7. PICK f : InARow(f, g, n, e, M)
    BY <1>3, <1>6, RowExists
  <1>8. \A j \in 0 .. m : f[n + j] = e[j]
    <2>1. \A j \in 0 .. m : j \in 0 .. M - 1
      BY <1>3, <1>6
    <2> QED
      BY <1>7, <2>1 DEF InARow
  <1>9. LoopMark = n
    BY <1>3 DEF LoopMark
  <1>10. /\ \A j \in 0 .. N - 1 : Shown(j) = j
         /\ \A j \in 0 .. m - 1 : Shown(n + j) = n + j
    <2>0. InTurn(n, m, N)
      BY <1>0, <1>3, <1>6, ShownInTurn
    <2>1. \A j \in 0 .. N - 1 : Shown(j) = j
      BY <2>0 DEF InTurn
    <2>2. \A j \in 0 .. m - 1 : n + j \in 0 .. N - 1
      BY <1>3, <1>6
    <2> QED
      BY <1>6, <2>1, <2>2
  <1>11. ASSUME NEW k \in 0 .. N - 1
         PROVE  RecordCarries(d, g, k)
    <2>1. Carries(g[k], g[k + 1], w[k], RecordWrites(x, d[k]))
      BY <1>5, <1>6 DEF CarriedStream
    <2>2. w[k] = Promise!Batch(song, Shown(k))
      BY <1>5, <1>6, <1>10
    <2> QED
      BY <1>3, <2>1, <2>2 DEF RecordCarries
  <1>12. ASSUME NEW k \in n .. N - 1
         PROVE  RecordCarries(d, f, k)
    <2>1. PICK j \in 0 .. m - 1 : k = n + j
      <3>1. k - n \in 0 .. m - 1 /\ k = n + (k - n)
        BY <1>3, <1>6
      <3> QED
        BY <3>1
    <2>2. j \in 0 .. m /\ j + 1 \in 0 .. m /\ k + 1 = n + (j + 1)
      BY <1>3, <2>1
    <2>3. f[k] = e[j] /\ f[k + 1] = e[j + 1]
      BY <1>8, <2>1, <2>2
    <2>4. Carries(e[j], e[j + 1], v[j], RecordWrites(output["steady"], c[j]))
      BY <1>5 DEF CarriedStream
    <2>5. v[j] = Promise!Batch(song, Shown(k))
      BY <1>5, <1>10, <2>1
    <2>6. RecordWrites(output["steady"], c[j]) = RecordWrites(converted.stream, d[k])
      BY <1>3, <1>5, <2>1
    <2> QED
      BY <2>3, <2>4, <2>5, <2>6 DEF RecordCarries
  <1>13. \A k \in 0 .. N : OfSong(song, Pitch, g[k])
    BY <1>5, <1>6 DEF CarriedStream
  <1>14. ASSUME NEW k \in n .. N
         PROVE  OfSong(song, Pitch, f[k])
    <2>1. PICK j \in 0 .. m : k = n + j
      <3>1. k - n \in 0 .. m /\ k = n + (k - n)
        BY <1>3, <1>6
      <3> QED
        BY <3>1
    <2>2. f[k] = e[j]
      BY <1>8, <2>1
    <2> QED
      BY <1>5, <2>2 DEF CarriedStream
  <1>15. f[n] = e[0] /\ f[N] = e[m]
    <2>1. 0 \in 0 .. m /\ m \in 0 .. m /\ n + 0 = n
      BY <1>3
    <2> QED
      BY <1>6, <1>8, <2>1
  <1>16. Turns(g[N], f[n]) /\ Turns(f[N], f[n])
    BY <1>5, <1>6, <1>15
  <1>17. SongMarks(d)
    BY <1>3, <1>5, <1>9 DEF SongMarks, CarriedStream
  <1>18. SongCarries(d, g, f)
    BY <1>3, <1>5, <1>6, <1>9, <1>11, <1>12, <1>13, <1>14, <1>16, <1>17 DEF SongCarries
  <1> QED
    BY <1>18

(* A song whose loop is unrolled: the pass that repeats is the second.     *)
LEMMA UnrolledSongIsCarried ==
  ASSUME PassInv, step = "done", song.has_loop, ~LoopIsStable(output)
  PROVE  \E b, a, e : SongCarries(b, a, e)
  <1>0. ConvertInv
    BY DEF PassInv
  <1>1. PICK n, m : n = FrameTotal(song, "intro") /\ m = FrameTotal(song, "first")
    OBVIOUS
  <1>2. PICK x : Joins(x, output["intro"], output["first"])
    BY DEF Joins
  <1>3. /\ n \in Nat /\ m \in Nat \ {0}
        /\ frame_count["intro"] = n /\ converted.loop_frame_count = m
        /\ x \in Seq(Pair) /\ output["steady"] \in Seq(Pair)
        /\ Joins(converted.stream, x, output["steady"])
        /\ converted.frame_count = (n + m) + m /\ converted.loop_offset = Len(x)
    <2>1. JoinedLoop(n, m, x)
      BY <1>0, <1>1, <1>2, LoopIsJoined
    <2> QED
      BY <2>1 DEF JoinedLoop
  <1>4. PICK d, g, w, c, e, v : LoopParts(x, n, m, d, g, w, c, e, v)
    BY <1>1, <1>2, LoopIsCarried
  <1>5. PICK N \in Nat : N = n + m
    BY <1>3
  <1>6. /\ CarriedStream(song, Pitch, x, N, d, g, w) /\ Ready(g[0])
        /\ CarriedStream(song, Pitch, output["steady"], m, c, e, v)
        /\ Turns(g[N], e[0]) /\ Turns(e[m], e[0])
        /\ \A j \in 0 .. N - 1 : w[j] = Promise!Batch(song, j)
        /\ \A j \in 0 .. m - 1 : v[j] = Promise!Batch(song, n + j)
    BY <1>4, <1>5 DEF LoopParts
  <1>7. PICK b, a, r : /\ CarriedStream(song, Pitch, converted.stream, N + m, b, a, r)
                       /\ KeepMarks(b, N, d, m, c, Len(x))
                       /\ InARow(a, g, N, e, m + 1) /\ InARow(r, w, N, v, m)
    <2>1. PICK s \in Seq(Pair), t \in Seq(Pair) : s = x /\ t = output["steady"]
      BY <1>3
    <2>6. PICK st : st = converted.stream
      OBVIOUS
    <2>2. CarriedStream(song, Pitch, s, N, d, g, w)
      BY <1>6, <2>1
    <2>3. CarriedStream(song, Pitch, t, m, c, e, v)
      BY <1>6, <2>1
    <2>4. Joins(st, s, t)
      BY <1>3, <2>1, <2>6
    <2>5. \E b, a, r : /\ CarriedStream(song, Pitch, st, N + m, b, a, r)
                       /\ KeepMarks(b, N, d, m, c, Len(s))
                       /\ InARow(a, g, N, e, m + 1) /\ InARow(r, w, N, v, m)
      BY <1>3, <1>6, <2>2, <2>3, <2>4, CarriedJoin
    <2> QED
      BY <2>1, <2>5, <2>6
  <1>8. PICK T \in Nat : T = N + m
    BY <1>3
  <1>9. LoopMark = N /\ converted.frame_count = T
    BY <1>3, <1>5, <1>8 DEF LoopMark
  <1>10. /\ \A j \in 0 .. N - 1 : Shown(j) = j
         /\ \A j \in 0 .. m - 1 : Shown(N + j) = n + j
    <2>0. InTurn(n, m, N)
      BY <1>0, <1>3, <1>5, ShownInTurn
    <2>1. \A j \in 0 .. N - 1 : Shown(j) = j
      BY <2>0 DEF InTurn
    <2>2. \A j \in 0 .. m - 1 : Shown(N + j) = n + j
      BY <2>0 DEF InTurn
    <2> QED
      BY <2>1, <2>2
  <1>11. ASSUME NEW k \in 0 .. T - 1
         PROVE  r[k] = Promise!Batch(song, Shown(k))
    <2>1. CASE k < N
      <3>1. k \in 0 .. N - 1
        BY <1>8, <2>1
      <3>2. r[k] = w[k]
        BY <1>7, <3>1 DEF InARow
      <3> QED
        BY <1>6, <1>10, <3>1, <3>2
    <2>2. CASE ~(k < N)
      <3>1. PICK j \in 0 .. m - 1 : k = N + j
        <4>1. k - N \in 0 .. m - 1 /\ k = N + (k - N)
          BY <1>3, <1>8, <2>2
        <4> QED
          BY <4>1
      <3>2. r[k] = v[j]
        BY <1>7, <3>1 DEF InARow
      <3> QED
        BY <1>6, <1>10, <3>1, <3>2
    <2> QED
      BY <2>1, <2>2
  <1>12. ASSUME NEW k \in 0 .. T - 1
         PROVE  RecordCarries(b, a, k)
    <2>1. Carries(a[k], a[k + 1], r[k], RecordWrites(converted.stream, b[k]))
      BY <1>7, <1>8 DEF CarriedStream
    <2> QED
      BY <1>11, <2>1 DEF RecordCarries
  <1>13. \A k \in 0 .. T : OfSong(song, Pitch, a[k])
    BY <1>7, <1>8 DEF CarriedStream
  <1>14. a[N] = e[0] /\ a[T] = e[m]
    <2>1. 0 \in 0 .. (m + 1) - 1 /\ m \in 0 .. (m + 1) - 1 /\ N + 0 = N
      BY <1>3
    <2> QED
      BY <1>7, <1>8, <2>1 DEF InARow
  <1>15. Turns(a[T], a[N])
    BY <1>6, <1>14
  <1>16. Ready(a[0])
    BY <1>3, <1>6, <1>7, RowIsReady
  <1>17. SongMarks(b)
    <2>1. N \in 0 .. N /\ Marks(x, N, d)
      BY <1>6 DEF CarriedStream
    <2>2. b[N] = d[N] /\ d[N] = Len(x)
      BY <1>7, <2>1 DEF KeepMarks, Marks
    <2>3. Marks(converted.stream, T, b)
      BY <1>7, <1>8 DEF CarriedStream
    <2> QED
      BY <1>3, <1>9, <2>2, <2>3 DEF SongMarks
  <1>18. SongCarries(b, a, a)
    <2>1. \A k \in N .. T : k \in 0 .. T
      OBVIOUS
    <2>2. \A k \in N .. T - 1 : k \in 0 .. T - 1
      OBVIOUS
    <2> QED
      BY <1>9, <1>12, <1>13, <1>15, <1>16, <1>17, <2>1, <2>2 DEF SongCarries
  <1> QED
    BY <1>18

(* Every song is.                                                          *)
LEMMA SongIsCarried ==
  ASSUME PassInv, step = "done"
  PROVE  \E b, a, e : SongCarries(b, a, e)
  BY PlainSongIsCarried, StableSongIsCarried, UnrolledSongIsCarried

-----------------------------------------------------------------------------
(* The chip as it plays.                                                   *)

(* The player is at mark k, and the two chips are in tune by a converter   *)
(* the host had there: that of the first time through the song, or that of *)
(* the times after.                                                        *)
TunedAt(b, a, e, k) ==
  /\ SongCarries(b, a, e)
  /\ k \in 0 .. converted.frame_count
  /\ state.STREAM = DecodedAt + b[k]
  /\ \/ InTune(a[k], ideal, chip)
     \/ /\ song.has_loop /\ k \in LoopMark .. converted.frame_count
        /\ InTune(e[k], ideal, chip)

TuneInv ==
  /\ running = "no" =>
       chip = PowerOn /\ ideal = Hears(PowerOn, TargetPlayer!ResetWrites)
  /\ running # "no" /\ ~state.FINISHED => \E b, a, e, k : TunedAt(b, a, e, k)
  /\ running # "no" /\ state.FINISHED => Follows(converter, ideal, chip)

SoundInv == PassInv /\ TuneInv

(* Where the chips are in tune, the song's converter says so too.          *)
LEMMA TunedFollows ==
  ASSUME PassInv, NEW b, NEW a, NEW e, NEW k, TunedAt(b, a, e, k)
  PROVE  /\ Follows(converter, ideal, chip) /\ ideal \in Chip /\ chip \in Chip
  <1>1. PICK c : InTune(c, ideal, chip) /\ OfSong(song, Pitch, c)
    BY DEF TunedAt, SongCarries
  <1>2. c.source_clock = converter.source_clock
        /\ c.pitch_conversion = converter.pitch_conversion
    BY <1>1 DEF OfSong, PassInv, ClockKept, Pitch
  <1>3. Follows(c, ideal, chip) /\ ideal \in Chip /\ chip \in Chip
    BY <1>1 DEF InTune
  <1> QED
    BY <1>2, <1>3, FollowsByClock

(* The registers the board reset writes, and what it writes to them.       *)
LEMMA ResetIsList ==
  \E ws \in Seq(Pair) :
    /\ ws = TargetPlayer!ResetWrites /\ DOMAIN ws = 1 .. 18
    /\ \A k \in 1 .. 18 : /\ ws[k][1] \in (0 .. 13) \cup {39, 40}
                          /\ ws[k][1] \in (0 .. 13) \ {7} => ws[k][2] = 0
  <1> DEFINE first == [k \in 1 .. 14 |-> <<k - 1, IF k - 1 = 7 THEN 63 ELSE 0>>]
             rest  == << <<39, 0>>, <<40, 0>>, <<40, 1>>, <<40, 2>> >>
  <1>1. \A k \in 1 .. 14 : <<k - 1, IF k - 1 = 7 THEN 63 ELSE 0>> \in Pair
    BY DEF Pair
  <1>2. PICK f : f = first
    OBVIOUS
  <1>3. /\ f \in Seq(Pair) /\ Len(f) = 14
        /\ \A k \in 1 .. 14 : f[k] = <<k - 1, IF k - 1 = 7 THEN 63 ELSE 0>>
    <2>1. first \in Seq(Pair)
      BY <1>1
    <2>2. Len(first) = 14
      OBVIOUS
    <2>3. \A k \in 1 .. 14 : first[k] = <<k - 1, IF k - 1 = 7 THEN 63 ELSE 0>>
      OBVIOUS
    <2> QED
      BY <1>2, <2>1, <2>2, <2>3
  <1>4. PICK g : g = rest
    OBVIOUS
  <1>5. g \in Seq(Pair) /\ Len(g) = 4 /\ \A k \in 1 .. 4 : g[k][1] \in {39, 40}
    <2>1. <<39, 0>> \in Pair /\ <<40, 0>> \in Pair /\ <<40, 1>> \in Pair /\ <<40, 2>> \in Pair
      BY DEF Pair
    <2>2. rest \in Seq(Pair) /\ Len(rest) = 4
      BY <2>1
    <2>3. \A k \in 1 .. 4 : rest[k][1] \in {39, 40}
      OBVIOUS
    <2> QED
      BY <1>4, <2>2, <2>3
  <1>6. PICK ws : ws = TargetPlayer!ResetWrites /\ ws = f \o g
    BY <1>2, <1>4 DEF TargetPlayer!ResetWrites
  <1> HIDE DEF first, rest
  <1>7. /\ ws \in Seq(Pair) /\ Len(ws) = 14 + 4
        /\ \A k \in 1 .. 14 : ws[k] = f[k]
        /\ \A k \in 1 .. 4 : ws[14 + k] = g[k]
    <2>1. f \in Seq(Pair) /\ g \in Seq(Pair) /\ Len(f) = 14 /\ Len(g) = 4 /\ ws = f \o g
      BY <1>3, <1>5, <1>6
    <2>2. /\ ws \in Seq(Pair) /\ Len(ws) = Len(f) + Len(g)
          /\ \A k \in 1 .. Len(f) + Len(g) : ws[k] = IF k <= Len(f) THEN f[k] ELSE g[k - Len(f)]
      BY <2>1, ConcatProperties
    <2>3. /\ Len(ws) = 14 + 4
          /\ \A k \in 1 .. 14 + 4 : ws[k] = IF k <= 14 THEN f[k] ELSE g[k - 14]
      BY <2>1, <2>2
    <2>4. ASSUME NEW k \in 1 .. 4 PROVE ws[14 + k] = g[k]
      <3>1. PICK j \in 1 .. 14 + 4 : j = 14 + k /\ ~(j <= 14) /\ j - 14 = k
        OBVIOUS
      <3>2. ws[j] = g[j - 14]
        BY <2>3, <3>1
      <3> QED
        BY <3>1, <3>2
    <2>5. ASSUME NEW k \in 1 .. 14 PROVE ws[k] = f[k]
      <3>1. k \in 1 .. 14 + 4 /\ k <= 14
        OBVIOUS
      <3> QED
        BY <2>3, <3>1
    <2> QED
      BY <2>2, <2>3, <2>4, <2>5
  <1>8. DOMAIN ws = 1 .. 18
    BY <1>7
  <1>9. ASSUME NEW k \in 1 .. 18
        PROVE  /\ ws[k][1] \in (0 .. 13) \cup {39, 40}
               /\ ws[k][1] \in (0 .. 13) \ {7} => ws[k][2] = 0
    <2>1. CASE k <= 14
      <3>1. k \in 1 .. 14
        BY <2>1
      <3>2. ws[k][1] = k - 1 /\ ws[k][2] = IF k - 1 = 7 THEN 63 ELSE 0
        <4>1. ws[k] = f[k]
          BY <1>7, <3>1
        <4>2. f[k] = <<k - 1, IF k - 1 = 7 THEN 63 ELSE 0>>
          BY <1>3, <3>1
        <4> QED
          BY <4>1, <4>2
      <3> QED
        BY <3>1, <3>2
    <2>2. CASE ~(k <= 14)
      <3>1. PICK j \in 1 .. 4 : k = 14 + j
        <4>1. k - 14 \in 1 .. 4 /\ k = 14 + (k - 14)
          BY <2>2
        <4> QED
          BY <4>1
      <3>2. ws[k][1] \in {39, 40}
        BY <1>5, <1>7, <3>1
      <3>3. PICK r : r = ws[k][1]
        OBVIOUS
      <3>4. r \in {39, 40}
        BY <3>2, <3>3
      <3>5. r \in (0 .. 13) \cup {39, 40} /\ r \notin (0 .. 13) \ {7}
        BY <3>4
      <3> QED
        BY <3>3, <3>5
    <2> QED
      BY <2>1, <2>2
  <1> QED
    BY <1>6, <1>9, <1>7, <1>8

(* The board reset has written no pitch.                                   *)
LEMMA ResetIsUnpitched ==
  ASSUME PowerOn \in Chip
  PROVE  Unpitched(Hears(PowerOn, TargetPlayer!ResetWrites))
  <1>1. PICK ws \in Seq(Pair) :
          /\ ws = TargetPlayer!ResetWrites /\ DOMAIN ws = 1 .. 18
          /\ \A k \in 1 .. 18 : /\ ws[k][1] \in (0 .. 13) \cup {39, 40}
                                /\ ws[k][1] \in (0 .. 13) \ {7} => ws[k][2] = 0
    BY ResetIsList
  <1>2. DOMAIN ws = 1 .. 18
    BY <1>1
  <1>3. \A k \in 1 .. 18 : /\ ws[k][1] \in (0 .. 13) \cup {39, 40}
                           /\ ws[k][1] \in (0 .. 13) \ {7} => ws[k][2] = 0
    BY <1>1
  <1> DEFINE h == Hears(PowerOn, ws)
  <1>4. h \in Chip
    BY HearsIsChip
  <1>5. ASSUME NEW R \in SUBSET (160 .. 174)
         PROVE  WritesTo(ws, R) = {}
    <2>1. \A k \in 1 .. 18 : ws[k][1] \notin R
      <3> SUFFICES ASSUME NEW k \in 1 .. 18 PROVE ws[k][1] \notin R
        OBVIOUS
      <3>1. PICK r : r = ws[k][1]
        OBVIOUS
      <3>2. r \in (0 .. 13) \cup {39, 40}
        BY <1>3, <3>1
      <3>3. r \notin 160 .. 174
        BY <3>2
      <3> QED
        BY <3>1, <3>3
    <2> QED
      BY <1>2, <2>1 DEF WritesTo
  <1>6. h.high = 0 /\ h.high3 = 0
    <2>1. WritesTo(ws, FmHigh) = {} /\ WritesTo(ws, Fm3High) = {}
      BY <1>5 DEF FmHigh, Fm3High
    <2> QED
      BY <2>1 DEF Hears, LastValue, PowerOn
  <1>7. \A l \in FmCommit : h.fm[l] = Untuned
    <2> SUFFICES ASSUME NEW l \in FmCommit PROVE h.fm[l] = Untuned
      OBVIOUS
    <2>1. WritesTo(ws, {l}) = {}
      BY <1>5 DEF FmCommit, FmLow, Fm3Low
    <2> QED
      BY <2>1 DEF Hears, Tuned, PowerOn
  <1>8. ASSUME NEW r \in Reg, r \in (0 .. 13) \ {7}
         PROVE  h.regs[r] = 0
    <2>1. PICK A : A = WritesTo(ws, {r})
      OBVIOUS
    <2>2. \A k \in A : ws[k][2] = 0
      BY <1>2, <1>3, <1>8, <2>1 DEF WritesTo
    <2>3. h.regs[r] = IF A = {} THEN 0 ELSE ws[LastOf(A)][2]
      BY <2>1 DEF Hears, LastValue, PowerOn
    <2>4. A # {} => LastOf(A) \in A
      <3>1. A \in SUBSET (1 .. 18) /\ 18 \in Nat
        BY <1>2, <2>1 DEF WritesTo
      <3> QED
        BY <3>1, LastIsOne
    <2> QED
      BY <2>2, <2>3, <2>4
  <1> HIDE DEF h
  <1>9. Unpitched(h)
    BY <1>4, <1>6, <1>7, <1>8 DEF Unpitched, PsgPeriod, PsgTone, EnvelopePeriod, Noise
  <1> QED
    BY <1>1, <1>9 DEF h

(* A record played carries a converter from its mark to the next one.      *)
LEMMA RecordKeepsTune ==
  ASSUME PlaybackInv, running = "yes", ~state.FINISHED, UNCHANGED convertVars,
         NEW b, SongMarks(b), NEW k, k \in 0 .. converted.frame_count - 1,
         NEW address, address = DecodedAt + b[k], TargetPlayer!PlayRecord(address),
         NextFrame = Shown(k), ideal' = Hears(ideal, Promise!Batch(song, NextFrame)),
         NEW c, RecordCarries(b, c, k), InTune(c[k], ideal, chip)
  PROVE  /\ InTune(c[k + 1], ideal', chip')
         /\ k + 1 \in 0 .. converted.frame_count
         /\ state'.STREAM = DecodedAt + b[k + 1] /\ state'.FINISHED = FALSE /\ running' # "no"
  <1>1. ConvertInv /\ step = "done"
    BY DEF PlaybackInv, PlayingInv
  <1>2. b[k] \in Nat
    BY <1>1, RecordAtMark
  <1>3. address - DecodedAt = b[k]
    BY <1>2 DEF DecodedAt
  <1>4. chip' = Hears(chip, RecordWrites(converted.stream, b[k]))
    BY <1>3, SameChip, SameStream DEF TargetPlayer!PlayRecord
  <1>5. ideal' = Hears(ideal, Promise!Batch(song, Shown(k)))
    OBVIOUS
  <1>6. InTune(c[k + 1], ideal', chip')
    BY <1>4, <1>5 DEF RecordCarries, Carries
  <1>7. /\ k + 1 \in 0 .. converted.frame_count
        /\ state'.STREAM = DecodedAt + b[k + 1] /\ state'.FINISHED = FALSE
    BY RecordKeeps
  <1>8. running' # "no"
    BY DEF TargetPlayer!PlayRecord, TargetPlayer!AfterFrame
  <1> QED
    BY <1>6, <1>7, <1>8

(* The player changes nothing the host made.                               *)
LEMMA SongStays ==
  ASSUME UNCHANGED convertVars, NEW b, NEW a, NEW e, SongCarries(b, a, e)
  PROVE  /\ SongCarries(b, a, e)' /\ converted' = converted /\ song' = song
         /\ converter' = converter /\ LoopMark' = LoopMark
  <1>1. /\ song' = song /\ converted' = converted /\ converter' = converter
        /\ frame_count' = frame_count
    BY DEF convertVars
  <1>2. LoopMark' = LoopMark /\ Pitch' = Pitch
    BY <1>1 DEF LoopMark, Pitch
  <1>3. SongMarks(b)' <=> SongMarks(b)
    BY <1>1, <1>2 DEF SongMarks
  <1>4. \A k : Shown(k)' = Shown(k)
    BY <1>1 DEF Shown
  <1>5. \A c, k : RecordCarries(b, c, k)' <=> RecordCarries(b, c, k)
    BY <1>1, <1>4 DEF RecordCarries
  <1>6. \A k : /\ OfSong(song, Pitch, a[k])' <=> OfSong(song, Pitch, a[k])
               /\ OfSong(song, Pitch, e[k])' <=> OfSong(song, Pitch, e[k])
    BY <1>1, <1>2
  <1> QED
    BY <1>1, <1>2, <1>3, <1>5, <1>6 DEF SongCarries

(* A frame of the song.                                                    *)
LEMMA PlayKeepsTune ==
  ASSUME PassInv, PlaybackInv, TuneInv, PlayRecord
  PROVE  TuneInv'
  <1>1. /\ UNCHANGED convertVars /\ running = "yes" /\ ~state.FINISHED
        /\ ideal' = Hears(ideal, Promise!Batch(song, NextFrame))
    BY DEF PlayRecord, TargetPlayer!PlayNext, TargetPlayer!PlayLoop
  <1>2. ConvertInv /\ step = "done"
    BY <1>1 DEF PlaybackInv, PlayingInv
  <1>3. PICK b, a, e, k : TunedAt(b, a, e, k)
    BY <1>1 DEF TuneInv
  <1>4. /\ SongCarries(b, a, e) /\ SongMarks(b)
        /\ k \in 0 .. converted.frame_count /\ state.STREAM = DecodedAt + b[k]
    BY <1>3 DEF TunedAt, SongCarries
  <1>5. PICK n \in Nat : n = converted.frame_count
    BY <1>2 DEF ConvertInv, TypesHold, Result
  <1>6. /\ TargetPlayer!AtEnd(state) <=> k = n
        /\ song.has_loop /\ state.LOOP # 0 =>
             LoopMark \in 0 .. n - 1 /\ state.LOOP = DecodedAt + b[LoopMark]
        /\ song.has_loop <=> state.LOOP # 0
    <2>1. AtMark(b, k)
      BY <1>4 DEF AtMark
    <2> QED
      BY <1>1, <1>5, <2>1, PlayerAtMark
  <1>7. NextFrame = Shown(k)
    BY <1>1, <1>2, <1>4, NextFrameShown
  <1>8. song.has_loop => LoopMark \in 0 .. n - 1
    BY <1>6
  <1>9. SongCarries(b, a, e)' /\ song' = song /\ converted' = converted /\ LoopMark' = LoopMark
    BY <1>1, <1>4, SongStays
  <1>10. ASSUME NEW j \in 0 .. n,
                state'.STREAM = DecodedAt + b[j], state'.FINISHED = FALSE, running' # "no",
                \/ InTune(a[j], ideal', chip')
                \/ song.has_loop /\ j \in LoopMark .. n /\ InTune(e[j], ideal', chip')
         PROVE  TuneInv'
    <2>1. TunedAt(b, a, e, j)'
      BY <1>5, <1>9, <1>10 DEF TunedAt
    <2> QED
      BY <1>10, <2>1 DEF TuneInv
  <1>11. CASE TargetPlayer!PlayNext
    <2>1. ~TargetPlayer!AtEnd(state) /\ TargetPlayer!PlayRecord(state.STREAM)
      BY <1>11 DEF TargetPlayer!PlayNext
    <2>2. k \in 0 .. n - 1
      BY <1>4, <1>5, <1>6, <2>1
    <2>3. CASE InTune(a[k], ideal, chip)
      <3>1. RecordCarries(b, a, k)
        BY <1>4, <1>5, <2>2 DEF SongCarries
      <3>2. /\ InTune(a[k + 1], ideal', chip') /\ k + 1 \in 0 .. n
            /\ state'.STREAM = DecodedAt + b[k + 1] /\ state'.FINISHED = FALSE /\ running' # "no"
        BY <1>1, <1>4, <1>5, <1>7, <2>1, <2>2, <2>3, <3>1, RecordKeepsTune
      <3> QED
        BY <1>10, <3>2
    <2>4. CASE /\ song.has_loop /\ k \in LoopMark .. n
               /\ InTune(e[k], ideal, chip)
      <3>1. k \in LoopMark .. n - 1 /\ k + 1 \in LoopMark .. n
        BY <1>8, <2>2, <2>4
      <3>2. RecordCarries(b, e, k)
        BY <1>4, <1>5, <2>4, <3>1 DEF SongCarries
      <3>3. /\ InTune(e[k + 1], ideal', chip') /\ k + 1 \in 0 .. n
            /\ state'.STREAM = DecodedAt + b[k + 1] /\ state'.FINISHED = FALSE /\ running' # "no"
        BY <1>1, <1>4, <1>5, <1>7, <2>1, <2>2, <2>4, <3>2, RecordKeepsTune
      <3> QED
        BY <1>10, <2>4, <3>1, <3>3
    <2> QED
      BY <1>3, <1>5, <2>3, <2>4 DEF TunedAt
  <1>12. CASE TargetPlayer!PlayLoop
    <2>1. state.LOOP # 0 /\ TargetPlayer!PlayRecord(state.LOOP) /\ TargetPlayer!AtEnd(state)
      BY <1>12 DEF TargetPlayer!PlayLoop
    <2>2. /\ song.has_loop /\ k = n /\ LoopMark \in 0 .. n - 1
          /\ state.LOOP = DecodedAt + b[LoopMark]
      BY <1>6, <2>1
    <2>3. NextFrame = Shown(LoopMark)
      BY <1>2, <1>5, <1>7, <2>2, ShownAtEnd
    <2>4. InTune(e[LoopMark], ideal, chip)
      <3>1. InTune(a[n], ideal, chip) \/ InTune(e[n], ideal, chip)
        BY <1>3, <2>2 DEF TunedAt
      <3>2. Turns(a[n], e[LoopMark]) /\ Turns(e[n], e[LoopMark])
        BY <1>4, <1>5, <2>2 DEF SongCarries
      <3> QED
        BY <3>1, <3>2 DEF Turns
    <2>5. PICK j \in 0 .. n - 1 : j = LoopMark
      BY <2>2
    <2>6. j \in LoopMark .. n - 1 /\ j + 1 \in LoopMark .. n
      BY <2>5
    <2>7. RecordCarries(b, e, j)
      BY <1>4, <1>5, <2>2, <2>6 DEF SongCarries
    <2>8. /\ InTune(e[j + 1], ideal', chip') /\ j + 1 \in 0 .. n
          /\ state'.STREAM = DecodedAt + b[j + 1] /\ state'.FINISHED = FALSE /\ running' # "no"
      BY <1>1, <1>4, <1>5, <2>1, <2>2, <2>3, <2>4, <2>5, <2>7, RecordKeepsTune
    <2> QED
      BY <1>10, <2>2, <2>6, <2>8
  <1> QED
    BY <1>11, <1>12 DEF PlayRecord

(* The board reset, the first mark.                                        *)
LEMMA BeginKeepsTune ==
  ASSUME PassInv, PlaybackInv, TuneInv, Begin
  PROVE  TuneInv'
  <1>1. /\ step = "done" /\ UNCHANGED convertVars /\ running = "no"
        /\ running' = "yes" /\ ideal' = ideal
        /\ state'.STREAM = DecodedAt /\ state'.FINISHED = FALSE
        /\ chip' = Hears(chip, TargetPlayer!ResetWrites)
    BY SameChip DEF Begin, TargetPlayer!Start
  <1>2. PICK h : h = Hears(PowerOn, TargetPlayer!ResetWrites)
    OBVIOUS
  <1>3. ideal' = h /\ chip' = h
    BY <1>1, <1>2 DEF TuneInv
  <1>4. Unpitched(h)
    <2>1. PowerOn \in Chip
      BY <1>1, SameChip DEF TuneInv, PlaybackInv, TargetPlayer!PlayerTypes
    <2> QED
      BY <1>2, <2>1, ResetIsUnpitched
  <1>5. PICK b, a, e : SongCarries(b, a, e)
    BY <1>1, SongIsCarried
  <1>6. InTune(a[0], h, h)
    BY <1>4, <1>5 DEF SongCarries, Ready
  <1>7. b[0] = 0 /\ 0 \in 0 .. converted.frame_count
    <2>1. converted.frame_count \in Nat
      BY DEF PassInv, ConvertInv, TypesHold, Result
    <2> QED
      BY <1>5, <2>1 DEF SongCarries, SongMarks, Marks
  <1>8. SongCarries(b, a, e)' /\ converted' = converted
    BY <1>1, <1>5, SongStays
  <1>9. state'.STREAM = DecodedAt + b[0]
    BY <1>1, <1>7 DEF DecodedAt
  <1>10. TunedAt(b, a, e, 0)'
    BY <1>3, <1>6, <1>7, <1>8, <1>9 DEF TunedAt
  <1> QED
    BY <1>1, <1>10 DEF TuneInv

(* The silence at the end touches no pitch.                                *)
LEMMA FinishKeepsTune ==
  ASSUME PassInv, PlaybackInv, TuneInv, Finish
  PROVE  TuneInv'
  <1>1. /\ UNCHANGED convertVars /\ running = "yes" /\ ~state.FINISHED
        /\ TargetPlayer!AfterFrame([state EXCEPT !.FINISHED = TRUE])
        /\ chip' = Hears(chip, TargetPlayer!SilenceWrites)
        /\ ideal' = Hears(ideal, TargetPlayer!SilenceWrites)
    BY SameChip DEF Finish, TargetPlayer!Finish
  <1>2. Follows(converter, ideal, chip) /\ ideal \in Chip /\ chip \in Chip
    BY <1>1, TunedFollows DEF TuneInv
  <1>3. \A k \in DOMAIN TargetPlayer!SilenceWrites :
          TargetPlayer!SilenceWrites[k][1] \notin Pitched
    <2>1. \A k \in DOMAIN TargetPlayer!SilenceWrites :
            TargetPlayer!SilenceWrites[k][1] \in {7, 8, 9, 10, 40}
      BY DEF TargetPlayer!SilenceWrites
    <2> QED
      BY <2>1 DEF Pitched, PsgPeriod, PsgTone, EnvelopePeriod, Noise, FmCommit, FmLow, Fm3Low,
                  FmHigh, Fm3High
  <1>4. Follows(converter, ideal', chip')
    BY <1>1, <1>2, <1>3, UnpitchedHeardAlike
  <1>5. converter' = converter
    BY <1>1 DEF convertVars
  <1>6. state'.FINISHED = TRUE /\ running' # "no"
    <2>1. state \in State
      BY DEF PlaybackInv, TargetPlayer!PlayerTypes, State
    <2> QED
      BY <1>1, <2>1 DEF TargetPlayer!AfterFrame, State
  <1> QED
    BY <1>4, <1>5, <1>6 DEF TuneInv

(* The rest leaves the chip alone.                                         *)
LEMMA RestKeepsTune ==
  ASSUME PassInv, PlaybackInv, TuneInv, Convert \/ StayFinished \/ UNCHANGED vars
  PROVE  TuneInv'
  <1>1. CASE Convert
    <2>1. running = "no" /\ UNCHANGED <<running, chip, ideal>>
      BY <1>1, ConvertIsOver DEF Convert, PlaybackInv, PlayingInv
    <2> QED
      BY <2>1 DEF TuneInv
  <1>2. CASE StayFinished
    <2>1. /\ UNCHANGED convertVars /\ running = "yes" /\ state.FINISHED
          /\ chip' = chip /\ ideal' = ideal /\ TargetPlayer!AfterFrame(state)
      BY <1>2 DEF StayFinished, TargetPlayer!StayFinished
    <2>2. state \in State
      BY DEF PlaybackInv, TargetPlayer!PlayerTypes, State
    <2>3. state'.FINISHED = state.FINISHED /\ running' # "no"
      BY <2>1, <2>2 DEF TargetPlayer!AfterFrame, State
    <2>4. converter' = converter
      BY <2>1 DEF convertVars
    <2>5. Follows(converter, ideal, chip)
      BY <2>1 DEF TuneInv
    <2> QED
      BY <2>1, <2>3, <2>4, <2>5 DEF TuneInv
  <1>3. CASE UNCHANGED vars
    <2>1. UNCHANGED convertVars /\ UNCHANGED <<running, state, chip, ideal>>
      BY <1>3 DEF vars
    <2>2. CASE running = "no"
      BY <2>1, <2>2 DEF TuneInv
    <2>3. CASE running # "no" /\ state.FINISHED
      <3>1. converter' = converter /\ Follows(converter, ideal, chip)
        BY <2>1, <2>3 DEF TuneInv, convertVars
      <3> QED
        BY <2>1, <2>3, <3>1 DEF TuneInv
    <2>4. CASE running # "no" /\ ~state.FINISHED
      <3>1. PICK b, a, e, k : TunedAt(b, a, e, k)
        BY <2>4 DEF TuneInv
      <3>2. SongCarries(b, a, e)' /\ converted' = converted /\ song' = song
            /\ LoopMark' = LoopMark
        BY <2>1, <3>1, SongStays DEF TunedAt
      <3>3. TunedAt(b, a, e, k)'
        BY <2>1, <3>1, <3>2 DEF TunedAt
      <3> QED
        BY <2>1, <2>4, <3>3 DEF TuneInv
    <2> QED
      BY <2>2, <2>3, <2>4
  <1> QED
    BY <1>1, <1>2, <1>3

(* Whatever the song, its clock and its loop, and however long the player  *)
(* plays: after every frame the chip sounds as the song does.  The song    *)
(* went through the clock converter, the dropping of repeated writes, the  *)
(* cutting into frames, the unrolling of the loop and the player's jumps.  *)
THEOREM SongIsHeard == PlaybackSpec => []HearsTheSong
  <1>1. PlaybackInit => SoundInv
    <2> SUFFICES ASSUME PlaybackInit PROVE PassInv /\ TuneInv
      BY DEF SoundInv
    <2>1. PassInv
      BY PassesStart DEF PlaybackInit
    <2>2. TuneInv
      BY SameChip DEF PlaybackInit, TargetPlayer!PlayerInit, TuneInv
    <2> QED
      BY <2>1, <2>2
  <1>2. PlaybackInv /\ SoundInv /\ [PlaybackNext]_vars => SoundInv'
    <2> SUFFICES ASSUME PassInv, PlaybackInv, TuneInv, [PlaybackNext]_vars
                 PROVE  PassInv' /\ TuneInv'
      BY DEF SoundInv
    <2>1. [Next]_convertVars
      BY DEF PlaybackNext, Convert, Begin, PlayRecord, Finish, StayFinished, vars
    <2>2. PassInv'
      BY <2>1, PassKeeps
    <2>3. TuneInv'
      BY PlayKeepsTune, BeginKeepsTune, FinishKeepsTune, RestKeepsTune DEF PlaybackNext
    <2> QED
      BY <2>2, <2>3
  <1>3. SoundInv => HearsTheSong
    <2> SUFFICES ASSUME PassInv, TuneInv, running = "yes"
                 PROVE  Follows(converter, ideal, chip)
      BY DEF SoundInv, HearsTheSong
    <2>1. CASE state.FINISHED
      BY <2>1 DEF TuneInv
    <2>2. CASE ~state.FINISHED
      BY <2>2, TunedFollows DEF TuneInv
    <2> QED
      BY <2>1, <2>2
  <1> QED
    BY <1>1, <1>2, <1>3, PlaybackInvariance, PTL DEF PlaybackSpec
=============================================================================
