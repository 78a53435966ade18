------------------------------ MODULE VgmSong -------------------------------
(***************************************************************************)
(* The struct vgm_song vgm_parse of src/src/vgm.c fills in, what it        *)
(* guarantees of it, and how vgm_convert divides it: into an intro and a   *)
(* loop, each into playback frames.                                        *)
(***************************************************************************)
EXTENDS ClockConverter, FiniteSetsExt

CONSTANT SamplesPerFrame   (* 44100 / rate: 882 or 735 in the code *)

ASSUME FrameAssumption == SamplesPerFrame \in Nat \ {0}

VARIABLE song   (* the vgm_song *)

vgm_song ==
  [ writes        : Seq([sample : Nat, reg : Reg, value : Byte]),
    total_samples : Nat \ {0},
    has_loop      : BOOLEAN,
    loop_sample   : Nat,
    loop_write    : Nat,
    clock_hz      : Clocks ]

(* What vgm_parse guarantees of the song it returns: the writes are in     *)
(* time order and the loop point, if any, cuts them and leaves some time.  *)
WellFormed(s) ==
  /\ s \in vgm_song
  /\ \A k, m \in DOMAIN s.writes : k <= m => s.writes[k].sample <= s.writes[m].sample
  /\ \A k \in DOMAIN s.writes : s.writes[k].sample <= s.total_samples
  /\ ~s.has_loop => s.loop_sample = 0 /\ s.loop_write = 0
  /\ s.has_loop =>
       /\ s.loop_write <= Len(s.writes)
       /\ s.loop_sample < s.total_samples
       /\ \A k \in DOMAIN s.writes :
            IF k <= s.loop_write THEN s.writes[k].sample <= s.loop_sample
                                 ELSE s.writes[k].sample >= s.loop_sample
-----------------------------------------------------------------------------
(* The arguments vgm_convert passes to convert_segment for the intro (of a *)
(* song without a loop, all of it) and for each pass of the loop.          *)

Segment == {"intro", "first", "steady"}

(* Mutant: the loop begins one write early.                                *)
SegmentWritesOverlap(s, seg) ==
  IF seg = "intro"
  THEN 1 .. (IF s.has_loop THEN s.loop_write ELSE Len(s.writes))
  ELSE (IF s.loop_write = 0 THEN 1 ELSE s.loop_write) .. Len(s.writes)

SegmentWrites(s, seg) ==
  IF seg = "intro"
  THEN 1 .. (IF s.has_loop THEN s.loop_write ELSE Len(s.writes))
  ELSE s.loop_write + 1 .. Len(s.writes)

StartSample(s, seg) == IF seg = "intro" THEN 0 ELSE s.loop_sample

Duration(s, seg) ==
  IF seg = "intro"
  THEN IF s.has_loop THEN s.loop_sample ELSE s.total_samples
  ELSE s.total_samples - s.loop_sample

IntroIsEmpty(s) == Duration(s, "intro") = 0 /\ SegmentWrites(s, "intro") = {}

(* Mutant: frames are counted from the start of the song.                  *)
FrameOfFromStart(s, seg, k) == s.writes[k].sample \div SamplesPerFrame

(* The frame of its segment a write is batched into.                       *)
FrameOf(s, seg, k) == (s.writes[k].sample - StartSample(s, seg)) \div SamplesPerFrame

CeilDiv(a, b) == a \div b + (IF a % b = 0 THEN 0 ELSE 1)

(* Mutant: a frame that is not full is not played.                         *)
FrameTotalFloor(s, seg) ==
  Max({Duration(s, seg) \div SamplesPerFrame}
        \cup {FrameOf(s, seg, k) + 1 : k \in SegmentWrites(s, seg)})

(* Enough frames for the duration, and for a write at the very end of it.  *)
FrameTotal(s, seg) ==
  Max({CeilDiv(Duration(s, seg), SamplesPerFrame)}
        \cup {FrameOf(s, seg, k) + 1 : k \in SegmentWrites(s, seg)})

(* What the chip is sent for the writes of a song.                         *)
Pairs(s) == [k \in 1 .. Len(s.writes) |-> <<s.writes[k].reg, s.writes[k].value>>]

(* The elements of a sequence at the positions K, in their order.          *)
Picked(seq, K) ==
  LET upTo[n \in 0 .. Len(seq)] ==
        IF n = 0 THEN <<>>
        ELSE IF n \in K THEN Append(upTo[n - 1], seq[n]) ELSE upTo[n - 1]
  IN  upTo[Len(seq)]

(* The two errors of convert_segment: neither can come of a well-formed    *)
(* song, see NoInternalError of VgmConvert.                                *)
EventOrderError(s, seg) ==
  \E k \in SegmentWrites(s, seg) : s.writes[k].sample < StartSample(s, seg)
NoFrames(s, seg) == FrameTotal(s, seg) = 0
=============================================================================
