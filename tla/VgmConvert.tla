----------------------------- MODULE VgmConvert -----------------------------
(***************************************************************************)
(* vgm_convert and convert_segment of src/src/vgm.c: the writes of a       *)
(* parsed song, batched by playback frame, pass the clock converter and    *)
(* become a stream of frame records.  A looping song is converted in three *)
(* segments: the intro, the loop as it sounds after the intro, and the     *)
(* loop as it sounds after itself.                                         *)
(*                                                                         *)
(* Every record and every write is a whole number of byte pairs, so the    *)
(* stream is a sequence of pairs: <<high, low>> of a record's count, then  *)
(* <<register, value>> for each of its writes.  An offset in pairs is half *)
(* the code's offset in bytes.                                             *)
(***************************************************************************)
EXTENDS VgmSong, FrameStream

CONSTANT Song   (* the songs converted, all as vgm_parse leaves them *)

ASSUME SongAssumption == \A s \in Song : WellFormed(s)

NoLoop == -1   (* VGM_NO_LOOP *)
-----------------------------------------------------------------------------
VARIABLES
  segment,      (* which call of convert_segment                           *)
  step,         (* where in it                                             *)
  converter,    (* the struct the call works on; steady_converter in the   *)
                (* third call                                              *)
  clips_first,  (* converter.clipped_values after the second call, which   *)
                (* steady_converter does not touch                         *)
  frames,       (* the batches of the segment                              *)
  i,            (* the for loops' counter                                  *)
  output,       (* stream, first_loop and steady_loop, by segment          *)
  frame_count,  (* intro_frames, first_loop_frames, steady_loop_frames     *)
  converted     (* what vgm_convert returns                                *)

convertVars == <<song, segment, step, converter, clips_first, frames, i, output,
                 frame_count, converted>>

Step == {"begin", "write", "append", "join", "done", "failed"}

Empty == [ stream |-> <<>>, loop_offset |-> NoLoop, frame_count |-> 0,
           loop_frame_count |-> 0, clipped_values |-> 0 ]

Pair == (0 .. 255) \X (0 .. 255)

TypeOK ==
  /\ WellFormed(song)
  /\ segment \in Segment
  /\ step \in Step
  /\ converter \in Converter
  /\ clips_first \in Nat
  /\ DOMAIN frames = 0 .. Cardinality(DOMAIN frames) - 1
  /\ \A k \in DOMAIN frames : frames[k] \in Seq(Write)
  /\ i \in Nat
  /\ output \in [Segment -> Seq(Pair)]
  /\ frame_count \in [Segment -> Nat]
  /\ converted.stream \in Seq(Pair)
  /\ converted.loop_offset \in Nat \cup {NoLoop}
  /\ converted.frame_count \in Nat
  /\ converted.loop_frame_count \in Nat
  /\ converted.clipped_values \in Nat

Init ==
  /\ song \in Song
  /\ segment = "intro"
  /\ step = "begin"
  /\ \E pitch_conversion \in BOOLEAN :
       converter = NewConverter(song.clock_hz, pitch_conversion)
  /\ clips_first = 0
  /\ frames = <<>>
  /\ i = 0
  /\ output = [s \in Segment |-> <<>>]
  /\ frame_count = [s \in Segment |-> 0]
  /\ converted = Empty
-----------------------------------------------------------------------------
(* convert_segment: batch, convert write by write, append frame by frame.  *)

BeginSegment ==
  /\ step = "begin"
  /\ ~(segment = "intro" /\ IntroIsEmpty(song))
  /\ ~EventOrderError(song, segment) /\ ~NoFrames(song, segment)
  /\ frames' = [k \in 0 .. FrameTotal(song, segment) - 1 |-> <<>>]
  /\ i' = Min(SegmentWrites(song, segment) \cup {Len(song.writes) + 1})
  /\ step' = "write"
  /\ UNCHANGED <<song, segment, converter, clips_first, output, frame_count, converted>>

ConvertWrite ==
  /\ step = "write"
  /\ i \in SegmentWrites(song, segment)
  /\ LET w == song.writes[i]
         k == FrameOf(song, segment, i)
     IN  /\ frames' = [frames EXCEPT ![k] = @ \o Emission(converter, w.reg, w.value)]
         /\ converter' = Converted(converter, w.reg, w.value)
  /\ i' = i + 1
  /\ UNCHANGED <<song, segment, step, clips_first, output, frame_count, converted>>

BeginAppend ==
  /\ step = "write"
  /\ i \notin SegmentWrites(song, segment)
  /\ i' = 0
  /\ step' = "append"
  /\ UNCHANGED <<song, segment, converter, clips_first, frames, output, frame_count, converted>>

AppendFrame ==
  /\ step = "append"
  /\ i \in DOMAIN frames
  /\ Len(frames[i]) <= MaxFrameWrites
  /\ output' = [output EXCEPT ![segment] = @ \o << CountPair(Len(frames[i])) >> \o frames[i]]
  /\ i' = i + 1
  /\ UNCHANGED <<song, segment, step, converter, clips_first, frames, frame_count, converted>>

(* Everything built so far is freed.                                       *)
Fail ==
  /\ step' = "failed"
  /\ converted' = Empty
  /\ output' = [s \in Segment |-> <<>>]
  /\ frames' = <<>>
  /\ UNCHANGED <<song, segment, converter, clips_first, i, frame_count>>

TooManyWrites ==
  /\ step = "append"
  /\ i \in DOMAIN frames
  /\ Len(frames[i]) > MaxFrameWrites
  /\ Fail

(* calloc, realloc: wherever memory is asked for it can be refused.        *)
OutOfMemory ==
  /\ step \in {"begin", "write", "append", "join"}
  /\ Fail
-----------------------------------------------------------------------------
(* vgm_convert around the calls.                                           *)

(* Mutant: the cache keeps what the intro taught it.                       *)
ForgetNothing(c) == c

(* The cache before a pass of the loop: whatever the chip holds when the   *)
(* player comes round, the pass must not rely on it.                       *)
ForgetBeforeLoop(c) == ForgetTarget(c)

(* The song has no loop: the intro is the whole song.                      *)
FinishSong ==
  /\ converted' = [Empty EXCEPT !.stream = output["intro"],
                                !.frame_count = frame_count'["intro"],
                                !.clipped_values = converter.clipped_values]
  /\ step' = "done"
  /\ UNCHANGED <<segment, converter, clips_first>>

GoTo(next) ==
  /\ segment' = next
  /\ step' = "begin"
  /\ converter' = ForgetBeforeLoop(converter)
  /\ clips_first' = converter.clipped_values
  /\ UNCHANGED converted

(* What vgm_convert does when a call returns, or the intro is skipped.     *)
AfterSegment ==
  \/ segment = "intro" /\ ~song.has_loop /\ FinishSong
  \/ segment = "intro" /\ song.has_loop /\ GoTo("first")
  \/ segment = "first" /\ GoTo("steady")
  \/ segment = "steady" /\ step' = "join"
       /\ UNCHANGED <<segment, converter, clips_first, converted>>

SkipIntro ==
  /\ step = "begin"
  /\ segment = "intro"
  /\ IntroIsEmpty(song)
  /\ AfterSegment
  /\ UNCHANGED <<song, frames, i, output, frame_count>>

EndSegment ==
  /\ step = "append"
  /\ i \notin DOMAIN frames
  /\ frame_count' = [frame_count EXCEPT ![segment] = Cardinality(DOMAIN frames)]
  /\ AfterSegment
  /\ frames' = <<>>
  /\ i' = 0
  /\ UNCHANGED <<song, output>>

(* Mutant: passes of the same size are taken for equal.                    *)
LoopIsStableBySize(out) == Len(out["first"]) = Len(out["steady"])

LoopIsStable(out) == out["first"] = out["steady"]

(* Mutant: the player always comes back to the first pass.                 *)
LoopStartAtFirst(out) == Len(out["intro"])

(* Mutant: the intro is not counted.                                       *)
LoopStartWithoutIntro(out) == IF LoopIsStable(out) THEN 0 ELSE Len(out["first"])

(* The pair offset the player comes back to.                               *)
LoopStart(out) ==
  IF LoopIsStable(out) THEN Len(out["intro"]) ELSE Len(out["intro"]) + Len(out["first"])

JoinLoop ==
  /\ step = "join"
  /\ converted' =
       [ stream |-> output["intro"] \o output["first"]
                      \o (IF LoopIsStable(output) THEN <<>> ELSE output["steady"]),
         loop_offset |-> LoopStart(output),
         frame_count |-> frame_count["intro"] + frame_count["first"]
                           + (IF LoopIsStable(output) THEN 0 ELSE frame_count["steady"]),
         loop_frame_count |-> frame_count["steady"],
         clipped_values |->
           IF LoopIsStable(output) THEN clips_first ELSE converter.clipped_values ]
  /\ step' = "done"
  /\ UNCHANGED <<song, segment, converter, clips_first, frames, i, output, frame_count>>

Next ==
  \/ BeginSegment
  \/ ConvertWrite
  \/ BeginAppend
  \/ AppendFrame
  \/ TooManyWrites
  \/ SkipIntro
  \/ EndSegment
  \/ JoinLoop
  \/ OutOfMemory

Spec == Init /\ [][Next]_convertVars /\ WF_convertVars(Next)
-----------------------------------------------------------------------------
(* The errors convert_segment calls internal are: vgm_parse cannot produce *)
(* a song that reaches them, whichever segment is begun.                   *)
NoInternalError ==
  step = "begin" /\ ~(segment = "intro" /\ IntroIsEmpty(song)) =>
    ~EventOrderError(song, segment) /\ ~NoFrames(song, segment)

(* The frames of a stretch of the song last as long as the stretch, and at *)
(* most one frame longer: a write at the very end of it adds one.          *)
FramesLast(seg, count) ==
  count * SamplesPerFrame - Duration(song, seg) \in 0 .. SamplesPerFrame

(* Playback keeps the song's time, up to the loop point and in the loop.   *)
PassesStored == IF ~song.has_loop THEN 0 ELSE IF LoopIsStable(output) THEN 1 ELSE 2

TimeKept ==
  step = "done" =>
    /\ FramesLast("intro", converted.frame_count - PassesStored * converted.loop_frame_count)
    /\ song.has_loop => FramesLast("steady", converted.loop_frame_count)

(* The player walks the stream record by record and jumps to loop_offset   *)
(* at its end.  The walk ends exactly at the end, loop_offset is one of    *)
(* the records it comes to, and from there to the end there are as many    *)
(* records as one pass of the loop has, at least one.                      *)
LoopRejoins ==
  step = "done" =>
    /\ EndsOnRecord(converted.stream)
    /\ Cardinality(RecordsFrom(converted.stream, 0)) = converted.frame_count
    /\ song.has_loop =>
         /\ converted.loop_offset \in RecordsFrom(converted.stream, 0)
         /\ Cardinality(RecordsFrom(converted.stream, converted.loop_offset))
              = converted.loop_frame_count

(* The writes of a stream, in the order the player makes them, but those   *)
(* to the registers skip: whatever in it is not the count of a record.     *)
Played(stream, skip) ==
  Picked(stream, {n \in DOMAIN stream : /\ n - 1 \notin Boundaries(stream)
                                        /\ stream[n][1] \notin skip})

(* The song's writes from first to last, but those to the registers skip.  *)
WritesOf(first, last, skip) ==
  Picked(Pairs(song), {k \in first .. last : song.writes[k].reg \notin skip})

(* README 126-129: the path without pitch conversion preserves every write *)
(* and its order, without synthesis or duplicate suppression; the loop is  *)
(* then never unrolled.                                                    *)
RawIsKept ==
  ~Adapts(converter) => Played(converted.stream, {}) = WritesOf(1, Len(song.writes), {})

(* README 116-119: with pitch conversion too, every write to a register no *)
(* pitch depends on is played, in order and as often as it was written: a  *)
(* key or an envelope is retriggered by writing the same byte again.  Each *)
(* pass of the loop that is stored has all of its writes.                  *)
PlainIsKept ==
  LET all   == WritesOf(1, Len(song.writes), Pitched)
      again == IF PassesStored < 2 THEN <<>>
               ELSE WritesOf(song.loop_write + 1, Len(song.writes), Pitched)
  IN  Played(converted.stream, Pitched) = all \o again

(* The stream that is stored plays every write it has to, in both modes:   *)
(* none is lost, repeated or moved by batching, segments and unrolling.    *)
WritesPreserved == step = "done" => RawIsKept /\ PlainIsKept

(* What converter_write remembers of the source depends on the writes, not *)
(* on the segment: these are the registers and latches that shape what a   *)
(* pass of the loop sends.                                                 *)
LastWritten(n, regs) ==
  LET At == {k \in 1 .. n : song.writes[k].reg \in regs}
  IN  IF At = {} THEN 0 ELSE song.writes[LastOf(At)].value

IntroLeaves(n) ==
  [ period |-> [r \in Reg \cap PsgPeriod |-> LastWritten(n, {r})],
    high   |-> LastWritten(n, FmHigh),
    high3  |-> LastWritten(n, Fm3High) ]

(* README 134-137: the loop is unrolled once only if its first pass        *)
(* depends on what the intro left.  When the intro leaves what a pass of   *)
(* the loop leaves, the player comes back to the first pass.               *)
UnrolledOnlyForIntro ==
  step = "done" /\ song.has_loop
    /\ IntroLeaves(song.loop_write) = IntroLeaves(Len(song.writes)) =>
      /\ converted.stream = output["intro"] \o output["first"]
      /\ converted.loop_offset = Len(output["intro"])
=============================================================================
