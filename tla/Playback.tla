------------------------------ MODULE Playback ------------------------------
(***************************************************************************)
(* From the parsed song to the sound: VgmConvert makes the stream on the   *)
(* host, Player plays it on the target.  (What lies between, compression   *)
(* and decompression, gives back the stream it is given.)                  *)
(*                                                                         *)
(* ideal is a history variable: the chip the log was recorded from, which  *)
(* hears at every frame the writes Score has for it.                       *)
(***************************************************************************)
EXTENDS VgmConvert, Retuning

CONSTANTS
  TestFrames,   (* the values of TEST_FRAMES the player is built with; 0 is none *)
  TestWrap      (* 256: the test counter is a byte                               *)

ASSUME TestAssumption ==
  /\ TestFrames \subseteq Nat
  /\ TestWrap \in Nat \ {0}

VARIABLES test_frames, running, state, chip, ideal

vars == <<convertVars, test_frames, running, state, chip, ideal>>

DecodedAt == 1

TargetPlayer == INSTANCE Player WITH
  decoded <- converted.stream, loop_offset <- converted.loop_offset

(* The frame of the song the player's next tick plays: the records before  *)
(* the stream pointer, less the passes of the loop they hold.              *)
NextFrame ==
  LET before == Cardinality(RecordsBefore(converted.stream, state.STREAM - DecodedAt))
      intro  == frame_count["intro"]
  IN  IF running = "no" THEN 0
      ELSE IF song.has_loop /\ before >= intro
      THEN intro + ((before - intro) % converted.loop_frame_count)
      ELSE before

Promise == INSTANCE Score WITH
  at <- NextFrame, over <- state.FINISHED,
  AtStart <- TargetPlayer!ResetWrites, AtEndOfSong <- TargetPlayer!SilenceWrites

PlaybackInit ==
  /\ Init
  /\ TargetPlayer!PlayerInit
  /\ test_frames \in TestFrames
  /\ ideal = Hears(PowerOn, TargetPlayer!ResetWrites)

Convert == Next /\ UNCHANGED <<test_frames, running, state, chip, ideal>>

Begin ==
  /\ step = "done"
  /\ UNCHANGED <<convertVars, ideal>>
  /\ TargetPlayer!Start

PlayRecord ==
  /\ UNCHANGED convertVars
  /\ TargetPlayer!PlayNext \/ TargetPlayer!PlayLoop
  /\ \E batch \in {Promise!Batch(song, n) : n \in {NextFrame}} :   \* evaluated once
       ideal' = Hears(ideal, batch)

Finish ==
  /\ UNCHANGED convertVars
  /\ TargetPlayer!Finish
  /\ ideal' = Hears(ideal, TargetPlayer!SilenceWrites)

StayFinished ==
  /\ UNCHANGED <<convertVars, ideal>>
  /\ TargetPlayer!StayFinished

PlaybackNext == Convert \/ Begin \/ PlayRecord \/ Finish \/ StayFinished

(* The host program is in the middle of vgm_convert: Convert is enabled,   *)
(* and every Convert step moves step, i or segment.                        *)
Converting == step \in {"begin", "write", "append", "join"}

(* The host program runs to its end (weak fairness of Convert, with its    *)
(* enabling condition written out), BOOT calls the player, and the frame   *)
(* interrupt keeps waking it.                                              *)
Fairness ==
  /\ []<>~Converting \/ []<><<Converting>>_vars
  /\ WF_vars(Begin \/ PlayRecord \/ Finish \/ StayFinished)

PlaybackSpec == PlaybackInit /\ [][PlaybackNext]_vars /\ Fairness
-----------------------------------------------------------------------------
(* After every frame, in the intro, in the first pass of the loop and in   *)
(* every later one, the target chip sounds as the source chip does: every  *)
(* pitch retuned, everything else the same.  Repeated writes were dropped, *)
(* the loop was or was not unrolled, and the player jumped back.           *)
HearsTheSong == running = "yes" => Follows(converter, ideal, chip)

PointersOnRecords == TargetPlayer!PointersOnRecords

(* The player keeps to the score: frame by frame in order, from the last   *)
(* frame to that of the loop point, silence when there is none.            *)
KeepsToScore == Promise!ScoreSpec

(* A song without a loop ends, and stays silent.                           *)
EndsSilent ==
  step = "done" /\ ~song.has_loop /\ test_frames = 0
    ~> [](state.FINISHED /\ TargetPlayer!Silent)

(* A song with a loop comes back to its loop point for ever.               *)
LoopsForEver ==
  step = "done" /\ song.has_loop /\ test_frames = 0
    ~> []<>(running = "yes" /\ ~state.FINISHED /\ NextFrame = frame_count["intro"])

(* A test build leaves the player whatever its TEST_FRAMES and its song:   *)
(* the counter is a byte and wraps, the comparison is of the word's low    *)
(* byte, and a song that ended before goes on counting.                    *)
TestEnds == step = "done" /\ test_frames # 0 ~> running = "left"

PlayerTypeOK == TargetPlayer!PlayerTypeOK
=============================================================================
