------------------------------- MODULE Score --------------------------------
(***************************************************************************)
(* What a listener is promised (the "Playback model" of src/README.md):    *)
(* once a frame the source chip hears the writes of one frame of the song, *)
(* in their order; after the last frame comes the frame of the loop point, *)
(* for ever, or silence.  Nothing here knows of streams, records, caches   *)
(* or pointers.                                                            *)
(***************************************************************************)
EXTENDS VgmSong

CONSTANTS AtStart, AtEndOfSong   (* what the chip hears before and after *)

VARIABLES
  ideal,    (* the source chip                                          *)
  at,       (* the frame the next tick plays, from 0, loop point onward *)
  over      (* whether the silence after the song has come              *)

scoreVars == <<song, ideal, at, over>>

IntroFrames(s) == IF IntroIsEmpty(s) THEN 0 ELSE FrameTotal(s, "intro")
LoopFrames(s)  == IF s.has_loop THEN FrameTotal(s, "first") ELSE 0

(* The writes of frame n of the song: they follow one another, as a song's *)
(* writes are in time order.                                               *)
Batch(s, n) ==
  LET seg  == IF n < IntroFrames(s) THEN "intro" ELSE "first"
      k    == IF seg = "intro" THEN n ELSE n - IntroFrames(s)
      mine == {w \in SegmentWrites(s, seg) : FrameOf(s, seg, w) = k}
  IN  IF mine = {} THEN <<>> ELSE SubSeq(Pairs(s), Min(mine), Max(mine))

LastFrame(s) == IntroFrames(s) + LoopFrames(s) - 1

ScoreInit ==
  /\ ideal = Hears(PowerOn, AtStart)
  /\ at = 0
  /\ over = FALSE

PlayBatch ==
  /\ at <= LastFrame(song)
  /\ ideal' = Hears(ideal, Batch(song, at))
  /\ at' = IF at = LastFrame(song) /\ song.has_loop THEN IntroFrames(song) ELSE at + 1
  /\ UNCHANGED <<song, over>>

FallSilent ==
  /\ at > LastFrame(song) /\ ~over
  /\ ideal' = Hears(ideal, AtEndOfSong)
  /\ over' = TRUE
  /\ UNCHANGED <<song, at>>

ScoreSpec == ScoreInit /\ [][PlayBatch \/ FallSilent]_scoreVars
=============================================================================
