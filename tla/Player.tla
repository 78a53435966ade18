------------------------------- MODULE Player -------------------------------
(***************************************************************************)
(* The player of player.asm once the stream is decoded: it resets the      *)
(* board, then wakes once a frame (the suspend-job trap with a timeout of  *)
(* one frame) and plays one record, until the stream ends in silence or    *)
(* for ever round the loop.                                                *)
(*                                                                         *)
(* decoded, loop_offset and test_frames are what the host left in the      *)
(* image and do not change; they are variables so that a composition can   *)
(* say where they come from.  Addresses are kept as the code keeps them,   *)
(* as absolute positions (of byte pairs) behind the decoded stream's own.  *)
(***************************************************************************)
EXTENDS Ym2203, FrameStream

CONSTANTS
  DecodedAt,    (* the address of the decoded stream; never 0           *)
  NoLoop,       (* VGM_NO_LOOP, -1 in the image; no number here         *)
  TestWrap      (* 256: the test counter is a byte                      *)

VARIABLES
  decoded,       (* the decoded stream                                 *)
  loop_offset,   (* LOOP_OFFSET                                        *)
  test_frames,   (* TEST_FRAMES: 0, or the frames of a test build      *)
  running,       (* "no": not called yet; "yes"; "left": the test exit *)
  state,         (* player_state                                       *)
  chip           (* the YM2203                                         *)

fromHost == <<decoded, loop_offset, test_frames>>
playerVars == <<running, state, chip>>

(* player_state before player_start fills it in.                           *)
Blank == [ STREAM |-> 0, END |-> 0, LOOP |-> 0, FINISHED |-> FALSE, TEST |-> 0 ]

PlayerTypes ==
  /\ running \in {"no", "yes", "left"}
  /\ state \in [ STREAM : Nat, END : Nat, LOOP : Nat, FINISHED : BOOLEAN,
                 TEST : 0 .. TestWrap - 1 ]
  /\ chip \in Chip

(* Once filled in, the pointers are addresses of the decoded stream: the   *)
(* stream's may be the one behind it, the loop's is that of a byte in it.  *)
PointersInside ==
  running # "no" =>
    /\ state.END = DecodedAt + Len(decoded)
    /\ state.STREAM \in DecodedAt .. state.END
    /\ state.LOOP # 0 => state.LOOP \in DecodedAt .. state.END - 1

PlayerTypeOK == PlayerTypes /\ PointersInside

(* qsound_reset: registers 0..13, with 7 closing the mixer, then the timer *)
(* and mode register and the three keys.                                   *)
ResetWrites ==
  [k \in 1 .. 14 |-> <<k - 1, IF k - 1 = 7 THEN 63 ELSE 0>>]
    \o << <<39, 0>>, <<40, 0>>, <<40, 1>>, <<40, 2>> >>

(* Mutant: the keys of the FM channels stay down.                          *)
SilenceWritesPsgOnly == << <<7, 63>>, <<8, 0>>, <<9, 0>>, <<10, 0>> >>

(* qsound_silence.                                                         *)
SilenceWrites ==
  << <<7, 63>>, <<8, 0>>, <<9, 0>>, <<10, 0>>, <<40, 0>>, <<40, 1>>, <<40, 2>> >>

PlayerInit ==
  /\ running = "no"
  /\ state = Blank
  /\ chip = PowerOn

(* Mutant: an offset of 0 is taken for no loop.                            *)
LoopAddressNonZero(offset) == IF offset <= 0 THEN 0 ELSE DecodedAt + offset

(* Mutant: the offset is not made an address.                              *)
LoopAddressRelative(offset) == IF offset = NoLoop THEN 0 ELSE offset

(* Mutant: the offset is taken to count from 1.                            *)
LoopAddressPast(offset) == IF offset = NoLoop THEN 0 ELSE DecodedAt + offset + 1

(* What STATE_LOOP is set to; 0 stands for no loop.                        *)
LoopAddress(offset) == IF offset = NoLoop THEN 0 ELSE DecodedAt + offset

(* player_start after a successful decode, up to player_loop.              *)
Start ==
  /\ running = "no"
  /\ running' = "yes"
  /\ state' = [ STREAM   |-> DecodedAt,
                END      |-> DecodedAt + Len(decoded),
                LOOP     |-> LoopAddress(loop_offset),
                FINISHED |-> FALSE,
                TEST     |-> 0 ]
  /\ chip' = Hears(chip, ResetWrites)
  /\ UNCHANGED fromHost

(* Mutant: the counter is wider than its byte.                             *)
TestedUnwrapped == IF test_frames = 0 THEN 0 ELSE state.TEST + 1

(* The test counter after a frame.                                         *)
Tested == IF test_frames = 0 THEN 0 ELSE (state.TEST + 1) % TestWrap

(* Mutant: the counter is compared with the whole word.                    *)
LeavesByWord == test_frames # 0 /\ Tested = test_frames

(* Whether the test build leaves: the comparison is of bytes.              *)
Leaves == test_frames # 0 /\ Tested = test_frames % TestWrap

AfterFrame(new) ==
  /\ state' = [new EXCEPT !.TEST = Tested]
  /\ running' = IF Leaves THEN "left" ELSE "yes"
  /\ UNCHANGED fromHost

PlayRecord(address) ==
  LET at == address - DecodedAt
  IN  /\ chip' = Hears(chip, RecordWrites(decoded, at))
      /\ AfterFrame([state EXCEPT !.STREAM = DecodedAt + AfterRecord(decoded, at)])

AtEnd(s) == s.STREAM >= s.END

PlayNext ==
  /\ running = "yes" /\ ~state.FINISHED
  /\ ~AtEnd(state)
  /\ PlayRecord(state.STREAM)

PlayLoop ==
  /\ running = "yes" /\ ~state.FINISHED
  /\ AtEnd(state) /\ state.LOOP # 0
  /\ PlayRecord(state.LOOP)

Finish ==
  /\ running = "yes" /\ ~state.FINISHED
  /\ AtEnd(state) /\ state.LOOP = 0
  /\ chip' = Hears(chip, SilenceWrites)
  /\ AfterFrame([state EXCEPT !.FINISHED = TRUE])

(* play_frame returns at once.                                             *)
StayFinished ==
  /\ running = "yes" /\ state.FINISHED
  /\ UNCHANGED chip
  /\ AfterFrame(state)
-----------------------------------------------------------------------------
(* Before every frame the stream pointer stands on a record of the stream  *)
(* or exactly at its end, and so does the loop pointer: no byte after the  *)
(* decoded stream is ever taken for a count or a write.                    *)
PointersOnRecords ==
  running = "yes" =>
    /\ state.STREAM - DecodedAt \in Boundaries(decoded)
    /\ EndsOnRecord(decoded)
    /\ state.LOOP # 0 => state.LOOP - DecodedAt \in RecordsFrom(decoded, 0)

(* README 139-140: at the end of a stream without a loop the tone and      *)
(* noise generators are closed, their volumes are 0 and the keys are up.   *)
Silent ==
  /\ \A r \in Reg \cap {8, 9, 10} : chip.regs[r] = 0
  /\ 7 \in Reg => chip.regs[7] = 63
  /\ \A c \in Channel : chip.key[c] = 0
=============================================================================
