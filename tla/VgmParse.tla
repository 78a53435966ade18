------------------------------ MODULE VgmParse ------------------------------
(***************************************************************************)
(* vgm_parse of vgm.c: the header, then one step a command, then what the  *)
(* header claims of the commands.  The file is the fields of its header up *)
(* to HeaderBytes and its bytes from there on: commands are read from any  *)
(* of them, the chip's clock from the four at ClockAt.  Offsets are the    *)
(* file's.                                                                 *)
(***************************************************************************)
EXTENDS VgmSong

CONSTANTS
  File,         (* the files parsed                                     *)
  SampleMax,    (* UINT32_MAX                                           *)
  OffsetRange   (* 2^32, the width of a uint32_t                        *)

HeaderBytes == 64   (* 0x40: no command is before it *)
ClockAt == 68       (* 0x44 *)

(* The register of a write is whatever byte follows 0x55.                  *)
ASSUME RegisterAssumption == Reg = Byte

ASSUME FileAssumption ==
  /\ SampleMax \in Nat /\ OffsetRange \in Nat
  /\ \A f \in File :
       /\ f.bytes \in Seq(Byte)
       /\ f.version \in Nat
       /\ {f.relative_eof, f.relative_data, f.relative_loop} \subseteq 0 .. OffsetRange - 1

VARIABLES
  file, position, samples, loop_found,
  result,  (* "header", "commands", "end" (the end command), "accepted", *)
           (* "rejected"                                                 *)
  starts   (* History: where each command began, the time it began at    *)
           (* and the writes before it.  It takes no part in parsing.    *)

parseVars == <<file, position, samples, song, loop_found, result, starts>>

FileSize == HeaderBytes + Len(file.bytes)
ByteAt(offset) == file.bytes[offset - HeaderBytes + 1]

(* The four bytes of the clock, the lowest first.  Commands may begin      *)
(* before them, at 0x40, and then these bytes may be commands, too.        *)
Clock == ByteAt(ClockAt) + 256 * ByteAt(ClockAt + 1)
           + 65536 * ByteAt(ClockAt + 2) + 16777216 * ByteAt(ClockAt + 3)

Eof == file.relative_eof + 4
DataOffset == IF file.relative_data = 0 THEN 64
              ELSE (52 + file.relative_data) % OffsetRange
LoopOffset == file.relative_loop + 28

NoSong == [ writes |-> << >>, total_samples |-> 0, has_loop |-> FALSE,
            loop_sample |-> 0, loop_write |-> 0, clock_hz |-> 0 ]

ParseInit ==
  /\ file \in File
  /\ position = 0
  /\ samples = 0
  /\ song = NoSong
  /\ loop_found = FALSE
  /\ result = "header"
  /\ starts = {}

(* Mutant: the commands may begin behind their end.                        *)
HeaderIsValidAnyData ==
  /\ FileSize >= ClockAt + 4 /\ file.magic
  /\ file.version \in 336 .. 369
  /\ Eof <= FileSize /\ Eof >= 64
  /\ DataOffset >= 64
  /\ Clock \in Clocks
  /\ file.relative_loop # 0 => LoopOffset >= DataOffset /\ LoopOffset < Eof

(* Mutant: the commands may begin in the header, where the sum of the data *)
(* offset wraps.                                                           *)
HeaderIsValidWrapped ==
  /\ FileSize >= ClockAt + 4 /\ file.magic
  /\ file.version \in 336 .. 369
  /\ Eof <= FileSize /\ Eof >= 64
  /\ DataOffset < Eof
  /\ Clock \in Clocks
  /\ file.relative_loop # 0 => LoopOffset >= DataOffset /\ LoopOffset < Eof

(* A clock with the flags of a second or another chip is none of Clocks.   *)
HeaderIsValid ==
  /\ FileSize >= ClockAt + 4 /\ file.magic
  /\ file.version \in 336 .. 369   (* 0x150 .. 0x171 *)
  /\ Eof <= FileSize /\ Eof >= 64
  /\ DataOffset >= 64 /\ DataOffset < Eof
  /\ Clock \in Clocks
  /\ file.relative_loop # 0 => LoopOffset >= DataOffset /\ LoopOffset < Eof

Reject ==
  result' = "rejected" /\ UNCHANGED <<file, position, samples, song, loop_found, starts>>

Header ==
  /\ result = "header"
  /\ IF HeaderIsValid
     THEN /\ result' = "commands"
          /\ position' = DataOffset
          /\ song' = [NoSong EXCEPT !.clock_hz = Clock,
                                    !.has_loop = file.relative_loop # 0]
          /\ UNCHANGED <<file, samples, loop_found, starts>>
     ELSE Reject
-----------------------------------------------------------------------------
AtCommand == result = "commands" /\ position < Eof
Command == ByteAt(position)
AtLoop == song.has_loop /\ position = LoopOffset

(* Mutant: the loop point is only taken at writes.                         *)
MarkedAtWrites ==
  IF AtLoop /\ Command = 85
  THEN [song EXCEPT !.loop_sample = samples, !.loop_write = Len(song.writes)]
  ELSE song

(* The loop point is taken before the command there.                       *)
Marked ==
  IF AtLoop THEN [song EXCEPT !.loop_sample = samples, !.loop_write = Len(song.writes)]
  ELSE song

Passed(size) ==
  /\ position' = position + size
  /\ loop_found' = (loop_found \/ AtLoop)
  /\ starts' = starts \cup {<<position, samples, Len(song.writes)>>}
  /\ UNCHANGED file

ClockDependent == {36, 37, 38, 45, 46, 47}

Arguments == position + 3 <= Eof

(* 0x55.  A write may be refused for its register, or for want of memory.  *)
WriteCommand ==
  /\ AtCommand /\ Command = 85
  /\ \/ /\ Arguments
        /\ LET reg == ByteAt(position + 1) IN
             /\ song.clock_hz = TargetClock \/ reg \notin ClockDependent
             /\ song' = [Marked EXCEPT !.writes = Append(@,
                   [sample |-> samples, reg |-> reg, value |-> ByteAt(position + 2)])]
        /\ Passed(3)
        /\ UNCHANGED <<samples, result>>
     \/ Reject

(* vgm_add_samples, after a command of some size.                          *)
Wait(amount, size) ==
  IF samples + amount <= SampleMax
  THEN samples' = samples + amount /\ song' = Marked /\ Passed(size) /\ UNCHANGED result
  ELSE Reject

(* 0x61 *)
Wait16 ==
  /\ AtCommand /\ Command = 97
  /\ IF Arguments THEN Wait(ByteAt(position + 1) + 256 * ByteAt(position + 2), 3) ELSE Reject

(* 0x62, 0x63 *)
WaitFrame ==
  /\ AtCommand /\ Command \in {98, 99}
  /\ Wait(IF Command = 98 THEN 735 ELSE 882, 1)

(* 0x70 .. 0x7F *)
WaitShort ==
  /\ AtCommand /\ Command \in 112 .. 127
  /\ Wait((Command % 16) + 1, 1)

(* 0x66 *)
EndCommand ==
  /\ AtCommand /\ Command = 102
  /\ song' = Marked
  /\ Passed(1)
  /\ result' = "end"
  /\ UNCHANGED samples

OtherCommand ==
  /\ AtCommand
  /\ Command \notin {85, 97, 98, 99, 102} \cup (112 .. 127)
  /\ Reject

NoEndCommand ==
  /\ result = "commands" /\ position >= Eof
  /\ Reject
-----------------------------------------------------------------------------
(* Mutant: a loop that lasts no time is let through.                       *)
LoopIsRightEvenEmpty == ~song.has_loop \/ (loop_found /\ file.loop_samples_match)

LoopIsRight ==
  IF song.has_loop
  THEN loop_found /\ file.loop_samples_match /\ samples - song.loop_sample # 0
  ELSE file.loop_samples_match

(* The checks after the loop.  That the header tells the sample counts of  *)
(* the commands (of no loop: 0) is a field of the file of its own.         *)
Accept ==
  /\ result = "end"
  /\ IF samples # 0 /\ file.samples_match /\ LoopIsRight
     THEN /\ song' = [song EXCEPT !.total_samples = samples]
          /\ result' = "accepted"
          /\ UNCHANGED <<file, position, samples, loop_found, starts>>
     ELSE Reject

ParseNext ==
  \/ Header \/ WriteCommand \/ Wait16 \/ WaitFrame \/ WaitShort \/ EndCommand
  \/ OtherCommand \/ NoEndCommand \/ Accept

ParseSpec == ParseInit /\ [][ParseNext]_parseVars
-----------------------------------------------------------------------------
(* A song that is accepted is what the converter takes for granted: its    *)
(* writes are in time order, the loop point, if any, cuts them between two *)
(* and leaves some time to the loop.                                       *)
AcceptedIsWellFormed == result = "accepted" => WellFormed(song)

(* The commands are read from the bytes behind the header, none beyond the *)
(* end the header tells, and that end is in the file: the offsets are 32   *)
(* bits of the file, summed with and without a wrap.                       *)
ReadsInside ==
  result \in {"commands", "end", "accepted"} =>
    HeaderBytes <= position /\ position <= Eof /\ Eof <= FileSize

(* The loop a song is accepted with is at the start of a command, and is   *)
(* the time and the writes there were before that command: no write comes  *)
(* to be on the other side of the loop point than it is in the file.       *)
LoopIsAtItsCommand ==
  result = "accepted" /\ song.has_loop =>
    <<LoopOffset, song.loop_sample, song.loop_write>> \in starts
=============================================================================
