----------------------------- MODULE VgmProofs ------------------------------
(***************************************************************************)
(* vgm.c for every file and every song.  vgm_parse: what it accepts is     *)
(* what vgm_convert takes for granted, and it reads inside the file        *)
(* (ParseInv).  vgm_convert: no internal error, the time kept, a stream of *)
(* whole records the loop rejoins (ConvertInv), and, from what a call of   *)
(* convert_segment is given and what it leaves (PassInv), the loop stored  *)
(* once if its first pass leaves what the intro left, and every write no   *)
(* pitch depends on in the stream, once, in its frame and in its order.    *)
(***************************************************************************)
EXTENDS VgmParse, VgmConvert, ClockConverterProofs, FunctionTheorems
-----------------------------------------------------------------------------
(* vgm_parse: the inductive invariant.                                     *)

TimedWrite == [sample : Nat, reg : Reg, value : Byte]

InOrder(writes) ==
  \A k, m \in DOMAIN writes : k <= m => writes[k].sample <= writes[m].sample

Parsing == result \in {"commands", "end", "accepted"}

(* The header was valid, and the next command begins inside the data.      *)
InsideInv == Eof <= FileSize /\ position \in 64 .. Eof

(* The writes so far are in time order and none is later than now.         *)
SongInv ==
  /\ samples \in Nat
  /\ song \in [ writes : Seq(TimedWrite), total_samples : Nat, has_loop : BOOLEAN,
                loop_sample : Nat, loop_write : Nat, clock_hz : Clocks ]
  /\ InOrder(song.writes)
  /\ \A k \in DOMAIN song.writes : song.writes[k].sample <= samples

(* The mark that was made is of a command gone by, so it is not made       *)
(* again, and the writes since then are not earlier than it.               *)
LoopInv ==
  /\ loop_found \in BOOLEAN
  /\ ~loop_found => song.loop_sample = 0 /\ song.loop_write = 0
  /\ loop_found =>
       /\ song.has_loop
       /\ position > LoopOffset
       /\ song.loop_sample <= samples
       /\ song.loop_write <= Len(song.writes)
       /\ \A k \in DOMAIN song.writes :
            IF k <= song.loop_write THEN song.writes[k].sample <= song.loop_sample
                                    ELSE song.writes[k].sample >= song.loop_sample
       /\ <<LoopOffset, song.loop_sample, song.loop_write>> \in starts

DoneInv ==
  result = "accepted" =>
    /\ samples # 0 /\ song.total_samples = samples
    /\ song.has_loop => loop_found /\ samples # song.loop_sample

ParseInv ==
  /\ file \in File
  /\ result = "header" =>
       samples = 0 /\ song = NoSong /\ loop_found = FALSE
  /\ Parsing => InsideInv /\ SongInv /\ LoopInv /\ DoneInv

(* What the header's fields are.                                           *)
LEMMA FieldsOfFile ==
  ASSUME file \in File
  PROVE  /\ Eof \in Nat /\ DataOffset \in Nat /\ LoopOffset \in Nat /\ FileSize \in Nat
         /\ file.bytes \in Seq(Byte)
         /\ file.relative_loop \in Nat
  <1>1. /\ file.bytes \in Seq(Byte)
        /\ file.relative_eof \in 0 .. OffsetRange - 1
        /\ file.relative_data \in 0 .. OffsetRange - 1
        /\ file.relative_loop \in 0 .. OffsetRange - 1
        /\ OffsetRange \in Nat
    BY FileAssumption
  <1>2. OffsetRange \in Nat \ {0}
    BY <1>1
  <1>3. (52 + file.relative_data) % OffsetRange \in Nat
    <2>1. \A a \in Nat, b \in Nat \ {0} : a % b \in Nat
      OBVIOUS
    <2> QED
      BY <1>1, <1>2, <2>1
  <1>4. Len(file.bytes) \in Nat
    BY <1>1
  <1> QED
    BY <1>1, <1>3, <1>4 DEF Eof, DataOffset, LoopOffset, FileSize, HeaderBytes

(* Each byte before the end the header tells is a byte of the file.        *)
LEMMA ByteInside ==
  ASSUME file \in File, Eof <= FileSize, NEW offset \in 64 .. Eof - 1
  PROVE  ByteAt(offset) \in Byte
  <1>1. file.bytes \in Seq(Byte)
    BY FieldsOfFile
  <1>2. offset - HeaderBytes + 1 \in 1 .. Len(file.bytes)
    BY <1>1, FieldsOfFile DEF FileSize, HeaderBytes
  <1> QED
    BY <1>1, <1>2 DEF ByteAt

(* One command is passed, and one write or none is noted at its time.      *)
LEMMA CommandKeeps ==
  ASSUME ParseInv, AtCommand,
         NEW size \in 1 .. 3, position + size <= Eof, Passed(size),
         result' \in {"commands", "end"},
         samples' \in Nat, samples <= samples',
         NEW writes, song' = [Marked EXCEPT !.writes = writes],
         \/ writes = song.writes
         \/ \E w \in TimedWrite : w.sample = samples /\ writes = Append(song.writes, w)
  PROVE  ParseInv'
  <1>1. /\ file \in File /\ file' = file
        /\ result = "commands" /\ position < Eof
        /\ InsideInv /\ SongInv /\ LoopInv
    BY DEF ParseInv, AtCommand, Passed, Parsing
  <1>2. /\ Eof' = Eof /\ FileSize' = FileSize /\ LoopOffset' = LoopOffset
        /\ Eof \in Nat /\ LoopOffset \in Nat
    BY <1>1, FieldsOfFile DEF Eof, FileSize, LoopOffset
  <1>3. position \in Nat /\ position' = position + size /\ position >= 64
    BY <1>1, <1>2 DEF Passed, InsideInv
  <1>4. InsideInv'
    BY <1>1, <1>2, <1>3 DEF InsideInv
  <1> DEFINE old == song.writes
  <1>5. /\ old \in Seq(TimedWrite) /\ InOrder(old)
        /\ \A k \in DOMAIN old : old[k].sample <= samples /\ old[k].sample \in Nat
        /\ samples \in Nat
    <2>1. \A s \in Seq(TimedWrite) : \A k \in DOMAIN s : s[k] \in TimedWrite
      OBVIOUS
    <2>2. \A w \in TimedWrite : w.sample \in Nat
      BY DEF TimedWrite
    <2> QED
      BY <1>1, <2>1, <2>2 DEF SongInv
  <1>6. /\ writes \in Seq(TimedWrite) /\ InOrder(writes)
        /\ \A k \in DOMAIN writes : writes[k].sample <= samples /\ writes[k].sample \in Nat
        /\ Len(old) \in Nat /\ Len(old) <= Len(writes)
        /\ \A k \in DOMAIN old : k \in DOMAIN writes /\ writes[k] = old[k]
        /\ \A k \in DOMAIN writes : k \in Nat /\ k >= 1
        /\ \A k \in DOMAIN writes : k > Len(old) => writes[k].sample = samples
        /\ \A k \in DOMAIN writes : k <= Len(old) => k \in DOMAIN old
    <2>1. CASE writes = old
      BY <1>5, <2>1
    <2>2. ASSUME NEW w \in TimedWrite, w.sample = samples, writes = Append(old, w)
          PROVE  <1>6
      <3> HIDE DEF old
      <3>1. /\ writes \in Seq(TimedWrite) /\ Len(writes) = Len(old) + 1
            /\ writes[Len(old) + 1] = w
            /\ \A k \in 1 .. Len(old) : writes[k] = old[k]
            /\ DOMAIN old = 1 .. Len(old) /\ DOMAIN writes = 1 .. Len(old) + 1
            /\ Len(old) \in Nat
        BY <1>5, <2>2
      <3>2. InOrder(writes)
        <4> SUFFICES ASSUME NEW k \in DOMAIN writes, NEW m \in DOMAIN writes, k <= m
                     PROVE  writes[k].sample <= writes[m].sample
          BY DEF InOrder
        <4>1. CASE m = Len(old) + 1
          BY <1>5, <2>2, <3>1, <4>1
        <4>2. CASE m # Len(old) + 1
          BY <1>5, <3>1, <4>2 DEF InOrder
        <4> QED
          BY <4>1, <4>2
      <3> QED
        BY <1>5, <2>2, <3>1, <3>2
    <2> QED
      BY <2>1, <2>2
  <1> HIDE DEF old
  <1>7. /\ song \in [ writes : Seq(TimedWrite), total_samples : Nat, has_loop : BOOLEAN,
                      loop_sample : Nat, loop_write : Nat, clock_hz : Clocks ]
        /\ old = song.writes
    BY <1>1 DEF SongInv, old
  <1>8. /\ song' \in [ writes : Seq(TimedWrite), total_samples : Nat, has_loop : BOOLEAN,
                       loop_sample : Nat, loop_write : Nat, clock_hz : Clocks ]
        /\ song'.writes = writes
        /\ song'.has_loop = song.has_loop
        /\ AtLoop => song'.loop_sample = samples /\ song'.loop_write = Len(old)
        /\ ~AtLoop => /\ song'.loop_sample = song.loop_sample
                      /\ song'.loop_write = song.loop_write
    <2>1. CASE AtLoop
      <3>1. Marked = [song EXCEPT !.loop_sample = samples, !.loop_write = Len(old)]
        BY <1>7, <2>1 DEF Marked
      <3> QED
        BY <1>5, <1>6, <1>7, <2>1, <3>1
    <2>2. CASE ~AtLoop
      <3>1. Marked = song
        BY <2>2 DEF Marked
      <3> QED
        BY <1>6, <1>7, <2>2, <3>1
    <2> QED
      BY <2>1, <2>2
  <1>9. SongInv'
    <2>1. \A k \in DOMAIN writes : writes[k].sample <= samples'
      BY <1>5, <1>6
    <2> QED
      BY <1>6, <1>8, <2>1 DEF SongInv
  <1>10. LoopInv'
    <2>1. loop_found' = (loop_found \/ AtLoop) /\ loop_found' \in BOOLEAN
          /\ starts' = starts \cup {<<position, samples, Len(old)>>}
      BY <1>1, <1>7 DEF Passed, LoopInv
    <2>2. CASE AtLoop
      <3>1. position = LoopOffset /\ song.has_loop
        BY <2>2 DEF AtLoop
      <3>2. loop_found'
        BY <2>1, <2>2, Zenon
      <3>a. song'.has_loop /\ position' > LoopOffset
        <4>1. song'.has_loop
          BY <1>8, <3>1, Zenon
        <4>2. position' > LoopOffset
          BY <1>2, <1>3, <3>1
        <4> QED
          BY <4>1, <4>2
      <3>3. song'.loop_sample = samples /\ song'.loop_write = Len(old)
        BY <1>8, <2>2
      <3>4. <<LoopOffset, song'.loop_sample, song'.loop_write>> \in starts'
        BY <2>1, <3>1, <3>3
      <3>5. \A k \in DOMAIN writes :
              IF k <= Len(old) THEN writes[k].sample <= samples
                               ELSE writes[k].sample >= samples
        BY <1>5, <1>6
      <3> QED
        BY <1>2, <1>6, <1>8, <2>1, <3>2, <3>a, <3>3, <3>4, <3>5 DEF LoopInv
    <2>3. CASE ~AtLoop /\ loop_found
      <3>1. /\ song'.loop_sample = song.loop_sample /\ song'.loop_write = song.loop_write
            /\ song'.has_loop = song.has_loop
        BY <1>8, <2>3
      <3>a. loop_found'
        BY <2>1, <2>3, Zenon
      <3>2. /\ song.has_loop /\ position > LoopOffset /\ song.loop_sample <= samples
            /\ song.loop_write <= Len(old)
            /\ \A k \in DOMAIN old :
                 IF k <= song.loop_write THEN old[k].sample <= song.loop_sample
                                         ELSE old[k].sample >= song.loop_sample
            /\ <<LoopOffset, song.loop_sample, song.loop_write>> \in starts
        BY <1>1, <1>7, <2>3 DEF LoopInv
      <3>3. song.loop_write \in Nat /\ song.loop_sample \in Nat
        BY <1>7
      <3>4. position' > LoopOffset
        BY <1>2, <1>3, <3>2
      <3>b. <<LoopOffset, song.loop_sample, song.loop_write>> \in starts'
        BY <2>1, <3>2
      <3>5. song.loop_sample <= samples' /\ song.loop_write <= Len(writes)
        BY <1>5, <1>6, <3>2, <3>3
      <3>6. ASSUME NEW k \in DOMAIN writes
            PROVE  IF k <= song.loop_write THEN writes[k].sample <= song.loop_sample
                                           ELSE writes[k].sample >= song.loop_sample
        <4>1. CASE k <= Len(old)
          BY <1>6, <3>2, <4>1
        <4>2. CASE ~(k <= Len(old))
          <5>1. k \in Nat /\ Len(old) \in Nat
            BY <1>6
          <5>2. k > Len(old) /\ ~(k <= song.loop_write)
            BY <3>2, <3>3, <4>2, <5>1
          <5>3. writes[k].sample = samples
            BY <1>6, <5>2
          <5> QED
            BY <1>5, <3>2, <3>3, <5>2, <5>3
        <4> QED
          BY <4>1, <4>2
      <3> QED
        BY <1>2, <1>8, <2>1, <3>1, <3>a, <3>2, <3>4, <3>5, <3>6, <3>b DEF LoopInv
    <2>4. CASE ~AtLoop /\ ~loop_found
      BY <1>1, <1>8, <2>1, <2>4 DEF LoopInv
    <2> QED
      BY <2>2, <2>3, <2>4
  <1> QED
    BY <1>1, <1>4, <1>9, <1>10 DEF ParseInv, DoneInv

(* vgm_parse's loop begins with what the header gives.                     *)
LEMMA HeaderKeeps ==
  ASSUME ParseInv, Header
  PROVE  ParseInv'
  <1>1. /\ file \in File /\ file' = file
        /\ samples = 0 /\ loop_found = FALSE
    BY DEF ParseInv, Header, Reject
  <1>2. CASE HeaderIsValid
    <2>1. /\ result' = "commands" /\ position' = DataOffset
          /\ song' = [NoSong EXCEPT !.clock_hz = Clock,
                                    !.has_loop = file.relative_loop # 0]
          /\ samples' = 0 /\ loop_found' = FALSE
      BY <1>1, <1>2 DEF Header
    <2>2. /\ song' \in [ writes : Seq(TimedWrite), total_samples : Nat, has_loop : BOOLEAN,
                         loop_sample : Nat, loop_write : Nat, clock_hz : Clocks ]
          /\ song'.writes = <<>> /\ song'.loop_sample = 0 /\ song'.loop_write = 0
      <3>1. Clock \in Clocks
        BY <1>2 DEF HeaderIsValid
      <3>2. song' = [ writes |-> << >>, total_samples |-> 0,
                      has_loop |-> file.relative_loop # 0, loop_sample |-> 0,
                      loop_write |-> 0, clock_hz |-> Clock ]
        BY <2>1 DEF NoSong
      <3>3. << >> \in Seq(TimedWrite) /\ (file.relative_loop # 0) \in BOOLEAN
        OBVIOUS
      <3> QED
        BY <3>1, <3>2, <3>3
    <2>3. InsideInv'
      BY <1>1, <1>2, <2>1, FieldsOfFile
      DEF InsideInv, HeaderIsValid, Eof, FileSize, DataOffset
    <2>4. SongInv'
      BY <2>1, <2>2 DEF SongInv, InOrder
    <2>5. LoopInv'
      BY <2>1, <2>2 DEF LoopInv
    <2> QED
      BY <1>1, <2>1, <2>3, <2>4, <2>5 DEF ParseInv, DoneInv, Parsing
  <1>3. CASE ~HeaderIsValid
    BY <1>1, <1>3 DEF Header, Reject, ParseInv, Parsing
  <1> QED
    BY <1>2, <1>3

(* A file that is refused promises nothing.                                *)
LEMMA RejectKeeps ==
  ASSUME ParseInv, Reject
  PROVE  ParseInv'
  BY DEF ParseInv, Reject, Parsing

(* A wait of any size that does not overflow the clock.                    *)
LEMMA WaitKeeps ==
  ASSUME ParseInv, AtCommand, NEW amount \in Nat, NEW size \in 1 .. 3,
         position + size <= Eof, Wait(amount, size)
  PROVE  ParseInv'
  <1>1. CASE samples + amount <= SampleMax
    <2>1. samples \in Nat /\ song.writes = Marked.writes /\ result = "commands"
      <3>1. SongInv /\ result = "commands"
        BY DEF ParseInv, AtCommand, Parsing
      <3> QED
        BY <3>1 DEF SongInv, Marked
    <2>2. /\ samples' = samples + amount /\ song' = Marked /\ Passed(size)
          /\ result' = "commands"
      BY <1>1, <2>1 DEF Wait
    <2>3. Marked = [Marked EXCEPT !.writes = song.writes]
      <3>1. song = [song EXCEPT !.writes = song.writes]
        BY DEF ParseInv, AtCommand, Parsing, SongInv
      <3>2. song \in [ writes : Seq(TimedWrite), total_samples : Nat, has_loop : BOOLEAN,
                       loop_sample : Nat, loop_write : Nat, clock_hz : Clocks ]
        BY DEF ParseInv, AtCommand, Parsing, SongInv
      <3> QED
        BY <3>1, <3>2 DEF Marked
    <2>4. samples' \in Nat /\ samples <= samples'
      BY <2>1, <2>2
    <2>5. song' = [Marked EXCEPT !.writes = song.writes]
      BY <2>2, <2>3
    <2> QED
      BY <2>2, <2>4, <2>5, CommandKeeps
  <1>2. CASE ~(samples + amount <= SampleMax)
    BY <1>2, RejectKeeps DEF Wait
  <1> QED
    BY <1>1, <1>2

(* Where a command is read, and how far it may reach.                      *)
LEMMA CommandInside ==
  ASSUME ParseInv, AtCommand
  PROVE  /\ file \in File /\ Eof <= FileSize /\ Eof \in Nat
         /\ position \in 64 .. Eof - 1
         /\ Arguments => /\ position + 1 \in 64 .. Eof - 1
                         /\ position + 2 \in 64 .. Eof - 1
         /\ SongInv /\ result = "commands"
  <1>1. file \in File /\ InsideInv /\ SongInv /\ result = "commands" /\ position < Eof
    BY DEF ParseInv, AtCommand, Parsing
  <1> QED
    BY <1>1, FieldsOfFile DEF InsideInv, Arguments

(* A write command.                                                        *)
LEMMA WriteKeeps ==
  ASSUME ParseInv, WriteCommand
  PROVE  ParseInv'
  <1> DEFINE w == [sample |-> samples, reg |-> ByteAt(position + 1),
                   value |-> ByteAt(position + 2)]
  <1>1. AtCommand
    BY DEF WriteCommand
  <1>2. CASE /\ Arguments
             /\ song' = [Marked EXCEPT !.writes = Append(@, w)]
             /\ Passed(3)
             /\ UNCHANGED <<samples, result>>
    <2>1. ByteAt(position + 1) \in Byte /\ ByteAt(position + 2) \in Byte
      BY <1>1, <1>2, CommandInside, ByteInside
    <2>2. SongInv /\ result = "commands"
      BY <1>1, CommandInside
    <2>3. samples \in Nat /\ Marked.writes = song.writes
      BY <2>2 DEF SongInv, Marked
    <2>4. w \in TimedWrite /\ w.sample = samples
      BY <2>1, <2>3, RegisterAssumption DEF TimedWrite
    <2> DEFINE writes == Append(song.writes, w)
    <2>5. song' = [Marked EXCEPT !.writes = writes]
      BY <1>2, <2>3
    <2>6. position + 3 <= Eof
      BY <1>2 DEF Arguments
    <2>7. \E v \in TimedWrite : v.sample = samples /\ writes = Append(song.writes, v)
      BY <2>4
    <2> HIDE DEF w, writes
    <2>8. samples' \in Nat /\ samples <= samples' /\ result' \in {"commands", "end"}
      BY <1>2, <2>2, <2>3
    <2>9. Passed(3) /\ 3 \in 1 .. 3
      BY <1>2
    <2> QED
      BY <1>1, <2>5, <2>6, <2>7, <2>8, <2>9, CommandKeeps
  <1>3. CASE Reject
    BY <1>3, RejectKeeps
  <1> QED
    BY <1>2, <1>3 DEF WriteCommand

(* The end command.                                                        *)
LEMMA EndKeeps ==
  ASSUME ParseInv, EndCommand
  PROVE  ParseInv'
  <1>1. AtCommand /\ song' = Marked /\ Passed(1) /\ result' = "end" /\ samples' = samples
    BY DEF EndCommand
  <1>2. SongInv /\ position \in 64 .. Eof - 1 /\ Eof \in Nat
    BY <1>1, CommandInside
  <1>3. song' = [Marked EXCEPT !.writes = song.writes]
    BY <1>1, <1>2 DEF SongInv, Marked
  <1>4. samples' \in Nat /\ samples <= samples' /\ position + 1 <= Eof
    BY <1>1, <1>2 DEF SongInv
  <1>5. 1 \in 1 .. 3 /\ result' \in {"commands", "end"} /\ AtCommand /\ Passed(1)
    BY <1>1
  <1> QED
    BY <1>3, <1>4, <1>5, CommandKeeps

(* The checks after the commands.                                          *)
LEMMA AcceptKeeps ==
  ASSUME ParseInv, Accept
  PROVE  ParseInv'
  <1>1. CASE samples # 0 /\ file.samples_match /\ LoopIsRight
    <2>1. /\ song' = [song EXCEPT !.total_samples = samples]
          /\ result' = "accepted" /\ result = "end"
          /\ UNCHANGED <<file, position, samples, loop_found, starts>>
      BY <1>1 DEF Accept
    <2>2. file \in File /\ InsideInv /\ SongInv /\ LoopInv
      BY <2>1 DEF ParseInv, Parsing
    <2>3. /\ song' \in [ writes : Seq(TimedWrite), total_samples : Nat, has_loop : BOOLEAN,
                         loop_sample : Nat, loop_write : Nat, clock_hz : Clocks ]
          /\ song'.total_samples = samples /\ song'.writes = song.writes
          /\ song'.has_loop = song.has_loop /\ song'.loop_sample = song.loop_sample
          /\ song'.loop_write = song.loop_write
      BY <2>1, <2>2 DEF SongInv
    <2>4. InsideInv' /\ LoopOffset' = LoopOffset
      BY <2>1, <2>2 DEF InsideInv, Eof, FileSize, LoopOffset
    <2>5. SongInv'
      BY <2>1, <2>2, <2>3 DEF SongInv
    <2>6. LoopInv'
      BY <2>1, <2>2, <2>3, <2>4 DEF LoopInv
    <2>7. DoneInv'
      <3>1. song.has_loop => loop_found /\ samples - song.loop_sample # 0
        BY <1>1 DEF LoopIsRight
      <3>2. samples \in Nat /\ song.loop_sample \in Nat
        BY <2>2 DEF SongInv
      <3> QED
        BY <1>1, <2>1, <2>3, <3>1, <3>2 DEF DoneInv
    <2> QED
      BY <2>1, <2>2, <2>4, <2>5, <2>6, <2>7 DEF ParseInv
  <1>2. CASE Reject
    BY <1>2, RejectKeeps
  <1> QED
    BY <1>1, <1>2 DEF Accept

(* ParseInv is inductive.                                                  *)
LEMMA ParseStepKeeps == ParseInv /\ [ParseNext]_parseVars => ParseInv'
  <1> SUFFICES ASSUME ParseInv, [ParseNext]_parseVars PROVE ParseInv'
    OBVIOUS
  <1>1. CASE Header
    BY <1>1, HeaderKeeps
  <1>2. CASE WriteCommand
    BY <1>2, WriteKeeps
  <1>3. CASE Wait16
    <2>1. AtCommand
      BY <1>3 DEF Wait16
    <2>2. CASE Arguments
      <3>1. ByteAt(position + 1) \in Byte /\ ByteAt(position + 2) \in Byte
        BY <2>1, <2>2, CommandInside, ByteInside
      <3>2. ByteAt(position + 1) + 256 * ByteAt(position + 2) \in Nat
        <4>1. \A a, b \in Byte : a + 256 * b \in Nat
          BY DEF Byte
        <4> QED
          BY <3>1, <4>1
      <3>3. position + 3 <= Eof
        BY <2>2 DEF Arguments
      <3>4. Wait(ByteAt(position + 1) + 256 * ByteAt(position + 2), 3) /\ 3 \in 1 .. 3
        BY <1>3, <2>2 DEF Wait16
      <3> QED
        BY <2>1, <3>2, <3>3, <3>4, WaitKeeps
    <2>3. CASE ~Arguments
      BY <1>3, <2>3, RejectKeeps DEF Wait16
    <2> QED
      BY <2>2, <2>3
  <1>4. CASE WaitFrame
    <2>1. /\ AtCommand
          /\ Wait(735, 1) \/ Wait(882, 1)
      BY <1>4 DEF WaitFrame
    <2>2. position + 1 <= Eof
      BY <2>1, CommandInside
    <2> QED
      BY <2>1, <2>2, WaitKeeps
  <1>5. CASE WaitShort
    <2>1. AtCommand /\ Wait((Command % 16) + 1, 1)
      BY <1>5 DEF WaitShort
    <2>2. position + 1 <= Eof /\ Command \in Byte
      BY <2>1, CommandInside, ByteInside DEF Command
    <2>3. (Command % 16) + 1 \in Nat
      BY <2>2 DEF Byte
    <2> QED
      BY <2>1, <2>2, <2>3, WaitKeeps
  <1>6. CASE EndCommand
    BY <1>6, EndKeeps
  <1>7. CASE OtherCommand
    BY <1>7, RejectKeeps DEF OtherCommand
  <1>8. CASE NoEndCommand
    BY <1>8, RejectKeeps DEF NoEndCommand
  <1>9. CASE Accept
    BY <1>9, AcceptKeeps
  <1>10. CASE UNCHANGED parseVars
    BY <1>10 DEF parseVars, ParseInv, Parsing, InsideInv, SongInv, LoopInv, DoneInv, Eof,
                 FileSize, LoopOffset
  <1> QED
    BY <1>1, <1>2, <1>3, <1>4, <1>5, <1>6, <1>7, <1>8, <1>9, <1>10 DEF ParseNext

(* It holds of every file from before its header is looked at.             *)
LEMMA ParseInvariance == ParseSpec => []ParseInv
  <1>1. ParseInit => ParseInv
    BY DEF ParseInit, ParseInv, Parsing
  <1> QED
    BY <1>1, ParseStepKeeps, PTL DEF ParseSpec

(* Whatever the file, the song vgm_parse returns is one vgm_convert can    *)
(* take: its writes in time order, its loop point between two of them and  *)
(* before the song's end.                                                  *)
THEOREM AcceptedSongs == ParseSpec => []AcceptedIsWellFormed
  <1>1. ParseInv => AcceptedIsWellFormed
    <2> SUFFICES ASSUME ParseInv, result = "accepted" PROVE WellFormed(song)
      BY DEF AcceptedIsWellFormed
    <2>1. SongInv /\ LoopInv /\ DoneInv
      BY DEF ParseInv, Parsing
    <2>2. samples \in Nat \ {0} /\ song.total_samples = samples
      BY <2>1 DEF SongInv, DoneInv
    <2>3. song \in vgm_song
      BY <2>1, <2>2 DEF SongInv, vgm_song, TimedWrite
    <2>4. /\ \A k, m \in DOMAIN song.writes :
               k <= m => song.writes[k].sample <= song.writes[m].sample
          /\ \A k \in DOMAIN song.writes : song.writes[k].sample <= song.total_samples
      BY <2>1, <2>2 DEF SongInv, InOrder
    <2>5. CASE song.has_loop
      <3>1. loop_found /\ samples # song.loop_sample
        BY <2>1, <2>5 DEF DoneInv
      <3>2. /\ song.loop_sample <= samples
            /\ song.loop_write <= Len(song.writes)
            /\ \A k \in DOMAIN song.writes :
                 IF k <= song.loop_write THEN song.writes[k].sample <= song.loop_sample
                                         ELSE song.writes[k].sample >= song.loop_sample
        BY <2>1, <3>1 DEF LoopInv
      <3>3. song.loop_sample \in Nat
        BY <2>1 DEF SongInv
      <3>4. song.loop_sample < song.total_samples
        BY <2>2, <3>1, <3>2, <3>3
      <3> QED
        BY <2>3, <2>4, <2>5, <3>2, <3>4 DEF WellFormed
    <2>6. CASE ~song.has_loop
      <3>1. ~loop_found
        BY <2>1, <2>6 DEF LoopInv
      <3>2. song.loop_sample = 0 /\ song.loop_write = 0
        BY <2>1, <3>1 DEF LoopInv
      <3> QED
        BY <2>3, <2>4, <2>6, <3>2 DEF WellFormed
    <2> QED
      BY <2>5, <2>6
  <1> QED
    BY <1>1, ParseInvariance, PTL

(* Every command begins inside the data the header tells, and every byte   *)
(* of it that is looked at is a byte of the file.                          *)
THEOREM ReadsAreInside == ParseSpec => []ReadsInside
  <1>1. ParseInv => ReadsInside
    BY FieldsOfFile DEF ParseInv, Parsing, InsideInv, ReadsInside, HeaderBytes
  <1> QED
    BY <1>1, ParseInvariance, PTL

(* The loop point is the state of the parse at the command the header's    *)
(* loop offset points to.                                                  *)
THEOREM LoopIsAtCommand == ParseSpec => []LoopIsAtItsCommand
  <1>1. ParseInv => LoopIsAtItsCommand
    BY DEF ParseInv, Parsing, LoopInv, DoneInv, LoopIsAtItsCommand
  <1> QED
    BY <1>1, ParseInvariance, PTL
-----------------------------------------------------------------------------
(* vgm_convert: the samples of a frame, and the frames of a segment.       *)

(* Division with remainder.                                                *)
LEMMA DivMod ==
  ASSUME NEW a \in Nat, NEW b \in Nat \ {0}
  PROVE  /\ a \div b \in Nat /\ a % b \in 0 .. b - 1
         /\ a = (a \div b) * b + (a % b)
  OBVIOUS

(* A smaller number has no larger quotient.                                *)
LEMMA DivGrows ==
  ASSUME NEW a \in Nat, NEW c \in Nat, a <= c, NEW b \in Nat \ {0}
  PROVE  a \div b <= c \div b
  OBVIOUS

(* A song of the kind vgm_parse returns, and one of its segments.          *)
IsSegment(s, seg) == WellFormed(s) /\ seg \in Segment /\ (seg # "intro" => s.has_loop)

(* The writes of a segment are writes of the song, none before its start,  *)
(* none after its end.                                                     *)
LEMMA WritesOfSegment ==
  ASSUME NEW s, NEW seg, IsSegment(s, seg)
  PROVE  /\ Duration(s, seg) \in Nat /\ StartSample(s, seg) \in Nat
         /\ s.writes \in Seq([sample : Nat, reg : Reg, value : Byte])
         /\ SegmentWrites(s, seg) \subseteq 1 .. Len(s.writes)
         /\ Len(s.writes) \in Nat
         /\ \A k \in SegmentWrites(s, seg) :
              /\ s.writes[k] \in [sample : Nat, reg : Reg, value : Byte]
              /\ s.writes[k].sample >= StartSample(s, seg)
              /\ s.writes[k].sample - StartSample(s, seg) <= Duration(s, seg)
  <1> DEFINE w == s.writes
             n == Len(w)
             Right(k) == /\ w[k].sample >= StartSample(s, seg)
                         /\ w[k].sample - StartSample(s, seg) <= Duration(s, seg)
  <1>1. WellFormed(s) /\ s \in vgm_song
    BY DEF IsSegment, WellFormed
  <1>2. /\ w \in Seq([sample : Nat, reg : Reg, value : Byte])
        /\ s.total_samples \in Nat \ {0} /\ s.loop_sample \in Nat /\ s.loop_write \in Nat
    BY <1>1 DEF vgm_song
  <1>3. /\ n \in Nat /\ DOMAIN w = 1 .. n
        /\ \A k \in 1 .. n : w[k] \in [sample : Nat, reg : Reg, value : Byte]
    <2> DEFINE T == [sample : Nat, reg : Reg, value : Byte]
    <2>1. w \in Seq(T)
      BY <1>2
    <2> HIDE DEF T, w
    <2>2. n \in Nat /\ DOMAIN w = 1 .. n /\ \A k \in 1 .. n : w[k] \in T
      BY <2>1
    <2> QED
      BY <2>2 DEF T
  <1>4. \A k \in 1 .. n : w[k].sample \in Nat
    BY <1>3
  <1>5. \A k \in 1 .. n : w[k].sample <= s.total_samples
    BY <1>1, <1>3 DEF WellFormed
  <1>6. s.has_loop =>
          /\ s.loop_write <= n /\ s.loop_sample < s.total_samples
          /\ \A k \in 1 .. n :
               IF k <= s.loop_write THEN w[k].sample <= s.loop_sample
                                    ELSE w[k].sample >= s.loop_sample
    BY <1>1, <1>3 DEF WellFormed
  <1>7. seg = "intro" \/ s.has_loop
    BY DEF IsSegment
  <1> HIDE DEF w, n
  <1>8. /\ Duration(s, seg) \in Nat /\ StartSample(s, seg) \in Nat
        /\ SegmentWrites(s, seg) \subseteq 1 .. n
        /\ \A k \in SegmentWrites(s, seg) : Right(k)
    <2>1. CASE seg = "intro" /\ s.has_loop
      <3>1. /\ Duration(s, seg) = s.loop_sample /\ StartSample(s, seg) = 0
            /\ SegmentWrites(s, seg) = 1 .. s.loop_write
        BY <2>1 DEF Duration, StartSample, SegmentWrites
      <3>2. \A k \in 1 .. s.loop_write : k \in 1 .. n /\ k <= s.loop_write
        BY <1>2, <1>3, <1>6, <2>1
      <3>3. \A k \in 1 .. s.loop_write : w[k].sample \in Nat /\ w[k].sample <= s.loop_sample
        BY <1>4, <1>6, <2>1, <3>2
      <3> QED
        BY <1>2, <3>1, <3>2, <3>3
    <2>2. CASE seg # "intro"
      <3>1. /\ Duration(s, seg) = s.total_samples - s.loop_sample
            /\ StartSample(s, seg) = s.loop_sample
            /\ SegmentWrites(s, seg) = s.loop_write + 1 .. n
        BY <2>2 DEF Duration, StartSample, SegmentWrites, w, n
      <3>2. \A k \in s.loop_write + 1 .. n : k \in 1 .. n /\ ~(k <= s.loop_write)
        BY <1>2, <1>3
      <3>3. \A k \in s.loop_write + 1 .. n :
              /\ w[k].sample \in Nat /\ w[k].sample >= s.loop_sample
              /\ w[k].sample <= s.total_samples
        BY <1>4, <1>5, <1>6, <1>7, <2>2, <3>2
      <3> QED
        BY <1>2, <1>6, <1>7, <2>2, <3>1, <3>2, <3>3
    <2>3. CASE seg = "intro" /\ ~s.has_loop
      <3>1. /\ Duration(s, seg) = s.total_samples /\ StartSample(s, seg) = 0
            /\ SegmentWrites(s, seg) = 1 .. n
        BY <2>3 DEF Duration, StartSample, SegmentWrites, w, n
      <3> QED
        BY <1>2, <1>4, <1>5, <3>1
    <2> QED
      BY <1>7, <2>1, <2>2, <2>3
  <1> QED
    BY <1>2, <1>3, <1>8 DEF w, n

(* The frames of a segment: each of its writes has one, and they last as   *)
(* long as the segment, or up to a frame longer.                           *)
LEMMA FramesOfSegment ==
  ASSUME NEW s, NEW seg, IsSegment(s, seg)
  PROVE  /\ FrameTotal(s, seg) \in Nat
         /\ \A k \in SegmentWrites(s, seg) : FrameOf(s, seg, k) \in 0 .. FrameTotal(s, seg) - 1
         /\ FrameTotal(s, seg) * SamplesPerFrame - Duration(s, seg) \in 0 .. SamplesPerFrame
         /\ FrameTotal(s, seg) = 0 => Duration(s, seg) = 0 /\ SegmentWrites(s, seg) = {}
  <1> DEFINE D == Duration(s, seg)
             F == SamplesPerFrame
             q == D \div F
             r == D % F
             T == {CeilDiv(D, F)} \cup {FrameOf(s, seg, k) + 1 : k \in SegmentWrites(s, seg)}
             total == FrameTotal(s, seg)
  <1>1. /\ D \in Nat /\ F \in Nat \ {0} /\ StartSample(s, seg) \in Nat
        /\ \A k \in SegmentWrites(s, seg) :
             /\ s.writes[k].sample \in Nat
             /\ s.writes[k].sample - StartSample(s, seg) \in Nat
             /\ s.writes[k].sample - StartSample(s, seg) <= D
    BY WritesOfSegment, FrameAssumption
  <1> HIDE DEF D, F
  <1>2. q \in Nat /\ r \in 0 .. F - 1 /\ D = q * F + r
    BY <1>1, DivMod
  <1>3. CeilDiv(D, F) = IF r = 0 THEN q ELSE q + 1
    BY <1>2 DEF CeilDiv
  <1>4. \A k \in SegmentWrites(s, seg) : FrameOf(s, seg, k) \in Nat /\ FrameOf(s, seg, k) <= q
    <2> SUFFICES ASSUME NEW k \in SegmentWrites(s, seg)
                 PROVE  FrameOf(s, seg, k) \in Nat /\ FrameOf(s, seg, k) <= q
      OBVIOUS
    <2> DEFINE a == s.writes[k].sample - StartSample(s, seg)
    <2>1. a \in Nat /\ a <= D
      BY <1>1
    <2> HIDE DEF a
    <2>2. a \div F \in Nat /\ a \div F <= q
      BY <1>1, <2>1, DivGrows, DivMod
    <2> QED
      BY <2>2 DEF FrameOf, a, F
  <1> HIDE DEF q, r
  <1>5. T \subseteq Nat /\ T # {} /\ (\A n \in T : n <= q + 1) /\ q + 1 \in Nat
    BY <1>2, <1>3, <1>4
  <1>6. \E n \in T : \A m \in T : m <= n
    BY <1>5, GreatestNumber
  <1>7. total = CHOOSE n \in T : \A m \in T : n >= m
    BY DEF FrameTotal, Max, D, F
  <1>8. total \in T /\ \A m \in T : m <= total
    <2>1. \E n \in T : \A m \in T : n >= m
      BY <1>5, <1>6
    <2> HIDE DEF T, total
    <2>2. total \in T /\ \A m \in T : total >= m
      BY <1>7, <2>1
    <2> QED
      BY <1>5, <2>2
  <1> HIDE DEF total
  <1>9. total \in Nat
    BY <1>5, <1>8
  <1>10. CeilDiv(D, F) <= total
    BY <1>8
  <1>11. \A k \in SegmentWrites(s, seg) : FrameOf(s, seg, k) + 1 <= total
    BY <1>8
  <1>12. total = q + 1 \/ (total = q /\ r = 0)
    <2>1. CASE total = CeilDiv(D, F)
      BY <1>3, <2>1
    <2>2. CASE \E k \in SegmentWrites(s, seg) : total = FrameOf(s, seg, k) + 1
      <3>1. total <= q + 1
        BY <1>2, <1>4, <2>2
      <3> QED
        BY <1>2, <1>3, <1>9, <1>10, <3>1
    <2> QED
      BY <1>8, <2>1, <2>2
  <1> HIDE DEF T
  <1>13. total * F - D \in 0 .. F
    <2>1. CASE total = q + 1
      <3>1. (q + 1) * F = q * F + F /\ q * F \in Nat
        BY <1>1, <1>2
      <3> HIDE DEF q, r
      <3> QED
        BY <1>1, <1>2, <2>1, <3>1
    <2>2. CASE total = q /\ r = 0
      <3>1. q * F \in Nat
        BY <1>1, <1>2
      <3> QED
        BY <1>1, <1>2, <2>2, <3>1
    <2> QED
      BY <1>12, <2>1, <2>2
  <1>14. total = 0 => D = 0 /\ SegmentWrites(s, seg) = {}
    <2> SUFFICES ASSUME total = 0 PROVE D = 0 /\ SegmentWrites(s, seg) = {}
      OBVIOUS
    <2>1. q = 0 /\ r = 0
      BY <1>2, <1>12
    <2>2. D = 0
      BY <1>1, <1>2, <2>1
    <2> QED
      BY <1>4, <1>11, <2>2
  <1>15. \A k \in SegmentWrites(s, seg) : FrameOf(s, seg, k) \in 0 .. total - 1
    BY <1>4, <1>9, <1>11
  <1> QED
    BY <1>9, <1>13, <1>14, <1>15 DEF total, D, F

(* Both passes of the loop are the same stretch of the song.               *)
LEMMA PassesAlike ==
  ASSUME NEW s
  PROVE  /\ FrameTotal(s, "first") = FrameTotal(s, "steady")
         /\ Duration(s, "first") = Duration(s, "steady")
  <1>1. /\ Duration(s, "first") = Duration(s, "steady")
        /\ SegmentWrites(s, "first") = SegmentWrites(s, "steady")
        /\ StartSample(s, "first") = StartSample(s, "steady")
    BY DEF Duration, SegmentWrites, StartSample
  <1>2. \A k \in SegmentWrites(s, "first") : FrameOf(s, "first", k) = FrameOf(s, "steady", k)
    BY <1>1 DEF FrameOf
  <1>3. {FrameOf(s, "first", k) + 1 : k \in SegmentWrites(s, "first")}
          = {FrameOf(s, "steady", k) + 1 : k \in SegmentWrites(s, "steady")}
    BY <1>1, <1>2
  <1> QED
    BY <1>1, <1>3 DEF FrameTotal

(* The errors convert_segment calls internal do not happen.                *)
LEMMA NoErrorInside ==
  ASSUME NEW s, NEW seg, IsSegment(s, seg), ~(seg = "intro" /\ IntroIsEmpty(s))
  PROVE  ~EventOrderError(s, seg) /\ ~NoFrames(s, seg)
  <1>1. ~EventOrderError(s, seg)
    <2>1. \A k \in SegmentWrites(s, seg) :
            /\ s.writes[k].sample \in Nat
            /\ s.writes[k].sample >= StartSample(s, seg)
      BY WritesOfSegment
    <2> QED
      BY <2>1, WritesOfSegment DEF EventOrderError
  <1>2. ~NoFrames(s, seg)
    <2> SUFFICES ASSUME FrameTotal(s, seg) = 0 PROVE FALSE
      BY DEF NoFrames
    <2>1. Duration(s, seg) = 0 /\ SegmentWrites(s, seg) = {}
      BY FramesOfSegment
    <2>2. seg # "intro" /\ s.has_loop
      BY <2>1 DEF IntroIsEmpty, IsSegment
    <2>3. s.loop_sample < s.total_samples /\ s.loop_sample \in Nat /\ s.total_samples \in Nat
      BY <2>2 DEF IsSegment, WellFormed, vgm_song
    <2> QED
      BY <2>1, <2>2, <2>3 DEF Duration
  <1> QED
    BY <1>1, <1>2

-----------------------------------------------------------------------------
(* Streams of records.                                                     *)

(* The reader comes to b[0], b[1] and so on, and after the last of the     *)
(* records it is at the end.                                               *)
Marks(stream, n, b) ==
  /\ b \in [0 .. n -> Nat]
  /\ b[0] = 0 /\ b[n] = Len(stream)
  /\ \A j \in 0 .. n - 1 : b[j] < Len(stream) /\ b[j + 1] = AfterRecord(stream, b[j])

IsStream(stream, n) == \E b \in [0 .. n -> Nat] : Marks(stream, n, b)

(* A pair is two numbers.                                                  *)
LEMMA PairIsNumbers == \A p \in Pair : p[1] \in Nat /\ p[2] \in Nat
  <1>1. \A A, B : \A p \in A \X B : p[1] \in A /\ p[2] \in B
    OBVIOUS
  <1>2. \A p \in Pair : p[1] \in 0 .. 255 /\ p[2] \in 0 .. 255
    BY <1>1 DEF Pair
  <1> QED
    BY <1>2

(* A record of a stream begins with its count.                             *)
LEMMA CountsAreNumbers ==
  ASSUME NEW stream \in Seq(Pair), NEW at \in Nat, at < Len(stream)
  PROVE  RecordCount(stream, at) \in Nat /\ AfterRecord(stream, at) \in Nat
         /\ AfterRecord(stream, at) > at
  <1>1. at + 1 \in 1 .. Len(stream)
    OBVIOUS
  <1>2. stream[at + 1] \in Pair
    BY <1>1
  <1>3. stream[at + 1][1] \in Nat /\ stream[at + 1][2] \in Nat
    <2>1. \A p \in Pair : p[1] \in Nat /\ p[2] \in Nat
      BY PairIsNumbers
    <2> QED
      BY <1>2, <2>1
  <1>4. CountBase \in Nat
    BY CountAssumption
  <1>5. stream[at + 1][1] * CountBase \in Nat
    BY <1>3, <1>4
  <1>6. RecordCount(stream, at) \in Nat
    BY <1>3, <1>5 DEF RecordCount
  <1> QED
    BY <1>6 DEF AfterRecord

(* No records make the empty stream.                                       *)
LEMMA NoRecords == IsStream(<<>>, 0)
  <1> DEFINE b == [j \in 0 .. 0 |-> 0]
  <1>1. b \in [0 .. 0 -> Nat] /\ b[0] = 0 /\ Len(<<>>) = 0 /\ 0 .. 0 - 1 = {}
    OBVIOUS
  <1>2. Marks(<<>>, 0, b)
    BY <1>1 DEF Marks
  <1> QED
    BY <1>1, <1>2 DEF IsStream

(* The count of a record, of two bytes, gives back the number of writes.   *)
LEMMA CountIsRead ==
  ASSUME NEW n \in 0 .. MaxFrameWrites
  PROVE  /\ CountPair(n) \in Pair
         /\ CountPair(n)[1] * CountBase + CountPair(n)[2] = n
  <1> DEFINE q == n \div CountBase
             r == n % CountBase
  <1>1. CountBase \in Nat \ {0} /\ CountBase <= 256 /\ n \in Nat
        /\ n < CountBase * CountBase
    <2>1. CountBase \in Nat \ {0} /\ CountBase <= 256
      BY CountAssumption
    <2>2. CountBase * CountBase \in Nat
      BY <2>1
    <2> QED
      BY <2>1, <2>2 DEF MaxFrameWrites
  <1>2. q \in Nat /\ r \in 0 .. CountBase - 1 /\ n = q * CountBase + r
    BY <1>1, DivMod
  <1>3. q < CountBase
    <2>1. SUFFICES ASSUME q >= CountBase PROVE FALSE
      BY <1>1, <1>2
    <2>2. \A x, y \in Nat : x >= y => x * y >= y * y
      OBVIOUS
    <2>3. q * CountBase >= CountBase * CountBase /\ q * CountBase \in Nat
          /\ CountBase * CountBase \in Nat
      BY <1>1, <1>2, <2>1, <2>2
    <2> HIDE DEF q, r
    <2> QED
      BY <1>1, <1>2, <2>3
  <1> HIDE DEF q, r
  <1>4. q % CountBase = q
    BY <1>1, <1>2, <1>3
  <1>5. CountPair(n) = <<q, r>>
    BY <1>4 DEF CountPair, q, r
  <1> QED
    BY <1>1, <1>2, <1>3, <1>5 DEF Pair

(* A count and so many pairs are a record.                                 *)
LEMMA OneRecord ==
  ASSUME NEW writes \in Seq(Pair), Len(writes) <= MaxFrameWrites
  PROVE  /\ << CountPair(Len(writes)) >> \o writes \in Seq(Pair)
         /\ IsStream(<< CountPair(Len(writes)) >> \o writes, 1)
  <1> DEFINE count == CountPair(Len(writes))
             stream == << count >> \o writes
             b == [j \in 0 .. 1 |-> IF j = 0 THEN 0 ELSE Len(stream)]
  <1>1. Len(writes) \in 0 .. MaxFrameWrites
    <2>1. Len(writes) \in Nat
      OBVIOUS
    <2>2. CountBase * CountBase \in Nat /\ CountBase \in Nat
      BY CountAssumption
    <2> QED
      BY <2>1, <2>2 DEF MaxFrameWrites
  <1>2. count \in Pair /\ count[1] * CountBase + count[2] = Len(writes)
    BY <1>1, CountIsRead
  <1> HIDE DEF count
  <1>3. << count >> \in Seq(Pair) /\ Len(<< count >>) = 1 /\ << count >>[1] = count
    BY <1>2
  <1>4. stream \in Seq(Pair) /\ Len(stream) = 1 + Len(writes) /\ stream[1] = count
    BY <1>3, ConcatProperties
  <1> HIDE DEF stream
  <1>5. AfterRecord(stream, 0) = Len(stream)
    <2>1. RecordCount(stream, 0) = Len(writes)
      BY <1>2, <1>4 DEF RecordCount
    <2> QED
      BY <1>4, <2>1 DEF AfterRecord
  <1>6. /\ b \in [0 .. 1 -> Nat] /\ b[0] = 0 /\ b[1] = Len(stream)
        /\ 0 < Len(stream)
    BY <1>4
  <1> HIDE DEF b
  <1>7. \A j \in 0 .. 1 - 1 : j = 0 /\ j + 1 = 1
    OBVIOUS
  <1>8. Marks(stream, 1, b)
    BY <1>5, <1>6, <1>7 DEF Marks
  <1>9. IsStream(stream, 1)
    BY <1>6, <1>8 DEF IsStream
  <1> QED
    BY <1>4, <1>9 DEF stream, count

(* x is a and, behind it, b.                                               *)
Joins(x, a, b) == x = a \o b

(* Two streams one behind the other are a stream, and keep their marks.    *)
KeepMarks(d, n, b, m, c, from) ==
  /\ \A j \in 0 .. n : d[j] = b[j]
  /\ \A j \in 0 .. m : d[n + j] = from + c[j]

(* The marks of two streams joined are those of the first, and behind it   *)
(* those of the second.                                                    *)
LEMMA JoinedMarks ==
  ASSUME NEW s \in Seq(Pair), NEW n \in Nat, NEW b, Marks(s, n, b),
         NEW t \in Seq(Pair), NEW m \in Nat, NEW c, Marks(t, m, c),
         NEW st, Joins(st, s, t)
  PROVE  /\ st \in Seq(Pair) /\ Len(st) = Len(s) + Len(t)
         /\ \E d : Marks(st, n + m, d) /\ KeepMarks(d, n, b, m, c, Len(s))
  <1>0. st = s \o t
    BY DEF Joins
  <1>1. /\ st \in Seq(Pair) /\ Len(st) = Len(s) + Len(t)
        /\ Len(s) \in Nat /\ Len(t) \in Nat
        /\ \A k \in 1 .. Len(s) : st[k] = s[k]
        /\ \A k \in 1 .. Len(t) : st[Len(s) + k] = t[k]
    <2>1. st \in Seq(Pair) /\ Len(s) \in Nat /\ Len(t) \in Nat
      BY <1>0, ConcatProperties
    <2>2. /\ Len(st) = Len(s) + Len(t)
          /\ \A k \in 1 .. Len(s) + Len(t) : st[k] = IF k <= Len(s) THEN s[k] ELSE t[k - Len(s)]
      BY <1>0, ConcatProperties
    <2>3. ASSUME NEW k \in 1 .. Len(t) PROVE st[Len(s) + k] = t[k]
      <3>1. Len(s) + k \in 1 .. Len(s) + Len(t) /\ ~(Len(s) + k <= Len(s))
            /\ Len(s) + k - Len(s) = k
        BY <2>1
      <3> QED
        BY <2>2, <3>1
    <2> QED
      BY <2>1, <2>2, <2>3
  <1>2. b \in [0 .. n -> Nat]
    BY DEF Marks
  <1>3. c \in [0 .. m -> Nat]
    BY DEF Marks
  <1> USE <1>2, <1>3
  <1> DEFINE d == [j \in 0 .. n + m |-> IF j <= n THEN b[j] ELSE Len(s) + c[j - n]]
  <1>4. /\ b[0] = 0 /\ b[n] = Len(s)
        /\ \A j \in 0 .. n - 1 : b[j] < Len(s) /\ b[j + 1] = AfterRecord(s, b[j])
    BY DEF Marks
  <1>5. /\ c[0] = 0 /\ c[m] = Len(t)
        /\ \A j \in 0 .. m - 1 : c[j] < Len(t) /\ c[j + 1] = AfterRecord(t, c[j])
    BY DEF Marks
  <1>6. ASSUME NEW a \in Nat, a < Len(s)
        PROVE  AfterRecord(st, a) = AfterRecord(s, a)
    <2>1. a + 1 \in 1 .. Len(s)
      BY <1>1, <1>6
    <2> QED
      BY <1>1, <2>1 DEF AfterRecord, RecordCount
  <1>7. ASSUME NEW a \in Nat, a < Len(t)
        PROVE  AfterRecord(st, Len(s) + a) = Len(s) + AfterRecord(t, a)
    <2>1. a + 1 \in 1 .. Len(t) /\ Len(s) + a + 1 = Len(s) + (a + 1)
      BY <1>1, <1>7
    <2>2. st[Len(s) + a + 1] = t[a + 1]
      BY <1>1, <2>1
    <2>3. RecordCount(t, a) \in Nat
      BY <1>7, CountsAreNumbers
    <2>4. RecordCount(st, Len(s) + a) = RecordCount(t, a)
      BY <2>2 DEF RecordCount
    <2> QED
      BY <1>1, <2>3, <2>4 DEF AfterRecord
  <1>8. /\ d \in [0 .. n + m -> Nat]
        /\ \A j \in 0 .. n : d[j] = b[j]
        /\ \A j \in 0 .. m : d[n + j] = Len(s) + c[j]
    <2>1. ASSUME NEW j \in 0 .. n + m PROVE d[j] \in Nat
      <3>1. CASE j <= n
        BY <3>1
      <3>2. CASE ~(j <= n)
        <4>1. j - n \in 0 .. m
          BY <3>2
        <4> QED
          BY <1>1, <3>2, <4>1
      <3> QED
        BY <3>1, <3>2
    <2>2. ASSUME NEW j \in 0 .. m PROVE d[n + j] = Len(s) + c[j]
      <3>1. CASE j = 0
        BY <1>1, <1>4, <1>5, <3>1
      <3>2. CASE j # 0
        <4>1. n + j \in 0 .. n + m /\ ~(n + j <= n) /\ n + j - n = j
          BY <3>2
        <4> QED
          BY <4>1
      <3> QED
        BY <3>1, <3>2
    <2>3. \A j \in 0 .. n : d[j] = b[j]
      OBVIOUS
    <2> QED
      BY <2>1, <2>2, <2>3
  <1> HIDE DEF d
  <1>9. d[0] = 0 /\ d[n + m] = Len(st) /\ d[n] = Len(s)
    <2>1. 0 \in 0 .. n /\ n \in 0 .. n /\ m \in 0 .. m
      OBVIOUS
    <2>2. d[0] = b[0] /\ d[n] = b[n] /\ d[n + m] = Len(s) + c[m]
      BY <1>8, <2>1
    <2> QED
      BY <1>1, <1>4, <1>5, <2>2
  <1>10. ASSUME NEW j \in 0 .. n + m - 1
         PROVE  d[j] < Len(st) /\ d[j + 1] = AfterRecord(st, d[j])
    <2>1. CASE j < n
      <3>1. j \in 0 .. n - 1 /\ j \in 0 .. n /\ j + 1 \in 0 .. n
        BY <2>1
      <3>2. b[j] \in Nat /\ b[j] < Len(s) /\ b[j + 1] = AfterRecord(s, b[j])
        BY <1>4, <3>1
      <3>3. d[j] = b[j] /\ d[j + 1] = b[j + 1]
        BY <1>8, <3>1
      <3> QED
        BY <1>1, <1>6, <3>2, <3>3
    <2>2. CASE ~(j < n)
      <3> DEFINE k == j - n
      <3>1. k \in 0 .. m - 1 /\ k \in 0 .. m /\ k + 1 \in 0 .. m /\ j = n + k /\ j + 1 = n + (k + 1)
        BY <2>2
      <3> HIDE DEF k
      <3>2. c[k] \in Nat /\ c[k] < Len(t) /\ c[k + 1] = AfterRecord(t, c[k])
        BY <1>5, <3>1
      <3>3. d[j] = Len(s) + c[k] /\ d[j + 1] = Len(s) + c[k + 1]
        BY <1>8, <3>1
      <3> QED
        BY <1>1, <1>7, <3>2, <3>3
    <2> QED
      BY <2>1, <2>2
  <1>11. Marks(st, n + m, d)
    <2>1. \A j \in 0 .. n + m - 1 : d[j] < Len(st) /\ d[j + 1] = AfterRecord(st, d[j])
      BY <1>10
    <2>2. d \in [0 .. n + m -> Nat]
      BY <1>8
    <2> QED
      BY <1>9, <2>1, <2>2 DEF Marks
  <1>12. KeepMarks(d, n, b, m, c, Len(s))
    BY <1>8 DEF KeepMarks
  <1> QED
    BY <1>1, <1>11, <1>12

(* Two streams joined are a stream of the records of both.                 *)
LEMMA JoinedStreams ==
  ASSUME NEW s \in Seq(Pair), NEW n \in Nat, IsStream(s, n),
         NEW t \in Seq(Pair), NEW m \in Nat, IsStream(t, m)
  PROVE  /\ s \o t \in Seq(Pair)
         /\ IsStream(s \o t, n + m)
         /\ \E d \in [0 .. n + m -> Nat] : Marks(s \o t, n + m, d) /\ d[n] = Len(s)
  <1>1. PICK b \in [0 .. n -> Nat] : Marks(s, n, b)
    BY DEF IsStream
  <1>2. PICK c \in [0 .. m -> Nat] : Marks(t, m, c)
    BY DEF IsStream
  <1>3. PICK st : st = s \o t /\ Joins(st, s, t)
    BY DEF Joins
  <1>4. st \in Seq(Pair)
    BY <1>1, <1>2, <1>3, JoinedMarks
  <1>0. Joins(st, s, t) /\ Marks(s, n, b) /\ Marks(t, m, c)
    BY <1>1, <1>2, <1>3
  <1>5. PICK d : Marks(st, n + m, d) /\ KeepMarks(d, n, b, m, c, Len(s))
    BY <1>0, JoinedMarks
  <1>6. d[n] = Len(s)
    <2>1. n \in 0 .. n
      OBVIOUS
    <2> QED
      BY <1>1, <1>5, <2>1 DEF Marks, KeepMarks
  <1>7. d \in [0 .. n + m -> Nat] /\ IsStream(st, n + m)
    BY <1>5 DEF IsStream, Marks
  <1> QED
    BY <1>3, <1>4, <1>5, <1>6, <1>7

(* Marks are in order.                                                     *)
LEMMA MarksRise ==
  ASSUME NEW stream \in Seq(Pair), NEW n \in Nat, NEW b, Marks(stream, n, b)
  PROVE  /\ \A k \in 0 .. n : \A j \in 0 .. k : b[j] <= b[k] /\ (j < k => b[j] < b[k])
         /\ \A j \in 0 .. n : b[j] \in Nat
         /\ n <= Len(stream)
  <1>1. \A j \in 0 .. n : b[j] \in Nat
    BY DEF Marks
  <1>2. \A j \in 0 .. n - 1 : b[j + 1] > b[j] /\ j \in 0 .. n /\ j + 1 \in 0 .. n
    <2> SUFFICES ASSUME NEW j \in 0 .. n - 1
                 PROVE  b[j + 1] > b[j] /\ j \in 0 .. n /\ j + 1 \in 0 .. n
      OBVIOUS
    <2>1. j \in 0 .. n /\ j + 1 \in 0 .. n
      OBVIOUS
    <2>2. b[j] \in Nat /\ b[j] < Len(stream) /\ b[j + 1] = AfterRecord(stream, b[j])
      BY <1>1, <2>1 DEF Marks
    <2> QED
      BY <2>1, <2>2, CountsAreNumbers
  <1> DEFINE S == {k \in 0 .. n : /\ k <= b[k]
                                  /\ \A j \in 0 .. k : b[j] <= b[k] /\ (j < k => b[j] < b[k])}
  <1>3. 0 \in S
    BY <1>1 DEF Marks
  <1>4. ASSUME NEW k \in 0 .. n - 1, k \in S
        PROVE  k + 1 \in S
    <2>1. k \in 0 .. n /\ k + 1 \in 0 .. n /\ b[k + 1] > b[k]
          /\ b[k] \in Nat /\ b[k + 1] \in Nat
      BY <1>1, <1>2
    <2>2. k + 1 <= b[k + 1]
      BY <1>4, <2>1
    <2>3. ASSUME NEW j \in 0 .. k + 1
          PROVE  b[j] <= b[k + 1] /\ (j < k + 1 => b[j] < b[k + 1])
      <3>1. CASE j = k + 1
        BY <2>1, <3>1
      <3>2. CASE j # k + 1
        <4>1. j \in 0 .. k /\ j \in 0 .. n
          BY <3>2
        <4>2. b[j] <= b[k] /\ b[j] \in Nat
          BY <1>1, <1>4, <4>1
        <4> QED
          BY <2>1, <4>2
      <3> QED
        BY <3>1, <3>2
    <2> QED
      BY <2>1, <2>2, <2>3
  <1> HIDE DEF S
  <1>5. 0 .. n \subseteq S
    BY <1>3, <1>4, EveryNumberUpTo
  <1>6. n \in S
    BY <1>5
  <1>7. n <= b[n] /\ b[n] = Len(stream)
    BY <1>6 DEF S, Marks
  <1> QED
    BY <1>1, <1>5, <1>7 DEF S

(* The reader follows the marks, and stays at the end.                     *)
LEMMA OffsetsAreMarks ==
  ASSUME NEW stream \in Seq(Pair), NEW n \in Nat, NEW b, Marks(stream, n, b)
  PROVE  RecordOffset(stream)
           = [k \in 0 .. Len(stream) |-> IF k <= n THEN b[k] ELSE Len(stream)]
  <1> DEFINE L == Len(stream)
             NextOf(f, k) == IF k = 0 THEN 0
                             ELSE LET at == f[k - 1]
                                  IN  IF at >= L THEN at ELSE at + 1 + RecordCount(stream, at)
             Recurs(f) == f = [k \in 0 .. L |-> NextOf(f, k)]
             g == [k \in 0 .. L |-> IF k <= n THEN b[k] ELSE L]
  <1>1. L \in Nat /\ n <= L /\ \A j \in 0 .. n : b[j] \in Nat
    BY MarksRise
  <1>2. b[0] = 0 /\ b[n] = L /\ \A j \in 0 .. n - 1 : b[j] < L /\ b[j + 1] = AfterRecord(stream, b[j])
    BY DEF Marks
  <1>3. RecordOffset(stream) = CHOOSE f : Recurs(f)
    BY DEF RecordOffset
  <1> HIDE DEF L
  <1>4. \A k \in 0 .. L : g[k] = NextOf(g, k)
    <2> SUFFICES ASSUME NEW k \in 0 .. L PROVE g[k] = NextOf(g, k)
      OBVIOUS
    <2>1. CASE k = 0
      BY <1>1, <1>2, <2>1
    <2>2. CASE k # 0 /\ k <= n
      <3>1. k - 1 \in 0 .. n - 1 /\ k - 1 \in 0 .. L /\ k - 1 + 1 = k /\ k - 1 <= n
        BY <1>1, <2>2
      <3>2. b[k - 1] < L /\ b[k] = AfterRecord(stream, b[k - 1]) /\ b[k - 1] \in Nat
        <4>1. b[k - 1] < L /\ b[k - 1 + 1] = AfterRecord(stream, b[k - 1])
          BY <1>2, <3>1
        <4>2. k - 1 \in 0 .. n
          BY <3>1
        <4> QED
          BY <1>1, <3>1, <4>1, <4>2
      <3>3. g[k - 1] = b[k - 1] /\ g[k] = b[k]
        BY <2>2, <3>1
      <3>4. ~(b[k - 1] >= L)
        BY <1>1, <3>2
      <3>5. NextOf(g, k) = b[k - 1] + 1 + RecordCount(stream, b[k - 1])
        BY <2>2, <3>3, <3>4
      <3> QED
        BY <3>2, <3>3, <3>5 DEF AfterRecord
    <2>3. CASE ~(k <= n)
      <3>1. k # 0 /\ k - 1 \in 0 .. L /\ (k - 1 = n \/ ~(k - 1 <= n))
        BY <1>1, <2>3
      <3>2. g[k - 1] = L /\ g[k] = L
        BY <1>2, <2>3, <3>1
      <3>3. L >= L
        BY <1>1
      <3> QED
        BY <3>1, <3>2, <3>3
    <2> QED
      BY <2>1, <2>2, <2>3
  <1>5. Recurs(g)
    BY <1>4
  <1>6. ASSUME NEW f, Recurs(f)
        PROVE  f = g
    <2> DEFINE S == {k \in 0 .. L : f[k] = g[k]}
    <2>1. \A k \in 0 .. L : f[k] = NextOf(f, k)
      BY <1>6
    <2>2. DOMAIN f = 0 .. L /\ f = [k \in 0 .. L |-> f[k]]
      BY <1>6
    <2>3. 0 \in S
      <3>1. 0 \in 0 .. L
        BY <1>1
      <3> QED
        BY <1>4, <2>1, <3>1
    <2>4. ASSUME NEW k \in 0 .. L - 1, k \in S
          PROVE  k + 1 \in S
      <3>1. k + 1 \in 0 .. L /\ k + 1 # 0 /\ k + 1 - 1 = k
        BY <1>1
      <3>2. f[k] = g[k]
        BY <2>4
      <3>3. NextOf(f, k + 1) = NextOf(g, k + 1)
        BY <3>1, <3>2
      <3> HIDE DEF g
      <3> QED
        BY <1>4, <2>1, <3>1, <3>3
    <2> HIDE DEF S
    <2>5. 0 .. L \subseteq S
      BY <1>1, <2>3, <2>4, EveryNumberUpTo
    <2>6. \A k \in 0 .. L : f[k] = g[k]
      BY <2>5 DEF S
    <2>7. g = [k \in 0 .. L |-> g[k]]
      OBVIOUS
    <2> HIDE DEF g
    <2> QED
      BY <2>2, <2>6, <2>7
  <1> HIDE DEF Recurs, g
  <1>7. RecordOffset(stream) = g
    BY <1>3, <1>5, <1>6
  <1> QED
    BY <1>7 DEF g, L

(* The marks are the boundaries.                                           *)
LEMMA MarksAreBoundaries ==
  ASSUME NEW stream \in Seq(Pair), NEW n \in Nat, NEW b, Marks(stream, n, b)
  PROVE  Boundaries(stream) = {b[j] : j \in 0 .. n}
  <1> DEFINE L == Len(stream)
             g == [k \in 0 .. L |-> IF k <= n THEN b[k] ELSE L]
  <1>1. /\ L \in Nat /\ n <= L /\ \A j \in 0 .. n : b[j] \in Nat
        /\ \A k \in 0 .. n : \A j \in 0 .. k : b[j] <= b[k] /\ (j < k => b[j] < b[k])
    BY MarksRise
  <1>2. b[n] = L
    BY DEF Marks
  <1>3. Boundaries(stream) = {g[k] : k \in 0 .. L}
    BY OffsetsAreMarks DEF Boundaries
  <1> HIDE DEF L
  <1>4. {g[k] : k \in 0 .. L} = {b[j] : j \in 0 .. n}
    <2>1. ASSUME NEW k \in 0 .. L PROVE g[k] \in {b[j] : j \in 0 .. n}
      <3>1. n \in 0 .. n
        OBVIOUS
      <3> QED
        BY <1>2, <3>1
    <2>2. ASSUME NEW j \in 0 .. n PROVE b[j] \in {g[k] : k \in 0 .. L}
      <3>1. j \in 0 .. L /\ g[j] = b[j]
        BY <1>1
      <3> QED
        BY <3>1
    <2> QED
      BY <2>1, <2>2
  <1> QED
    BY <1>3, <1>4

(* The last of them is the end.  From a mark to the end there are as many  *)
(* records as marks.                                                       *)
LEMMA BoundariesAreMarks ==
  ASSUME NEW stream \in Seq(Pair), NEW n \in Nat, NEW b, Marks(stream, n, b),
         NEW m \in 0 .. n
  PROVE  /\ EndsOnRecord(stream)
         /\ \A j \in m .. n - 1 : b[j] \in RecordsFrom(stream, b[m])
         /\ Cardinality(RecordsFrom(stream, b[m])) = n - m
  <1> DEFINE L == Len(stream)
  <1>1. /\ L \in Nat /\ n <= L /\ \A j \in 0 .. n : b[j] \in Nat
        /\ \A k \in 0 .. n : \A j \in 0 .. k : b[j] <= b[k] /\ (j < k => b[j] < b[k])
    BY MarksRise
  <1>2. b[n] = L
    BY DEF Marks
  <1>5. Boundaries(stream) = {b[j] : j \in 0 .. n}
    BY MarksAreBoundaries
  <1> HIDE DEF L
  <1>6. EndsOnRecord(stream)
    <2>1. n \in 0 .. n
      OBVIOUS
    <2> QED
      BY <1>2, <1>5, <2>1 DEF EndsOnRecord, L
  <1>7. /\ \A j \in m .. n - 1 : b[j] \in RecordsFrom(stream, b[m])
        /\ Cardinality(RecordsFrom(stream, b[m])) = n - m
    <2>1. ASSUME NEW j \in 0 .. n PROVE (b[m] <= b[j] /\ b[j] < L) <=> j \in m .. n - 1
      <3>1. n \in 0 .. n /\ j \in 0 .. n /\ m \in 0 .. n /\ b[j] \in Nat /\ b[m] \in Nat
        BY <1>1
      <3>2. j < n => b[j] < L
        BY <1>1, <1>2, <3>1
      <3>3. j < m => b[j] < b[m]
        <4> SUFFICES ASSUME j < m PROVE b[j] < b[m]
          OBVIOUS
        <4>1. j \in 0 .. m
          OBVIOUS
        <4> QED
          BY <1>1, <4>1
      <3>4. m <= j => b[m] <= b[j]
        <4> SUFFICES ASSUME m <= j PROVE b[m] <= b[j]
          OBVIOUS
        <4>1. m \in 0 .. j
          OBVIOUS
        <4> QED
          BY <1>1, <4>1
      <3>5. j = n => ~(b[j] < L)
        BY <1>1, <1>2
      <3> QED
        BY <3>1, <3>2, <3>3, <3>4, <3>5
    <2>2. RecordsFrom(stream, b[m]) = {b[j] : j \in m .. n - 1}
      <3>1. RecordsFrom(stream, b[m]) = {a \in {b[j] : j \in 0 .. n} : b[m] <= a /\ a < L}
        BY <1>5 DEF RecordsFrom, L
      <3>2. m .. n - 1 \subseteq 0 .. n
        OBVIOUS
      <3> QED
        BY <2>1, <3>1, <3>2
    <2> DEFINE I == m .. n - 1
               B == {b[j] : j \in I}
               h == [j \in I |-> b[j]]
    <2>3. h \in Bijection(I, B)
      <3>1. ASSUME NEW j \in I, NEW k \in I, b[j] = b[k]
            PROVE  j = k
        <4>1. j \in 0 .. n /\ k \in 0 .. n
          OBVIOUS
        <4>2. j < k => b[j] < b[k]
          <5> SUFFICES ASSUME j < k PROVE b[j] < b[k]
            OBVIOUS
          <5>1. j \in 0 .. k
            BY <4>1
          <5> QED
            BY <1>1, <4>1, <5>1
        <4>3. k < j => b[k] < b[j]
          <5> SUFFICES ASSUME k < j PROVE b[k] < b[j]
            OBVIOUS
          <5>1. k \in 0 .. j
            BY <4>1
          <5> QED
            BY <1>1, <4>1, <5>1
        <4>4. b[j] \in Nat /\ b[k] \in Nat
          BY <1>1, <4>1
        <4> QED
          BY <3>1, <4>2, <4>3, <4>4
      <3>2. h \in [I -> B]
        OBVIOUS
      <3>3. \A a \in B : \E j \in I : h[j] = a
        OBVIOUS
      <3>4. \A j, k \in I : h[j] = h[k] => j = k
        BY <3>1
      <3> HIDE DEF h, I, B
      <3> QED
        BY <3>2, <3>3, <3>4, Fun_IsBij
    <2>4. IsFiniteSet(I) /\ Cardinality(I) = n - m
      <3>1. m \in Int /\ n - 1 \in Int
        OBVIOUS
      <3>2. IsFiniteSet(I) /\ Cardinality(I) = IF m > n - 1 THEN 0 ELSE n - 1 - m + 1
        BY <3>1, FS_Interval
      <3> QED
        BY <3>2
    <2>5. Cardinality(B) = Cardinality(I)
      <3> HIDE DEF h, I, B
      <3> QED
        BY <2>3, <2>4, FS_Bijection DEF ExistsBijection
    <2> QED
      BY <2>2, <2>4, <2>5
  <1> QED
    BY <1>6, <1>7

-----------------------------------------------------------------------------
(* The conversion: what holds after every step of vgm_convert.             *)

Result == [ stream : Seq(Pair), loop_offset : Nat \cup {NoLoop}, frame_count : Nat,
            loop_frame_count : Nat, clipped_values : Nat ]

(* The segments whose call has returned.                                   *)
Behind == {seg \in Segment : \/ seg = segment /\ step \in {"join", "done"}
                             \/ seg = "intro" /\ segment # "intro"
                             \/ seg = "first" /\ segment = "steady"}

TypesHold ==
  /\ WellFormed(song) /\ segment \in Segment /\ step \in Step
  /\ converter \in Converter /\ clips_first \in Nat /\ i \in Nat
  /\ output \in [Segment -> Seq(Pair)] /\ frame_count \in [Segment -> Nat]
  /\ converted \in Result

(* Only a song with a loop comes to a second call.                         *)
LoopGoesOn == segment # "intro" => song.has_loop

(* The batches are those of the segment while it is converted.             *)
FramesFit ==
  IF step \in {"write", "append"}
  THEN frames \in [0 .. FrameTotal(song, segment) - 1 -> Seq(Write)]
  ELSE frames = <<>>

(* A stream is the records of its segment's frames, or not begun.          *)
StreamsGrow ==
  step # "failed" =>
    \A seg \in Segment :
      IF seg \in Behind
      THEN /\ frame_count[seg] = FrameTotal(song, seg)
           /\ IsStream(output[seg], FrameTotal(song, seg))
      ELSE /\ frame_count[seg] = 0
           /\ ~(seg = segment /\ step = "append") => output[seg] = <<>>

(* The stream of the segment being appended has a record a frame so far.   *)
AppendedSoFar ==
  step = "append" => i \in 0 .. FrameTotal(song, segment) /\ IsStream(output[segment], i)

(* All three parts are there to be joined.                                 *)
JoinIsLast == step = "join" => segment = "steady"

(* The song returned is made of the streams.                               *)
ResultIsJoined ==
  step = "done" =>
    /\ song.has_loop =>
         /\ segment = "steady"
         /\ converted.stream = output["intro"] \o output["first"]
                                 \o (IF LoopIsStable(output) THEN <<>> ELSE output["steady"])
         /\ converted.loop_offset = LoopStart(output)
         /\ converted.frame_count = frame_count["intro"] + frame_count["first"]
                                 + (IF LoopIsStable(output) THEN 0 ELSE frame_count["steady"])
         /\ converted.loop_frame_count = frame_count["steady"]
    /\ ~song.has_loop =>
         /\ segment = "intro"
         /\ converted.stream = output["intro"]
         /\ converted.frame_count = frame_count["intro"]
         /\ converted.loop_frame_count = 0 /\ converted.loop_offset = NoLoop

ConvertInv == /\ TypesHold /\ LoopGoesOn /\ FramesFit /\ StreamsGrow
              /\ AppendedSoFar /\ JoinIsLast /\ ResultIsJoined

(* An intro that is skipped has no frames.                                 *)
LEMMA SkippedIsEmpty ==
  ASSUME NEW s, WellFormed(s), IntroIsEmpty(s)
  PROVE  FrameTotal(s, "intro") = 0 /\ s.has_loop
  <1>1. Duration(s, "intro") = 0 /\ SegmentWrites(s, "intro") = {}
    BY DEF IntroIsEmpty
  <1>2. CeilDiv(0, SamplesPerFrame) = 0
    <2>1. 0 \div SamplesPerFrame = 0 /\ 0 % SamplesPerFrame = 0
      BY FrameAssumption
    <2> QED
      BY <2>1 DEF CeilDiv
  <1>3. {CeilDiv(Duration(s, "intro"), SamplesPerFrame)}
          \cup {FrameOf(s, "intro", k) + 1 : k \in SegmentWrites(s, "intro")} = {0}
    BY <1>1, <1>2
  <1>4. FrameTotal(s, "intro") = Max({0})
    BY <1>3 DEF FrameTotal
  <1>5. Max({0}) = 0
    BY DEF Max
  <1>6. s.has_loop
    <2>1. s.total_samples \in Nat \ {0}
      BY DEF WellFormed, vgm_song
    <2> QED
      BY <1>1, <2>1 DEF Duration
  <1> QED
    BY <1>4, <1>5, <1>6

(* The converters vgm_convert makes have their type.                       *)
LEMMA NewConverterIsConverter ==
  ASSUME NEW clock \in Clocks, NEW pitch_conversion \in BOOLEAN
  PROVE  NewConverter(clock, pitch_conversion) \in Converter
  BY DEF NewConverter, Converter, Byte

(* A converter whose cache is forgotten is a converter.                    *)
LEMMA ForgetIsConverter ==
  ASSUME NEW c \in Converter
  PROVE  ForgetTarget(c) \in Converter
  BY DEF ForgetTarget, Converter

(* A write is a pair of bytes.                                             *)
LEMMA WriteIsPair == Write \subseteq Pair
  BY RegAssumption DEF Write, Pair, Byte

(* The segment being converted is a segment of the song.                   *)
LEMMA SegmentOfConversion ==
  ASSUME TypesHold, LoopGoesOn
  PROVE  IsSegment(song, segment)
  BY DEF TypesHold, LoopGoesOn, IsSegment

(* The song not yet converted is a result like others.                     *)
LEMMA EmptyIsResult == Empty \in Result
  <1>1. <<>> \in Seq(Pair)
    BY EmptySeq
  <1> QED
    BY <1>1 DEF Empty, Result, NoLoop

(* Step by step, the invariant of the conversion.                          *)
LEMMA ConversionStarts == Init => ConvertInv
  <1> SUFFICES ASSUME Init PROVE ConvertInv
    OBVIOUS
  <1>1. WellFormed(song)
    BY SongAssumption DEF Init
  <1>2. converter \in Converter
    <2>1. song.clock_hz \in Clocks
      BY <1>1 DEF WellFormed, vgm_song
    <2>2. PICK p \in BOOLEAN : converter = NewConverter(song.clock_hz, p)
      BY DEF Init
    <2> QED
      BY <2>1, <2>2, NewConverterIsConverter
  <1>3. <<>> \in Seq(Pair)
    BY EmptySeq
  <1>4. TypesHold
    BY <1>1, <1>2, <1>3, EmptyIsResult DEF Init, TypesHold, Segment, Step
  <1>5. Behind = {}
    BY DEF Init, Behind
  <1>6. StreamsGrow
    BY <1>5 DEF Init, StreamsGrow, Segment
  <1>7. LoopGoesOn /\ FramesFit /\ AppendedSoFar /\ JoinIsLast /\ ResultIsJoined
    BY DEF Init, LoopGoesOn, FramesFit, AppendedSoFar, JoinIsLast, ResultIsJoined
  <1> QED
    BY <1>4, <1>6, <1>7 DEF ConvertInv

(* A segment begins: its frames are there and empty.                       *)
LEMMA BeginKeeps ==
  ASSUME ConvertInv, BeginSegment
  PROVE  ConvertInv'
  <1> USE DEF BeginSegment
  <1>1. TypesHold /\ IsSegment(song, segment)
    BY SegmentOfConversion DEF ConvertInv
  <1> DEFINE S == SegmentWrites(song, segment) \cup {Len(song.writes) + 1}
  <1>2. S \subseteq Nat /\ S # {}
    BY <1>1, WritesOfSegment
  <1>3. \E n \in S : \A m \in S : n <= m
    BY <1>2, LeastNumber
  <1>4. i' = Min(S)
    OBVIOUS
  <1> HIDE DEF S
  <1>5. i' \in Nat
    <2>1. Min(S) \in S
      BY <1>3 DEF Min
    <2> QED
      BY <1>2, <1>4, <2>1
  <1>6. TypesHold'
    BY <1>1, <1>5 DEF TypesHold, Step
  <1>7. FramesFit'
    <2>1. <<>> \in Seq(Write)
      BY EmptySeq
    <2>2. frames' = [k \in 0 .. FrameTotal(song, segment) - 1 |-> <<>>]
      OBVIOUS
    <2>3. frames' \in [0 .. FrameTotal(song, segment) - 1 -> Seq(Write)]
      BY <2>1, <2>2
    <2> QED
      BY <2>3 DEF FramesFit
  <1>8. Behind' = Behind
    BY DEF Behind
  <1>9. StreamsGrow'
    BY <1>8 DEF ConvertInv, StreamsGrow
  <1>10. LoopGoesOn' /\ AppendedSoFar' /\ JoinIsLast' /\ ResultIsJoined'
    BY DEF ConvertInv, LoopGoesOn, AppendedSoFar, JoinIsLast, ResultIsJoined
  <1> QED
    BY <1>6, <1>7, <1>9, <1>10 DEF ConvertInv

(* A write adds its records to its frame.                                  *)
LEMMA ConvertWriteKeeps ==
  ASSUME ConvertInv, ConvertWrite
  PROVE  ConvertInv'
  <1> USE DEF ConvertWrite
  <1> DEFINE w == song.writes[i]
             k == FrameOf(song, segment, i)
             D == 0 .. FrameTotal(song, segment) - 1
  <1>1. TypesHold /\ IsSegment(song, segment)
    BY SegmentOfConversion DEF ConvertInv
  <1>2. i \in SegmentWrites(song, segment) /\ i \in Nat /\ converter \in Converter
    BY <1>1 DEF TypesHold
  <1>3. k \in D
    BY <1>1, <1>2, FramesOfSegment
  <1>4. w \in [sample : Nat, reg : Reg, value : Byte]
    BY <1>1, <1>2, WritesOfSegment
  <1>5. w.reg \in Reg /\ w.value \in Byte
    BY <1>4
  <1>6. Emission(converter, w.reg, w.value) \in Seq(Write)
        /\ Converted(converter, w.reg, w.value) \in Converter
    BY <1>2, <1>5, EmissionIsWrites, ConvertedIsConverter
  <1>7. frames \in [D -> Seq(Write)]
    BY DEF ConvertInv, FramesFit
  <1>8. /\ frames' = [frames EXCEPT ![k] = frames[k] \o Emission(converter, w.reg, w.value)]
        /\ converter' = Converted(converter, w.reg, w.value)
    OBVIOUS
  <1>9. frames' \in [D -> Seq(Write)]
    <2> HIDE DEF w, k
    <2>1. frames[k] \o Emission(converter, w.reg, w.value) \in Seq(Write)
      BY <1>3, <1>6, <1>7
    <2> HIDE DEF D
    <2> QED
      BY <1>3, <1>7, <1>8, <2>1
  <1>10. TypesHold'
    <2> HIDE DEF w
    <2> QED
      BY <1>1, <1>2, <1>6, <1>8 DEF TypesHold
  <1>11. FramesFit'
    BY <1>9 DEF FramesFit
  <1>12. Behind' = Behind
    BY DEF Behind
  <1>13. StreamsGrow'
    BY <1>12 DEF ConvertInv, StreamsGrow
  <1>14. LoopGoesOn' /\ AppendedSoFar' /\ JoinIsLast' /\ ResultIsJoined'
    BY DEF ConvertInv, LoopGoesOn, AppendedSoFar, JoinIsLast, ResultIsJoined
  <1> QED
    BY <1>10, <1>11, <1>13, <1>14 DEF ConvertInv

(* Every write of the segment is in its frame.                             *)
LEMMA BeginAppendKeeps ==
  ASSUME ConvertInv, BeginAppend
  PROVE  ConvertInv'
  <1> USE DEF BeginAppend
  <1>1. TypesHold /\ IsSegment(song, segment)
    BY SegmentOfConversion DEF ConvertInv
  <1>2. TypesHold'
    BY <1>1 DEF TypesHold, Step
  <1>3. FramesFit'
    BY DEF ConvertInv, FramesFit
  <1>4. Behind' = Behind
    BY DEF Behind
  <1>5. StreamsGrow'
    BY <1>4 DEF ConvertInv, StreamsGrow
  <1>6. output[segment] = <<>>
    <2>1. segment \in Segment /\ segment \notin Behind
      BY <1>1 DEF TypesHold, Behind
    <2> QED
      BY <2>1 DEF ConvertInv, StreamsGrow
  <1>7. AppendedSoFar'
    <2>1. FrameTotal(song, segment) \in Nat
      BY <1>1, FramesOfSegment
    <2>2. i' = 0 /\ output' = output /\ segment' = segment /\ song' = song
      OBVIOUS
    <2>3. i' \in 0 .. FrameTotal(song, segment)'
      BY <2>1, <2>2
    <2>4. IsStream(output'[segment'], i')
      BY <1>6, <2>2, NoRecords
    <2> QED
      BY <2>3, <2>4 DEF AppendedSoFar
  <1>8. LoopGoesOn' /\ JoinIsLast' /\ ResultIsJoined'
    BY DEF ConvertInv, LoopGoesOn, JoinIsLast, ResultIsJoined
  <1> QED
    BY <1>2, <1>3, <1>5, <1>7, <1>8 DEF ConvertInv

(* A frame is added to the stream.                                         *)
LEMMA AppendKeeps ==
  ASSUME ConvertInv, AppendFrame
  PROVE  ConvertInv'
  <1> USE DEF AppendFrame
  <1> DEFINE total == FrameTotal(song, segment)
             rec == << CountPair(Len(frames[i])) >> \o frames[i]
             old == output[segment]
  <1>1. TypesHold /\ IsSegment(song, segment)
    BY SegmentOfConversion DEF ConvertInv
  <1>2. total \in Nat /\ frames \in [0 .. total - 1 -> Seq(Write)]
    BY <1>1, FramesOfSegment DEF ConvertInv, FramesFit
  <1>3. i \in 0 .. total - 1 /\ i + 1 \in 0 .. total /\ i \in Nat
    BY <1>2
  <1>4. frames[i] \in Seq(Pair)
    <2>1. frames[i] \in Seq(Write)
      BY <1>2, <1>3
    <2> QED
      BY <2>1, SeqMonotonic, WriteIsPair
  <1>5. rec \in Seq(Pair) /\ IsStream(rec, 1)
    BY <1>4, OneRecord
  <1>6. old \in Seq(Pair) /\ IsStream(old, i)
    BY <1>1 DEF ConvertInv, TypesHold, AppendedSoFar
  <1>7. old \o << CountPair(Len(frames[i])) >> \o frames[i] = old \o rec
    <2>1. Len(frames[i]) \in 0 .. MaxFrameWrites
      <3>1. Len(frames[i]) \in Nat
        BY <1>4
      <3>2. CountBase * CountBase \in Nat /\ CountBase \in Nat
        BY CountAssumption
      <3> QED
        BY <3>1, <3>2 DEF MaxFrameWrites
    <2>2. << CountPair(Len(frames[i])) >> \in Seq(Pair)
      BY <2>1, CountIsRead
    <2> DEFINE head == << CountPair(Len(frames[i])) >>
               tail == frames[i]
    <2>3. head \in Seq(Pair) /\ tail \in Seq(Pair) /\ old \in Seq(Pair)
      BY <1>4, <1>6, <2>2
    <2> HIDE DEF head, tail, old
    <2>4. (old \o head) \o tail = old \o (head \o tail)
      BY <2>3, ConcatAssociative
    <2> QED
      BY <2>4 DEF head, tail
  <1>8. output' = [output EXCEPT ![segment] = old \o rec]
    BY <1>7
  <1> HIDE DEF rec
  <1>9. old \o rec \in Seq(Pair) /\ IsStream(old \o rec, i + 1)
    BY <1>3, <1>5, <1>6, JoinedStreams
  <1>10. output' \in [Segment -> Seq(Pair)] /\ output'[segment] = old \o rec
         /\ \A seg \in Segment : seg # segment => output'[seg] = output[seg]
    BY <1>1, <1>8, <1>9 DEF TypesHold
  <1> HIDE DEF old, total
  <1>11. TypesHold'
    BY <1>1, <1>3, <1>10 DEF TypesHold
  <1>12. FramesFit'
    BY DEF ConvertInv, FramesFit
  <1>13. Behind' = Behind /\ segment \notin Behind
    BY <1>1 DEF Behind, TypesHold
  <1>14. StreamsGrow'
    BY <1>10, <1>13 DEF ConvertInv, StreamsGrow
  <1>15. AppendedSoFar'
    BY <1>3, <1>9, <1>10 DEF AppendedSoFar, total
  <1>16. LoopGoesOn' /\ JoinIsLast' /\ ResultIsJoined'
    BY DEF ConvertInv, LoopGoesOn, JoinIsLast, ResultIsJoined
  <1> QED
    BY <1>11, <1>12, <1>14, <1>15, <1>16 DEF ConvertInv

(* The internal errors, which no state of the invariant meets.             *)
LEMMA FailKeeps ==
  ASSUME ConvertInv, Fail
  PROVE  ConvertInv'
  <1> USE DEF Fail
  <1>1. <<>> \in Seq(Pair)
    BY EmptySeq
  <1>2. TypesHold'
    BY <1>1, EmptyIsResult DEF ConvertInv, TypesHold, Step
  <1>3. LoopGoesOn' /\ FramesFit' /\ StreamsGrow' /\ AppendedSoFar' /\ JoinIsLast'
        /\ ResultIsJoined'
    BY DEF ConvertInv, LoopGoesOn, FramesFit, StreamsGrow, AppendedSoFar, JoinIsLast,
           ResultIsJoined
  <1> QED
    BY <1>2, <1>3 DEF ConvertInv

(* A segment ends and the next begins, or the song is finished.            *)
LEMMA EndSegmentKeeps ==
  ASSUME ConvertInv, SkipIntro \/ EndSegment
  PROVE  ConvertInv'
  <1> DEFINE total == FrameTotal(song, segment)
  <1>1. TypesHold /\ IsSegment(song, segment)
    BY SegmentOfConversion DEF ConvertInv
  <1>2. total \in Nat
    BY <1>1, FramesOfSegment
  <1>3. /\ step \in {"begin", "append"} /\ AfterSegment
        /\ song' = song /\ output' = output
    BY DEF SkipIntro, EndSegment
  <1>4. /\ frame_count' = [frame_count EXCEPT ![segment] = total]
        /\ IsStream(output[segment], total)
        /\ frames' = <<>> /\ i' \in Nat
    <2>1. CASE SkipIntro
      <3>1. segment = "intro" /\ total = 0
        BY <1>1, <2>1, SkippedIsEmpty DEF SkipIntro, TypesHold
      <3>2. frame_count[segment] = 0 /\ output[segment] = <<>>
        BY <1>1, <2>1 DEF ConvertInv, StreamsGrow, SkipIntro, Behind, TypesHold
      <3>3. frame_count' = frame_count /\ frames' = frames /\ i' = i /\ frames = <<>>
        BY <2>1 DEF SkipIntro, ConvertInv, FramesFit
      <3>4. frame_count = [frame_count EXCEPT ![segment] = total]
        BY <1>1, <3>1, <3>2 DEF TypesHold
      <3> HIDE DEF total
      <3> QED
        BY <1>1, <3>1, <3>2, <3>3, <3>4, NoRecords DEF TypesHold
    <2>2. CASE EndSegment
      <3>1. step = "append" /\ DOMAIN frames = 0 .. total - 1
        BY <2>2 DEF EndSegment, ConvertInv, FramesFit
      <3>2. Cardinality(0 .. total - 1) = total
        <4>1. Cardinality(0 .. total - 1) = IF 0 > total - 1 THEN 0 ELSE total - 1 - 0 + 1
          BY <1>2, FS_Interval
        <4> QED
          BY <1>2, <4>1
      <3>3. i = total /\ IsStream(output[segment], i)
        <4>1. i \in 0 .. total /\ IsStream(output[segment], i)
          BY <3>1 DEF ConvertInv, AppendedSoFar
        <4>2. i \notin 0 .. total - 1
          BY <2>2, <3>1 DEF EndSegment
        <4> HIDE DEF total
        <4> QED
          BY <1>2, <4>1, <4>2
      <3> HIDE DEF total
      <3> QED
        BY <2>2, <3>1, <3>2, <3>3 DEF EndSegment
    <2> QED
      BY <2>1, <2>2
  <1> HIDE DEF total
  <1>5. frame_count' \in [Segment -> Nat] /\ frame_count'[segment] = total
        /\ \A seg \in Segment : seg # segment => frame_count'[seg] = frame_count[seg]
    BY <1>1, <1>2, <1>4 DEF TypesHold
  <1>6. segment \in Segment /\ segment \notin Behind
    BY <1>1, <1>3 DEF TypesHold, Behind
  (* What the call leaves, of each segment. *)
  <1>7. \A seg \in Segment :
          IF seg \in Behind \cup {segment}
          THEN /\ frame_count'[seg] = FrameTotal(song, seg)
               /\ IsStream(output[seg], FrameTotal(song, seg))
          ELSE frame_count'[seg] = 0 /\ output[seg] = <<>>
    <2>1. \A seg \in Segment \ {segment} :
            IF seg \in Behind
            THEN /\ frame_count[seg] = FrameTotal(song, seg)
                 /\ IsStream(output[seg], FrameTotal(song, seg))
            ELSE frame_count[seg] = 0 /\ output[seg] = <<>>
      BY <1>3 DEF ConvertInv, StreamsGrow
    <2> QED
      BY <1>4, <1>5, <2>1 DEF total
  <1>8. \/ segment = "intro" /\ ~song.has_loop /\ FinishSong
        \/ segment = "intro" /\ song.has_loop /\ GoTo("first")
        \/ segment = "first" /\ GoTo("steady")
        \/ segment = "steady" /\ step' = "join"
             /\ UNCHANGED <<segment, converter, clips_first, converted>>
    BY <1>3 DEF AfterSegment
  <1>9. converter' \in Converter /\ clips_first' \in Nat
    <2>1. converter.clipped_values \in Nat
      BY <1>1 DEF TypesHold, Converter
    <2> QED
      BY <1>1, <1>8, <2>1, ForgetIsConverter
         DEF FinishSong, GoTo, ForgetBeforeLoop, TypesHold
  <1>10. Behind' = Behind \cup {segment}
    <2>1. CASE segment = "intro" /\ FinishSong
      <3>1. step' = "done" /\ segment' = "intro"
        BY <2>1 DEF FinishSong
      <3> QED
        BY <1>3, <2>1, <3>1 DEF Behind, Segment
    <2>2. CASE segment = "intro" /\ GoTo("first")
      <3>1. step' = "begin" /\ segment' = "first"
        BY <2>2 DEF GoTo
      <3> QED
        BY <1>3, <2>2, <3>1 DEF Behind, Segment
    <2>3. CASE segment = "first" /\ GoTo("steady")
      <3>1. step' = "begin" /\ segment' = "steady"
        BY <2>3 DEF GoTo
      <3> QED
        BY <1>3, <2>3, <3>1 DEF Behind, Segment
    <2>4. CASE segment = "steady" /\ step' = "join" /\ segment' = segment
      BY <1>3, <2>4 DEF Behind, Segment
    <2> QED
      BY <1>8, <2>1, <2>2, <2>3, <2>4
  <1>11. StreamsGrow'
    BY <1>3, <1>7, <1>10 DEF StreamsGrow
  <1>12. converted' \in Result
    <2>1. CASE FinishSong
      <3>1. /\ output["intro"] \in Seq(Pair) /\ frame_count'["intro"] \in Nat
            /\ converter.clipped_values \in Nat
        BY <1>1, <1>5 DEF TypesHold, Segment, Converter
      <3> QED
        BY <2>1, <3>1 DEF FinishSong, Result, Empty, NoLoop
    <2>2. CASE converted' = converted
      BY <1>1, <2>2 DEF TypesHold
    <2> QED
      BY <1>8, <2>1, <2>2 DEF GoTo
  <1>13. segment' \in Segment /\ step' \in {"begin", "join", "done"}
    BY <1>1, <1>8 DEF FinishSong, GoTo, Segment, TypesHold
  <1>14. TypesHold'
    BY <1>1, <1>3, <1>4, <1>5, <1>9, <1>12, <1>13 DEF TypesHold, Step
  <1>15. LoopGoesOn'
    BY <1>1, <1>3, <1>8 DEF ConvertInv, LoopGoesOn, FinishSong, GoTo
  <1>16. FramesFit' /\ AppendedSoFar'
    BY <1>4, <1>13 DEF FramesFit, AppendedSoFar
  <1>17. JoinIsLast'
    BY <1>8 DEF JoinIsLast, FinishSong, GoTo
  <1>18. ResultIsJoined'
    <2>1. CASE segment = "intro" /\ ~song.has_loop /\ FinishSong
      BY <1>3, <2>1 DEF FinishSong, ResultIsJoined, Empty
    <2>2. CASE step' # "done"
      BY <2>2 DEF ResultIsJoined
    <2> QED
      BY <1>8, <2>1, <2>2 DEF GoTo
  <1> QED
    BY <1>11, <1>14, <1>15, <1>16, <1>17, <1>18 DEF ConvertInv

(* The three streams become the song.                                      *)
LEMMA JoinKeeps ==
  ASSUME ConvertInv, JoinLoop
  PROVE  ConvertInv'
  <1> DEFINE last == IF LoopIsStable(output) THEN <<>> ELSE output["steady"]
             more == IF LoopIsStable(output) THEN 0 ELSE frame_count["steady"]
             clips == IF LoopIsStable(output) THEN clips_first ELSE converter.clipped_values
             joined == output["intro"] \o output["first"] \o last
             frames_joined == frame_count["intro"] + frame_count["first"] + more
  <1>1. /\ TypesHold /\ segment = "steady" /\ song.has_loop
    BY DEF ConvertInv, JoinIsLast, LoopGoesOn, JoinLoop
  <1>2. /\ step = "join" /\ step' = "done"
        /\ UNCHANGED <<song, segment, converter, clips_first, frames, i, output, frame_count>>
        /\ converted' = [ stream |-> joined, loop_offset |-> LoopStart(output),
                          frame_count |-> frames_joined,
                          loop_frame_count |-> frame_count["steady"],
                          clipped_values |-> clips ]
    BY DEF JoinLoop
  <1>3. /\ output["intro"] \in Seq(Pair) /\ output["first"] \in Seq(Pair)
        /\ output["steady"] \in Seq(Pair) /\ <<>> \in Seq(Pair)
        /\ frame_count["intro"] \in Nat /\ frame_count["first"] \in Nat
        /\ frame_count["steady"] \in Nat
        /\ clips_first \in Nat /\ converter.clipped_values \in Nat
    BY <1>1, EmptySeq DEF TypesHold, Segment, Converter
  <1>4. joined \in Seq(Pair)
    <2>1. last \in Seq(Pair)
      BY <1>3
    <2> HIDE DEF last
    <2> QED
      BY <1>3, <2>1
  <1>5. frames_joined \in Nat /\ clips \in Nat
    BY <1>3
  <1>6. LoopStart(output) \in Nat
    <2>1. Len(output["intro"]) \in Nat /\ Len(output["first"]) \in Nat
      BY <1>3
    <2>2. CASE LoopIsStable(output)
      BY <2>1, <2>2 DEF LoopStart
    <2>3. CASE ~LoopIsStable(output)
      <3> DEFINE x == Len(output["intro"])
                 y == Len(output["first"])
      <3>1. LoopStart(output) = x + y
        BY <2>3 DEF LoopStart
      <3>2. x \in Nat /\ y \in Nat
        BY <2>1
      <3> HIDE DEF x, y
      <3> QED
        BY <3>1, <3>2
    <2> QED
      BY <2>2, <2>3
  <1>7. TypesHold'
    <2>1. converted' \in Result
      <3> HIDE DEF joined, frames_joined, clips
      <3> QED
        BY <1>2, <1>3, <1>4, <1>5, <1>6 DEF Result
    <2> QED
      BY <1>1, <1>2, <2>1 DEF TypesHold, Step
  <1>8. Behind' = Behind
    BY <1>2 DEF Behind
  <1>9. StreamsGrow'
    BY <1>2, <1>8 DEF ConvertInv, StreamsGrow
  <1>10. ResultIsJoined'
    <2>1. /\ converted'.stream = joined /\ converted'.loop_offset = LoopStart(output)
          /\ converted'.frame_count = frames_joined
          /\ converted'.loop_frame_count = frame_count["steady"]
      BY <1>2
    <2>2. output' = output /\ frame_count' = frame_count /\ segment' = segment /\ song' = song
      BY <1>2
    <2> QED
      BY <1>1, <2>1, <2>2 DEF ResultIsJoined
  <1>11. LoopGoesOn' /\ FramesFit' /\ AppendedSoFar' /\ JoinIsLast'
    BY <1>2 DEF ConvertInv, LoopGoesOn, FramesFit, AppendedSoFar, JoinIsLast
  <1> QED
    BY <1>7, <1>9, <1>10, <1>11 DEF ConvertInv

(* A step that changes nothing of the conversion keeps the invariant.      *)
LEMMA ConversionStutters ==
  ASSUME ConvertInv, UNCHANGED convertVars
  PROVE  ConvertInv'
  <1>1. Behind' = Behind
    BY DEF Behind, convertVars
  <1> QED
    BY <1>1 DEF convertVars, ConvertInv, TypesHold, LoopGoesOn, FramesFit, StreamsGrow,
            AppendedSoFar, JoinIsLast, ResultIsJoined

(* So does every step of it.                                               *)
LEMMA ConversionKeeps == ConvertInv /\ [Next]_convertVars => ConvertInv'
  <1> SUFFICES ASSUME ConvertInv, [Next]_convertVars
               PROVE  ConvertInv'
    OBVIOUS
  <1>1. CASE BeginSegment
    BY <1>1, BeginKeeps
  <1>2. CASE ConvertWrite
    BY <1>2, ConvertWriteKeeps
  <1>3. CASE BeginAppend
    BY <1>3, BeginAppendKeeps
  <1>4. CASE AppendFrame
    BY <1>4, AppendKeeps
  <1>5. CASE TooManyWrites \/ OutOfMemory
    <2>1. Fail
      BY <1>5 DEF TooManyWrites, OutOfMemory
    <2> QED
      BY <2>1, FailKeeps
  <1>6. CASE SkipIntro \/ EndSegment
    BY <1>6, EndSegmentKeeps
  <1>7. CASE JoinLoop
    BY <1>7, JoinKeeps
  <1>8. CASE UNCHANGED convertVars
    BY <1>8, ConversionStutters
  <1> QED
    BY <1>1, <1>2, <1>3, <1>4, <1>5, <1>6, <1>7, <1>8 DEF Next

(* The invariant holds throughout.                                         *)
LEMMA ConversionInvariance == Spec => []ConvertInv
  <1>1. Init => ConvertInv
    BY ConversionStarts
  <1>2. ConvertInv /\ [Next]_convertVars => ConvertInv'
    BY ConversionKeeps
  <1> QED
    BY <1>1, <1>2, PTL DEF Spec

(* Every variable of the conversion keeps its type.                        *)
THEOREM ConversionTyped == Spec => []TypeOK
  <1>1. ConvertInv => TypeOK
    <2> SUFFICES ASSUME ConvertInv PROVE TypeOK
      OBVIOUS
    <2>1. TypesHold /\ IsSegment(song, segment)
      BY SegmentOfConversion DEF ConvertInv
    <2> DEFINE total == FrameTotal(song, segment)
    <2>2. total \in Nat
      BY <2>1, FramesOfSegment
    <2>3. DOMAIN frames = 0 .. Cardinality(DOMAIN frames) - 1
          /\ \A k \in DOMAIN frames : frames[k] \in Seq(Write)
      <3>1. CASE step \in {"write", "append"}
        <4>1. frames \in [0 .. total - 1 -> Seq(Write)]
          BY <3>1 DEF ConvertInv, FramesFit
        <4> HIDE DEF total
        <4>2. Cardinality(0 .. total - 1) = total
          <5>1. Cardinality(0 .. total - 1) = IF 0 > total - 1 THEN 0 ELSE total - 1 - 0 + 1
            BY <2>2, FS_Interval
          <5> QED
            BY <2>2, <5>1
        <4> QED
          BY <4>1, <4>2
      <3>2. CASE step \notin {"write", "append"}
        <4>1. frames = <<>>
          BY <3>2 DEF ConvertInv, FramesFit
        <4>2. DOMAIN frames = {} /\ Cardinality({}) = 0 /\ 0 .. 0 - 1 = {}
          BY <4>1, FS_EmptySet
        <4> QED
          BY <4>2
      <3> QED
        BY <3>1, <3>2
    <2> QED
      BY <2>1, <2>3 DEF TypeOK, TypesHold, Result
  <1> QED
    BY <1>1, ConversionInvariance, PTL

(* No song vgm_parse returns reaches the internal errors of                *)
(* convert_segment.                                                        *)
THEOREM NoErrorIsInternal == Spec => []NoInternalError
  <1>1. ConvertInv => NoInternalError
    <2>1. ConvertInv => IsSegment(song, segment)
      BY SegmentOfConversion DEF ConvertInv
    <2> QED
      BY <2>1, NoErrorInside DEF NoInternalError
  <1> QED
    BY <1>1, ConversionInvariance, PTL

(* The frames of the song returned, and of its loop, last as long as the   *)
(* samples they stand for, to a frame.                                     *)
THEOREM FramesKeepTime == Spec => []TimeKept
  <1>1. ASSUME ConvertInv, step = "done"
        PROVE  /\ FramesLast("intro", converted.frame_count
                                        - PassesStored * converted.loop_frame_count)
               /\ song.has_loop => FramesLast("steady", converted.loop_frame_count)
    <2>1. TypesHold
      BY <1>1 DEF ConvertInv
    <2>2. CASE ~song.has_loop
      <3>1. converted.frame_count = frame_count["intro"] /\ converted.loop_frame_count = 0
            /\ segment = "intro"
        BY <1>1, <2>2 DEF ConvertInv, ResultIsJoined
      <3>2. "intro" \in Behind
        BY <1>1, <3>1 DEF Behind, Segment
      <3>3. frame_count["intro"] = FrameTotal(song, "intro")
        BY <1>1, <3>2 DEF ConvertInv, StreamsGrow, Behind
      <3>4. IsSegment(song, "intro")
        BY <2>1 DEF TypesHold, IsSegment, Segment
      <3>5. PassesStored = 0
        BY <2>2 DEF PassesStored
      <3>6. FrameTotal(song, "intro") \in Nat
            /\ FrameTotal(song, "intro") * SamplesPerFrame - Duration(song, "intro")
                 \in 0 .. SamplesPerFrame
        BY <3>4, FramesOfSegment
      <3>7. converted.frame_count - PassesStored * converted.loop_frame_count
              = FrameTotal(song, "intro")
        BY <3>1, <3>3, <3>5, <3>6
      <3> QED
        BY <2>2, <3>6, <3>7 DEF FramesLast
    <2>3. CASE song.has_loop
      <3> DEFINE I == FrameTotal(song, "intro")
                 F == FrameTotal(song, "steady")
      <3>1. /\ segment = "steady" /\ converted.loop_frame_count = frame_count["steady"]
            /\ converted.frame_count = frame_count["intro"] + frame_count["first"]
                 + (IF LoopIsStable(output) THEN 0 ELSE frame_count["steady"])
        BY <1>1, <2>3 DEF ConvertInv, ResultIsJoined
      <3>2. Behind = Segment /\ Segment = {"intro", "first", "steady"}
        BY <1>1, <3>1 DEF Behind, Segment
      <3>3. /\ frame_count["intro"] = I /\ frame_count["steady"] = F
            /\ frame_count["first"] = FrameTotal(song, "first")
        BY <1>1, <3>2 DEF ConvertInv, StreamsGrow
      <3>4. frame_count["first"] = F
        BY <3>3, PassesAlike
      <3>5. /\ I \in Nat /\ F \in Nat
            /\ I * SamplesPerFrame - Duration(song, "intro") \in 0 .. SamplesPerFrame
            /\ F * SamplesPerFrame - Duration(song, "steady") \in 0 .. SamplesPerFrame
        BY <2>1, <2>3, FramesOfSegment DEF TypesHold, IsSegment, Segment
      <3> HIDE DEF I, F
      <3>6. converted.frame_count - PassesStored * converted.loop_frame_count = I
        <4>1. CASE LoopIsStable(output)
          <5>1. PassesStored = 1 /\ converted.frame_count = I + F
            BY <2>3, <3>1, <3>3, <3>4, <3>5, <4>1 DEF PassesStored
          <5> QED
            BY <3>1, <3>3, <3>5, <5>1
        <4>2. CASE ~LoopIsStable(output)
          <5>1. PassesStored = 2 /\ converted.frame_count = I + F + F
            BY <2>3, <3>1, <3>3, <3>4, <3>5, <4>2 DEF PassesStored
          <5> QED
            BY <3>1, <3>3, <3>5, <5>1
        <4> QED
          BY <4>1, <4>2
      <3>7. FramesLast("intro", I) /\ FramesLast("steady", F)
        BY <3>5 DEF FramesLast
      <3> QED
        BY <3>1, <3>3, <3>6, <3>7
    <2> QED
      BY <2>2, <2>3
  <1>2. ConvertInv => TimeKept
    BY <1>1 DEF TimeKept
  <1> QED
    BY <1>2, ConversionInvariance, PTL

(* A player that jumps to a mark is at a record, and walks to the end over *)
(* as many records as there are marks left.                                *)
LEMMA MarkRejoins ==
  ASSUME NEW s \in Seq(Pair), NEW k \in Nat, NEW d, Marks(s, k, d), NEW x \in 0 .. k - 1
  PROVE  /\ EndsOnRecord(s)
         /\ Cardinality(RecordsFrom(s, 0)) = k
         /\ d[x] \in RecordsFrom(s, 0)
         /\ Cardinality(RecordsFrom(s, d[x])) = k - x
  <1>1. x \in 0 .. k /\ 0 \in 0 .. k /\ d[0] = 0 /\ k - 0 = k
    BY DEF Marks
  <1>2. EndsOnRecord(s) /\ Cardinality(RecordsFrom(s, d[x])) = k - x
    BY <1>1, BoundariesAreMarks
  <1>3. /\ \A j \in 0 .. k - 1 : d[j] \in RecordsFrom(s, d[0])
        /\ Cardinality(RecordsFrom(s, d[0])) = k - 0
    BY <1>1, BoundariesAreMarks
  <1> QED
    BY <1>1, <1>2, <1>3

(* The stream of a song that is done.                                      *)

(* The record the player jumps to.                                         *)
LoopMark == converted.frame_count - converted.loop_frame_count

(* The marks of the song's stream, the loop point's among them.            *)
SongMarks(b) ==
  /\ Marks(converted.stream, converted.frame_count, b)
  /\ song.has_loop => b[LoopMark] = converted.loop_offset

(* The song returned is a stream of records, and its loop begins at one of *)
(* them.                                                                   *)
LEMMA SongIsMarked ==
  ASSUME ConvertInv, step = "done"
  PROVE  /\ converted \in Result /\ frame_count["intro"] = FrameTotal(song, "intro")
         /\ FrameTotal(song, "intro") \in Nat
         /\ song.has_loop =>
              /\ converted.loop_frame_count = FrameTotal(song, "first")
              /\ FrameTotal(song, "first") \in Nat \ {0}
              /\ LoopMark \in {frame_count["intro"],
                               frame_count["intro"] + FrameTotal(song, "first")}
         /\ ~song.has_loop =>
              converted.frame_count = frame_count["intro"] /\ converted.loop_offset = NoLoop
         /\ \E b : SongMarks(b)
  <1>0. TypesHold
    BY DEF ConvertInv
  <1>1. CASE ~song.has_loop
    <2>1. segment = "intro" /\ converted.stream = output["intro"]
          /\ converted.frame_count = frame_count["intro"] /\ converted.loop_offset = NoLoop
      BY <1>1 DEF ConvertInv, ResultIsJoined
    <2>2. "intro" \in Behind
      BY <2>1 DEF Behind, Segment
    <2>3. /\ frame_count["intro"] = FrameTotal(song, "intro")
          /\ IsStream(output["intro"], FrameTotal(song, "intro"))
      BY <2>2 DEF ConvertInv, StreamsGrow, Behind
    <2>4. FrameTotal(song, "intro") \in Nat
      BY <1>0, FramesOfSegment DEF TypesHold, IsSegment, Segment
    <2>5. \E b : SongMarks(b)
      BY <1>1, <2>1, <2>3 DEF IsStream, SongMarks
    <2> QED
      BY <1>0, <1>1, <2>1, <2>3, <2>4, <2>5 DEF TypesHold
  <1>2. CASE song.has_loop
    <2> DEFINE a == output["intro"]
               b == output["first"]
               c == output["steady"]
               n == FrameTotal(song, "intro")
               m == FrameTotal(song, "first")
    <2>1. /\ segment = "steady"
          /\ converted.stream = a \o b \o (IF LoopIsStable(output) THEN <<>> ELSE c)
          /\ converted.loop_offset = LoopStart(output)
          /\ converted.frame_count = frame_count["intro"] + frame_count["first"]
               + (IF LoopIsStable(output) THEN 0 ELSE frame_count["steady"])
          /\ converted.loop_frame_count = frame_count["steady"]
      BY <1>2 DEF ConvertInv, ResultIsJoined
    <2>2. Behind = Segment /\ Segment = {"intro", "first", "steady"}
      BY <2>1 DEF Behind, Segment
    <2>3. /\ frame_count["intro"] = n /\ frame_count["first"] = m
          /\ frame_count["steady"] = FrameTotal(song, "steady")
          /\ IsStream(a, n) /\ IsStream(b, m) /\ IsStream(c, FrameTotal(song, "steady"))
      BY <2>2 DEF ConvertInv, StreamsGrow
    <2>4. frame_count["steady"] = m /\ IsStream(c, m)
      BY <2>3, PassesAlike
    <2>5. n \in Nat /\ m \in Nat \ {0}
      <3>1. IsSegment(song, "intro") /\ IsSegment(song, "first")
        BY <1>0, <1>2 DEF TypesHold, IsSegment, Segment
      <3>2. ~NoFrames(song, "first")
        BY <3>1, NoErrorInside
      <3>3. n \in Nat /\ m \in Nat
        BY <3>1, FramesOfSegment
      <3> QED
        BY <3>2, <3>3 DEF NoFrames
    <2>6. a \in Seq(Pair) /\ b \in Seq(Pair) /\ c \in Seq(Pair)
      BY <1>0, <2>2 DEF TypesHold
    <2>7. CASE LoopIsStable(output)
      <3>1. LoopStart(output) = Len(a)
        BY <2>7 DEF LoopStart
      <3> HIDE DEF a, b, c, n, m
      <3>2. (a \o b) \o <<>> = a \o b
        BY <2>6, ConcatEmptySeq, ConcatProperties
      <3>3. /\ converted.stream = a \o b /\ converted.frame_count = n + m
            /\ converted.loop_offset = Len(a) /\ converted.loop_frame_count = m
        BY <2>1, <2>3, <2>4, <2>5, <2>7, <3>1, <3>2
      <3>4. \E d : Marks(converted.stream, converted.frame_count, d)
                   /\ d[converted.frame_count - m] = Len(a)
        <4>1. PICK st, total : st = converted.stream /\ total = converted.frame_count
          OBVIOUS
        <4>2. st = a \o b /\ total = n + m /\ total - m = n
          BY <2>5, <3>3, <4>1
        <4>3. \E d \in [0 .. n + m -> Nat] : Marks(a \o b, n + m, d) /\ d[n] = Len(a)
          BY <2>3, <2>5, <2>6, JoinedStreams
        <4> QED
          BY <4>1, <4>2, <4>3
      <3>5. \E d : SongMarks(d)
        BY <3>3, <3>4 DEF SongMarks, LoopMark
      <3>6. LoopMark = n
        BY <2>5, <3>3 DEF LoopMark
      <3> QED
        BY <1>0, <1>2, <2>3, <2>5, <3>3, <3>5, <3>6 DEF TypesHold, n, m
    <2>8. CASE ~LoopIsStable(output)
      <3>1. LoopStart(output) = Len(a) + Len(b)
        BY <2>8 DEF LoopStart
      <3> HIDE DEF a, b, c, n, m
      <3>2. a \o b \in Seq(Pair) /\ Len(a \o b) = Len(a) + Len(b)
        BY <2>6, ConcatProperties
      <3>3. IsStream(a \o b, n + m) /\ n + m \in Nat
        BY <2>3, <2>5, <2>6, JoinedStreams
      <3>4. /\ converted.stream = (a \o b) \o c /\ converted.frame_count = n + m + m
            /\ converted.loop_offset = Len(a \o b) /\ converted.loop_frame_count = m
        BY <2>1, <2>3, <2>4, <2>8, <3>1, <3>2
      <3> DEFINE p == a \o b
                 k == n + m
      <3>5. /\ p \in Seq(Pair) /\ k \in Nat /\ IsStream(p, k)
            /\ converted.stream = p \o c /\ converted.frame_count = k + m
            /\ converted.loop_offset = Len(p)
        BY <3>2, <3>3, <3>4
      <3>6. LoopMark = k
        BY <2>5, <3>4 DEF LoopMark
      <3>7. k = n + m
        OBVIOUS
      <3> HIDE DEF p, k
      <3>8. \E d : Marks(converted.stream, converted.frame_count, d)
                   /\ d[converted.frame_count - m] = Len(p)
        <4>1. PICK st, total : st = converted.stream /\ total = converted.frame_count
          OBVIOUS
        <4>2. st = p \o c /\ total = k + m /\ total - m = k
          BY <2>5, <3>5, <4>1
        <4>3. \E d \in [0 .. k + m -> Nat] : Marks(p \o c, k + m, d) /\ d[k] = Len(p)
          BY <2>4, <2>5, <2>6, <3>5, JoinedStreams
        <4> QED
          BY <4>1, <4>2, <4>3
      <3>9. \E d : SongMarks(d)
        BY <3>4, <3>5, <3>8 DEF SongMarks, LoopMark
      <3> QED
        BY <1>0, <1>2, <2>3, <2>5, <3>4, <3>6, <3>7, <3>9 DEF TypesHold, n, m
    <2> QED
      BY <2>7, <2>8
  <1> QED
    BY <1>1, <1>2

(* The song returned is a stream of records, and the loop begins at one of *)
(* them: the player that jumps there finds exactly one pass.               *)
THEOREM LoopRejoinsStream == Spec => []LoopRejoins
  <1>1. ASSUME ConvertInv, step = "done"
        PROVE  LoopRejoins
    <2> DEFINE s == converted.stream
               n == converted.frame_count
               m == LoopMark
    <2>1. PICK b : SongMarks(b)
      BY <1>1, SongIsMarked
    <2>2. s \in Seq(Pair) /\ n \in Nat
      BY <1>1, SongIsMarked DEF Result
    <2>3. Marks(s, n, b) /\ b[0] = 0 /\ 0 \in 0 .. n /\ n - 0 = n
      BY <2>1, <2>2 DEF SongMarks, Marks
    <2>4. ASSUME song.has_loop
          PROVE  /\ m \in 0 .. n - 1 /\ n - m = converted.loop_frame_count
                 /\ b[m] = converted.loop_offset
      BY <1>1, <2>1, <2>2, <2>4, SongIsMarked DEF SongMarks, LoopMark, Result
    <2> HIDE DEF s, n, m
    <2>5. EndsOnRecord(s) /\ Cardinality(RecordsFrom(s, b[0])) = n - 0
      BY <2>2, <2>3, BoundariesAreMarks
    <2>6. ASSUME song.has_loop
          PROVE  /\ b[m] \in RecordsFrom(s, 0)
                 /\ Cardinality(RecordsFrom(s, b[m])) = n - m
      BY <2>2, <2>3, <2>4, <2>6, MarkRejoins
    <2> QED
      BY <2>3, <2>4, <2>5, <2>6 DEF LoopRejoins, s, n, m
  <1>2. ConvertInv => LoopRejoins
    BY <1>1 DEF LoopRejoins
  <1> QED
    BY <1>2, ConversionInvariance, PTL

-----------------------------------------------------------------------------
(* Two converters that send the same, whatever is written to them.         *)
Alike(c, d) ==
  /\ c.source_clock = d.source_clock
  /\ c.pitch_conversion = d.pitch_conversion
  /\ Adapts(c) =>
       /\ \A r \in Reg \cap PsgPeriod : c.source[r] = d.source[r]
       /\ c.fm_high_latch = d.fm_high_latch
       /\ c.fm_channel3_high_latch = d.fm_channel3_high_latch
       /\ \A r \in Reg : c.target_known[r] = d.target_known[r]
       /\ \A r \in Reg : c.target_known[r] => c.target[r] = d.target[r]

(* Converters that are alike send the same for a write.                    *)
LEMMA AlikeSend ==
  ASSUME NEW c \in Converter, NEW d \in Converter, Alike(c, d),
         NEW reg \in Reg, NEW value \in Byte
  PROVE  Emission(c, reg, value) = Emission(d, reg, value)
  <1> DEFINE sc == Sourced(c, reg, value)
             sd == Sourced(d, reg, value)
  <1>1. Adapts(c) <=> Adapts(d)
    BY DEF Alike, Adapts
  <1>2. /\ sc.source = [c.source EXCEPT ![reg] = value] /\ sc.target = c.target
        /\ sc.target_known = c.target_known /\ sc.source_clock = c.source_clock
        /\ sd.source = [d.source EXCEPT ![reg] = value] /\ sd.target = d.target
        /\ sd.target_known = d.target_known /\ sd.source_clock = d.source_clock
        /\ c.source \in [Reg -> Byte] /\ d.source \in [Reg -> Byte]
        /\ c.source_clock = d.source_clock
    BY SourcedIsConverter DEF Converter, Alike
  <1> HIDE DEF sc, sd
  <1>3. ASSUME Adapts(c), NEW r \in Reg, NEW v
        PROVE  EmitChanged(sc, r, v) = EmitChanged(sd, r, v)
    <2>1. c.target_known[r] = d.target_known[r] /\ (c.target_known[r] => c.target[r] = d.target[r])
      BY <1>3 DEF Alike
    <2> QED
      BY <1>2, <2>1, Zenon DEF EmitChanged
  <1>4. CASE ~Adapts(c)
    BY <1>1, <1>4 DEF Emission
  <1>5. CASE Adapts(c) /\ reg \in PsgPeriod
    <2>1. LowOf(reg) \in Reg /\ HighOf(reg) \in Reg
      BY <1>5, RegAssumption
    <2>2. LowOf(reg) \in PsgPeriod /\ HighOf(reg) \in PsgPeriod
      BY <1>5 DEF LowOf, HighOf, PsgPeriod, PsgTone, EnvelopePeriod
    <2>3. \A r \in Reg \cap PsgPeriod : sc.source[r] = sd.source[r]
      <3> SUFFICES ASSUME NEW r \in Reg \cap PsgPeriod PROVE sc.source[r] = sd.source[r]
        OBVIOUS
      <3>1. c.source[r] = d.source[r]
        BY <1>5 DEF Alike
      <3> QED
        BY <1>2, <3>1
    <2>4. ScaledPair(sc.source_clock, sc.source, reg) = ScaledPair(sd.source_clock, sd.source, reg)
      BY <1>2, <2>1, <2>2, <2>3 DEF ScaledPair, PairPeriod
    <2>5. EmitPsgPair(sc, reg) = EmitPsgPair(sd, reg)
      BY <1>3, <1>5, <2>1, <2>4 DEF EmitPsgPair
    <2>6. reg \notin Noise \cup FmHigh \cup Fm3High \cup FmCommit
      BY <1>5 DEF PsgPeriod, PsgTone, EnvelopePeriod, Noise, FmHigh, Fm3High, FmCommit,
                  FmLow, Fm3Low
    <2> QED
      BY <1>1, <1>5, <2>5, <2>6 DEF Emission, sc, sd
  <1>6. CASE Adapts(c) /\ reg \in Noise
    <2>1. reg \notin PsgPeriod \cup FmHigh \cup Fm3High \cup FmCommit
      BY <1>6 DEF PsgPeriod, PsgTone, EnvelopePeriod, Noise, FmHigh, Fm3High, FmCommit,
                  FmLow, Fm3Low
    <2>2. EmitChanged(sc, reg, ScaledNoise(c.source_clock, value))
            = EmitChanged(sd, reg, ScaledNoise(d.source_clock, value))
      BY <1>2, <1>3, <1>6
    <2> QED
      BY <1>1, <1>6, <2>1, <2>2 DEF Emission, sc, sd
  <1>7. CASE Adapts(c) /\ reg \in FmHigh \cup Fm3High
    <2>1. reg \notin PsgPeriod \cup Noise \cup FmCommit
      BY <1>7 DEF PsgPeriod, PsgTone, EnvelopePeriod, Noise, FmHigh, Fm3High, FmCommit,
                  FmLow, Fm3Low
    <2> QED
      BY <1>1, <1>7, <2>1 DEF Emission
  <1>8. CASE Adapts(c) /\ reg \in FmCommit
    <2>1. reg \notin PsgPeriod \cup Noise \cup FmHigh \cup Fm3High
      BY <1>8 DEF PsgPeriod, PsgTone, EnvelopePeriod, Noise, FmHigh, Fm3High, FmCommit,
                  FmLow, Fm3Low
    <2>2. LatchFor(c, reg) = LatchFor(d, reg)
      BY <1>8 DEF Alike, LatchFor
    <2>3. EmitFmPair(sc, reg, value, LatchFor(c, reg)) = EmitFmPair(sd, reg, value, LatchFor(d, reg))
      BY <1>2, <2>2 DEF EmitFmPair
    <2> QED
      BY <1>1, <1>8, <2>1, <2>3 DEF Emission, sc, sd
  <1>9. CASE Adapts(c) /\ reg \notin Pitched
    BY <1>1, <1>9, PassedOn
  <1> QED
    BY <1>4, <1>5, <1>6, <1>7, <1>8, <1>9 DEF Pitched

(* And they stay alike.                                                    *)
LEMMA AlikeStay ==
  ASSUME NEW c \in Converter, NEW d \in Converter, Alike(c, d),
         NEW reg \in Reg, NEW value \in Byte
  PROVE  Alike(Converted(c, reg, value), Converted(d, reg, value))
  <1> DEFINE em == Emission(c, reg, value)
             x == Converted(c, reg, value)
             y == Converted(d, reg, value)
  <1>1. Emission(d, reg, value) = em /\ em \in Seq(Write)
    BY AlikeSend, EmissionIsWrites
  <1> HIDE DEF em
  <1>2. /\ x.source = [c.source EXCEPT ![reg] = value]
        /\ x.target = Noted(c, em).target /\ x.target_known = Noted(c, em).target_known
        /\ x.source_clock = c.source_clock /\ x.pitch_conversion = c.pitch_conversion
        /\ x.fm_high_latch = IF Adapts(c) /\ reg \in FmHigh THEN value ELSE c.fm_high_latch
        /\ x.fm_channel3_high_latch =
             IF Adapts(c) /\ reg \in Fm3High THEN value ELSE c.fm_channel3_high_latch
    BY ConvertedFields DEF em
  <1>3. /\ y.source = [d.source EXCEPT ![reg] = value]
        /\ y.target = Noted(d, em).target /\ y.target_known = Noted(d, em).target_known
        /\ y.source_clock = d.source_clock /\ y.pitch_conversion = d.pitch_conversion
        /\ y.fm_high_latch = IF Adapts(d) /\ reg \in FmHigh THEN value ELSE d.fm_high_latch
        /\ y.fm_channel3_high_latch =
             IF Adapts(d) /\ reg \in Fm3High THEN value ELSE d.fm_channel3_high_latch
    BY <1>1, ConvertedFields
  <1> HIDE DEF x, y
  <1>4. c.source_clock = d.source_clock /\ c.pitch_conversion = d.pitch_conversion
    BY DEF Alike
  <1>5. Adapts(c) <=> Adapts(d)
    BY <1>4 DEF Adapts
  <1>6. SUFFICES ASSUME Adapts(x)
        PROVE  /\ \A r \in Reg \cap PsgPeriod : x.source[r] = y.source[r]
               /\ x.fm_high_latch = y.fm_high_latch
               /\ x.fm_channel3_high_latch = y.fm_channel3_high_latch
               /\ \A r \in Reg : x.target_known[r] = y.target_known[r]
               /\ \A r \in Reg : x.target_known[r] => x.target[r] = y.target[r]
    BY <1>2, <1>3, <1>4 DEF Alike, x, y
  <1>7. Adapts(c)
    BY <1>2, <1>6 DEF Adapts
  <1>8. /\ \A r \in Reg \cap PsgPeriod : c.source[r] = d.source[r]
        /\ c.fm_high_latch = d.fm_high_latch
        /\ c.fm_channel3_high_latch = d.fm_channel3_high_latch
        /\ \A r \in Reg : c.target_known[r] = d.target_known[r]
        /\ \A r \in Reg : c.target_known[r] => c.target[r] = d.target[r]
    BY <1>7 DEF Alike
  <1>9. c.source \in [Reg -> Byte] /\ d.source \in [Reg -> Byte]
    BY DEF Converter
  <1>10. \A r \in Reg \cap PsgPeriod : x.source[r] = y.source[r]
    <2> SUFFICES ASSUME NEW r \in Reg \cap PsgPeriod PROVE x.source[r] = y.source[r]
      OBVIOUS
    <2>1. c.source[r] = d.source[r] /\ r \in Reg
      BY <1>8
    <2>2. x.source[r] = IF r = reg THEN value ELSE c.source[r]
      BY <1>2, <1>9, <2>1
    <2>3. y.source[r] = IF r = reg THEN value ELSE d.source[r]
      BY <1>3, <1>9, <2>1
    <2> QED
      BY <2>1, <2>2, <2>3
  <1>11. x.fm_high_latch = y.fm_high_latch /\ x.fm_channel3_high_latch = y.fm_channel3_high_latch
    BY <1>2, <1>3, <1>5, <1>8
  <1>12. ASSUME NEW r \in Reg
         PROVE  /\ x.target_known[r] = y.target_known[r]
                /\ x.target_known[r] => x.target[r] = y.target[r]
    <2>1. /\ x.target_known[r] = (WritesTo(em, {r}) # {} \/ c.target_known[r])
          /\ x.target[r] = LastValue(em, WritesTo(em, {r}), c.target[r])
      <3>1. /\ Noted(c, em).target
                 = [q \in Reg |-> LastValue(em, WritesTo(em, {q}), c.target[q])]
            /\ Noted(c, em).target_known
                 = [q \in Reg |-> WritesTo(em, {q}) # {} \/ c.target_known[q]]
        BY DEF Noted, Converter
      <3> QED
        BY <1>2, <3>1, Zenon
    <2>2. /\ y.target_known[r] = (WritesTo(em, {r}) # {} \/ d.target_known[r])
          /\ y.target[r] = LastValue(em, WritesTo(em, {r}), d.target[r])
      <3>1. /\ Noted(d, em).target
                 = [q \in Reg |-> LastValue(em, WritesTo(em, {q}), d.target[q])]
            /\ Noted(d, em).target_known
                 = [q \in Reg |-> WritesTo(em, {q}) # {} \/ d.target_known[q]]
        BY DEF Noted, Converter
      <3> QED
        BY <1>3, <3>1, Zenon
    <2>3. c.target_known[r] = d.target_known[r]
      BY <1>8
    <2>4. x.target_known[r] = y.target_known[r]
      BY <2>1, <2>2, <2>3, Zenon
    <2>5. ASSUME x.target_known[r] PROVE x.target[r] = y.target[r]
      <3>1. CASE WritesTo(em, {r}) = {}
        <4>1. c.target_known[r]
          BY <2>1, <2>5, <3>1, Zenon
        <4>2. c.target[r] = d.target[r]
          BY <1>8, <4>1
        <4> QED
          BY <2>1, <2>2, <4>2
      <3>2. CASE WritesTo(em, {r}) # {}
        BY <2>1, <2>2, <3>2 DEF LastValue
      <3> QED
        BY <3>1, <3>2
    <2> QED
      BY <2>4, <2>5
  <1> QED
    BY <1>10, <1>11, <1>12

-----------------------------------------------------------------------------
(* Part of a sequence, by positions.                                       *)

(* f[n] is what is picked of the first n elements.                         *)
Picking(S, s, K, f) ==
  /\ f \in [0 .. Len(s) -> Seq(S)]
  /\ f[0] = <<>>
  /\ \A n \in 1 .. Len(s) : f[n] = IF n \in K THEN Append(f[n - 1], s[n]) ELSE f[n - 1]

(* The recursion that picks elements exists.                               *)
LEMMA PickedIs ==
  ASSUME NEW S, NEW s \in Seq(S), NEW K
  PROVE  \E f : Picking(S, s, K, f) /\ Picked(s, K) = f[Len(s)]
  <1>00. PICK T : T = Seq(S)
    OBVIOUS
  <1>01. PICK L \in Nat : L = Len(s)
    OBVIOUS
  <1>0. T = Seq(S) /\ L = Len(s) /\ L \in Nat
    BY <1>00, <1>01
  <1> DEFINE Go(n, x) == IF n + 1 \in K /\ n + 1 <= L THEN Append(x, s[n + 1]) ELSE x
             go == [n \in Nat |-> [x \in T |-> Go(n, x)]]
             Body(f, n) == IF n = 0 THEN <<>>
                           ELSE IF n \in K THEN Append(f[n - 1], s[n]) ELSE f[n - 1]
             Is(f) == f = [n \in 0 .. L |-> Body(f, n)]
  <1>1. <<>> \in T
    BY <1>0, EmptySeq
  <1>2. ASSUME NEW n \in Nat, NEW x \in T
        PROVE  Go(n, x) \in T
    <2>1. n + 1 <= L => s[n + 1] \in S
      BY <1>0
    <2> QED
      BY <1>0, <2>1
  <1> HIDE DEF Go
  <1>3. go \in Stepper(T)
    BY <1>2 DEF Stepper
  <1>4. \A n \in Nat : \A x \in T : go[n][x] = Go(n, x)
    OBVIOUS
  <1> HIDE DEF go
  <1>5. PICK h : Steps(T, <<>>, go, h)
    BY <1>1, <1>3, StepByStep
  <1>6. h \in [Nat -> T] /\ h[0] = <<>> /\ \A n \in Nat : h[n + 1] = Go(n, h[n])
    BY <1>4, <1>5 DEF Steps
  <1> DEFINE g == [n \in 0 .. L |-> h[n]]
  <1>7. \A n \in 0 .. L : g[n] = Body(g, n)
    <2> SUFFICES ASSUME NEW n \in 0 .. L PROVE g[n] = Body(g, n)
      OBVIOUS
    <2>1. CASE n = 0
      BY <1>6, <2>1
    <2>2. CASE n # 0
      <3>1. PICK m \in Nat : n = m + 1 /\ m = n - 1 /\ m \in 0 .. L
        <4>1. n - 1 \in Nat /\ n = n - 1 + 1 /\ n - 1 \in 0 .. L
          BY <1>0, <2>2
        <4> QED
          BY <4>1
      <3>2. g[n] = Go(m, h[m]) /\ g[m] = h[m]
        BY <1>6, <3>1
      <3>3. m + 1 <= L
        BY <3>1
      <3> HIDE DEF g
      <3> QED
        BY <2>2, <3>1, <3>2, <3>3 DEF Go
    <2> QED
      BY <2>1, <2>2
  <1>8. \E f : Is(f)
    <2>1. Is(g)
      BY <1>7
    <2> QED
      BY <2>1
  <1>9. PICK w : w = CHOOSE f : Is(f)
    OBVIOUS
  <1>10. Is(w)
    <2> HIDE DEF Is
    <2> QED
      BY <1>8, <1>9
  <1>11. Picked(s, K) = w[L]
    BY <1>0, <1>9 DEF Picked
  <1>12. \A n \in 0 .. L : w[n] = Body(w, n)
    BY <1>10
  <1>13. w = [n \in 0 .. L |-> w[n]]
    BY <1>10
  <1> HIDE DEF Is
  <1> DEFINE Typed == {n \in 0 .. L : w[n] \in T}
  <1>14. 0 \in Typed
    BY <1>1, <1>12
  <1>15. ASSUME NEW n \in 0 .. L - 1, n \in Typed
         PROVE  n + 1 \in Typed
    <2>1. n + 1 \in 0 .. L /\ n + 1 # 0 /\ n + 1 - 1 = n /\ s[n + 1] \in S
      BY <1>0
    <2>2. w[n + 1] = IF n + 1 \in K THEN Append(w[n], s[n + 1]) ELSE w[n]
      BY <1>12, <2>1
    <2>3. w[n] \in Seq(S) /\ Append(w[n], s[n + 1]) \in Seq(S)
      BY <1>0, <1>15, <2>1, AppendProperties
    <2>4. w[n + 1] \in T
      BY <1>0, <2>2, <2>3
    <2> QED
      BY <2>1, <2>4
  <1> HIDE DEF Typed
  <1>16. 0 .. L \subseteq Typed
    BY <1>14, <1>15, EveryNumberUpTo
  <1>17. w \in [0 .. L -> T]
    BY <1>13, <1>16 DEF Typed
  <1>18. \A n \in 1 .. L : w[n] = IF n \in K THEN Append(w[n - 1], s[n]) ELSE w[n - 1]
    BY <1>12
  <1>19. w[0] = <<>>
    BY <1>0, <1>12
  <1>20. Picking(S, s, K, w)
    BY <1>0, <1>17, <1>18, <1>19 DEF Picking
  <1> QED
    BY <1>0, <1>11, <1>20

(* Where nothing is picked, nothing is added.                              *)
LEMMA PickingRest ==
  ASSUME NEW S, NEW s \in Seq(S), NEW K, NEW f, Picking(S, s, K, f),
         NEW m \in 0 .. Len(s), \A n \in m + 1 .. Len(s) : n \notin K
  PROVE  f[Len(s)] = f[m]
  <1>0. PICK L \in Nat : L = Len(s)
    OBVIOUS
  <1> DEFINE Same == {j \in 0 .. L - m : f[m + j] = f[m]}
  <1>1. 0 \in Same /\ L - m \in Nat
    BY <1>0
  <1>2. ASSUME NEW j \in 0 .. L - m - 1, j \in Same
        PROVE  j + 1 \in Same
    <2>1. PICK k \in 1 .. L : k = m + (j + 1) /\ k - 1 = m + j /\ k \in m + 1 .. L
      <3>1. m + (j + 1) \in 1 .. L /\ m + (j + 1) - 1 = m + j /\ m + (j + 1) \in m + 1 .. L
        BY <1>0
      <3> QED
        BY <3>1
    <2>2. f[k] = f[k - 1]
      BY <1>0, <2>1 DEF Picking
    <2>3. f[m + (j + 1)] = f[m]
      BY <1>2, <2>1, <2>2
    <2>4. j + 1 \in 0 .. L - m
      BY <1>0
    <2> QED
      BY <2>3, <2>4
  <1> HIDE DEF Same
  <1>3. 0 .. L - m \subseteq Same
    BY <1>1, <1>2, EveryNumberUpTo
  <1>4. L - m \in Same
    BY <1>1, <1>3
  <1>5. m + (L - m) = L
    BY <1>0
  <1> QED
    BY <1>0, <1>4, <1>5 DEF Same

(* Up to where the same is picked of the same, it is the same.             *)
LEMMA PickingSame ==
  ASSUME NEW S, NEW s \in Seq(S), NEW K, NEW f, Picking(S, s, K, f),
         NEW t \in Seq(S), NEW M, NEW g, Picking(S, t, M, g),
         NEW m \in Nat, m <= Len(s), m <= Len(t),
         \A n \in 1 .. m : s[n] = t[n] /\ (n \in K <=> n \in M)
  PROVE  f[m] = g[m]
  <1> DEFINE Same == {j \in 0 .. m : f[j] = g[j]}
  <1>1. 0 \in Same
    BY DEF Picking
  <1>2. ASSUME NEW j \in 0 .. m - 1, j \in Same
        PROVE  j + 1 \in Same
    <2>1. PICK k \in 1 .. m : k = j + 1 /\ k - 1 = j
      <3>1. j + 1 \in 1 .. m /\ j + 1 - 1 = j
        OBVIOUS
      <3> QED
        BY <3>1
    <2>2. k \in 1 .. Len(s) /\ k \in 1 .. Len(t)
      OBVIOUS
    <2>3. f[k] = IF k \in K THEN Append(f[k - 1], s[k]) ELSE f[k - 1]
      BY <2>2 DEF Picking
    <2>4. g[k] = IF k \in M THEN Append(g[k - 1], t[k]) ELSE g[k - 1]
      BY <2>2 DEF Picking
    <2>5. f[k - 1] = g[k - 1]
      BY <1>2, <2>1
    <2>6. f[k] = g[k]
      BY <2>3, <2>4, <2>5
    <2> QED
      BY <2>1, <2>6
  <1> HIDE DEF Same
  <1>3. 0 .. m \subseteq Same
    BY <1>1, <1>2, EveryNumberUpTo
  <1> QED
    BY <1>3 DEF Same

(* What comes behind position m of s, and is picked there, is t and M.     *)
Continues(s, K, t, M, m) ==
  /\ Len(s) = m + Len(t)
  /\ \A n \in 1 .. Len(t) : s[m + n] = t[n] /\ (m + n \in K <=> n \in M)

(* Concatenation is associative.                                           *)
LEMMA ConcatInTurn ==
  ASSUME NEW S, NEW a \in Seq(S), NEW b \in Seq(S), NEW c \in Seq(S)
  PROVE  (a \o b) \o c = a \o (b \o c)
  BY ConcatAssociative

(* An element behind a sequence behind a sequence.                         *)
LEMMA AppendBehind ==
  ASSUME NEW S, NEW a \in Seq(S), NEW b \in Seq(S), NEW e \in S, NEW x, Joins(x, a, b)
  PROVE  Joins(Append(x, e), a, Append(b, e))
  <1>1. \A o \in Seq(S) : (a \o b) \o o = a \o (b \o o)
    BY ConcatInTurn
  <1>2. Append(a \o b, e) = (a \o b) \o <<e>>
    BY ConcatProperties, AppendIsConcat
  <1>3. Append(b, e) = b \o <<e>>
    BY AppendIsConcat
  <1>4. <<e>> \in Seq(S)
    OBVIOUS
  <1> QED
    BY <1>1, <1>2, <1>3, <1>4 DEF Joins

(* What is picked behind position m comes behind what is picked before it. *)
LEMMA PickingBehind ==
  ASSUME NEW S, NEW s \in Seq(S), NEW K, NEW f, Picking(S, s, K, f),
         NEW t \in Seq(S), NEW M, NEW g, Picking(S, t, M, g),
         NEW m \in 0 .. Len(s), Continues(s, K, t, M, m)
  PROVE  Joins(f[Len(s)], f[m], g[Len(t)])
  <1>0. PICK L \in Nat : L = Len(t)
    OBVIOUS
  <1>01. Len(s) = m + L /\ \A n \in 1 .. L : s[m + n] = t[n] /\ (m + n \in K <=> n \in M)
    BY <1>0 DEF Continues
  <1>1. f[m] \in Seq(S)
    BY DEF Picking
  <1> DEFINE Same == {j \in 0 .. L : Joins(f[m + j], f[m], g[j])}
  <1>2. 0 \in Same
    BY <1>0, <1>1, ConcatEmptySeq DEF Picking, Joins
  <1>3. ASSUME NEW j \in 0 .. L - 1, j \in Same
        PROVE  j + 1 \in Same
    <2>1. PICK k \in 1 .. L : k = j + 1 /\ k - 1 = j
      <3>1. j + 1 \in 1 .. L /\ j + 1 - 1 = j
        BY <1>0
      <3> QED
        BY <3>1
    <2>2. PICK p \in 1 .. Len(s) : p = m + k /\ p - 1 = m + j
      <3>1. m + k \in 1 .. Len(s) /\ m + k - 1 = m + j
        BY <1>0, <1>01, <2>1
      <3> QED
        BY <3>1
    <2>3. f[p] = IF p \in K THEN Append(f[p - 1], s[p]) ELSE f[p - 1]
      BY DEF Picking
    <2>4. g[k] = IF k \in M THEN Append(g[k - 1], t[k]) ELSE g[k - 1]
      BY <1>0 DEF Picking
    <2>5. s[p] = t[k] /\ (p \in K <=> k \in M) /\ t[k] \in S
      BY <1>0, <1>01, <2>2
    <2>6. Joins(f[p - 1], f[m], g[j]) /\ g[k - 1] = g[j] /\ g[j] \in Seq(S)
      BY <1>0, <1>3, <2>1, <2>2 DEF Picking
    <2>7. Joins(Append(f[p - 1], t[k]), f[m], Append(g[j], t[k]))
      BY <1>1, <2>5, <2>6, AppendBehind
    <2>8. Joins(f[p], f[m], g[k])
      BY <2>3, <2>4, <2>5, <2>6, <2>7
    <2>9. k \in 0 .. L
      OBVIOUS
    <2> QED
      BY <2>1, <2>2, <2>8, <2>9
  <1> HIDE DEF Same
  <1>4. 0 .. L \subseteq Same
    BY <1>2, <1>3, EveryNumberUpTo
  <1>5. L \in Same
    BY <1>4
  <1> QED
    BY <1>0, <1>01, <1>5 DEF Same

(* Before the first position that is picked there is nothing.              *)
LEMMA PickingNone ==
  ASSUME NEW S, NEW s \in Seq(S), NEW K, NEW f, Picking(S, s, K, f),
         NEW m \in 0 .. Len(s), \A n \in 1 .. m : n \notin K
  PROVE  f[m] = <<>>
  <1> DEFINE Same == {j \in 0 .. m : f[j] = <<>>}
  <1>1. 0 \in Same
    BY DEF Picking
  <1>2. ASSUME NEW j \in 0 .. m - 1, j \in Same
        PROVE  j + 1 \in Same
    <2>1. PICK k \in 1 .. m : k = j + 1 /\ k - 1 = j
      <3>1. j + 1 \in 1 .. m /\ j + 1 - 1 = j
        OBVIOUS
      <3> QED
        BY <3>1
    <2>2. k \in 1 .. Len(s)
      OBVIOUS
    <2>3. f[k] = f[k - 1]
      BY <2>2 DEF Picking
    <2>4. f[k] = <<>>
      BY <1>2, <2>1, <2>3
    <2> QED
      BY <2>1, <2>4
  <1> HIDE DEF Same
  <1>3. 0 .. m \subseteq Same
    BY <1>1, <1>2, EveryNumberUpTo
  <1> QED
    BY <1>3 DEF Same

(* What is picked is of the sequence's elements.                           *)
LEMMA PickedTyped ==
  ASSUME NEW S, NEW s \in Seq(S), NEW K
  PROVE  Picked(s, K) \in Seq(S)
  <1>1. PICK f : Picking(S, s, K, f) /\ Picked(s, K) = f[Len(s)]
    BY PickedIs
  <1> QED
    BY <1>1 DEF Picking

(* Where nothing is to be picked, nothing is.                              *)
LEMMA PickedNone ==
  ASSUME NEW S, NEW s \in Seq(S), NEW K, \A n \in 1 .. Len(s) : n \notin K
  PROVE  Picked(s, K) = <<>>
  <1>1. PICK f : Picking(S, s, K, f) /\ Picked(s, K) = f[Len(s)]
    BY PickedIs
  <1>2. Len(s) \in 0 .. Len(s)
    OBVIOUS
  <1> QED
    BY <1>1, <1>2, PickingNone

(* Only the places inside the sequence matter.                             *)
LEMMA PickedSame ==
  ASSUME NEW S, NEW s \in Seq(S), NEW K, NEW M, \A n \in 1 .. Len(s) : n \in K <=> n \in M
  PROVE  Picked(s, K) = Picked(s, M)
  <1>1. PICK f : Picking(S, s, K, f) /\ Picked(s, K) = f[Len(s)]
    BY PickedIs
  <1>2. PICK g : Picking(S, s, M, g) /\ Picked(s, M) = g[Len(s)]
    BY PickedIs
  <1>3. PICK L \in Nat : L = Len(s)
    OBVIOUS
  <1>4. f[L] = g[L]
    BY <1>1, <1>2, <1>3, PickingSame
  <1> QED
    BY <1>1, <1>2, <1>3, <1>4

(* One more, behind all the others.                                        *)
LEMMA PickedMore ==
  ASSUME NEW S, NEW s \in Seq(S), NEW K, NEW m \in 1 .. Len(s),
         \A k \in K : k < m
  PROVE  Picked(s, K \cup {m}) = Append(Picked(s, K), s[m])
  <1>0. PICK M : M = K \cup {m}
    OBVIOUS
  <1>1. PICK f : Picking(S, s, M, f) /\ Picked(s, M) = f[Len(s)]
    BY PickedIs
  <1>2. PICK g : Picking(S, s, K, g) /\ Picked(s, K) = g[Len(s)]
    BY PickedIs
  <1>3. PICK n \in 0 .. Len(s) : n = m - 1 /\ n \in Nat /\ n <= Len(s)
    <2>1. m - 1 \in 0 .. Len(s)
      OBVIOUS
    <2> QED
      BY <2>1
  <1>4. f[Len(s)] = f[m]
    <2>1. \A j \in m + 1 .. Len(s) : j \notin M
      BY <1>0
    <2>2. m \in 0 .. Len(s)
      OBVIOUS
    <2> QED
      BY <1>1, <2>1, <2>2, PickingRest
  <1>5. g[Len(s)] = g[n]
    <2>1. \A j \in n + 1 .. Len(s) : j \notin K
      BY <1>3
    <2> QED
      BY <1>2, <2>1, PickingRest
  <1>6. f[n] = g[n]
    <2>1. \A j \in 1 .. n : s[j] = s[j] /\ (j \in M <=> j \in K)
      BY <1>0, <1>3
    <2> QED
      BY <1>1, <1>2, <1>3, <2>1, PickingSame
  <1>7. f[m] = Append(f[n], s[m])
    BY <1>0, <1>1, <1>3 DEF Picking
  <1> QED
    BY <1>0, <1>1, <1>2, <1>4, <1>5, <1>6, <1>7

(* Those up to a position, then those behind it.                           *)
LEMMA PickedSplit ==
  ASSUME NEW S, NEW s \in Seq(S), NEW K, NEW M, NEW m \in 0 .. Len(s),
         \A k \in K : k <= m, \A k \in M : k > m
  PROVE  Joins(Picked(s, K \cup M), Picked(s, K), Picked(s, M))
  <1>0. PICK B : B = K \cup M
    OBVIOUS
  <1>1. PICK f : Picking(S, s, B, f) /\ Picked(s, B) = f[Len(s)]
    BY PickedIs
  <1>2. PICK g : Picking(S, s, K, g) /\ Picked(s, K) = g[Len(s)]
    BY PickedIs
  <1>3. PICK h : Picking(S, s, M, h) /\ Picked(s, M) = h[Len(s)]
    BY PickedIs
  <1>4. g[Len(s)] = g[m]
    <2>1. \A j \in m + 1 .. Len(s) : j \notin K
      OBVIOUS
    <2> QED
      BY <1>2, <2>1, PickingRest
  <1>5. h[m] = <<>>
    <2>1. \A j \in 1 .. m : j \notin M
      OBVIOUS
    <2> QED
      BY <1>3, <2>1, PickingNone
  <1>6. f[m] = g[m]
    <2>1. \A j \in 1 .. m : s[j] = s[j] /\ (j \in B <=> j \in K)
      BY <1>0
    <2>2. m \in Nat /\ m <= Len(s)
      OBVIOUS
    <2> QED
      BY <1>1, <1>2, <2>1, <2>2, PickingSame
  <1>7. PICK t \in Seq(S) : /\ Len(s) = m + Len(t)
                            /\ \A n \in 1 .. Len(t) : s[m + n] = t[n]
    <2>1. PICK a \in Int, b \in Int : a = m + 1 /\ b = Len(s)
      OBVIOUS
    <2>2. \A n \in a .. b : s[n] \in S
      BY <2>1
    <2>3. PICK t : t = SubSeq(s, a, b)
      OBVIOUS
    <2>4. t \in Seq(S)
      BY <2>2, <2>3, SubSeqProperties
    <2>5. Len(t) = IF a <= b THEN b - a + 1 ELSE 0
      BY <2>2, <2>3, SubSeqProperties
    <2>6. \A n \in 1 .. b - a + 1 : t[n] = s[a + n - 1]
      BY <2>2, <2>3, SubSeqProperties
    <2>7. Len(s) = m + Len(t) /\ b - a + 1 = Len(t)
      BY <2>1, <2>5
    <2>8. \A n \in 1 .. Len(t) : s[m + n] = t[n]
      <3> SUFFICES ASSUME NEW n \in 1 .. Len(t) PROVE s[m + n] = t[n]
        OBVIOUS
      <3>1. a + n - 1 = m + n
        BY <2>1
      <3> QED
        BY <2>6, <2>7, <3>1
    <2> QED
      BY <2>4, <2>7, <2>8
  <1>70. PICK ls, lt : ls = Len(s) /\ lt = Len(t)
    OBVIOUS
  <1>8. PICK T : T = {n \in 1 .. lt : m + n \in M}
    OBVIOUS
  <1>9. PICK u : Picking(S, t, T, u)
    BY PickedIs
  <1>71. ls = m + lt
    BY <1>7, <1>70
  <1>10. Joins(f[ls], f[m], u[lt])
    <2>1. \A n \in 1 .. lt : s[m + n] = t[n] /\ (m + n \in B <=> n \in T)
      BY <1>0, <1>7, <1>70, <1>8
    <2>2. Continues(s, B, t, T, m)
      BY <1>70, <1>71, <2>1 DEF Continues
    <2> QED
      <3>1. Joins(f[Len(s)], f[m], u[Len(t)])
        BY <1>1, <1>9, <2>2, PickingBehind
      <3> QED
        BY <1>70, <3>1
  <1>11. Joins(h[ls], h[m], u[lt])
    <2>1. \A n \in 1 .. lt : s[m + n] = t[n] /\ (m + n \in M <=> n \in T)
      BY <1>7, <1>70, <1>8
    <2>2. Continues(s, M, t, T, m)
      BY <1>70, <1>71, <2>1 DEF Continues
    <2> QED
      <3>1. Joins(h[Len(s)], h[m], u[Len(t)])
        BY <1>3, <1>9, <2>2, PickingBehind
      <3> QED
        BY <1>70, <3>1
  <1>12. <<>> \o u[lt] = u[lt]
    BY <1>70, <1>9, ConcatEmptySeq DEF Picking
  <1> QED
    BY <1>0, <1>1, <1>2, <1>3, <1>4, <1>5, <1>6, <1>70, <1>10, <1>11, <1>12 DEF Joins

(* Those of a sequence, then those of the one behind it.                   *)
LEMMA PickedConcat ==
  ASSUME NEW S, NEW s \in Seq(S), NEW t \in Seq(S), NEW j, Joins(j, s, t), NEW K, NEW M, NEW T,
         \A n \in 1 .. Len(s) : n \in K <=> n \in M,
         \A n \in 1 .. Len(t) : Len(s) + n \in K <=> n \in T
  PROVE  Joins(Picked(j, K), Picked(s, M), Picked(t, T))
  <1>0. j = s \o t
    BY DEF Joins
  <1>01. j \in Seq(S)
    BY <1>0, ConcatProperties
  <1>02. Len(j) = Len(s) + Len(t)
    BY <1>0, ConcatProperties
  <1>03. \A n \in 1 .. Len(s) + Len(t) : j[n] = IF n <= Len(s) THEN s[n] ELSE t[n - Len(s)]
    BY <1>0, ConcatProperties
  <1>1. PICK f : Picking(S, j, K, f) /\ Picked(j, K) = f[Len(j)]
    BY <1>01, PickedIs
  <1>2. PICK g : Picking(S, s, M, g) /\ Picked(s, M) = g[Len(s)]
    BY PickedIs
  <1>3. PICK h : Picking(S, t, T, h) /\ Picked(t, T) = h[Len(t)]
    BY PickedIs
  <1>4. PICK m \in 0 .. Len(j) : m = Len(s) /\ m \in Nat /\ m <= Len(j) /\ m <= Len(s)
    BY <1>02
  <1>40. PICK ls, lt : ls = Len(j) /\ lt = Len(t)
    OBVIOUS
  <1>5. f[m] = g[m]
    <2>1. \A n \in 1 .. m : j[n] = s[n] /\ (n \in K <=> n \in M)
      <3> SUFFICES ASSUME NEW n \in 1 .. m
                   PROVE  j[n] = s[n] /\ (n \in K <=> n \in M)
        OBVIOUS
      <3>1. n \in 1 .. Len(s) + Len(t) /\ n <= Len(s) /\ n \in 1 .. Len(s)
        BY <1>4
      <3>2. j[n] = s[n]
        BY <1>03, <3>1
      <3> QED
        BY <3>1, <3>2
    <2>2. m \in Nat /\ m <= Len(j) /\ m <= Len(s)
      BY <1>4
    <2> QED
      BY <1>01, <1>1, <1>2, <2>1, <2>2, PickingSame
  <1>6. Joins(f[ls], f[m], h[lt])
    <2>1. \A n \in 1 .. lt : j[m + n] = t[n] /\ (m + n \in K <=> n \in T)
      <3> SUFFICES ASSUME NEW n \in 1 .. lt
                   PROVE  j[m + n] = t[n] /\ (m + n \in K <=> n \in T)
        OBVIOUS
      <3>1. m + n \in 1 .. Len(s) + Len(t) /\ ~(m + n <= Len(s)) /\ m + n - Len(s) = n
        BY <1>4, <1>40
      <3>2. j[m + n] = t[n]
        BY <1>03, <3>1
      <3> QED
        BY <1>4, <1>40, <3>2
    <2>2. ls = m + lt
      BY <1>02, <1>4, <1>40
    <2>3. Continues(j, K, t, T, m)
      BY <1>40, <2>1, <2>2 DEF Continues
    <2> QED
      <3>1. Joins(f[Len(j)], f[m], h[Len(t)])
        <4>1. Picking(S, j, K, f) /\ Picking(S, t, T, h) /\ j \in Seq(S) /\ m \in 0 .. Len(j)
          BY <1>01, <1>1, <1>3
        <4> QED
          BY <4>1, <2>3, PickingBehind
      <3> QED
        BY <1>40, <3>1
  <1> QED
    BY <1>0, <1>1, <1>2, <1>3, <1>4, <1>40, <1>5, <1>6 DEF Joins

-----------------------------------------------------------------------------
(* A call of convert_segment, write by write.                              *)

(* Its writes are those from Base + 1 to Final, WriteTotal of them.        *)
Base(s, seg)  == IF seg = "intro" THEN 0 ELSE s.loop_write
Final(s, seg) == IF seg = "intro" /\ s.has_loop THEN s.loop_write ELSE Len(s.writes)
WriteTotal(s, seg) == Final(s, seg) - Base(s, seg)

(* The writes of a segment are a stretch of the song's.                    *)
LEMMA SegmentSpan ==
  ASSUME NEW s, NEW seg, IsSegment(s, seg)
  PROVE  /\ Base(s, seg) \in Nat /\ Final(s, seg) \in Nat /\ Base(s, seg) <= Final(s, seg)
         /\ Len(s.writes) \in Nat /\ Final(s, seg) <= Len(s.writes)
         /\ WriteTotal(s, seg) \in Nat
         /\ SegmentWrites(s, seg) = Base(s, seg) + 1 .. Final(s, seg)
  <1>1. /\ s.loop_write \in Nat /\ Len(s.writes) \in Nat
        /\ s.has_loop => s.loop_write <= Len(s.writes)
        /\ ~s.has_loop => s.loop_write = 0
    BY WritesOfSegment DEF IsSegment, WellFormed, vgm_song
  <1>2. seg # "intro" => s.has_loop
    BY DEF IsSegment
  <1>3. SegmentWrites(s, seg) = Base(s, seg) + 1 .. Final(s, seg)
    BY DEF SegmentWrites, Base, Final
  <1>4. /\ Base(s, seg) \in Nat /\ Final(s, seg) \in Nat /\ Base(s, seg) <= Final(s, seg)
        /\ Final(s, seg) <= Len(s.writes)
    BY <1>1, <1>2 DEF Base, Final
  <1> QED
    BY <1>1, <1>3, <1>4 DEF WriteTotal

(* The two passes of the loop are the same stretch of the song.            *)
Part(seg) == IF seg = "intro" THEN "intro" ELSE "first"

(* The two passes of the loop are of the same writes and frames.           *)
LEMMA PartOfSong ==
  ASSUME NEW s, NEW seg, IsSegment(s, seg)
  PROVE  /\ IsSegment(s, Part(seg))
         /\ Base(s, Part(seg)) = Base(s, seg) /\ Final(s, Part(seg)) = Final(s, seg)
         /\ WriteTotal(s, Part(seg)) = WriteTotal(s, seg)
         /\ SegmentWrites(s, Part(seg)) = SegmentWrites(s, seg)
         /\ FrameTotal(s, Part(seg)) = FrameTotal(s, seg)
         /\ \A k : FrameOf(s, Part(seg), k) = FrameOf(s, seg, k)
  <1>1. CASE seg = "intro"
    BY <1>1 DEF Part
  <1>2. CASE seg # "intro"
    <2>1. seg = "first" \/ seg = "steady"
      BY <1>2 DEF IsSegment, Segment
    <2>2. Part(seg) = "first" /\ IsSegment(s, "first")
      BY <1>2 DEF Part, IsSegment, Segment
    <2>3. /\ FrameTotal(s, "first") = FrameTotal(s, seg)
          /\ SegmentWrites(s, "first") = SegmentWrites(s, seg)
          /\ \A k : FrameOf(s, "first", k) = FrameOf(s, seg, k)
      BY <2>1, PassesAlike DEF FrameOf, StartSample, SegmentWrites
    <2>4. Base(s, "first") = Base(s, seg) /\ Final(s, "first") = Final(s, seg)
      BY <1>2 DEF Base, Final
    <2> QED
      BY <2>2, <2>3, <2>4 DEF WriteTotal
  <1> QED
    BY <1>1, <1>2

PassFrames(s, seg) == [0 .. FrameTotal(s, seg) - 1 -> Seq(Write)]

(* The converter and the batches after write number k of the call.         *)
PassStep(s, seg, k, x) ==
  LET m == Base(s, seg) + k + 1
      w == s.writes[m]
  IN  IF m > Final(s, seg) THEN x
      ELSE << Converted(x[1], w.reg, w.value),
              [x[2] EXCEPT ![FrameOf(s, seg, m)] = @ \o Emission(x[1], w.reg, w.value)] >>

IsPass(s, seg, c, f) ==
  /\ f \in [Nat -> Converter \X PassFrames(s, seg)]
  /\ f[0] = << c, [n \in 0 .. FrameTotal(s, seg) - 1 |-> <<>>] >>
  /\ \A k \in Nat : f[k + 1] = PassStep(s, seg, k, f[k])

(* A write of the segment, and what it does to a pass.                     *)
LEMMA PassStepIsTyped ==
  ASSUME NEW s, NEW seg, IsSegment(s, seg), NEW k \in Nat,
         NEW x \in Converter \X PassFrames(s, seg)
  PROVE  PassStep(s, seg, k, x) \in Converter \X PassFrames(s, seg)
  <1> DEFINE m == Base(s, seg) + k + 1
             w == s.writes[m]
             n == FrameOf(s, seg, m)
             c == x[1]
             fr == x[2]
  <1>1. c \in Converter /\ fr \in PassFrames(s, seg)
    OBVIOUS
  <1>2. Base(s, seg) \in Nat /\ Final(s, seg) \in Nat
        /\ SegmentWrites(s, seg) = Base(s, seg) + 1 .. Final(s, seg)
    BY SegmentSpan
  <1>3. CASE m > Final(s, seg)
    BY <1>3 DEF PassStep
  <1>4. CASE ~(m > Final(s, seg))
    <2>1. m \in SegmentWrites(s, seg)
      BY <1>2, <1>4
    <2>2. w \in [sample : Nat, reg : Reg, value : Byte]
      BY <2>1, WritesOfSegment
    <2>3. w.reg \in Reg /\ w.value \in Byte
      BY <2>2
    <2>4. n \in 0 .. FrameTotal(s, seg) - 1
      BY <2>1, FramesOfSegment
    <2>5. PassStep(s, seg, k, x) = << Converted(c, w.reg, w.value),
                                     [fr EXCEPT ![n] = fr[n] \o Emission(c, w.reg, w.value)] >>
      BY <1>4 DEF PassStep
    <2> HIDE DEF m, w, n, c, fr
    <2>6. /\ Converted(c, w.reg, w.value) \in Converter
          /\ Emission(c, w.reg, w.value) \in Seq(Write)
      BY <1>1, <2>3, ConvertedIsConverter, EmissionIsWrites
    <2>7. fr[n] \o Emission(c, w.reg, w.value) \in Seq(Write)
      BY <1>1, <2>4, <2>6 DEF PassFrames
    <2>8. [fr EXCEPT ![n] = fr[n] \o Emission(c, w.reg, w.value)] \in PassFrames(s, seg)
      BY <1>1, <2>4, <2>7 DEF PassFrames
    <2>9. \A p \in Converter : \A q \in PassFrames(s, seg) :
            <<p, q>> \in Converter \X PassFrames(s, seg)
      OBVIOUS
    <2> QED
      BY <2>5, <2>6, <2>8, <2>9, Zenon
  <1> QED
    BY <1>3, <1>4

(* There is a pass from every converter.                                   *)
LEMMA PassExists ==
  ASSUME NEW s, NEW seg, IsSegment(s, seg), NEW c \in Converter
  PROVE  \E f : IsPass(s, seg, c, f)
  <1> DEFINE S == Converter \X PassFrames(s, seg)
             first == << c, [n \in 0 .. FrameTotal(s, seg) - 1 |-> <<>>] >>
             go == [k \in Nat |-> [x \in S |-> PassStep(s, seg, k, x)]]
  <1>1. first \in S
    <2>1. <<>> \in Seq(Write)
      BY EmptySeq
    <2>2. [n \in 0 .. FrameTotal(s, seg) - 1 |-> <<>>] \in PassFrames(s, seg)
      BY <2>1 DEF PassFrames
    <2> QED
      BY <2>2
  <1>2. \A k \in Nat : \A x \in S : PassStep(s, seg, k, x) \in S
    BY PassStepIsTyped
  <1> HIDE DEF S, first
  <1>3. go \in Stepper(S)
    BY <1>2 DEF Stepper
  <1>4. \A k \in Nat : \A x \in S : go[k][x] = PassStep(s, seg, k, x)
    OBVIOUS
  <1> HIDE DEF go
  <1>5. PICK f : Steps(S, first, go, f)
    BY <1>1, <1>3, StepByStep
  <1>6. f \in [Nat -> S] /\ f[0] = first /\ \A k \in Nat : f[k + 1] = PassStep(s, seg, k, f[k])
    BY <1>4, <1>5 DEF Steps
  <1>7. IsPass(s, seg, c, f)
    BY <1>6 DEF IsPass, S, first
  <1> QED
    BY <1>7

(* A pass begins with its converter and no writes, and keeps the types.    *)
LEMMA PassBegun ==
  ASSUME NEW s, NEW seg, NEW c, NEW f, IsPass(s, seg, c, f)
  PROVE  /\ f[0][1] = c
         /\ \A n \in 0 .. FrameTotal(s, seg) - 1 : f[0][2][n] = <<>>
         /\ \A k \in Nat : f[k][1] \in Converter /\ f[k][2] \in PassFrames(s, seg)
  <1>1. \A k \in Nat : f[k] \in Converter \X PassFrames(s, seg)
    BY DEF IsPass
  <1>2. \A k \in Nat : f[k][1] \in Converter /\ f[k][2] \in PassFrames(s, seg)
    <2> SUFFICES ASSUME NEW k \in Nat
                 PROVE  f[k][1] \in Converter /\ f[k][2] \in PassFrames(s, seg)
      OBVIOUS
    <2>1. PICK x \in Converter \X PassFrames(s, seg) : x = f[k]
      BY <1>1
    <2>2. x[1] \in Converter /\ x[2] \in PassFrames(s, seg)
      BY <2>1
    <2> QED
      BY <2>1, <2>2
  <1> DEFINE none == [n \in 0 .. FrameTotal(s, seg) - 1 |-> <<>>]
  <1>3. f[0] = <<c, none>>
    BY DEF IsPass
  <1>4. \A n \in 0 .. FrameTotal(s, seg) - 1 : none[n] = <<>>
    OBVIOUS
  <1> HIDE DEF none
  <1>5. f[0][1] = c /\ f[0][2] = none
    BY <1>3
  <1> QED
    BY <1>2, <1>4, <1>5

(* The write after k of a pass, its frame, and the converter it meets.     *)
WriteOfPass(s, seg, f, k, m, n, reg, value, d) ==
  /\ k \in 0 .. WriteTotal(s, seg) - 1 /\ m = Base(s, seg) + k + 1
  /\ n = FrameOf(s, seg, m) /\ reg = s.writes[m].reg /\ value = s.writes[m].value
  /\ d = f[k][1]

(* One write of a pass.                                                    *)
LEMMA PassGoes ==
  ASSUME NEW s, NEW seg, IsSegment(s, seg), NEW c, NEW f, IsPass(s, seg, c, f),
         NEW k, NEW m, NEW n, NEW reg, NEW value, NEW d,
         WriteOfPass(s, seg, f, k, m, n, reg, value, d)
  PROVE  /\ m \in SegmentWrites(s, seg) /\ m \in 1 .. Len(s.writes)
         /\ reg \in Reg /\ value \in Byte /\ d \in Converter
         /\ n \in 0 .. FrameTotal(s, seg) - 1
         /\ f[k][2] \in PassFrames(s, seg) /\ Emission(d, reg, value) \in Seq(Write)
         /\ f[k + 1][1] = Converted(d, reg, value)
         /\ Joins(f[k + 1][2][n], f[k][2][n], Emission(d, reg, value))
         /\ \A j \in 0 .. FrameTotal(s, seg) - 1 : j # n => f[k + 1][2][j] = f[k][2][j]
  <1> USE DEF WriteOfPass
  <1>1. /\ Base(s, seg) \in Nat /\ Final(s, seg) \in Nat
        /\ SegmentWrites(s, seg) = Base(s, seg) + 1 .. Final(s, seg)
        /\ WriteTotal(s, seg) = Final(s, seg) - Base(s, seg)
    BY SegmentSpan DEF WriteTotal
  <1>2. k \in Nat /\ ~(m > Final(s, seg)) /\ m \in Base(s, seg) + 1 .. Final(s, seg)
    BY <1>1
  <1>3. m \in SegmentWrites(s, seg)
    BY <1>1, <1>2
  <1>4. s.writes[m] \in [sample : Nat, reg : Reg, value : Byte] /\ m \in 1 .. Len(s.writes)
    BY <1>3, WritesOfSegment
  <1>5. reg \in Reg /\ value \in Byte
    BY <1>4
  <1>6. n \in 0 .. FrameTotal(s, seg) - 1
    BY <1>3, FramesOfSegment
  <1>7. d \in Converter /\ f[k][2] \in PassFrames(s, seg)
    BY <1>2, PassBegun
  <1>8. Emission(d, reg, value) \in Seq(Write)
    BY <1>5, <1>7, EmissionIsWrites
  <1> DEFINE more == f[k][2][n] \o Emission(d, reg, value)
             grown == [f[k][2] EXCEPT ![n] = more]
  <1>9. f[k + 1] = << Converted(d, reg, value), grown >>
    BY <1>2 DEF IsPass, PassStep
  <1>10. grown[n] = more /\ \A j \in 0 .. FrameTotal(s, seg) - 1 : j # n => grown[j] = f[k][2][j]
    BY <1>6, <1>7 DEF PassFrames
  <1> HIDE DEF grown
  <1>11. f[k + 1][1] = Converted(d, reg, value) /\ f[k + 1][2] = grown
    BY <1>9
  <1>12. Joins(f[k + 1][2][n], f[k][2][n], Emission(d, reg, value))
    BY <1>10, <1>11 DEF Joins
  <1> QED
    BY <1>3, <1>4, <1>5, <1>6, <1>7, <1>8, <1>10, <1>11, <1>12

(* Passes from converters that are alike batch the same.                   *)
LEMMA AlikePasses ==
  ASSUME NEW s, NEW seg, IsSegment(s, seg), NEW c, NEW d, Alike(c, d),
         NEW f, IsPass(s, seg, c, f), NEW g, IsPass(s, seg, d, g)
  PROVE  f[WriteTotal(s, seg)][2] = g[WriteTotal(s, seg)][2]
  <1>0. PICK L \in Nat : L = WriteTotal(s, seg)
    BY SegmentSpan
  <1> DEFINE D == 0 .. FrameTotal(s, seg) - 1
             K == {k \in 0 .. L : Alike(f[k][1], g[k][1]) /\ \A j \in D : f[k][2][j] = g[k][2][j]}
  <1>1. 0 \in K
    BY PassBegun
  <1>2. ASSUME NEW k \in 0 .. L - 1, k \in K
        PROVE  k + 1 \in K
    <2>1. PICK m : m = Base(s, seg) + k + 1
      OBVIOUS
    <2>2. PICK n : n = FrameOf(s, seg, m)
      OBVIOUS
    <2>3. PICK reg, value : reg = s.writes[m].reg /\ value = s.writes[m].value
      OBVIOUS
    <2>4. PICK x, y : x = f[k][1] /\ y = g[k][1]
      OBVIOUS
    <2>5. k \in 0 .. WriteTotal(s, seg) - 1 /\ k + 1 \in 0 .. L
      BY <1>0
    <2>w. /\ WriteOfPass(s, seg, f, k, m, n, reg, value, x)
          /\ WriteOfPass(s, seg, g, k, m, n, reg, value, y)
      BY <2>1, <2>2, <2>3, <2>4, <2>5 DEF WriteOfPass
    <2>6. /\ reg \in Reg /\ value \in Byte /\ x \in Converter /\ n \in D
          /\ f[k + 1][1] = Converted(x, reg, value)
          /\ Joins(f[k + 1][2][n], f[k][2][n], Emission(x, reg, value))
          /\ \A j \in D : j # n => f[k + 1][2][j] = f[k][2][j]
      BY <2>w, PassGoes
    <2>7. /\ y \in Converter /\ g[k + 1][1] = Converted(y, reg, value)
          /\ Joins(g[k + 1][2][n], g[k][2][n], Emission(y, reg, value))
          /\ \A j \in D : j # n => g[k + 1][2][j] = g[k][2][j]
      <3>1. y \in Converter /\ g[k + 1][1] = Converted(y, reg, value)
        BY <2>w, PassGoes
      <3>2. Joins(g[k + 1][2][n], g[k][2][n], Emission(y, reg, value))
        BY <2>w, PassGoes
      <3>3. \A j \in D : j # n => g[k + 1][2][j] = g[k][2][j]
        BY <2>w, PassGoes
      <3> QED
        BY <3>1, <3>2, <3>3
    <2>8. Alike(x, y) /\ \A j \in D : f[k][2][j] = g[k][2][j]
      BY <1>2, <2>4
    <2>9. Emission(x, reg, value) = Emission(y, reg, value)
      BY <2>6, <2>7, <2>8, AlikeSend
    <2>10. Alike(f[k + 1][1], g[k + 1][1])
      BY <2>6, <2>7, <2>8, AlikeStay
    <2>11. f[k + 1][2][n] = g[k + 1][2][n]
      BY <2>6, <2>7, <2>8, <2>9 DEF Joins
    <2>12. \A j \in D : f[k + 1][2][j] = g[k + 1][2][j]
      BY <2>6, <2>7, <2>8, <2>11
    <2> QED
      BY <2>5, <2>10, <2>12
  <1> HIDE DEF K
  <1>3. 0 .. L \subseteq K
    BY <1>1, <1>2, EveryNumberUpTo
  <1>4. L \in K
    BY <1>3
  <1>5. PICK a \in PassFrames(s, seg) : a = f[L][2]
    BY PassBegun
  <1>6. PICK b \in PassFrames(s, seg) : b = g[L][2]
    BY PassBegun
  <1>7. \A j \in D : a[j] = b[j]
    BY <1>4, <1>5, <1>6 DEF K
  <1>8. a = b
    <2>1. a \in [D -> Seq(Write)] /\ b \in [D -> Seq(Write)]
      BY DEF PassFrames
    <2> HIDE DEF D
    <2> QED
      BY <1>7, <2>1
  <1> QED
    BY <1>0, <1>5, <1>6, <1>8

-----------------------------------------------------------------------------
(* The stream of the batches, frame by frame.                              *)
Streams(fr, h) ==
  /\ h \in [Nat -> Seq(Pair)]
  /\ h[0] = <<>>
  /\ \A k \in Nat : h[k + 1] = IF k \in DOMAIN fr
                               THEN h[k] \o << CountPair(Len(fr[k])) >> \o fr[k]
                               ELSE h[k]

(* Every row of frames has its streams.                                    *)
LEMMA StreamExists ==
  ASSUME NEW D, NEW fr \in [D -> Seq(Write)]
  PROVE  \E h : Streams(fr, h)
  <1>0. PICK S : S = Seq(Pair)
    OBVIOUS
  <1> DEFINE Rec(k) == << CountPair(Len(fr[k])) >>
             go == [k \in Nat |-> [x \in S |-> IF k \in D THEN x \o Rec(k) \o fr[k] ELSE x]]
  <1>1. <<>> \in S
    BY <1>0, EmptySeq
  <1>2. ASSUME NEW k \in D, NEW x \in S
        PROVE  x \o Rec(k) \o fr[k] \in S
    <2> DEFINE n == Len(fr[k])
    <2>1. fr[k] \in S /\ n \in Nat
      BY <1>0, SeqMonotonic, WriteIsPair
    <2> HIDE DEF n
    <2>2. CountBase \in Nat \ {0} /\ CountBase <= 256
      BY CountAssumption
    <2>3. n \div CountBase \in Nat /\ n % CountBase \in 0 .. CountBase - 1
      BY <2>1, <2>2, DivMod
    <2>4. (n \div CountBase) % CountBase \in 0 .. CountBase - 1
      BY <2>2, <2>3, DivMod
    <2>5. CountPair(n) \in Pair
      <3> DEFINE u == (n \div CountBase) % CountBase
                 v == n % CountBase
      <3>1. u \in 0 .. 255 /\ v \in 0 .. 255
        <4>1. \A w \in 0 .. CountBase - 1 : w \in 0 .. 255
          BY <2>2
        <4> QED
          BY <2>3, <2>4, <4>1
      <3>2. CountPair(n) = <<u, v>>
        BY DEF CountPair
      <3> HIDE DEF u, v
      <3>3. \A p, q \in 0 .. 255 : <<p, q>> \in Pair
        BY DEF Pair
      <3> QED
        BY <3>1, <3>2, <3>3
    <2>6. Rec(k) \in S
      BY <1>0, <2>5 DEF n
    <2> HIDE DEF Rec
    <2>7. x \o Rec(k) \in S
      BY <1>0, <2>6
    <2> QED
      BY <1>0, <2>1, <2>7
  <1> HIDE DEF Rec
  <1>3. go \in Stepper(S)
    BY <1>2 DEF Stepper
  <1>4. \A k \in Nat : \A x \in S : go[k][x] = IF k \in D THEN x \o Rec(k) \o fr[k] ELSE x
    OBVIOUS
  <1> HIDE DEF go
  <1>5. PICK h : Steps(S, <<>>, go, h)
    BY <1>1, <1>3, StepByStep
  <1>6. DOMAIN fr = D
    OBVIOUS
  <1>7. Streams(fr, h)
    BY <1>0, <1>4, <1>5, <1>6 DEF Streams, Steps, Rec
  <1> QED
    BY <1>7

(* It is the only one.                                                     *)
LEMMA StreamIsOne ==
  ASSUME NEW fr, NEW g, Streams(fr, g), NEW h, Streams(fr, h)
  PROVE  \A k \in Nat : g[k] = h[k]
  <1> DEFINE K == {k \in Nat : g[k] = h[k]}
  <1>1. 0 \in K
    BY DEF Streams
  <1>2. ASSUME NEW k \in Nat, g[k] = h[k]
        PROVE  g[k + 1] = h[k + 1]
    <2>1. CASE k \in DOMAIN fr
      BY <1>2, <2>1 DEF Streams
    <2>2. CASE k \notin DOMAIN fr
      BY <1>2, <2>2 DEF Streams
    <2> QED
      BY <2>1, <2>2
  <1>3. \A k \in Nat : k \in K => k + 1 \in K
    BY <1>2
  <1> HIDE DEF K
  <1>4. Nat \subseteq K
    BY <1>1, <1>3, EveryNumber
  <1> QED
    BY <1>4 DEF K
-----------------------------------------------------------------------------
(* What the converter remembers of the writes.                             *)

LastOfSong(s, n, regs) ==
  LET At == {k \in 1 .. n : s.writes[k].reg \in regs}
  IN  IF At = {} THEN 0 ELSE s.writes[LastOf(At)].value

Remembers(s, c, n) ==
  /\ c.source_clock = s.clock_hz
  /\ \A r \in Reg \cap (PsgPeriod \cup Noise) : c.source[r] = LastOfSong(s, n, {r})
  /\ Adapts(c) => /\ c.fm_high_latch = LastOfSong(s, n, FmHigh)
                  /\ c.fm_channel3_high_latch = LastOfSong(s, n, Fm3High)

(* What was last when a segment begins: the steady pass follows the loop.  *)
Before(s, seg) == IF seg = "steady" THEN Len(s.writes) ELSE Base(s, seg)

(* What was last when write number n of the segment has been made.         *)
LastInPass(s, seg, n, regs) ==
  IF seg = "steady" /\ \A k \in Base(s, seg) + 1 .. n : s.writes[k].reg \notin regs
  THEN LastOfSong(s, Len(s.writes), regs)
  ELSE LastOfSong(s, n, regs)

Recalls(s, seg, c, n) ==
  /\ c.source_clock = s.clock_hz
  /\ \A r \in Reg \cap (PsgPeriod \cup Noise) : c.source[r] = LastInPass(s, seg, n, {r})
  /\ Adapts(c) => /\ c.fm_high_latch = LastInPass(s, seg, n, FmHigh)
                  /\ c.fm_channel3_high_latch = LastInPass(s, seg, n, Fm3High)

(* One more write: what was last of these registers, and what is known.    *)
LEMMA LastNext ==
  ASSUME NEW s, NEW n \in Nat, NEW regs
  PROVE  LastOfSong(s, n + 1, regs)
           = IF s.writes[n + 1].reg \in regs THEN s.writes[n + 1].value
                                             ELSE LastOfSong(s, n, regs)
  <1> DEFINE At == {k \in 1 .. n : s.writes[k].reg \in regs}
             More == {k \in 1 .. n + 1 : s.writes[k].reg \in regs}
  <1>1. CASE s.writes[n + 1].reg \in regs
    <2>1. n + 1 \in More /\ More \subseteq 1 .. n + 1 /\ More # {}
      BY <1>1
    <2> HIDE DEF More
    <2>2. PICK m \in Nat : m = n + 1
      OBVIOUS
    <2>3. LastOf(More) \in More /\ \A j \in More : j <= LastOf(More)
      BY <2>1, <2>2, LastOfIsLast
    <2>4. LastOf(More) = n + 1
      <3>1. n + 1 <= LastOf(More) /\ LastOf(More) \in 1 .. n + 1
        BY <2>1, <2>3
      <3> QED
        BY <3>1
    <2> QED
      BY <1>1, <2>1, <2>4 DEF LastOfSong, More
  <1>2. CASE s.writes[n + 1].reg \notin regs
    <2>1. More = At
      BY <1>2
    <2> QED
      BY <1>2, <2>1 DEF LastOfSong
  <1> QED
    BY <1>1, <1>2

(* Of the pass too, which ends with what was last of the song.             *)
LEMMA LastInPassNext ==
  ASSUME NEW s, NEW seg, IsSegment(s, seg), NEW regs,
         NEW n \in Base(s, seg) .. Final(s, seg), NEW m, m = n + 1
  PROVE  LastInPass(s, seg, m, regs)
           = IF s.writes[m].reg \in regs THEN s.writes[m].value
                                         ELSE LastInPass(s, seg, n, regs)
  <1>1. Base(s, seg) \in Nat /\ n \in Nat /\ n >= Base(s, seg)
    BY SegmentSpan
  <1>2. PICK b \in Nat : b = Base(s, seg)
    BY <1>1
  <1>3. LastOfSong(s, m, regs)
          = IF s.writes[m].reg \in regs THEN s.writes[m].value ELSE LastOfSong(s, n, regs)
    BY <1>1, LastNext
  <1>4. CASE s.writes[m].reg \in regs
    <2>1. m \in b + 1 .. m
      BY <1>1, <1>2
    <2>2. LastInPass(s, seg, m, regs) = LastOfSong(s, m, regs)
      BY <1>2, <1>4, <2>1 DEF LastInPass
    <2> QED
      BY <1>3, <1>4, <2>2
  <1>5. CASE s.writes[m].reg \notin regs
    <2>1. (\A k \in b + 1 .. m : s.writes[k].reg \notin regs)
            <=> (\A k \in b + 1 .. n : s.writes[k].reg \notin regs)
      <3>1. \A k \in b + 1 .. m : k = m \/ k \in b + 1 .. n
        BY <1>1, <1>2
      <3>2. \A k \in b + 1 .. n : k \in b + 1 .. m
        BY <1>1, <1>2
      <3> QED
        BY <1>5, <3>1, <3>2
    <2> QED
      BY <1>2, <1>3, <1>5, <2>1 DEF LastInPass
  <1> QED
    BY <1>4, <1>5

(* The last write of a pass, at its two ends, is the last of the song      *)
(* there.                                                                  *)
LEMMA LastInPassEnds ==
  ASSUME NEW s, NEW seg, IsSegment(s, seg), NEW regs
  PROVE  /\ LastInPass(s, seg, Base(s, seg), regs) = LastOfSong(s, Before(s, seg), regs)
         /\ LastInPass(s, seg, Final(s, seg), regs) = LastOfSong(s, Final(s, seg), regs)
  <1>1. PICK b \in Nat : b = Base(s, seg)
    BY SegmentSpan
  <1>2. b + 1 .. b = {}
    OBVIOUS
  <1>3. seg = "steady" => Final(s, seg) = Len(s.writes)
    BY DEF Final
  <1> QED
    BY <1>1, <1>2, <1>3 DEF LastInPass, Before

(* One more write, and the converter recalls it too.                       *)
LEMMA RecallsNext ==
  ASSUME NEW s, NEW seg, IsSegment(s, seg), NEW c \in Converter,
         NEW n \in Base(s, seg) .. Final(s, seg), Recalls(s, seg, c, n), NEW m, m = n + 1,
         NEW reg \in Reg, NEW value \in Byte, s.writes[m].reg = reg, s.writes[m].value = value
  PROVE  Recalls(s, seg, Converted(c, reg, value), m)
  <1> DEFINE d == Converted(c, reg, value)
  <1>2. \A regs : LastInPass(s, seg, m, regs)
                    = IF reg \in regs THEN value ELSE LastInPass(s, seg, n, regs)
    BY LastInPassNext
  <1>3. /\ d.source = [c.source EXCEPT ![reg] = value]
        /\ d.source_clock = c.source_clock /\ d.pitch_conversion = c.pitch_conversion
        /\ d.fm_high_latch = IF Adapts(c) /\ reg \in FmHigh THEN value ELSE c.fm_high_latch
        /\ d.fm_channel3_high_latch =
             IF Adapts(c) /\ reg \in Fm3High THEN value ELSE c.fm_channel3_high_latch
    BY ConvertedFields
  <1> HIDE DEF d
  <1>4. Adapts(d) <=> Adapts(c)
    BY <1>3 DEF Adapts
  <1>5. ASSUME NEW r \in Reg \cap (PsgPeriod \cup Noise)
        PROVE  d.source[r] = LastInPass(s, seg, m, {r})
    <2>1. c.source \in [Reg -> Byte] /\ r \in Reg /\ c.source[r] = LastInPass(s, seg, n, {r})
      BY DEF Converter, Recalls
    <2>2. d.source[r] = IF r = reg THEN value ELSE c.source[r]
      BY <1>3, <2>1
    <2>3. LastInPass(s, seg, m, {r}) = IF reg \in {r} THEN value ELSE LastInPass(s, seg, n, {r})
      BY <1>2
    <2> QED
      BY <2>1, <2>2, <2>3
  <1>6. Adapts(d) => /\ d.fm_high_latch = LastInPass(s, seg, m, FmHigh)
                     /\ d.fm_channel3_high_latch = LastInPass(s, seg, m, Fm3High)
    BY <1>2, <1>3, <1>4 DEF Recalls
  <1>7. d.source_clock = s.clock_hz
    BY <1>3 DEF Recalls
  <1>8. Recalls(s, seg, d, m)
    BY <1>5, <1>6, <1>7 DEF Recalls
  <1> QED
    BY <1>8 DEF d

(* The target registers are forgotten; what the source wrote is not.       *)
LEMMA ForgettingRemembers ==
  ASSUME NEW s, NEW c \in Converter, NEW n, Remembers(s, c, n)
  PROVE  /\ Remembers(s, ForgetTarget(c), n)
         /\ ForgetTarget(c).pitch_conversion = c.pitch_conversion
         /\ ForgetTarget(c).target_known = [r \in Reg |-> FALSE]
  <1>1. /\ ForgetTarget(c).source = c.source
        /\ ForgetTarget(c).source_clock = c.source_clock
        /\ ForgetTarget(c).pitch_conversion = c.pitch_conversion
        /\ ForgetTarget(c).fm_high_latch = c.fm_high_latch
        /\ ForgetTarget(c).fm_channel3_high_latch = c.fm_channel3_high_latch
        /\ ForgetTarget(c).target_known = [r \in Reg |-> FALSE]
    BY DEF ForgetTarget, Converter
  <1> QED
    BY <1>1 DEF Remembers, Adapts

(* A new converter remembers a song of no writes.                          *)
LEMMA NewRemembers ==
  ASSUME NEW s, NEW p
  PROVE  Remembers(s, NewConverter(s.clock_hz, p), 0)
  <1>1. \A regs : LastOfSong(s, 0, regs) = 0
    BY DEF LastOfSong
  <1>2. \A r \in Reg \cap (PsgPeriod \cup Noise) : NewConverter(s.clock_hz, p).source[r] = 0
    BY DEF NewConverter
  <1> QED
    BY <1>1, <1>2 DEF Remembers, NewConverter
-----------------------------------------------------------------------------
(* What a call begins with: the writes are remembered, but the cache is    *)
(* not relied on.                                                          *)
Start(s, p, c, seg) ==
  /\ c \in Converter /\ c.pitch_conversion = p
  /\ c.target_known = [r \in Reg |-> FALSE]
  /\ Remembers(s, c, Before(s, seg))

(* The first n frames have no more writes than a count of 16 bits tells.   *)
Counted16(fr, n) == \A k \in 0 .. n - 1 : Len(fr[k]) <= MaxFrameWrites

IsOutputOfPass(s, p, seg, out) ==
  \E c, f, h : /\ Start(s, p, c, seg) /\ IsPass(s, Part(seg), c, f)
               /\ Streams(f[WriteTotal(s, seg)][2], h)
               /\ Counted16(f[WriteTotal(s, seg)][2], FrameTotal(s, seg))
               /\ out = h[FrameTotal(s, seg)]

(* Write by write the settings stay, and what is remembered is the song's. *)
LEMMA PassRecalls ==
  ASSUME NEW s, NEW seg, IsSegment(s, seg), NEW p, NEW c, Start(s, p, c, seg),
         NEW f, IsPass(s, Part(seg), c, f), NEW k \in 0 .. WriteTotal(s, seg)
  PROVE  /\ Recalls(s, seg, f[k][1], Base(s, seg) + k)
         /\ f[k][1].pitch_conversion = p
  <1>0. PICK b \in Nat, L \in Nat : b = Base(s, seg) /\ L = WriteTotal(s, seg)
    BY SegmentSpan
  <1>00. PICK part : part = Part(seg)
    OBVIOUS
  <1>01. IsSegment(s, part) /\ Base(s, part) = b /\ WriteTotal(s, part) = L
    BY <1>0, <1>00, PartOfSong
  <1>02. b \in Base(s, seg) .. Final(s, seg) /\ Final(s, seg) = b + L /\ Final(s, seg) \in Nat
    BY <1>0, SegmentSpan DEF WriteTotal
  <1> DEFINE Good == {j \in 0 .. L : /\ Recalls(s, seg, f[j][1], b + j)
                                     /\ f[j][1].pitch_conversion = p}
  <1>1. 0 \in Good
    <2>1. f[0][1] = c
      BY PassBegun
    <2>2. Remembers(s, c, Before(s, seg)) /\ c.pitch_conversion = p
      BY DEF Start
    <2>3. Recalls(s, seg, c, b)
      <3>1. \A regs : LastInPass(s, seg, b, regs) = LastOfSong(s, Before(s, seg), regs)
        BY <1>0, LastInPassEnds
      <3> QED
        BY <2>2, <3>1 DEF Remembers, Recalls
    <2>4. b + 0 = b
      OBVIOUS
    <2> QED
      BY <2>1, <2>2, <2>3, <2>4
  <1>2. ASSUME NEW j \in 0 .. L - 1, j \in Good
        PROVE  j + 1 \in Good
    <2>1. PICK n \in Nat : n = b + j /\ n \in Base(s, seg) .. Final(s, seg)
      BY <1>0, <1>02
    <2>2. PICK m \in Nat : m = n + 1
      OBVIOUS
    <2>3. m = Base(s, part) + j + 1 /\ j \in 0 .. WriteTotal(s, part) - 1 /\ b + (j + 1) = m
      BY <1>01, <2>1, <2>2
    <2>4. PICK reg, value : reg = s.writes[m].reg /\ value = s.writes[m].value
      OBVIOUS
    <2>5. PICK d : d = f[j][1]
      OBVIOUS
    <2>w. WriteOfPass(s, part, f, j, m, FrameOf(s, part, m), reg, value, d)
      BY <2>3, <2>4, <2>5 DEF WriteOfPass
    <2>6. reg \in Reg /\ value \in Byte /\ d \in Converter
          /\ f[j + 1][1] = Converted(d, reg, value)
      BY <1>00, <1>01, <2>w, PassGoes
    <2>7. Recalls(s, seg, d, n) /\ d.pitch_conversion = p
      BY <1>2, <2>1, <2>5
    <2>8. Recalls(s, seg, Converted(d, reg, value), m)
      BY <2>1, <2>2, <2>4, <2>6, <2>7, RecallsNext
    <2>9. Converted(d, reg, value).pitch_conversion = p
      BY <2>6, <2>7, SettingsStay
    <2>10. j + 1 \in 0 .. L
      OBVIOUS
    <2> QED
      BY <2>3, <2>6, <2>8, <2>9, <2>10
  <1> HIDE DEF Good
  <1>3. 0 .. L \subseteq Good
    BY <1>1, <1>2, EveryNumberUpTo
  <1> QED
    BY <1>0, <1>3 DEF Good

(* A call leaves the converter what the song has written when it ends.     *)
LEMMA PassRemembers ==
  ASSUME NEW s, NEW seg, IsSegment(s, seg), NEW p, NEW c, Start(s, p, c, seg),
         NEW f, IsPass(s, Part(seg), c, f), NEW d, d = f[WriteTotal(s, seg)][1]
  PROVE  d \in Converter /\ d.pitch_conversion = p /\ Remembers(s, d, Final(s, seg))
  <1>1. PICK n \in Nat : n = WriteTotal(s, seg) /\ n \in 0 .. WriteTotal(s, seg)
                         /\ Base(s, seg) + n = Final(s, seg)
    BY SegmentSpan DEF WriteTotal
  <1>2. Recalls(s, seg, d, Final(s, seg)) /\ d.pitch_conversion = p
    BY <1>1, PassRecalls
  <1>3. \A regs : LastInPass(s, seg, Final(s, seg), regs) = LastOfSong(s, Final(s, seg), regs)
    BY LastInPassEnds
  <1>4. Remembers(s, d, Final(s, seg))
    BY <1>2, <1>3 DEF Remembers, Recalls
  <1>5. d \in Converter
    BY <1>1, PassBegun
  <1> QED
    BY <1>2, <1>4, <1>5

(* The two passes are the same when the intro and the loop leave the same, *)
(* and always when nothing is adapted.                                     *)
LEMMA PassesAreEqual ==
  ASSUME NEW s, IsSegment(s, "first"), NEW p, NEW out, NEW out2,
         IsOutputOfPass(s, p, "first", out), IsOutputOfPass(s, p, "steady", out2),
         p /\ s.clock_hz # TargetClock =>
           /\ \A r \in Reg \cap PsgPeriod :
                LastOfSong(s, s.loop_write, {r}) = LastOfSong(s, Len(s.writes), {r})
           /\ LastOfSong(s, s.loop_write, FmHigh) = LastOfSong(s, Len(s.writes), FmHigh)
           /\ LastOfSong(s, s.loop_write, Fm3High) = LastOfSong(s, Len(s.writes), Fm3High)
  PROVE  out = out2
  <1>0. PICK last \in Nat, total \in Nat :
           last = WriteTotal(s, "first") /\ total = FrameTotal(s, "first")
    BY SegmentSpan, FramesOfSegment
  <1>1. /\ WriteTotal(s, "steady") = last /\ FrameTotal(s, "steady") = total
        /\ Part("first") = "first" /\ Part("steady") = "first"
        /\ Before(s, "first") = s.loop_write /\ Before(s, "steady") = Len(s.writes)
    BY <1>0, PassesAlike DEF WriteTotal, Final, Base, Part, Before
  <1>2. PICK c, f, h : /\ Start(s, p, c, "first") /\ IsPass(s, "first", c, f)
                       /\ Streams(f[last][2], h) /\ out = h[total]
    BY <1>0, <1>1 DEF IsOutputOfPass
  <1>3. PICK d, g, e : /\ Start(s, p, d, "steady") /\ IsPass(s, "first", d, g)
                       /\ Streams(g[last][2], e) /\ out2 = e[total]
    BY <1>0, <1>1 DEF IsOutputOfPass
  <1>4. Alike(c, d)
    <2>1. /\ Remembers(s, c, s.loop_write) /\ c.pitch_conversion = p
          /\ Remembers(s, d, Len(s.writes)) /\ d.pitch_conversion = p
      BY <1>1, <1>2, <1>3 DEF Start
    <2>2. c.source_clock = d.source_clock /\ c.pitch_conversion = d.pitch_conversion
          /\ c.source_clock = s.clock_hz
      BY <2>1 DEF Remembers
    <2>3. (Adapts(c) <=> Adapts(d)) /\ (Adapts(c) => p /\ s.clock_hz # TargetClock)
      BY <2>1, <2>2 DEF Adapts
    <2>4. ASSUME Adapts(c)
          PROVE  /\ \A r \in Reg \cap PsgPeriod : c.source[r] = d.source[r]
                 /\ c.fm_high_latch = d.fm_high_latch
                 /\ c.fm_channel3_high_latch = d.fm_channel3_high_latch
      BY <2>1, <2>3, <2>4 DEF Remembers
    <2>5. \A r \in Reg : c.target_known[r] = d.target_known[r] /\ ~c.target_known[r]
      BY <1>2, <1>3 DEF Start
    <2> QED
      BY <2>2, <2>4, <2>5 DEF Alike
  <1>5. f[last][2] = g[last][2]
    BY <1>0, <1>2, <1>3, <1>4, AlikePasses
  <1>6. h[total] = e[total]
    BY <1>2, <1>3, <1>5, StreamIsOne
  <1> QED
    BY <1>2, <1>3, <1>6

-----------------------------------------------------------------------------
(* What the calls have made of the song so far.                            *)

Pitch == converter.pitch_conversion

PassBegins == step = "begin" => Start(song, Pitch, converter, segment)

(* k of the writes have been made.                                         *)
PassGoesOn ==
  step = "write" =>
    \E k \in 0 .. WriteTotal(song, segment) :
      /\ i \in SegmentWrites(song, segment) => i = Base(song, segment) + k + 1
      /\ i \notin SegmentWrites(song, segment) => k = WriteTotal(song, segment)
      /\ \E c, f : /\ Start(song, Pitch, c, segment) /\ IsPass(song, Part(segment), c, f)
                   /\ f[k] = <<converter, frames>>

PassIsAppended ==
  step = "append" =>
    \E c, f, h : /\ Start(song, Pitch, c, segment) /\ IsPass(song, Part(segment), c, f)
                 /\ f[WriteTotal(song, segment)] = <<converter, frames>>
                 /\ Streams(frames, h) /\ output[segment] = h[i] /\ Counted16(frames, i)

PassesMade ==
  step # "failed" => \A seg \in Behind : IsOutputOfPass(song, Pitch, seg, output[seg])

(* The clock is the song's throughout.                                     *)
ClockKept == converter.source_clock = song.clock_hz

PassInv == ConvertInv /\ ClockKept /\ PassBegins /\ PassGoesOn /\ PassIsAppended /\ PassesMade

(* The least of a set of numbers.                                          *)
LEMMA MinIsLeast ==
  ASSUME NEW S, S \subseteq Nat, NEW n \in S, \A m \in S : n <= m
  PROVE  Min(S) = n
  <1>1. Min(S) \in S /\ \A m \in S : Min(S) <= m
    BY DEF Min
  <1>2. n <= Min(S) /\ Min(S) <= n /\ Min(S) \in Nat /\ n \in Nat
    BY <1>1
  <1> QED
    BY <1>2

(* Step by step, what is known of the calls.                               *)
LEMMA PassesStart == Init => PassInv
  <1> SUFFICES ASSUME Init PROVE PassInv
    OBVIOUS
  <1>1. ConvertInv
    BY ConversionStarts
  <1>2. Behind = {}
    BY DEF Init, Behind
  <1>3. PassBegins
    <2>1. PICK p \in BOOLEAN : converter = NewConverter(song.clock_hz, p)
      BY DEF Init
    <2>2. Remembers(song, converter, 0)
      BY <2>1, NewRemembers
    <2>3. converter \in Converter
      BY <1>1 DEF ConvertInv, TypesHold
    <2>4. converter.target_known = [r \in Reg |-> FALSE]
      BY <2>1 DEF NewConverter
    <2>5. segment = "intro" /\ Before(song, "intro") = 0
      BY DEF Init, Before, Base
    <2>6. Start(song, Pitch, converter, segment)
      BY <2>2, <2>3, <2>4, <2>5 DEF Start, Pitch
    <2> QED
      BY <2>6 DEF PassBegins
  <1>4. PassGoesOn /\ PassIsAppended /\ PassesMade
    BY <1>2 DEF Init, PassGoesOn, PassIsAppended, PassesMade
  <1>5. ClockKept
    BY DEF Init, NewConverter, ClockKept
  <1> QED
    BY <1>1, <1>3, <1>4, <1>5 DEF PassInv

(* A call begins.                                                          *)
LEMMA BeginKeepsPass ==
  ASSUME PassInv, BeginSegment
  PROVE  PassBegins' /\ PassGoesOn' /\ PassIsAppended' /\ PassesMade'
  <1> USE DEF BeginSegment
  <1> DEFINE S == SegmentWrites(song, segment) \cup {Len(song.writes) + 1}
  <1>1. TypesHold /\ IsSegment(song, segment) /\ ConvertInv
    BY SegmentOfConversion DEF PassInv, ConvertInv
  <1>2. /\ i' = Min(S) /\ step = "begin" /\ step' = "write"
        /\ UNCHANGED <<song, segment, converter, output>> /\ Pitch' = Pitch
        /\ frames' = [k \in 0 .. FrameTotal(song, segment) - 1 |-> <<>>]
    BY DEF Pitch
  <1>3. Behind' = Behind
    BY DEF Behind
  <1>4. PassesMade'
    BY <1>2, <1>3 DEF PassInv, PassesMade
  <1>5. PassBegins' /\ PassIsAppended'
    BY <1>2 DEF PassBegins, PassIsAppended
  <1>6. PICK b \in Nat, last \in Nat, n \in Nat :
          /\ b = Base(song, segment) /\ last = Final(song, segment) /\ n = Len(song.writes)
          /\ b <= last /\ last <= n /\ SegmentWrites(song, segment) = b + 1 .. last
          /\ WriteTotal(song, segment) = last - b
    BY <1>1, SegmentSpan DEF WriteTotal
  <1>7. /\ i' \in SegmentWrites(song, segment) => i' = b + 0 + 1
        /\ i' \notin SegmentWrites(song, segment) => 0 = last - b
    <2>1. CASE b = last
      <3>1. b + 1 .. last = {}
        BY <2>1
      <3> QED
        BY <1>6, <2>1, <3>1
    <2>2. CASE b # last
      <3>1. b + 1 \in S /\ S \subseteq Nat /\ \A k \in S : b + 1 <= k
        BY <1>6, <2>2
      <3> HIDE DEF S
      <3>2. PICK first \in Nat : first = b + 1
        OBVIOUS
      <3>3. Min(S) = first
        BY <3>1, <3>2, MinIsLeast
      <3>4. i' = b + 1
        BY <1>2, <3>2, <3>3
      <3>5. b + 1 \in b + 1 .. last
        BY <1>6, <2>2
      <3> QED
        BY <1>6, <3>4, <3>5
    <2> QED
      BY <2>1, <2>2
  <1>8. Start(song, Pitch, converter, segment) /\ converter \in Converter
    BY <1>1, <1>2 DEF PassInv, PassBegins, TypesHold
  <1>9. PICK f : IsPass(song, Part(segment), converter, f)
    BY <1>1, <1>8, PartOfSong, PassExists
  <1>10. f[0] = <<converter, frames'>>
    BY <1>1, <1>2, <1>9, PartOfSong DEF IsPass
  <1>11. PassGoesOn'
    <2>1. 0 \in 0 .. last - b
      BY <1>6
    <2>2. \E c, g : /\ Start(song, Pitch, c, segment) /\ IsPass(song, Part(segment), c, g)
                    /\ g[0] = <<converter, frames'>>
      BY <1>8, <1>9, <1>10
    <2>3. \E k \in 0 .. last - b :
            /\ i' \in SegmentWrites(song, segment) => i' = b + k + 1
            /\ i' \notin SegmentWrites(song, segment) => k = last - b
            /\ \E c, g : /\ Start(song, Pitch, c, segment) /\ IsPass(song, Part(segment), c, g)
                         /\ g[k] = <<converter, frames'>>
      BY <1>7, <2>1, <2>2
    <2> QED
      BY <1>2, <1>6, <2>3 DEF PassGoesOn
  <1> QED
    BY <1>4, <1>5, <1>11

(* A call goes on, by one write.                                           *)
LEMMA WriteKeepsPass ==
  ASSUME PassInv, ConvertWrite
  PROVE  PassBegins' /\ PassGoesOn' /\ PassIsAppended' /\ PassesMade'
  <1> USE DEF ConvertWrite
  <1> DEFINE w == song.writes[i]
             n == FrameOf(song, segment, i)
             em == Emission(converter, w.reg, w.value)
             c2 == Converted(converter, w.reg, w.value)
  <1>1. TypesHold /\ IsSegment(song, segment) /\ ConvertInv
    BY SegmentOfConversion DEF PassInv, ConvertInv
  <1>2. /\ i \in SegmentWrites(song, segment) /\ i \in Nat /\ converter \in Converter
        /\ step = "write" /\ i' = i + 1 /\ converter' = c2
        /\ frames' = [frames EXCEPT ![n] = frames[n] \o em]
        /\ UNCHANGED <<song, segment, step, output>>
    BY <1>1 DEF TypesHold
  <1>3. w \in [sample : Nat, reg : Reg, value : Byte]
    BY <1>1, <1>2, WritesOfSegment
  <1>4. w.reg \in Reg /\ w.value \in Byte
    BY <1>3
  <1>5. Pitch' = Pitch
    <2>1. c2.pitch_conversion = converter.pitch_conversion
      BY <1>2, <1>4, SettingsStay
    <2> QED
      BY <1>2, <2>1 DEF Pitch
  <1>6. /\ Base(song, Part(segment)) = Base(song, segment)
        /\ Final(song, Part(segment)) = Final(song, segment)
        /\ FrameOf(song, Part(segment), i) = n
    BY <1>1, PartOfSong
  <1> HIDE DEF c2, em, n
  <1>7. Behind' = Behind
    BY <1>2 DEF Behind
  <1>8. PassesMade'
    BY <1>2, <1>5, <1>7 DEF PassInv, PassesMade
  <1>9. PassBegins' /\ PassIsAppended'
    BY <1>2 DEF PassBegins, PassIsAppended
  <1>10. PICK b \in Nat, last \in Nat :
          /\ b = Base(song, segment) /\ last = Final(song, segment)
          /\ b <= last /\ SegmentWrites(song, segment) = b + 1 .. last
          /\ WriteTotal(song, segment) = last - b
    BY <1>1, SegmentSpan DEF WriteTotal
  <1>11. PICK k \in 0 .. last - b :
           /\ i = b + k + 1
           /\ \E c, f : /\ Start(song, Pitch, c, segment) /\ IsPass(song, Part(segment), c, f)
                        /\ f[k] = <<converter, frames>>
    BY <1>2, <1>10 DEF PassInv, PassGoesOn
  <1>12. PICK c, f : /\ Start(song, Pitch, c, segment) /\ IsPass(song, Part(segment), c, f)
                     /\ f[k] = <<converter, frames>>
    BY <1>11
  <1>13. /\ k \in Nat /\ ~(b + k + 1 > last) /\ k + 1 \in 0 .. last - b
         /\ i + 1 = b + (k + 1) + 1
         /\ i + 1 \notin b + 1 .. last => k + 1 = last - b
    <2>1. i = b + k + 1 /\ k \in 0 .. last - b
      BY <1>11
    <2>2. i \in b + 1 .. last
      BY <1>2, <1>10
    <2>3. k \in Nat /\ b + k + 1 \in b + 1 .. last
      BY <2>1, <2>2
    <2> QED
      BY <2>1, <2>3
  <1>14. f[k + 1] = PassStep(song, Part(segment), k, f[k])
    BY <1>12, <1>13 DEF IsPass
  <1>15. f[k + 1] = <<converter', frames'>>
    <2>1. f[k][1] = converter /\ f[k][2] = frames
      BY <1>12
    <2>2. PassStep(song, Part(segment), k, f[k]) =
            << Converted(f[k][1], song.writes[i].reg, song.writes[i].value),
               [f[k][2] EXCEPT ![FrameOf(song, Part(segment), i)] =
                  @ \o Emission(f[k][1], song.writes[i].reg, song.writes[i].value)] >>
      BY <1>6, <1>10, <1>11, <1>13 DEF PassStep
    <2> QED
      BY <1>2, <1>6, <1>14, <2>1, <2>2 DEF c2, em
  <1>16. PassGoesOn'
    <2>1. \E d, g : /\ Start(song, Pitch, d, segment) /\ IsPass(song, Part(segment), d, g)
                    /\ g[k + 1] = <<converter', frames'>>
      BY <1>12, <1>15
    <2>2. \E j \in 0 .. last - b :
            /\ i' \in SegmentWrites(song, segment) => i' = b + j + 1
            /\ i' \notin SegmentWrites(song, segment) => j = last - b
            /\ \E d, g : /\ Start(song, Pitch, d, segment) /\ IsPass(song, Part(segment), d, g)
                         /\ g[j] = <<converter', frames'>>
      <3>1. PICK j \in 0 .. last - b : j = k + 1
        BY <1>13
      <3>2. /\ i' \in SegmentWrites(song, segment) => i' = b + j + 1
            /\ i' \notin SegmentWrites(song, segment) => j = last - b
        BY <1>2, <1>10, <1>13, <3>1
      <3> QED
        BY <2>1, <3>1, <3>2
    <2> QED
      BY <1>2, <1>5, <1>10, <2>2 DEF PassGoesOn
  <1> QED
    BY <1>8, <1>9, <1>16

(* The writes of a call are made.                                          *)
LEMMA BeginAppendKeepsPass ==
  ASSUME PassInv, BeginAppend
  PROVE  PassBegins' /\ PassGoesOn' /\ PassIsAppended' /\ PassesMade'
  <1> USE DEF BeginAppend
  <1>1. TypesHold /\ IsSegment(song, segment) /\ ConvertInv
    BY SegmentOfConversion DEF PassInv, ConvertInv
  <1>2. /\ step = "write" /\ i \notin SegmentWrites(song, segment)
        /\ step' = "append" /\ i' = 0
        /\ UNCHANGED <<song, segment, converter, frames, output>> /\ Pitch' = Pitch
    BY DEF Pitch
  <1>3. Behind' = Behind
    BY <1>2 DEF Behind
  <1>4. PassesMade'
    BY <1>2, <1>3 DEF PassInv, PassesMade
  <1>5. PassBegins' /\ PassGoesOn'
    BY <1>2 DEF PassBegins, PassGoesOn
  <1>6. PICK c, f : /\ Start(song, Pitch, c, segment) /\ IsPass(song, Part(segment), c, f)
                    /\ f[WriteTotal(song, segment)] = <<converter, frames>>
    BY <1>2 DEF PassInv, PassGoesOn
  <1>7. frames \in [0 .. FrameTotal(song, segment) - 1 -> Seq(Write)]
    BY <1>1, <1>2 DEF ConvertInv, FramesFit
  <1>8. PICK h : Streams(frames, h)
    BY <1>7, StreamExists
  <1>9. output[segment] = <<>> /\ h[0] = <<>>
    <2>1. segment \in Segment /\ segment \notin Behind
      BY <1>1, <1>2 DEF TypesHold, Behind
    <2> QED
      BY <1>1, <1>2, <1>8, <2>1 DEF ConvertInv, StreamsGrow, Streams
  <1>10. \E d, g, e : /\ Start(song, Pitch, d, segment) /\ IsPass(song, Part(segment), d, g)
                      /\ g[WriteTotal(song, segment)] = <<converter, frames>>
                      /\ Streams(frames, e) /\ output[segment] = e[0] /\ Counted16(frames, 0)
    <2>1. Counted16(frames, 0)
      BY DEF Counted16
    <2> QED
      BY <1>6, <1>8, <1>9, <2>1
  <1>11. PassIsAppended'
    BY <1>2, <1>10 DEF PassIsAppended
  <1> QED
    BY <1>4, <1>5, <1>11

(* A frame of the call is added to its stream.                             *)
LEMMA AppendKeepsPass ==
  ASSUME PassInv, AppendFrame
  PROVE  PassBegins' /\ PassGoesOn' /\ PassIsAppended' /\ PassesMade'
  <1> USE DEF AppendFrame
  <1>1. TypesHold /\ IsSegment(song, segment) /\ ConvertInv
    BY SegmentOfConversion DEF PassInv, ConvertInv
  <1>2. /\ step = "append" /\ i \in DOMAIN frames
        /\ output' = [output EXCEPT ![segment] = output[segment]
                         \o << CountPair(Len(frames[i])) >> \o frames[i]]
        /\ i' = i + 1
        /\ UNCHANGED <<song, segment, step, converter, frames>> /\ Pitch' = Pitch
    BY DEF Pitch
  <1>3. segment \in Segment /\ segment \notin Behind /\ Behind' = Behind
        /\ i \in Nat /\ output \in [Segment -> Seq(Pair)]
    BY <1>1, <1>2 DEF TypesHold, Behind
  <1>4. PassesMade'
    <2>1. \A seg \in Behind : output'[seg] = output[seg]
      BY <1>2, <1>3 DEF Behind
    <2> QED
      BY <1>2, <1>3, <2>1 DEF PassInv, PassesMade
  <1>5. PassBegins' /\ PassGoesOn'
    BY <1>2 DEF PassInv, PassBegins, PassGoesOn
  <1>6. PICK c, f, h : /\ Start(song, Pitch, c, segment) /\ IsPass(song, Part(segment), c, f)
                       /\ f[WriteTotal(song, segment)] = <<converter, frames>>
                       /\ Streams(frames, h) /\ output[segment] = h[i] /\ Counted16(frames, i)
    BY <1>2 DEF PassInv, PassIsAppended
  <1>7. output'[segment] = h[i + 1]
    <2>1. output'[segment] = output[segment] \o << CountPair(Len(frames[i])) >> \o frames[i]
      BY <1>2, <1>3
    <2>2. h[i + 1] = h[i] \o << CountPair(Len(frames[i])) >> \o frames[i]
      BY <1>2, <1>3, <1>6 DEF Streams
    <2> QED
      BY <1>6, <2>1, <2>2
  <1>8. \E d, g, e : /\ Start(song, Pitch, d, segment) /\ IsPass(song, Part(segment), d, g)
                     /\ g[WriteTotal(song, segment)] = <<converter, frames>>
                     /\ Streams(frames, e) /\ output'[segment] = e[i + 1]
                     /\ Counted16(frames, i + 1)
    <2>1. Counted16(frames, i + 1)
      <3>1. Counted16(frames, i)
        BY <1>6
      <3>2. Len(frames[i]) <= MaxFrameWrites
        OBVIOUS
      <3>3. \A n \in 0 .. (i + 1) - 1 : n = i \/ n \in 0 .. i - 1
        BY <1>3
      <3>4. ASSUME NEW n \in 0 .. (i + 1) - 1
            PROVE  Len(frames[n]) <= MaxFrameWrites
        <4>1. CASE n = i
          BY <3>2, <4>1
        <4>2. CASE n \in 0 .. i - 1
          BY <3>1, <4>2 DEF Counted16
        <4> QED
          BY <3>3, <4>1, <4>2
      <3> QED
        BY <3>4 DEF Counted16
    <2> QED
      BY <1>6, <1>7, <2>1
  <1>9. PassIsAppended'
    BY <1>2, <1>8 DEF PassIsAppended
  <1> QED
    BY <1>4, <1>5, <1>9

(* The call that is over: its stream is that of its pass, and the          *)
(* converter remembers the writes up to its end.                           *)
LEMMA PassIsMade ==
  ASSUME PassInv, SkipIntro \/ EndSegment
  PROVE  /\ IsOutputOfPass(song, Pitch, segment, output[segment])
         /\ Remembers(song, converter, Final(song, segment))
  <1>1. TypesHold /\ IsSegment(song, segment) /\ ConvertInv
    BY SegmentOfConversion DEF PassInv, ConvertInv
  <1>2. PICK total \in Nat, last \in Nat :
          total = FrameTotal(song, segment) /\ last = WriteTotal(song, segment)
    BY <1>1, FramesOfSegment, SegmentSpan
  <1>3. CASE SkipIntro
    <2>1. segment = "intro" /\ step = "begin" /\ IntroIsEmpty(song)
      BY <1>3 DEF SkipIntro
    <2>2. total = 0 /\ song.has_loop
      BY <1>1, <1>2, <2>1, SkippedIsEmpty DEF TypesHold
    <2>3. Start(song, Pitch, converter, segment) /\ converter \in Converter
      BY <1>1, <2>1 DEF PassInv, PassBegins, TypesHold
    <2>4. PICK f : IsPass(song, Part(segment), converter, f)
      BY <1>1, <2>3, PartOfSong, PassExists
    <2>5. f[last][2] \in PassFrames(song, Part(segment))
      BY <2>4, PassBegun
    <2>6. PICK h : Streams(f[last][2], h)
      BY <2>5, StreamExists DEF PassFrames
    <2>7. output[segment] = h[total]
      <3>1. segment \in Segment /\ segment \notin Behind
        BY <1>1, <2>1 DEF TypesHold, Behind
      <3> QED
        BY <1>1, <2>1, <2>2, <2>6, <3>1 DEF ConvertInv, StreamsGrow, Streams
    <2>8. IsOutputOfPass(song, Pitch, segment, output[segment])
      <3>1. Counted16(f[last][2], total)
        <4>1. 0 .. 0 - 1 = {}
          OBVIOUS
        <4> QED
          BY <2>2, <4>1 DEF Counted16
      <3> QED
        BY <1>2, <2>3, <2>4, <2>6, <2>7, <3>1 DEF IsOutputOfPass
    <2>9. Final(song, segment) = Before(song, segment)
      <3>1. SegmentWrites(song, segment) = {} /\ Before(song, segment) = Base(song, segment)
        BY <2>1 DEF IntroIsEmpty, Before
      <3>2. PICK b \in Nat, n \in Nat :
              /\ b = Base(song, segment) /\ n = Final(song, segment) /\ b <= n
              /\ b + 1 .. n = {}
        BY <1>1, <3>1, SegmentSpan
      <3>3. b # n => b + 1 \in b + 1 .. n
        BY <3>2
      <3> QED
        BY <3>1, <3>2, <3>3
    <2> QED
      BY <2>3, <2>8, <2>9 DEF Start
  <1>4. CASE EndSegment
    <2>1. step = "append" /\ i \notin DOMAIN frames
      BY <1>4 DEF EndSegment
    <2>2. PICK c, f, h : /\ Start(song, Pitch, c, segment) /\ IsPass(song, Part(segment), c, f)
                         /\ f[last] = <<converter, frames>>
                         /\ Streams(frames, h) /\ output[segment] = h[i]
                         /\ Counted16(frames, i)
      BY <1>2, <2>1 DEF PassInv, PassIsAppended
    <2>3. i = total
      <3>1. DOMAIN frames = 0 .. total - 1 /\ i \in 0 .. total
        BY <1>1, <1>2, <2>1 DEF ConvertInv, FramesFit, AppendedSoFar
      <3> QED
        BY <1>2, <2>1, <3>1
    <2>4. f[last][1] = converter /\ f[last][2] = frames
      BY <2>2
    <2>5. IsOutputOfPass(song, Pitch, segment, output[segment])
      BY <1>2, <2>2, <2>3, <2>4 DEF IsOutputOfPass
    <2>6. Remembers(song, converter, Final(song, segment))
      BY <1>1, <1>2, <2>2, <2>4, PassRemembers
    <2> QED
      BY <2>5, <2>6
  <1> QED
    BY <1>3, <1>4

(* A call ends, and the next begins from what it leaves.                   *)
LEMMA EndKeepsPass ==
  ASSUME PassInv, SkipIntro \/ EndSegment
  PROVE  PassBegins' /\ PassGoesOn' /\ PassIsAppended' /\ PassesMade'
  <1>1. TypesHold /\ IsSegment(song, segment) /\ ConvertInv
    BY SegmentOfConversion DEF PassInv, ConvertInv
  <1>2. /\ step \in {"begin", "append"} /\ AfterSegment
        /\ song' = song /\ output' = output
        /\ converter \in Converter /\ segment \in Segment
    BY <1>1 DEF SkipIntro, EndSegment, TypesHold
  <1>3. \/ segment = "intro" /\ ~song.has_loop /\ FinishSong
        \/ segment = "intro" /\ song.has_loop /\ GoTo("first")
        \/ segment = "first" /\ GoTo("steady")
        \/ segment = "steady" /\ step' = "join"
             /\ UNCHANGED <<segment, converter, clips_first, converted>>
    BY <1>2 DEF AfterSegment
  <1>4. ASSUME NEW next, GoTo(next)
        PROVE  /\ segment' = next /\ step' = "begin"
               /\ converter' = ForgetTarget(converter)
    BY <1>4 DEF GoTo, ForgetBeforeLoop
  <1>5. Pitch' = Pitch
    <2>1. ForgetTarget(converter).pitch_conversion = converter.pitch_conversion
      BY <1>2 DEF ForgetTarget, Converter
    <2> QED
      BY <1>3, <1>4, <2>1 DEF Pitch, FinishSong
  <1>6. step' \in {"begin", "join", "done"}
    BY <1>3, <1>4 DEF FinishSong
  <1>7. PassGoesOn' /\ PassIsAppended'
    BY <1>6 DEF PassGoesOn, PassIsAppended
  <1>8. /\ IsOutputOfPass(song, Pitch, segment, output[segment])
        /\ Remembers(song, converter, Final(song, segment))
    BY PassIsMade
  <1>9. PassBegins'
    <2>1. ASSUME NEW next, GoTo(next), Final(song, segment) = Before(song, next)
          PROVE  PassBegins'
      <3>1. ForgetTarget(converter) \in Converter
        BY <1>2, ForgetIsConverter
      <3>2. /\ Remembers(song, ForgetTarget(converter), Before(song, next))
            /\ ForgetTarget(converter).pitch_conversion = converter.pitch_conversion
            /\ ForgetTarget(converter).target_known = [r \in Reg |-> FALSE]
        BY <1>2, <1>8, <2>1, ForgettingRemembers
      <3>3. Start(song, Pitch, ForgetTarget(converter), next)
        BY <3>1, <3>2 DEF Start, Pitch
      <3> QED
        BY <1>2, <1>4, <1>5, <2>1, <3>3 DEF PassBegins
    <2>2. CASE segment = "intro" /\ song.has_loop /\ GoTo("first")
      <3>1. Final(song, segment) = Before(song, "first")
        BY <2>2 DEF Final, Before, Base
      <3> QED
        BY <2>1, <2>2, <3>1
    <2>3. CASE segment = "first" /\ GoTo("steady")
      <3>1. Final(song, segment) = Before(song, "steady")
        BY <2>3 DEF Final, Before
      <3> QED
        BY <2>1, <2>3, <3>1
    <2>4. CASE step' # "begin"
      BY <2>4 DEF PassBegins
    <2> QED
      BY <1>3, <2>2, <2>3, <2>4 DEF FinishSong
  <1>10. PassesMade'
    <2>1. \A seg \in Behind' : seg \in Behind \/ seg = segment
      <3>1. CASE segment = "intro" /\ FinishSong
        BY <1>2, <3>1 DEF FinishSong, Behind
      <3>2. CASE segment = "intro" /\ GoTo("first")
        <4>1. segment' = "first" /\ step' = "begin"
          BY <1>4, <3>2
        <4> QED
          BY <3>2, <4>1 DEF Behind
      <3>3. CASE segment = "first" /\ GoTo("steady")
        <4>1. segment' = "steady" /\ step' = "begin"
          BY <1>4, <3>3
        <4> QED
          BY <3>3, <4>1 DEF Behind
      <3>4. CASE segment = "steady" /\ segment' = segment
        BY <3>4 DEF Behind
      <3> QED
        BY <1>3, <3>1, <3>2, <3>3, <3>4
    <2>2. step # "failed"
      BY <1>2
    <2> QED
      BY <1>2, <1>5, <1>8, <2>1, <2>2 DEF PassInv, PassesMade
  <1> QED
    BY <1>7, <1>9, <1>10

(* The steps that convert nothing keep what is known of the passes.        *)
LEMMA RestKeepsPass ==
  ASSUME PassInv, JoinLoop \/ Fail \/ UNCHANGED convertVars
  PROVE  PassBegins' /\ PassGoesOn' /\ PassIsAppended' /\ PassesMade'
  <1>1. CASE JoinLoop
    <2>1. /\ step = "join" /\ step' = "done"
          /\ UNCHANGED <<song, segment, converter, output>> /\ Pitch' = Pitch
      BY <1>1 DEF JoinLoop, Pitch
    <2>2. Behind' = Behind
      BY <2>1 DEF Behind
    <2>3. PassesMade'
      BY <2>1, <2>2 DEF PassInv, PassesMade
    <2> QED
      BY <2>1, <2>3 DEF PassBegins, PassGoesOn, PassIsAppended
  <1>2. CASE Fail
    BY <1>2 DEF Fail, PassBegins, PassGoesOn, PassIsAppended, PassesMade
  <1>3. CASE UNCHANGED convertVars
    <2>1. Behind' = Behind /\ Pitch' = Pitch
      BY <1>3 DEF convertVars, Behind, Pitch
    <2> QED
      BY <1>3, <2>1 DEF convertVars, PassInv, PassBegins, PassGoesOn, PassIsAppended, PassesMade
  <1> QED
    BY <1>1, <1>2, <1>3

(* No step changes the converter's clock and mode.                         *)
LEMMA ClockStays ==
  ASSUME ConvertInv, ClockKept, [Next]_convertVars
  PROVE  ClockKept'
  <1>1. converter \in Converter /\ TypesHold /\ IsSegment(song, segment)
    BY SegmentOfConversion DEF ConvertInv, TypesHold
  <1>2. song' = song
    BY DEF Next, BeginSegment, ConvertWrite, BeginAppend, AppendFrame, TooManyWrites, SkipIntro,
           EndSegment, JoinLoop, OutOfMemory, Fail, convertVars
  <1>3. CASE ConvertWrite
    <2>1. PICK reg, value : reg = song.writes[i].reg /\ value = song.writes[i].value
      OBVIOUS
    <2>2. song.writes[i] \in [sample : Nat, reg : Reg, value : Byte]
      BY <1>1, <1>3, WritesOfSegment DEF ConvertWrite
    <2>3. reg \in Reg /\ value \in Byte /\ converter' = Converted(converter, reg, value)
      BY <1>3, <2>1, <2>2 DEF ConvertWrite
    <2>4. Converted(converter, reg, value).source_clock = converter.source_clock
      BY <1>1, <2>3, SettingsStay
    <2> QED
      BY <1>2, <2>3, <2>4 DEF ClockKept
  <1>4. CASE SkipIntro \/ EndSegment
    <2>1. converter' = converter \/ converter' = ForgetTarget(converter)
      BY <1>4 DEF SkipIntro, EndSegment, AfterSegment, FinishSong, GoTo, ForgetBeforeLoop
    <2>2. ForgetTarget(converter).source_clock = converter.source_clock
      BY <1>1 DEF ForgetTarget, Converter
    <2> QED
      BY <1>2, <2>1, <2>2 DEF ClockKept
  <1>5. CASE ~ConvertWrite /\ ~(SkipIntro \/ EndSegment)
    <2>1. converter' = converter
      BY <1>5 DEF Next, BeginSegment, BeginAppend, AppendFrame, TooManyWrites,
                  JoinLoop, OutOfMemory, Fail, convertVars
    <2> QED
      BY <1>2, <2>1 DEF ClockKept
  <1> QED
    BY <1>3, <1>4, <1>5

(* Every step keeps what is known of the passes.                           *)
LEMMA PassKeeps == PassInv /\ [Next]_convertVars => PassInv'
  <1> SUFFICES ASSUME PassInv, [Next]_convertVars
               PROVE  PassInv'
    OBVIOUS
  <1>1. ConvertInv' /\ ClockKept'
    BY ConversionKeeps, ClockStays DEF PassInv
  <1> SUFFICES PassBegins' /\ PassGoesOn' /\ PassIsAppended' /\ PassesMade'
    BY <1>1 DEF PassInv
  <1>2. CASE BeginSegment
    BY <1>2, BeginKeepsPass
  <1>3. CASE ConvertWrite
    BY <1>3, WriteKeepsPass
  <1>4. CASE BeginAppend
    BY <1>4, BeginAppendKeepsPass
  <1>5. CASE AppendFrame
    BY <1>5, AppendKeepsPass
  <1>6. CASE SkipIntro \/ EndSegment
    BY <1>6, EndKeepsPass
  <1>7. CASE TooManyWrites \/ OutOfMemory
    <2>1. Fail
      BY <1>7 DEF TooManyWrites, OutOfMemory
    <2> QED
      BY <2>1, RestKeepsPass
  <1>8. CASE JoinLoop \/ UNCHANGED convertVars
    BY <1>8, RestKeepsPass
  <1> QED
    BY <1>2, <1>3, <1>4, <1>5, <1>6, <1>7, <1>8 DEF Next

(* It is known throughout.                                                 *)
LEMMA PassInvariance == Spec => []PassInv
  <1>1. Init => PassInv
    BY PassesStart
  <1>2. PassInv /\ [Next]_convertVars => PassInv'
    BY PassKeeps
  <1> QED
    BY <1>1, <1>2, PTL DEF Spec

(* When the intro leaves the converter what a pass of the loop leaves it,  *)
(* the loop is stored once and the player comes back to the first pass.    *)
THEOREM StoredOnceIfStable == Spec => []UnrolledOnlyForIntro
  <1>1. ASSUME PassInv, step = "done", song.has_loop,
               IntroLeaves(song.loop_write) = IntroLeaves(Len(song.writes))
        PROVE  /\ converted.stream = output["intro"] \o output["first"]
               /\ converted.loop_offset = Len(output["intro"])
    <2> DEFINE m == song.loop_write
               last == Len(song.writes)
    <2>1. TypesHold /\ ResultIsJoined /\ segment = "steady"
      BY <1>1 DEF PassInv, ConvertInv, ResultIsJoined
    <2>2. Behind = Segment /\ Segment = {"intro", "first", "steady"}
      BY <1>1, <2>1 DEF Behind, Segment
    <2>3. /\ IsOutputOfPass(song, Pitch, "first", output["first"])
          /\ IsOutputOfPass(song, Pitch, "steady", output["steady"])
      BY <1>1, <2>2 DEF PassInv, PassesMade
    <2>4. IsSegment(song, "first")
      BY <1>1, <2>1, <2>2 DEF TypesHold, IsSegment
    <2>5. \A n, regs : LastWritten(n, regs) = LastOfSong(song, n, regs)
      BY DEF LastWritten, LastOfSong
    <2>6. /\ \A r \in Reg \cap PsgPeriod : LastWritten(m, {r}) = LastWritten(last, {r})
          /\ LastWritten(m, FmHigh) = LastWritten(last, FmHigh)
          /\ LastWritten(m, Fm3High) = LastWritten(last, Fm3High)
      <3> DEFINE a == IntroLeaves(m)
                 b == IntroLeaves(last)
      <3>1. /\ a.period = [r \in Reg \cap PsgPeriod |-> LastWritten(m, {r})]
            /\ a.high = LastWritten(m, FmHigh) /\ a.high3 = LastWritten(m, Fm3High)
            /\ b.period = [r \in Reg \cap PsgPeriod |-> LastWritten(last, {r})]
            /\ b.high = LastWritten(last, FmHigh) /\ b.high3 = LastWritten(last, Fm3High)
        BY DEF IntroLeaves
      <3>2. a = b
        BY <1>1
      <3> HIDE DEF a, b
      <3>3. \A r \in Reg \cap PsgPeriod : a.period[r] = LastWritten(m, {r})
                                         /\ b.period[r] = LastWritten(last, {r})
        BY <3>1
      <3> QED
        BY <3>1, <3>2, <3>3
    <2>7. output["first"] = output["steady"]
      BY <2>3, <2>4, <2>5, <2>6, PassesAreEqual
    <2>8. LoopIsStable(output)
      BY <2>7 DEF LoopIsStable
    <2>9. /\ converted.stream = output["intro"] \o output["first"] \o <<>>
          /\ converted.loop_offset = Len(output["intro"])
      BY <1>1, <2>1, <2>8 DEF ResultIsJoined, LoopStart
    <2>10. output["intro"] \o output["first"] \o <<>> = output["intro"] \o output["first"]
      <3>1. PICK a \in Seq(Pair), b \in Seq(Pair) : a = output["intro"] /\ b = output["first"]
        BY <2>1, <2>2 DEF TypesHold
      <3>2. a \o b \in Seq(Pair)
        BY ConcatProperties
      <3>3. (a \o b) \o <<>> = a \o b
        BY <3>2, ConcatEmptySeq
      <3> QED
        BY <3>1, <3>3
    <2> QED
      BY <2>9, <2>10
  <1>2. PassInv => UnrolledOnlyForIntro
    BY <1>1 DEF UnrolledOnlyForIntro
  <1> QED
    BY <1>2, PassInvariance, PTL

-----------------------------------------------------------------------------
(* The writes of a frame but those to the registers skip.                  *)
Kept(writes, skip) == Picked(writes, {n \in DOMAIN writes : writes[n][1] \notin skip})

(* A converter of which every write it is given, but those to the registers*)
(* skip, comes out once, and none else does.                               *)
PassesOn(c, skip) == skip = Pitched \/ (skip = {} /\ ~Adapts(c))

(* What is kept of two batches joined is what is kept of each.             *)
LEMMA KeptJoins ==
  ASSUME NEW s \in Seq(Pair), NEW t \in Seq(Pair), NEW j, Joins(j, s, t), NEW skip
  PROVE  Joins(Kept(j, skip), Kept(s, skip), Kept(t, skip))
  <1> DEFINE K(x) == {n \in DOMAIN x : x[n][1] \notin skip}
  <1>1. j = s \o t
    BY DEF Joins
  <1>2. /\ DOMAIN s = 1 .. Len(s) /\ DOMAIN t = 1 .. Len(t) /\ DOMAIN j = 1 .. Len(s) + Len(t)
        /\ \A n \in 1 .. Len(s) + Len(t) : j[n] = IF n <= Len(s) THEN s[n] ELSE t[n - Len(s)]
    BY <1>1, ConcatProperties
  <1>3. ASSUME NEW n \in 1 .. Len(s)
        PROVE  n \in K(j) <=> n \in K(s)
    <2>1. n \in 1 .. Len(s) + Len(t) /\ n <= Len(s)
      OBVIOUS
    <2>2. j[n] = s[n]
      BY <1>2, <2>1
    <2> QED
      BY <1>2, <2>1, <2>2
  <1>4. ASSUME NEW n \in 1 .. Len(t)
        PROVE  Len(s) + n \in K(j) <=> n \in K(t)
    <2>1. PICK m : m = Len(s) + n
      OBVIOUS
    <2>2. m \in 1 .. Len(s) + Len(t) /\ ~(m <= Len(s)) /\ m - Len(s) = n
      BY <2>1
    <2>3. j[m] = t[n]
      BY <1>2, <2>2
    <2> QED
      BY <1>2, <2>1, <2>2, <2>3
  <1> HIDE DEF K
  <1>5. Joins(Picked(j, K(j)), Picked(s, K(s)), Picked(t, K(t)))
    <2>1. PICK a, b, c : a = K(j) /\ b = K(s) /\ c = K(t)
      OBVIOUS
    <2>2. \A n \in 1 .. Len(s) : n \in a <=> n \in b
      BY <1>3, <2>1
    <2>3. \A n \in 1 .. Len(t) : Len(s) + n \in a <=> n \in c
      BY <1>4, <2>1
    <2>4. Joins(Picked(j, a), Picked(s, b), Picked(t, c))
      BY <2>2, <2>3, PickedConcat
    <2> QED
      BY <2>1, <2>4
  <1> QED
    BY <1>5 DEF Kept, K

(* What is kept of a single write.                                         *)
LEMMA KeptOne ==
  ASSUME NEW reg \in Reg, NEW value \in Byte, NEW skip
  PROVE  Kept(<< <<reg, value>> >>, skip)
           = IF reg \in skip THEN <<>> ELSE << <<reg, value>> >>
  <1>1. PICK s : s = << <<reg, value>> >>
    OBVIOUS
  <1>2. <<reg, value>> \in Write
    BY DEF Write
  <1>3. s \in Seq(Pair) /\ Len(s) = 1 /\ s[1] = <<reg, value>> /\ DOMAIN s = 1 .. 1
        /\ <<reg, value>> \in Pair
    <2>1. <<reg, value>> \in Pair
      BY <1>2, WriteIsPair
    <2> QED
      BY <1>1, <2>1
  <1> DEFINE K == {n \in DOMAIN s : s[n][1] \notin skip}
  <1>4. CASE reg \in skip
    <2>1. \A n \in 1 .. Len(s) : n \notin K
      BY <1>3, <1>4
    <2> HIDE DEF K
    <2>2. Picked(s, K) = <<>>
      BY <1>3, <2>1, PickedNone
    <2> QED
      BY <1>1, <1>4, <2>2 DEF Kept, K
  <1>5. CASE reg \notin skip
    <2>1. K = {} \cup {1}
      BY <1>3, <1>5
    <2> HIDE DEF K
    <2>2. Picked(s, {}) = <<>>
      BY <1>3, PickedNone
    <2>3. 1 \in 1 .. Len(s) /\ \A k \in {} : k < 1
      BY <1>3
    <2>4. Picked(s, {} \cup {1}) = Append(Picked(s, {}), s[1])
      BY <1>3, <2>3, PickedMore
    <2>5. Append(<<>>, s[1]) = << <<reg, value>> >>
      BY <1>3
    <2>6. Picked(s, K) = << <<reg, value>> >>
      BY <2>1, <2>2, <2>4, <2>5
    <2> QED
      BY <1>1, <1>5, <2>6 DEF Kept, K
  <1> QED
    BY <1>4, <1>5

(* Nothing is kept of writes to the registers skipped.                     *)
LEMMA KeptNone ==
  ASSUME NEW w \in Seq(Pair), NEW skip, \A n \in DOMAIN w : w[n][1] \in skip
  PROVE  Kept(w, skip) = <<>>
  <1> DEFINE K == {n \in DOMAIN w : w[n][1] \notin skip}
  <1>1. \A n \in 1 .. Len(w) : n \notin K
    OBVIOUS
  <1> HIDE DEF K
  <1>2. Picked(w, K) = <<>>
    BY <1>1, PickedNone
  <1> QED
    BY <1>2 DEF Kept, K

(* What is sent for a pitched register is sent to pitched registers.       *)
LEMMA PitchedStaysPitched ==
  ASSUME NEW c \in Converter, Adapts(c), NEW reg \in Reg, reg \in Pitched, NEW value \in Byte,
         NEW em, em = Emission(c, reg, value)
  PROVE  \A n \in DOMAIN em : em[n][1] \in Pitched
  <1> DEFINE s == Sourced(c, reg, value)
  <1>1. s \in Converter
    BY SourcedIsConverter
  <1>2. \A r, v : EmitChanged(s, r, v) = <<>> \/ EmitChanged(s, r, v) = << <<r, v>> >>
    BY DEF EmitChanged
  <1>3. CASE reg \in PsgPeriod
    <2>1. em = EmitPsgPair(s, reg)
      BY <1>3, EmissionOf DEF PairCase
    <2> DEFINE pair == ScaledPair(c.source_clock, s.source, reg)
               r1 == LowOf(reg)
               r2 == HighOf(reg)
    <2>2. s.source \in [Reg -> Byte] /\ s.source_clock \in Nat \ {0}
      BY <1>1, SourcedIsConverter DEF Converter
    <2>3. reg \in Reg \cap PsgPeriod /\ s.source_clock = c.source_clock
      BY <1>3, SourcedIsConverter
    <2> HIDE DEF s
    <2>4. pair \in Byte \X Byte
      BY <2>2, <2>3, ScaledPairIsBytes
    <2>5. r1 \in Reg /\ r2 \in Reg /\ r1 \in PsgPeriod /\ r2 \in PsgPeriod
      <3>1. {LowOf(reg), HighOf(reg)} \subseteq Reg
        BY <2>3, RegAssumption
      <3>2. LowOf(reg) \in PsgPeriod /\ HighOf(reg) \in PsgPeriod
        BY <1>3, PairsApart
      <3> QED
        BY <3>1, <3>2
    <2>6. em = EmitChanged(s, r1, pair[1]) \o EmitChanged(s, r2, pair[2])
      BY <2>1, <2>3 DEF EmitPsgPair
    <2>7. pair[1] \in Byte /\ pair[2] \in Byte
      BY <2>4
    <2> HIDE DEF pair, r1, r2
    <2>8. em \in {<<>>, << <<r2, pair[2]>> >>, << <<r1, pair[1]>> >>,
                  << <<r1, pair[1]>>, <<r2, pair[2]>> >>}
      BY <1>1, <2>5, <2>6, <2>7, PairForms
    <2> QED
      BY <2>5, <2>8 DEF Pitched
  <1>4. CASE reg \in Noise
    <2>1. em = EmitChanged(s, reg, ScaledNoise(c.source_clock, value))
      BY <1>4, EmissionOf DEF NoiseCase
    <2> HIDE DEF s
    <2> QED
      BY <1>2, <2>1
  <1>5. CASE reg \in FmHigh \cup Fm3High
    <2>1. em = <<>>
      BY <1>5, EmissionOf DEF LatchCase
    <2> QED
      BY <2>1
  <1>6. CASE reg \in FmCommit
    <2>1. em = EmitFmPair(s, reg, value, LatchFor(c, reg))
      BY <1>6, EmissionOf DEF CommitCase
    <2>2. reg + 4 \in Pitched
      BY <1>6 DEF Pitched, FmCommit, FmLow, Fm3Low, FmHigh, Fm3High
    <2>3. \A p : \A n \in DOMAIN << <<reg + 4, p[1]>>, <<reg, p[2]>> >> :
            << <<reg + 4, p[1]>>, <<reg, p[2]>> >>[n][1] \in Pitched
      BY <2>2
    <2> QED
      BY <2>1, <2>3 DEF EmitFmPair
  <1> QED
    BY <1>3, <1>4, <1>5, <1>6 DEF Pitched

(* Of what the converter makes of a write, exactly the write is kept, or   *)
(* nothing where its register is skipped: converter_write may split, merge *)
(* or drop only writes to pitched registers.                               *)
LEMMA KeptOfEmission ==
  ASSUME NEW c \in Converter, NEW skip, PassesOn(c, skip),
         NEW reg \in Reg, NEW value \in Byte
  PROVE  Kept(Emission(c, reg, value), skip)
           = IF reg \in skip THEN <<>> ELSE << <<reg, value>> >>
  <1>1. CASE ~Adapts(c) \/ reg \notin Pitched
    <2>1. Emission(c, reg, value) = << <<reg, value>> >>
      BY <1>1, PassedOn
    <2> QED
      BY <2>1, KeptOne
  <1>2. CASE Adapts(c) /\ reg \in Pitched
    <2>1. skip = Pitched
      BY <1>2 DEF PassesOn
    <2>2. PICK em : em = Emission(c, reg, value)
      OBVIOUS
    <2>3. em \in Seq(Write)
      BY <2>2, EmissionIsWrites
    <2>4. em \in Seq(Pair)
      BY <2>3, SeqMonotonic, WriteIsPair
    <2>5. \A n \in DOMAIN em : em[n][1] \in Pitched
      BY <1>2, <2>2, PitchedStaysPitched
    <2>6. Kept(em, skip) = <<>>
      BY <2>1, <2>4, <2>5, KeptNone
    <2> QED
      BY <1>2, <2>1, <2>2, <2>6
  <1> QED
    BY <1>1, <1>2

-----------------------------------------------------------------------------
(* The writes a pass has batched: of each frame, those of the song, in     *)
(* their order, but those to the registers skip.                           *)
Mine(s, seg, k, j, skip) ==
  {m \in Base(s, seg) + 1 .. Base(s, seg) + k :
     FrameOf(s, seg, m) = j /\ s.writes[m].reg \notin skip}

(* The pairs of a song, place by place.                                    *)
LEMMA PairsOfSong ==
  ASSUME NEW s, NEW seg, IsSegment(s, seg)
  PROVE  /\ Pairs(s) \in Seq(Pair) /\ Len(Pairs(s)) = Len(s.writes)
         /\ \A m \in 1 .. Len(s.writes) : Pairs(s)[m] = <<s.writes[m].reg, s.writes[m].value>>
  <1>1. s.writes \in Seq([sample : Nat, reg : Reg, value : Byte]) /\ Len(s.writes) \in Nat
    BY WritesOfSegment
  <1>2. ASSUME NEW m \in 1 .. Len(s.writes)
        PROVE  <<s.writes[m].reg, s.writes[m].value>> \in Pair
    <2>0. PICK w \in Seq([sample : Nat, reg : Reg, value : Byte]) : w = s.writes
      BY <1>1
    <2>00. m \in 1 .. Len(w)
      BY <2>0
    <2>01. w[m] \in [sample : Nat, reg : Reg, value : Byte]
      BY <2>00, ElementOfSeq
    <2>1. s.writes[m] \in [sample : Nat, reg : Reg, value : Byte]
      BY <2>0, <2>01
    <2>2. <<s.writes[m].reg, s.writes[m].value>> \in Write
      BY <2>1 DEF Write
    <2> QED
      BY <2>2, WriteIsPair
  <1>3. Pairs(s) \in [1 .. Len(s.writes) -> Pair]
    BY <1>2 DEF Pairs
  <1>4. Pairs(s) \in Seq(Pair) /\ DOMAIN Pairs(s) = 1 .. Len(s.writes)
    BY <1>1, <1>3
  <1>5. Len(Pairs(s)) = Len(s.writes)
    BY <1>1, <1>4
  <1>6. \A m \in 1 .. Len(s.writes) : Pairs(s)[m] = <<s.writes[m].reg, s.writes[m].value>>
    BY DEF Pairs
  <1> QED
    BY <1>4, <1>5, <1>6

(* One more write of those mine.                                           *)
LEMMA MineNext ==
  ASSUME NEW s, NEW seg, IsSegment(s, seg), NEW k \in 0 .. WriteTotal(s, seg) - 1,
         NEW m, m = Base(s, seg) + k + 1, NEW j, NEW skip
  PROVE  /\ \A x \in Mine(s, seg, k, j, skip) : x < m
         /\ Mine(s, seg, k + 1, j, skip)
              = IF FrameOf(s, seg, m) = j /\ s.writes[m].reg \notin skip
                THEN Mine(s, seg, k, j, skip) \cup {m} ELSE Mine(s, seg, k, j, skip)
  <1>1. PICK b \in Nat : b = Base(s, seg) /\ WriteTotal(s, seg) \in Nat
    BY SegmentSpan
  <1>2. \A x : x \in b + 1 .. b + (k + 1) <=> x \in b + 1 .. b + k \/ x = m
    BY <1>1
  <1>3. \A x \in b + 1 .. b + k : x < m
    BY <1>1
  <1> QED
    BY <1>1, <1>2, <1>3 DEF Mine

(* By the end of a pass each batch keeps what the song wrote in its frame. *)
LEMMA PassBatches ==
  ASSUME NEW s, NEW seg, IsSegment(s, seg), NEW c, NEW skip, PassesOn(c, skip),
         NEW f, IsPass(s, seg, c, f), NEW j \in 0 .. FrameTotal(s, seg) - 1
  PROVE  Kept(f[WriteTotal(s, seg)][2][j], skip)
           = Picked(Pairs(s), Mine(s, seg, WriteTotal(s, seg), j, skip))
  <1>0. PICK L \in Nat : L = WriteTotal(s, seg)
    BY SegmentSpan
  <1> DEFINE D == 0 .. FrameTotal(s, seg) - 1
             Good == {k \in 0 .. L :
                        /\ PassesOn(f[k][1], skip)
                        /\ Kept(f[k][2][j], skip) = Picked(Pairs(s), Mine(s, seg, k, j, skip))}
  <1>p. /\ Pairs(s) \in Seq(Pair) /\ Len(Pairs(s)) = Len(s.writes)
        /\ \A m \in 1 .. Len(s.writes) : Pairs(s)[m] = <<s.writes[m].reg, s.writes[m].value>>
    BY PairsOfSong
  <1>1. 0 \in Good
    <2>1. f[0][1] = c /\ f[0][2][j] = <<>>
      BY PassBegun
    <2>2. Kept(<<>>, skip) = <<>>
      <3>1. <<>> \in Seq(Pair) /\ \A n \in DOMAIN <<>> : <<>>[n][1] \in skip
        OBVIOUS
      <3> QED
        BY <3>1, KeptNone
    <2>3. Mine(s, seg, 0, j, skip) = {}
      <3>1. PICK b \in Nat : b = Base(s, seg)
        BY SegmentSpan
      <3>2. b + 1 .. b + 0 = {}
        OBVIOUS
      <3> QED
        BY <3>1, <3>2 DEF Mine
    <2>4. Picked(Pairs(s), {}) = <<>>
      BY <1>p, PickedNone
    <2>5. PassesOn(f[0][1], skip)
      BY <2>1
    <2>6. Kept(f[0][2][j], skip) = Picked(Pairs(s), Mine(s, seg, 0, j, skip))
      BY <2>1, <2>2, <2>3, <2>4
    <2>7. 0 \in 0 .. L
      BY <1>0
    <2> QED
      BY <2>5, <2>6, <2>7
  <1>2. ASSUME NEW k \in 0 .. L - 1, k \in Good
        PROVE  k + 1 \in Good
    <2>1. PICK m : m = Base(s, seg) + k + 1
      OBVIOUS
    <2>2. PICK n : n = FrameOf(s, seg, m)
      OBVIOUS
    <2>3. PICK reg, value : reg = s.writes[m].reg /\ value = s.writes[m].value
      OBVIOUS
    <2>4. PICK x : x = f[k][1]
      OBVIOUS
    <2>5. k \in 0 .. WriteTotal(s, seg) - 1 /\ k + 1 \in 0 .. L
      BY <1>0
    <2>w. WriteOfPass(s, seg, f, k, m, n, reg, value, x)
      BY <2>1, <2>2, <2>3, <2>4, <2>5 DEF WriteOfPass
    <2>6. /\ m \in 1 .. Len(s.writes)
          /\ reg \in Reg /\ value \in Byte /\ x \in Converter /\ n \in D
          /\ f[k][2] \in PassFrames(s, seg) /\ Emission(x, reg, value) \in Seq(Write)
          /\ f[k + 1][1] = Converted(x, reg, value)
      BY <2>w, PassGoes
    <2>7. Joins(f[k + 1][2][n], f[k][2][n], Emission(x, reg, value))
      BY <2>w, PassGoes
    <2>8. j # n => f[k + 1][2][j] = f[k][2][j]
      BY <2>w, PassGoes
    <2>9. PassesOn(x, skip) /\ Kept(f[k][2][j], skip) = Picked(Pairs(s), Mine(s, seg, k, j, skip))
      BY <1>2, <2>4
    <2>10. PassesOn(f[k + 1][1], skip)
      <3>1. /\ Converted(x, reg, value).source_clock = x.source_clock
            /\ Converted(x, reg, value).pitch_conversion = x.pitch_conversion
        <4>1. reg \in Reg /\ value \in Byte /\ x \in Converter
          BY <2>6
        <4> QED
          BY <4>1, SettingsStay
      <3> QED
        BY <2>6, <2>9, <3>1 DEF PassesOn, Adapts
    <2>11. \A y \in Mine(s, seg, k, j, skip) : y < m
      BY <2>1, <2>5, MineNext
    <2>12. Mine(s, seg, k + 1, j, skip)
              = IF n = j /\ reg \notin skip
                THEN Mine(s, seg, k, j, skip) \cup {m} ELSE Mine(s, seg, k, j, skip)
      BY <2>1, <2>2, <2>3, <2>5, MineNext
    <2>13. Kept(f[k + 1][2][j], skip) = Picked(Pairs(s), Mine(s, seg, k + 1, j, skip))
      <3>1. CASE j # n
        BY <2>8, <2>9, <2>12, <3>1
      <3>2. CASE j = n
        <4>1. PICK old, em, new : /\ old = f[k][2][j] /\ em = Emission(x, reg, value)
                                  /\ new = f[k + 1][2][j]
          OBVIOUS
        <4>2. old \in Seq(Write) /\ em \in Seq(Write)
          BY <2>6, <4>1 DEF PassFrames
        <4>3. old \in Seq(Pair) /\ em \in Seq(Pair)
          BY <4>2, SeqMonotonic, WriteIsPair
        <4>4. Joins(new, old, em)
          BY <2>7, <3>2, <4>1
        <4>5. Joins(Kept(new, skip), Kept(old, skip), Kept(em, skip))
          BY <4>3, <4>4, KeptJoins
        <4>6. Kept(em, skip) = IF reg \in skip THEN <<>> ELSE << <<reg, value>> >>
          BY <2>6, <2>9, <4>1, KeptOfEmission
        <4>7. PICK a : a = Kept(old, skip) /\ a = Picked(Pairs(s), Mine(s, seg, k, j, skip))
          BY <2>9, <4>1
        <4>8. a \in Seq(Pair)
          BY <1>p, <4>7, PickedTyped
        <4>9. CASE reg \in skip
          <5>1. Kept(new, skip) = a \o <<>>
            BY <4>5, <4>6, <4>7, <4>9 DEF Joins
          <5>2. a \o <<>> = a
            BY <4>8, ConcatEmptySeq
          <5> QED
            BY <2>12, <4>1, <4>7, <4>9, <5>1, <5>2
        <4>10. CASE reg \notin skip
          <5>1. Pairs(s)[m] = <<reg, value>>
            BY <1>p, <2>3, <2>6
          <5>2. PICK K : K = Mine(s, seg, k, j, skip)
            OBVIOUS
          <5>3. Picked(Pairs(s), K \cup {m}) = Append(Picked(Pairs(s), K), Pairs(s)[m])
            <6>1. m \in 1 .. Len(Pairs(s)) /\ \A y \in K : y < m
              BY <1>p, <2>6, <2>11, <5>2
            <6> QED
              BY <1>p, <6>1, PickedMore
          <5>4. <<reg, value>> \in Pair
            <6>1. <<reg, value>> \in Write
              BY <2>6 DEF Write
            <6> QED
              BY <6>1, WriteIsPair
          <5>5. PICK e \in Pair : e = <<reg, value>>
            BY <5>4
          <5>6. Kept(new, skip) = a \o <<e>>
            BY <4>5, <4>6, <4>7, <4>10, <5>5 DEF Joins
          <5>7. Append(a, e) = a \o <<e>>
            BY <4>8, AppendIsConcat
          <5> QED
            BY <2>12, <3>2, <4>1, <4>7, <4>10, <5>1, <5>2, <5>3, <5>5, <5>6, <5>7
        <4> QED
          BY <4>9, <4>10
      <3> QED
        BY <3>1, <3>2
    <2> QED
      BY <2>5, <2>10, <2>13
  <1> HIDE DEF Good
  <1>3. 0 .. L \subseteq Good
    BY <1>1, <1>2, EveryNumberUpTo
  <1>4. L \in Good
    BY <1>3
  <1> QED
    BY <1>0, <1>4 DEF Good

-----------------------------------------------------------------------------
(* What the player makes of a stream.                                      *)

(* The records of two streams joined begin where they began, those of the  *)
(* second moved by the length of the first.                                *)
LEMMA BoundariesJoin ==
  ASSUME NEW s \in Seq(Pair), NEW n \in Nat, IsStream(s, n),
         NEW t \in Seq(Pair), NEW m \in Nat, IsStream(t, m), NEW st, Joins(st, s, t)
  PROVE  /\ st \in Seq(Pair) /\ IsStream(st, n + m)
         /\ \A x \in Nat : x < Len(s) => (x \in Boundaries(st) <=> x \in Boundaries(s))
         /\ \A x \in Nat : Len(s) + x \in Boundaries(st) <=> x \in Boundaries(t)
  <1>1. PICK b \in [0 .. n -> Nat] : Marks(s, n, b)
    BY DEF IsStream
  <1>2. PICK c \in [0 .. m -> Nat] : Marks(t, m, c)
    BY DEF IsStream
  <1>0. Joins(st, s, t) /\ Marks(s, n, b) /\ Marks(t, m, c)
    BY <1>1, <1>2
  <1>3. st \in Seq(Pair)
    BY <1>0, JoinedMarks
  <1>4. PICK d : Marks(st, n + m, d) /\ KeepMarks(d, n, b, m, c, Len(s))
    BY <1>0, JoinedMarks
  <1>5. PICK L \in Nat, k \in Nat : L = Len(s) /\ k = n + m
    OBVIOUS
  <1>6. d \in [0 .. k -> Nat] /\ IsStream(st, k)
    BY <1>4, <1>5 DEF IsStream, Marks
  <1>7. /\ Boundaries(s) = {b[j] : j \in 0 .. n} /\ Boundaries(t) = {c[j] : j \in 0 .. m}
        /\ Boundaries(st) = {d[j] : j \in 0 .. k}
    <2>1. Boundaries(s) = {b[j] : j \in 0 .. n}
      BY <1>1, MarksAreBoundaries
    <2>2. Boundaries(t) = {c[j] : j \in 0 .. m}
      BY <1>2, MarksAreBoundaries
    <2>3. Marks(st, k, d)
      BY <1>4, <1>5
    <2>4. Boundaries(st) = {d[j] : j \in 0 .. k}
      BY <1>3, <2>3, MarksAreBoundaries
    <2> QED
      BY <2>1, <2>2, <2>4
  <1>8. /\ \A j \in 0 .. n : d[j] = b[j]
        /\ \A j \in 0 .. m : d[n + j] = L + c[j]
    BY <1>4, <1>5 DEF KeepMarks
  <1>9. b[n] = L /\ c[0] = 0
    BY <1>0, <1>5 DEF Marks
  <1>10. \A j \in 0 .. n : b[j] <= L
    <2>1. \A y \in 0 .. n : \A j \in 0 .. y : b[j] <= b[y] /\ (j < y => b[j] < b[y])
      BY <1>0, MarksRise
    <2>2. n \in 0 .. n
      OBVIOUS
    <2> QED
      BY <1>9, <2>1, <2>2
  <1>11. \A j \in 0 .. k : \/ j \in 0 .. n
                           \/ \E y \in 0 .. m : j = n + y
    <2> SUFFICES ASSUME NEW j \in 0 .. k, j \notin 0 .. n
                 PROVE  \E y \in 0 .. m : j = n + y
      OBVIOUS
    <2>1. j - n \in 0 .. m /\ j = n + (j - n)
      BY <1>5
    <2> QED
      BY <2>1
  <1>12. \A j \in 0 .. n : j \in 0 .. k
    BY <1>5
  <1>13. \A j \in 0 .. m : n + j \in 0 .. k
    BY <1>5
  <1>14. ASSUME NEW x \in Nat, x < L
         PROVE  x \in Boundaries(st) <=> x \in Boundaries(s)
    <2>1. ASSUME x \in Boundaries(st) PROVE x \in Boundaries(s)
      <3>1. PICK j \in 0 .. k : x = d[j]
        BY <1>7, <2>1
      <3>2. CASE j \in 0 .. n
        BY <1>7, <1>8, <3>1, <3>2
      <3>3. ASSUME NEW y \in 0 .. m, j = n + y PROVE FALSE
        <4>1. x = L + c[y] /\ c[y] \in Nat
          BY <1>2, <1>8, <3>1, <3>3
        <4> QED
          BY <1>14, <4>1
      <3> QED
        BY <1>11, <3>2, <3>3
    <2>2. ASSUME x \in Boundaries(s) PROVE x \in Boundaries(st)
      <3>1. PICK j \in 0 .. n : x = b[j]
        BY <1>7, <2>2
      <3>2. d[j] = x /\ j \in 0 .. k
        BY <1>8, <1>12, <3>1
      <3> QED
        BY <1>7, <3>2
    <2> QED
      BY <2>1, <2>2
  <1>15. ASSUME NEW x \in Nat
         PROVE  L + x \in Boundaries(st) <=> x \in Boundaries(t)
    <2>1. ASSUME L + x \in Boundaries(st) PROVE x \in Boundaries(t)
      <3>1. PICK j \in 0 .. k : L + x = d[j]
        BY <1>7, <2>1
      <3>2. CASE j \in 0 .. n
        <4>1. L + x = b[j] /\ b[j] <= L /\ b[j] \in Nat
          BY <1>1, <1>8, <1>10, <3>1, <3>2
        <4>2. x = 0 /\ 0 \in 0 .. m
          BY <4>1
        <4> QED
          BY <1>7, <1>9, <4>2
      <3>3. ASSUME NEW y \in 0 .. m, j = n + y PROVE x \in Boundaries(t)
        <4>1. L + x = L + c[y] /\ c[y] \in Nat
          BY <1>2, <1>8, <3>1, <3>3
        <4>2. x = c[y]
          BY <4>1
        <4> QED
          BY <1>7, <4>2
      <3> QED
        BY <1>11, <3>2, <3>3
    <2>2. ASSUME x \in Boundaries(t) PROVE L + x \in Boundaries(st)
      <3>1. PICK j \in 0 .. m : x = c[j]
        BY <1>7, <2>2
      <3>2. d[n + j] = L + x /\ n + j \in 0 .. k
        BY <1>8, <1>13, <3>1
      <3> QED
        BY <1>7, <3>2
    <2> QED
      BY <2>1, <2>2
  <1> QED
    BY <1>3, <1>5, <1>6, <1>14, <1>15

(* The writes of one stream, then those of the one behind it.              *)
LEMMA PlayedJoins ==
  ASSUME NEW s \in Seq(Pair), NEW n \in Nat, IsStream(s, n),
         NEW t \in Seq(Pair), NEW m \in Nat, IsStream(t, m), NEW st, Joins(st, s, t), NEW skip
  PROVE  Joins(Played(st, skip), Played(s, skip), Played(t, skip))
  <1> DEFINE K(x) == {p \in DOMAIN x : p - 1 \notin Boundaries(x) /\ x[p][1] \notin skip}
  <1>1. st = s \o t
    BY DEF Joins
  <1>0. PICK L \in Nat, M \in Nat : L = Len(s) /\ M = Len(t)
    OBVIOUS
  <1>2. /\ DOMAIN s = 1 .. L /\ DOMAIN t = 1 .. M /\ DOMAIN st = 1 .. L + M
        /\ \A p \in 1 .. L + M : st[p] = IF p <= L THEN s[p] ELSE t[p - L]
    BY <1>0, <1>1, ConcatProperties
  <1>3. \A x \in Nat : x < L => (x \in Boundaries(st) <=> x \in Boundaries(s))
    BY <1>0, BoundariesJoin
  <1>4. \A x \in Nat : L + x \in Boundaries(st) <=> x \in Boundaries(t)
    BY <1>0, BoundariesJoin
  <1>5. ASSUME NEW p \in 1 .. L
        PROVE  p \in K(st) <=> p \in K(s)
    <2>1. p \in 1 .. L + M /\ p <= L /\ p - 1 \in Nat /\ p - 1 < L
      OBVIOUS
    <2>2. st[p] = s[p]
      BY <1>2, <2>1
    <2>3. p - 1 \in Boundaries(st) <=> p - 1 \in Boundaries(s)
      BY <1>3, <2>1
    <2> QED
      BY <1>2, <2>1, <2>2, <2>3
  <1>6. ASSUME NEW p \in 1 .. M
        PROVE  L + p \in K(st) <=> p \in K(t)
    <2>1. PICK q : q = L + p
      OBVIOUS
    <2>2. q \in 1 .. L + M /\ ~(q <= L) /\ q - L = p /\ q - 1 = L + (p - 1) /\ p - 1 \in Nat
      BY <2>1
    <2>3. st[q] = t[p]
      BY <1>2, <2>2
    <2>4. q - 1 \in Boundaries(st) <=> p - 1 \in Boundaries(t)
      BY <1>4, <2>2
    <2> QED
      BY <1>2, <2>1, <2>2, <2>3, <2>4
  <1> HIDE DEF K
  <1>7. PICK a, b, c : a = K(st) /\ b = K(s) /\ c = K(t)
    OBVIOUS
  <1>8. \A p \in 1 .. Len(s) : p \in a <=> p \in b
    BY <1>0, <1>5, <1>7
  <1>9. \A p \in 1 .. Len(t) : Len(s) + p \in a <=> p \in c
    BY <1>0, <1>6, <1>7
  <1>10. Joins(Picked(st, a), Picked(s, b), Picked(t, c))
    BY <1>8, <1>9, PickedConcat
  <1> QED
    BY <1>7, <1>10 DEF Played, K

(* An empty stream plays nothing.                                          *)
LEMMA PlayedNone ==
  ASSUME NEW skip
  PROVE  Played(<<>>, skip) = <<>>
  <1> DEFINE K == {p \in DOMAIN <<>> : p - 1 \notin Boundaries(<<>>) /\ <<>>[p][1] \notin skip}
  <1>1. <<>> \in Seq(Pair) /\ \A p \in 1 .. Len(<<>>) : p \notin K
    OBVIOUS
  <1> HIDE DEF K
  <1>2. Picked(<<>>, K) = <<>>
    BY <1>1, PickedNone
  <1> QED
    BY <1>2 DEF Played, K

(* Of a record the count is not played, and all the writes are.            *)
LEMMA PlayedOne ==
  ASSUME NEW writes \in Seq(Pair), Len(writes) <= MaxFrameWrites, NEW skip,
         NEW rec, Joins(rec, << CountPair(Len(writes)) >>, writes)
  PROVE  /\ rec \in Seq(Pair) /\ IsStream(rec, 1)
         /\ Played(rec, skip) = Kept(writes, skip)
  <1>0. PICK L \in Nat : L = Len(writes)
    OBVIOUS
  <1>1. PICK count : count = << CountPair(Len(writes)) >>
    OBVIOUS
  <1>2. rec = count \o writes
    BY <1>1 DEF Joins
  <1>3. rec \in Seq(Pair) /\ IsStream(rec, 1)
    BY <1>1, <1>2, OneRecord
  <1>4. CountPair(L) \in Pair
    <2>1. L \in 0 .. MaxFrameWrites
      <3>1. CountBase * CountBase \in Nat
        BY CountAssumption
      <3> QED
        BY <1>0, <3>1 DEF MaxFrameWrites
    <2> QED
      BY <2>1, CountIsRead
  <1>5. count \in Seq(Pair) /\ Len(count) = 1
    BY <1>0, <1>1, <1>4
  <1>6. /\ Len(rec) = 1 + L /\ DOMAIN rec = 1 .. 1 + L /\ DOMAIN writes = 1 .. L
        /\ \A p \in 1 .. 1 + L : rec[p] = IF p <= 1 THEN count[p] ELSE writes[p - 1]
    <2>1. /\ Len(rec) = Len(count) + Len(writes)
          /\ \A p \in 1 .. Len(count) + Len(writes) :
               rec[p] = IF p <= Len(count) THEN count[p] ELSE writes[p - Len(count)]
      BY <1>2, <1>5, ConcatProperties
    <2>2. DOMAIN rec = 1 .. Len(rec) /\ DOMAIN writes = 1 .. Len(writes)
      BY <1>3
    <2> QED
      BY <1>0, <1>5, <2>1, <2>2
  <1>7. PICK b : Marks(rec, 1, b)
    BY <1>3 DEF IsStream
  <1>8. Boundaries(rec) = {0, 1 + L}
    <2>1. Boundaries(rec) = {b[j] : j \in 0 .. 1}
      BY <1>3, <1>7, MarksAreBoundaries
    <2>2. b[0] = 0 /\ b[1] = 1 + L
      BY <1>6, <1>7 DEF Marks
    <2>3. \A j : j \in 0 .. 1 <=> j = 0 \/ j = 1
      OBVIOUS
    <2> QED
      BY <2>1, <2>2, <2>3
  <1> DEFINE K == {p \in DOMAIN rec : p - 1 \notin Boundaries(rec) /\ rec[p][1] \notin skip}
             T == {p \in DOMAIN writes : writes[p][1] \notin skip}
  <1>9. \A p \in 1 .. Len(count) : p \in K <=> p \in {}
    <2>1. 1 - 1 \in Boundaries(rec) /\ \A p \in 1 .. Len(count) : p = 1
      BY <1>5, <1>8
    <2> QED
      BY <2>1
  <1>10. ASSUME NEW p \in 1 .. L
         PROVE  1 + p \in K <=> p \in T
    <2>1. PICK q : q = 1 + p
      OBVIOUS
    <2>2. q \in 1 .. 1 + L /\ ~(q <= 1) /\ q - 1 = p /\ q - 1 \notin {0, 1 + L}
      BY <2>1
    <2>3. rec[q] = writes[p]
      BY <1>6, <2>2
    <2> QED
      BY <1>6, <1>8, <2>1, <2>2, <2>3
  <1> HIDE DEF K, T
  <1>11. \A p \in 1 .. Len(writes) : Len(count) + p \in K <=> p \in T
    BY <1>0, <1>5, <1>10
  <1>12. Joins(rec, count, writes)
    BY <1>2 DEF Joins
  <1>13. PICK a, e, c : a = K /\ e = {} /\ c = T
    OBVIOUS
  <1>14. \A p \in 1 .. Len(count) : p \in a <=> p \in e
    BY <1>9, <1>13
  <1>15. \A p \in 1 .. Len(writes) : Len(count) + p \in a <=> p \in c
    BY <1>11, <1>13
  <1>16. Joins(Picked(rec, a), Picked(count, e), Picked(writes, c))
    BY <1>5, <1>12, <1>14, <1>15, PickedConcat
  <1>17. Picked(count, e) = <<>>
    BY <1>5, <1>13, PickedNone
  <1>18. Picked(writes, c) \in Seq(Pair)
    BY PickedTyped
  <1>19. <<>> \o Picked(writes, c) = Picked(writes, c)
    BY <1>18, ConcatEmptySeq
  <1>20. Picked(rec, a) = Picked(writes, c)
    BY <1>16, <1>17, <1>19 DEF Joins
  <1>21. Played(rec, skip) = Picked(rec, a) /\ Kept(writes, skip) = Picked(writes, c)
    BY <1>13 DEF Played, Kept, K, T
  <1> QED
    BY <1>3, <1>20, <1>21

-----------------------------------------------------------------------------
(* The stream of a call plays the writes of its segment, in their order.   *)

(* Writes in order are in frames in order.                                 *)
LEMMA FramesInOrder ==
  ASSUME NEW s, NEW seg, IsSegment(s, seg),
         NEW k \in SegmentWrites(s, seg), NEW m \in SegmentWrites(s, seg), k <= m
  PROVE  FrameOf(s, seg, k) <= FrameOf(s, seg, m)
  <1>1. /\ StartSample(s, seg) \in Nat /\ SegmentWrites(s, seg) \subseteq 1 .. Len(s.writes)
        /\ s.writes[k] \in [sample : Nat, reg : Reg, value : Byte]
        /\ s.writes[m] \in [sample : Nat, reg : Reg, value : Byte]
        /\ s.writes[k].sample >= StartSample(s, seg)
        /\ s.writes[m].sample >= StartSample(s, seg)
    BY WritesOfSegment
  <1>2. \A x, y \in DOMAIN s.writes : x <= y => s.writes[x].sample <= s.writes[y].sample
    BY DEF IsSegment, WellFormed
  <1>3. k \in DOMAIN s.writes /\ m \in DOMAIN s.writes
    BY <1>1, WritesOfSegment
  <1>4. PICK a \in Nat, b \in Nat : a = s.writes[k].sample /\ b = s.writes[m].sample
    BY <1>1
  <1>5. a <= b
    BY <1>2, <1>3, <1>4
  <1>6. PICK u \in Nat, v \in Nat :
          u = a - StartSample(s, seg) /\ v = b - StartSample(s, seg) /\ u <= v
    BY <1>1, <1>4, <1>5
  <1>7. u \div SamplesPerFrame <= v \div SamplesPerFrame
    BY <1>6, FrameAssumption, DivGrows
  <1> QED
    BY <1>4, <1>6, <1>7 DEF FrameOf

(* The writes before a frame and those of it are apart in the song.        *)
LEMMA CutBeforeFrame ==
  ASSUME NEW s, NEW seg, IsSegment(s, seg), NEW j \in Nat
  PROVE  \E cut \in 0 .. Len(s.writes) : \A m \in SegmentWrites(s, seg) :
           /\ FrameOf(s, seg, m) < j => m <= cut
           /\ FrameOf(s, seg, m) = j => m > cut
  <1>1. PICK N \in Nat : N = Len(s.writes) /\ SegmentWrites(s, seg) \subseteq 1 .. N
    BY WritesOfSegment
  <1>2. \A m \in SegmentWrites(s, seg) : FrameOf(s, seg, m) \in Nat /\ m \in Nat
    <2>1. FrameTotal(s, seg) \in Nat
          /\ \A m \in SegmentWrites(s, seg) : FrameOf(s, seg, m) \in 0 .. FrameTotal(s, seg) - 1
      BY FramesOfSegment
    <2> QED
      BY <1>1, <2>1
  <1> DEFINE Old == {m \in SegmentWrites(s, seg) : FrameOf(s, seg, m) < j}
  <1>3. CASE Old = {}
    <2>1. \A m \in SegmentWrites(s, seg) : m > 0
      BY <1>1
    <2>2. 0 \in 0 .. N
      BY <1>1
    <2> QED
      BY <1>1, <1>3, <2>1, <2>2
  <1>4. CASE Old # {}
    <2>1. Old \subseteq Nat /\ \A m \in Old : m <= N
      BY <1>1
    <2>2. PICK cut \in Old : \A m \in Old : m <= cut
      <3> HIDE DEF Old
      <3> QED
        BY <1>4, <2>1, GreatestNumber
    <2>3. ASSUME NEW m \in SegmentWrites(s, seg)
          PROVE  /\ FrameOf(s, seg, m) < j => m <= cut
                 /\ FrameOf(s, seg, m) = j => m > cut
      <3>1. FrameOf(s, seg, m) < j => m <= cut
        BY <2>2
      <3>2. ASSUME FrameOf(s, seg, m) = j, ~(m > cut) PROVE FALSE
        <4>1. m <= cut /\ cut \in SegmentWrites(s, seg)
          BY <1>2, <3>2
        <4>2. FrameOf(s, seg, m) <= FrameOf(s, seg, cut)
          BY <4>1, FramesInOrder
        <4> QED
          BY <1>2, <3>2, <4>1, <4>2
      <3> QED
        BY <3>1, <3>2
    <2>4. cut \in 0 .. N
      BY <1>1
    <2> QED
      BY <1>1, <2>3, <2>4
  <1> QED
    BY <1>3, <1>4

(* The writes of the frames before frame j.                                *)
Earlier(s, seg, j, skip) ==
  {m \in SegmentWrites(s, seg) : FrameOf(s, seg, m) < j /\ s.writes[m].reg \notin skip}

(* The writes before the next frame are those before this one and this     *)
(* one's.                                                                  *)
LEMMA EarlierNext ==
  ASSUME NEW s, NEW seg, IsSegment(s, seg), NEW j \in Nat, NEW skip
  PROVE  Joins(Picked(Pairs(s), Earlier(s, seg, j + 1, skip)),
               Picked(Pairs(s), Earlier(s, seg, j, skip)),
               Picked(Pairs(s), Mine(s, seg, WriteTotal(s, seg), j, skip)))
  <1>1. PICK cut \in 0 .. Len(s.writes) : \A m \in SegmentWrites(s, seg) :
           /\ FrameOf(s, seg, m) < j => m <= cut
           /\ FrameOf(s, seg, m) = j => m > cut
    BY CutBeforeFrame
  <1>2. Pairs(s) \in Seq(Pair) /\ Len(Pairs(s)) = Len(s.writes)
    BY PairsOfSong
  <1>3. PICK P \in Seq(Pair) : P = Pairs(s) /\ cut \in 0 .. Len(P)
    BY <1>2
  <1>4. PICK K, M, A : /\ K = Earlier(s, seg, j, skip)
                       /\ M = Mine(s, seg, WriteTotal(s, seg), j, skip)
                       /\ A = Earlier(s, seg, j + 1, skip)
    OBVIOUS
  <1>5. M = {m \in SegmentWrites(s, seg) : FrameOf(s, seg, m) = j /\ s.writes[m].reg \notin skip}
    <2>1. PICK b \in Nat, last \in Nat :
            /\ b = Base(s, seg) /\ last = Final(s, seg)
            /\ SegmentWrites(s, seg) = b + 1 .. last /\ WriteTotal(s, seg) = last - b
      BY SegmentSpan DEF WriteTotal
    <2>2. b + (last - b) = last
      BY <2>1
    <2> QED
      BY <1>4, <2>1, <2>2 DEF Mine
  <1>6. \A m \in SegmentWrites(s, seg) : FrameOf(s, seg, m) \in Nat
    <2>1. FrameTotal(s, seg) \in Nat
          /\ \A m \in SegmentWrites(s, seg) : FrameOf(s, seg, m) \in 0 .. FrameTotal(s, seg) - 1
      BY FramesOfSegment
    <2> QED
      BY <2>1
  <1>7. A = K \cup M
    <2>1. \A m \in SegmentWrites(s, seg) :
            FrameOf(s, seg, m) < j + 1 <=> FrameOf(s, seg, m) < j \/ FrameOf(s, seg, m) = j
      BY <1>6
    <2> QED
      BY <1>4, <1>5, <2>1 DEF Earlier
  <1>8. \A k \in K : k <= cut
    BY <1>1, <1>4 DEF Earlier
  <1>9. \A k \in M : k > cut
    BY <1>1, <1>5
  <1>10. Joins(Picked(P, K \cup M), Picked(P, K), Picked(P, M))
    BY <1>3, <1>8, <1>9, PickedSplit
  <1> QED
    BY <1>3, <1>4, <1>7, <1>10

(* The stream made of the batches of a pass plays the writes of the        *)
(* segment.                                                                *)
LEMMA StreamPlays ==
  ASSUME NEW s, NEW seg, IsSegment(s, seg), NEW c, NEW skip, PassesOn(c, skip),
         NEW f, IsPass(s, seg, c, f), NEW fr, fr = f[WriteTotal(s, seg)][2],
         NEW h, Streams(fr, h), NEW total, total = FrameTotal(s, seg), Counted16(fr, total)
  PROVE  Played(h[total], skip)
           = Picked(Pairs(s), {m \in SegmentWrites(s, seg) : s.writes[m].reg \notin skip})
  <1>0. total \in Nat /\ WriteTotal(s, seg) \in Nat
    BY FramesOfSegment, SegmentSpan
  <1>1. fr \in [0 .. total - 1 -> Seq(Write)]
    BY <1>0, PassBegun DEF PassFrames
  <1>2. PICK P \in Seq(Pair) : P = Pairs(s)
    BY PairsOfSong
  <1> DEFINE Good == {j \in 0 .. total :
                        /\ IsStream(h[j], j)
                        /\ Played(h[j], skip) = Picked(P, Earlier(s, seg, j, skip))}
  <1>3. 0 \in Good
    <2>1. h[0] = <<>>
      BY DEF Streams
    <2>2. \A m \in SegmentWrites(s, seg) : ~(FrameOf(s, seg, m) < 0)
      BY <1>0, FramesOfSegment
    <2>3. Earlier(s, seg, 0, skip) = {}
      BY <2>2 DEF Earlier
    <2>4. Picked(P, {}) = <<>>
      BY PickedNone
    <2>5. Played(<<>>, skip) = <<>> /\ IsStream(<<>>, 0)
      BY PlayedNone, NoRecords
    <2>6. 0 \in 0 .. total
      BY <1>0
    <2> QED
      BY <2>1, <2>3, <2>4, <2>5, <2>6
  <1>4. ASSUME NEW j \in 0 .. total - 1, j \in Good
        PROVE  j + 1 \in Good
    <2>1. PICK w \in Seq(Write) : w = fr[j]
      BY <1>1
    <2>2. w \in Seq(Pair) /\ Len(w) <= MaxFrameWrites
      BY <2>1, SeqMonotonic, WriteIsPair DEF Counted16
    <2>3. PICK rec : rec = << CountPair(Len(w)) >> \o w /\ Joins(rec, << CountPair(Len(w)) >>, w)
      BY DEF Joins
    <2>4. rec \in Seq(Pair) /\ IsStream(rec, 1)
      BY <2>2, <2>3, PlayedOne
    <2>5. Played(rec, skip) = Kept(w, skip)
      BY <2>2, <2>3, PlayedOne
    <2>6. Kept(w, skip) = Picked(P, Mine(s, seg, WriteTotal(s, seg), j, skip))
      BY <1>2, <2>1, PassBatches
    <2>7. j \in Nat /\ j \in DOMAIN fr /\ j + 1 \in 0 .. total
      BY <1>0, <1>1
    <2>8. PICK old, new : old = h[j] /\ new = h[j + 1]
      OBVIOUS
    <2>9. old \in Seq(Pair) /\ IsStream(old, j) /\ new = old \o << CountPair(Len(w)) >> \o w
          /\ Played(old, skip) = Picked(P, Earlier(s, seg, j, skip))
      BY <1>4, <2>1, <2>7, <2>8 DEF Streams
    <2>10. Joins(new, old, rec)
      <3>1. PICK one : one = << CountPair(Len(w)) >>
        OBVIOUS
      <3>2. one \in Seq(Pair)
        <4>1. CountPair(Len(w)) \in Pair
          <5>1. Len(w) \in 0 .. MaxFrameWrites
            <6>1. CountBase * CountBase \in Nat
              BY CountAssumption
            <6> QED
              BY <2>2, <6>1 DEF MaxFrameWrites
          <5> QED
            BY <5>1, CountIsRead
        <4> QED
          BY <3>1, <4>1
      <3>3. (old \o one) \o w = old \o (one \o w)
        BY <2>2, <2>9, <3>2, ConcatInTurn
      <3> QED
        BY <2>3, <2>9, <3>1, <3>3 DEF Joins
    <2>11. Joins(Played(new, skip), Played(old, skip), Played(rec, skip))
      <3>1. PICK n, one \in Nat : n = j /\ one = 1
        BY <2>7
      <3>2. n \in Nat /\ IsStream(old, n) /\ IsStream(rec, one)
        BY <2>4, <2>7, <2>9, <3>1
      <3> QED
        BY <2>4, <2>9, <2>10, <3>2, PlayedJoins
    <2>12. IsStream(new, j + 1)
      <3>1. PICK n, one \in Nat : n = j /\ one = 1
        BY <2>7
      <3>2. n \in Nat /\ IsStream(old, n) /\ IsStream(rec, one)
        BY <2>4, <2>7, <2>9, <3>1
      <3>3. IsStream(new, n + one)
        BY <2>4, <2>9, <2>10, <3>2, BoundariesJoin
      <3> QED
        BY <3>1, <3>3
    <2>13. Joins(Picked(P, Earlier(s, seg, j + 1, skip)), Picked(P, Earlier(s, seg, j, skip)),
                 Picked(P, Mine(s, seg, WriteTotal(s, seg), j, skip)))
      BY <1>2, <2>7, EarlierNext
    <2>14. Played(new, skip) = Picked(P, Earlier(s, seg, j + 1, skip))
      BY <2>5, <2>6, <2>9, <2>11, <2>13 DEF Joins
    <2> QED
      BY <2>7, <2>8, <2>12, <2>14
  <1> HIDE DEF Good
  <1>5. 0 .. total \subseteq Good
    BY <1>0, <1>3, <1>4, EveryNumberUpTo
  <1>6. total \in Good
    BY <1>0, <1>5
  <1>7. Earlier(s, seg, total, skip)
          = {m \in SegmentWrites(s, seg) : s.writes[m].reg \notin skip}
    <2>1. \A m \in SegmentWrites(s, seg) : FrameOf(s, seg, m) < total
      BY <1>0, FramesOfSegment
    <2> QED
      BY <2>1 DEF Earlier
  <1> QED
    BY <1>2, <1>6, <1>7 DEF Good

(* The mode that passes every write on, and that which passes the others.  *)
Passable(s, p, skip) == skip = Pitched \/ (skip = {} /\ ~(p /\ s.clock_hz # TargetClock))

(* So does the output of a pass.                                           *)
LEMMA OutputPlays ==
  ASSUME NEW s, NEW seg, IsSegment(s, seg), NEW p, NEW skip, Passable(s, p, skip),
         NEW out, IsOutputOfPass(s, p, seg, out)
  PROVE  Played(out, skip)
           = Picked(Pairs(s), {m \in SegmentWrites(s, seg) : s.writes[m].reg \notin skip})
  <1>1. PICK c, f, h : /\ Start(s, p, c, seg) /\ IsPass(s, Part(seg), c, f)
                       /\ Streams(f[WriteTotal(s, seg)][2], h)
                       /\ Counted16(f[WriteTotal(s, seg)][2], FrameTotal(s, seg))
                       /\ out = h[FrameTotal(s, seg)]
    BY DEF IsOutputOfPass
  <1>2. PassesOn(c, skip)
    <2>1. c.pitch_conversion = p /\ c.source_clock = s.clock_hz
      BY <1>1 DEF Start, Remembers
    <2> QED
      BY <2>1 DEF PassesOn, Passable, Adapts
  <1>3. PICK part : part = Part(seg)
    OBVIOUS
  <1>4. /\ IsSegment(s, part) /\ WriteTotal(s, part) = WriteTotal(s, seg)
        /\ FrameTotal(s, part) = FrameTotal(s, seg)
        /\ SegmentWrites(s, part) = SegmentWrites(s, seg)
    BY <1>3, PartOfSong
  <1>5. PICK fr, total : fr = f[WriteTotal(s, part)][2] /\ total = FrameTotal(s, part)
    OBVIOUS
  <1>6. /\ IsPass(s, part, c, f) /\ Streams(fr, h) /\ Counted16(fr, total) /\ out = h[total]
    BY <1>1, <1>3, <1>4, <1>5
  <1>7. Played(h[total], skip)
          = Picked(Pairs(s), {m \in SegmentWrites(s, part) : s.writes[m].reg \notin skip})
    BY <1>2, <1>4, <1>5, <1>6, StreamPlays
  <1> QED
    BY <1>4, <1>6, <1>7

-----------------------------------------------------------------------------
(* The streams of the calls, joined.                                       *)

(* The passes of the loop that are stored after the first.                 *)
Unrolled(skip) ==
  IF PassesStored < 2 THEN <<>> ELSE WritesOf(song.loop_write + 1, Len(song.writes), skip)

(* So does every output of a finished conversion.                          *)
LEMMA SegmentPlays ==
  ASSUME PassInv, step = "done", NEW seg \in Segment, seg # "intro" => song.has_loop,
         NEW skip, Passable(song, Pitch, skip)
  PROVE  /\ output[seg] \in Seq(Pair) /\ FrameTotal(song, seg) \in Nat
         /\ IsStream(output[seg], FrameTotal(song, seg))
         /\ Played(output[seg], skip)
              = Picked(Pairs(song),
                       {m \in SegmentWrites(song, seg) : song.writes[m].reg \notin skip})
  <1>1. TypesHold /\ StreamsGrow /\ ResultIsJoined
    BY DEF PassInv, ConvertInv
  <1>2. seg \in Behind
    <2>1. song.has_loop => segment = "steady"
      BY <1>1 DEF ResultIsJoined
    <2>2. ~song.has_loop => segment = "intro"
      BY <1>1 DEF ResultIsJoined
    <2> QED
      BY <2>1, <2>2 DEF Behind, Segment
  <1>3. IsOutputOfPass(song, Pitch, seg, output[seg])
    BY <1>2 DEF PassInv, PassesMade
  <1>4. IsSegment(song, seg)
    BY <1>1 DEF IsSegment, TypesHold
  <1>5. IsStream(output[seg], FrameTotal(song, seg)) /\ output[seg] \in Seq(Pair)
    BY <1>1, <1>2 DEF StreamsGrow, TypesHold
  <1>6. FrameTotal(song, seg) \in Nat
    BY <1>4, FramesOfSegment
  <1> QED
    BY <1>3, <1>4, <1>5, <1>6, OutputPlays

(* Writes of the song are pairs.                                           *)
LEMMA WritesAreTyped ==
  ASSUME WellFormed(song), NEW first, NEW last, NEW skip
  PROVE  WritesOf(first, last, skip) \in Seq(Pair)
  <1>1. IsSegment(song, "intro")
    BY DEF IsSegment, Segment
  <1>2. Pairs(song) \in Seq(Pair)
    BY <1>1, PairsOfSong
  <1> QED
    BY <1>2, PickedTyped DEF WritesOf

(* The intro's writes and the loop's are the song's.                       *)
LEMMA SongInTwo ==
  ASSUME WellFormed(song), song.has_loop, NEW skip
  PROVE  Joins(WritesOf(1, Len(song.writes), skip), WritesOf(1, song.loop_write, skip),
               WritesOf(song.loop_write + 1, Len(song.writes), skip))
  <1>1. IsSegment(song, "intro")
    BY DEF IsSegment, Segment
  <1>2. PICK P \in Seq(Pair) : P = Pairs(song) /\ Len(P) = Len(song.writes)
    BY <1>1, PairsOfSong
  <1>3. PICK l \in Nat, N \in Nat : l = song.loop_write /\ N = Len(song.writes) /\ l <= N
    <2>1. Base(song, "intro") = 0 /\ Final(song, "intro") = song.loop_write
      BY DEF Base, Final
    <2>2. song.loop_write \in Nat /\ song.loop_write <= Len(song.writes) /\ Len(song.writes) \in Nat
      BY <1>1, <2>1, SegmentSpan
    <2> QED
      BY <2>2
  <1> DEFINE K == {k \in 1 .. l : song.writes[k].reg \notin skip}
             M == {k \in l + 1 .. N : song.writes[k].reg \notin skip}
             A == {k \in 1 .. N : song.writes[k].reg \notin skip}
  <1>4. A = K \cup M
    <2>1. \A k : k \in 1 .. N <=> k \in 1 .. l \/ k \in l + 1 .. N
      BY <1>3
    <2> QED
      BY <2>1
  <1>5. (\A k \in K : k <= l) /\ (\A k \in M : k > l)
    BY <1>3
  <1>6. /\ WritesOf(1, Len(song.writes), skip) = Picked(P, A)
        /\ WritesOf(1, song.loop_write, skip) = Picked(P, K)
        /\ WritesOf(song.loop_write + 1, Len(song.writes), skip) = Picked(P, M)
    BY <1>2, <1>3 DEF WritesOf
  <1> HIDE DEF K, M, A
  <1>7. l \in 0 .. Len(P)
    BY <1>2, <1>3
  <1>8. Joins(Picked(P, K \cup M), Picked(P, K), Picked(P, M))
    BY <1>5, <1>7, PickedSplit
  <1> QED
    BY <1>4, <1>6, <1>8

(* The song returned plays all its writes, and those of the loop again if  *)
(* it was unrolled.                                                        *)
LEMMA SongIsPlayed ==
  ASSUME PassInv, step = "done", NEW skip, Passable(song, Pitch, skip)
  PROVE  Joins(Played(converted.stream, skip), WritesOf(1, Len(song.writes), skip),
               Unrolled(skip))
  <1>1. TypesHold /\ ResultIsJoined /\ WellFormed(song)
    BY DEF PassInv, ConvertInv, TypesHold
  <1>2. PICK all : all = WritesOf(1, Len(song.writes), skip)
    OBVIOUS
  <1>3. all \in Seq(Pair)
    BY <1>1, <1>2, WritesAreTyped
  <1>4. CASE ~song.has_loop
    <2>1. converted.stream = output["intro"] /\ "intro" \in Segment
      BY <1>1, <1>4 DEF ResultIsJoined, Segment
    <2>2. SegmentWrites(song, "intro") = 1 .. Len(song.writes)
      BY <1>4 DEF SegmentWrites
    <2>3. Played(output["intro"], skip) = Picked(Pairs(song),
            {m \in SegmentWrites(song, "intro") : song.writes[m].reg \notin skip})
      BY <2>1, SegmentPlays
    <2>4. Played(converted.stream, skip) = all
      BY <1>2, <2>1, <2>2, <2>3 DEF WritesOf
    <2>5. Unrolled(skip) = <<>>
      BY <1>4 DEF Unrolled, PassesStored
    <2>6. all \o <<>> = all
      BY <1>3, ConcatEmptySeq
    <2> QED
      BY <1>2, <2>4, <2>5, <2>6 DEF Joins
  <1>5. CASE song.has_loop
    <2>0. "intro" \in Segment /\ "first" \in Segment /\ "steady" \in Segment
      BY DEF Segment
    <2>1. PICK intro, first, again, rest :
            /\ intro = output["intro"] /\ first = output["first"] /\ again = output["steady"]
            /\ rest = IF LoopIsStable(output) THEN <<>> ELSE again
      OBVIOUS
    <2>2. converted.stream = (intro \o first) \o rest
      BY <1>1, <1>5, <2>1 DEF ResultIsJoined
    <2>3. PICK head, loop : head = WritesOf(1, song.loop_write, skip)
                            /\ loop = WritesOf(song.loop_write + 1, Len(song.writes), skip)
      OBVIOUS
    <2>4. PICK n \in Nat : intro \in Seq(Pair) /\ IsStream(intro, n)
      BY <2>0, <2>1, SegmentPlays
    <2>5. PICK m \in Nat : first \in Seq(Pair) /\ IsStream(first, m)
      BY <1>5, <2>0, <2>1, SegmentPlays
    <2>6. PICK a \in Nat : again \in Seq(Pair) /\ IsStream(again, a)
      BY <1>5, <2>0, <2>1, SegmentPlays
    <2>7. Played(intro, skip) = head
      <3>1. SegmentWrites(song, "intro") = 1 .. song.loop_write
        BY <1>5 DEF SegmentWrites
      <3>2. Played(output["intro"], skip) = Picked(Pairs(song),
              {k \in SegmentWrites(song, "intro") : song.writes[k].reg \notin skip})
        BY <2>0, SegmentPlays
      <3> QED
        BY <2>1, <2>3, <3>1, <3>2 DEF WritesOf
    <2>8. Played(first, skip) = loop
      <3>1. SegmentWrites(song, "first") = song.loop_write + 1 .. Len(song.writes)
        BY DEF SegmentWrites
      <3>2. Played(output["first"], skip) = Picked(Pairs(song),
              {k \in SegmentWrites(song, "first") : song.writes[k].reg \notin skip})
        BY <1>5, <2>0, SegmentPlays
      <3> QED
        BY <2>1, <2>3, <3>1, <3>2 DEF WritesOf
    <2>9. Played(again, skip) = loop
      <3>1. SegmentWrites(song, "steady") = song.loop_write + 1 .. Len(song.writes)
        BY DEF SegmentWrites
      <3>2. Played(output["steady"], skip) = Picked(Pairs(song),
              {k \in SegmentWrites(song, "steady") : song.writes[k].reg \notin skip})
        BY <1>5, <2>0, SegmentPlays
      <3> QED
        BY <2>1, <2>3, <3>1, <3>2 DEF WritesOf
    <2>10. PICK x : x = intro \o first /\ Joins(x, intro, first)
      BY DEF Joins
    <2>11. x \in Seq(Pair)
      BY <2>4, <2>5, <2>10, BoundariesJoin
    <2>12. PICK y \in Nat : IsStream(x, y)
      <3>1. IsStream(x, n + m) /\ n + m \in Nat
        BY <2>4, <2>5, <2>10, BoundariesJoin
      <3> QED
        BY <3>1
    <2>13. Played(x, skip) = all
      <3>1. Joins(Played(x, skip), head, loop)
        BY <2>4, <2>5, <2>7, <2>8, <2>10, PlayedJoins
      <3>2. Joins(all, head, loop)
        BY <1>1, <1>2, <1>5, <2>3, SongInTwo
      <3> QED
        BY <3>1, <3>2 DEF Joins
    <2>14. PICK z \in Nat : rest \in Seq(Pair) /\ IsStream(rest, z)
      <3>1. <<>> \in Seq(Pair) /\ IsStream(<<>>, 0)
        BY NoRecords
      <3> QED
        BY <2>1, <2>6, <3>1
    <2>15. Played(rest, skip) = Unrolled(skip)
      <3>1. CASE LoopIsStable(output)
        <4>1. Unrolled(skip) = <<>>
          BY <1>5, <3>1 DEF Unrolled, PassesStored
        <4> QED
          BY <2>1, <3>1, <4>1, PlayedNone
      <3>2. CASE ~LoopIsStable(output)
        <4>1. Unrolled(skip) = loop
          BY <1>5, <2>3, <3>2 DEF Unrolled, PassesStored
        <4> QED
          BY <2>1, <2>9, <3>2, <4>1
      <3> QED
        BY <3>1, <3>2
    <2>16. PICK stream : stream = converted.stream /\ Joins(stream, x, rest)
      BY <2>2, <2>10 DEF Joins
    <2>17. Joins(Played(stream, skip), Played(x, skip), Played(rest, skip))
      BY <2>11, <2>12, <2>14, <2>16, PlayedJoins
    <2> QED
      BY <1>2, <2>13, <2>15, <2>16, <2>17
  <1> QED
    BY <1>4, <1>5

(* README 126-129 and 116-119: without pitch conversion the stream plays   *)
(* every write of the song, in order and as often as it was made, and the  *)
(* loop is stored once.  With it, the stream so plays every write to a     *)
(* register no pitch depends on, in each pass of the loop that is stored.  *)
(* None is lost, repeated or moved by batching, segments and unrolling.    *)
THEOREM WritesArePreserved == Spec => []WritesPreserved
  <1>1. ASSUME PassInv
        PROVE  WritesPreserved
    <2> SUFFICES ASSUME step = "done"
                 PROVE  RawIsKept /\ PlainIsKept
      BY DEF WritesPreserved
    <2>1. TypesHold /\ ResultIsJoined /\ WellFormed(song) /\ converter.source_clock = song.clock_hz
      BY <1>1 DEF PassInv, ConvertInv, TypesHold, ClockKept
    <2>2. PlainIsKept
      <3>1. Passable(song, Pitch, Pitched)
        BY DEF Passable
      <3>2. Joins(Played(converted.stream, Pitched), WritesOf(1, Len(song.writes), Pitched),
                  Unrolled(Pitched))
        BY <1>1, <3>1, SongIsPlayed
      <3> QED
        BY <3>2 DEF PlainIsKept, Unrolled, Joins
    <2>3. RawIsKept
      <3> SUFFICES ASSUME ~Adapts(converter)
                   PROVE  Played(converted.stream, {}) = WritesOf(1, Len(song.writes), {})
        BY DEF RawIsKept
      <3>1. ~(Pitch /\ song.clock_hz # TargetClock)
        BY <2>1 DEF Adapts, Pitch
      <3>2. Joins(Played(converted.stream, {}), WritesOf(1, Len(song.writes), {}), Unrolled({}))
        <4>1. Passable(song, Pitch, {})
          BY <3>1 DEF Passable
        <4> QED
          BY <1>1, <4>1, SongIsPlayed
      <3>3. song.has_loop => LoopIsStable(output)
        <4> SUFFICES ASSUME song.has_loop PROVE LoopIsStable(output)
          OBVIOUS
        <4>1. segment = "steady"
          BY <2>1 DEF ResultIsJoined
        <4>2. "first" \in Behind /\ "steady" \in Behind
          BY <4>1 DEF Behind, Segment
        <4>3. /\ IsOutputOfPass(song, Pitch, "first", output["first"])
              /\ IsOutputOfPass(song, Pitch, "steady", output["steady"])
          BY <1>1, <4>2 DEF PassInv, PassesMade
        <4>4. IsSegment(song, "first")
          BY <2>1 DEF IsSegment, Segment
        <4>5. output["first"] = output["steady"]
          BY <3>1, <4>3, <4>4, PassesAreEqual
        <4> QED
          BY <4>5 DEF LoopIsStable
      <3>4. Unrolled({}) = <<>>
        BY <3>3 DEF Unrolled, PassesStored
      <3>5. WritesOf(1, Len(song.writes), {}) \in Seq(Pair)
        BY <2>1, WritesAreTyped
      <3>6. WritesOf(1, Len(song.writes), {}) \o <<>> = WritesOf(1, Len(song.writes), {})
        BY <3>5, ConcatEmptySeq
      <3> QED
        BY <3>2, <3>4, <3>6 DEF Joins
    <2> QED
      BY <2>2, <2>3
  <1> QED
    BY <1>1, PassInvariance, PTL
=============================================================================
