----------------------------- MODULE MCVgmParse -----------------------------
(***************************************************************************)
(* vgm_parse for TLC: files of up to three commands, whole or cut off, and *)
(* perhaps an end command, with the header's loop offset at any byte of    *)
(* theirs or none, or one field of the header wrong, or the commands where *)
(* the clock is.                                                           *)
(***************************************************************************)
EXTENDS VgmParse

(* Two writes, one of them of a clock-dependent register; waits of each    *)
(* kind, one of them of no samples; the end; an unknown command and two    *)
(* that are cut off.                                                       *)
Chunks == { <<85, 0, 97>>, <<85, 36, 0>>, <<97, 2, 0>>, <<97, 0, 0>>, <<98>>, <<99>>,
            <<113>>, <<102>>, <<80>>, <<85, 0>>, <<97>> }

Bodies ==
  LET Some == Chunks \cup {<< >>} IN
  {a \o b \o c \o d : a \in Chunks, b \in Some, c \in Some, d \in {<< >>, <<102>>}}

(* The four bytes at 0x40 that the format has no use for here, and the     *)
(* clock.                                                                  *)
ClockBytes(clock) ==
  << 0, 0, 0, 0, clock % 256, (clock \div 256) % 256, (clock \div 65536) % 256,
     clock \div 16777216 >>

(* A file whose header is followed by these bytes.                         *)
FileOf(bytes) ==
  [ magic |-> TRUE, version |-> 336, relative_eof |-> HeaderBytes + Len(bytes) - 4,
    relative_data |-> 0, relative_loop |-> 0,
    samples_match |-> TRUE, loop_samples_match |-> TRUE, bytes |-> bytes ]

(* The commands of most files begin behind the clock, at 0x48.             *)
Begin0 == 72
SongFile(clock, body) ==
  [FileOf(ClockBytes(clock) \o body) EXCEPT !.relative_data = Begin0 - 52]

Loops(body) == {0} \cup (Begin0 - 28 .. Begin0 - 28 + Len(body))

Looped == UNION {{<<b, l>> : l \in Loops(b)} : b \in Bodies}

Sound == {[SongFile(c, p[1]) EXCEPT !.relative_loop = p[2]] : p \in Looped, c \in Clocks}

(* 0x40000000 is the flag of a second chip.                                *)
Flagged(h) == [h EXCEPT !.bytes[8] = 64]

Wrong(h) ==
  LET size == HeaderBytes + Len(h.bytes) IN
  {[h EXCEPT !.magic = FALSE], [h EXCEPT !.version = 335], [h EXCEPT !.version = 370],
   [h EXCEPT !.bytes[6] = 0], Flagged(h), [h EXCEPT !.samples_match = FALSE],
   [h EXCEPT !.loop_samples_match = FALSE], [h EXCEPT !.relative_loop = Begin0 - 29]}
    \cup {[h EXCEPT !.relative_eof = e - 4] : e \in {63, 64, size - 1, size + 1}}
    \cup {[h EXCEPT !.relative_data = d] :
            d \in {11, 12, 13, 16, size - 52, size - 51, OffsetRange - 1, OffsetRange - 52}}

Stems ==
  {SongFile(FixtureClock, b) : b \in {<<99, 102>>, <<85, 0, 97, 113, 102>>, <<113, 102, 85, 0, 97>>}}
    \cup {[SongFile(TargetClock, <<99, 85, 0, 97, 113, 102>>) EXCEPT
             !.relative_loop = Begin0 - 27]}

(* Commands that begin at 0x40 and may reach into the clock or end before  *)
(* it; the last clock byte may be missing, and all of them.                *)
Early ==
  {[FileOf(SubSeq(<<a, b>> \o SubSeq(ClockBytes(c), 3, 8), 1, n)) EXCEPT !.relative_data = d] :
     a \in {85, 98, 113}, b \in {102, 113}, c \in Clocks, n \in {2, 4, 7, 8}, d \in {0, 12}}

MCFile == Sound \cup UNION {Wrong(h) : h \in Stems} \cup Early

MCReg == Byte
=============================================================================
