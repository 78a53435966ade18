---------------------------- MODULE MCConverter -----------------------------
(***************************************************************************)
(* ConverterChip for TLC.  A song writes either the periods of the PSG (a  *)
(* tone pair, the noise period and the envelope pair) or the frequency     *)
(* registers of an FM channel and of an operator of channel 3, which share *)
(* no state with them.  Of the FM values, 60 as a high byte is block 7     *)
(* with F-numbers from 1024 on: the first of them the target clock still   *)
(* reaches, 1025 is a little below its highest pitch, 1026 (low byte 2)    *)
(* is above it; 55 is block 6 with the highest F-number bits, which it     *)
(* reaches in block 7.  The clocks are the code's divided by 3200, which   *)
(* leaves every quotient the converter computes unchanged.                 *)
(***************************************************************************)
EXTENDS ConverterChip

(* clipped_values counts on for ever: it is followed up to MaxClipped.     *)
CONSTANT MaxClipped

VARIABLE family   (* what the song writes *)

PsgReg == {0, 1, 6, 11, 12}
FmReg == {160, 164, 168, 172}

Writes ==
  [ psg |-> PsgReg \X {0, 1, 255},
    fm  |-> ({160, 168} \X {0, 1, 2}) \cup ({164, 172} \X {55, 60}) ]

MCReg == PsgReg \cup FmReg
MCValue == {0, 1, 2, 55, 60, 255}

MCInit == Init /\ family \in DOMAIN Writes

MCNext ==
  /\ \/ \E write \in Writes[family] : ConvertWrite(write[1], write[2])
     \/ EnterLoop
  /\ UNCHANGED family

MCSpec == MCInit /\ [][MCNext]_<<vars, family>>

ClippedBound == converter.clipped_values <= MaxClipped
=============================================================================
