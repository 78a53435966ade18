------------------------------ MODULE ImageFile ------------------------------
(***************************************************************************)
(* What qlay_write_image promises about the output path, abstracted from   *)
(* every system call of QlayOutput: a run either makes the path name its   *)
(* own whole image, in one step, or leaves the path alone; whatever it     *)
(* left beside it is a temporary file.  A power loss takes the path back   *)
(* to something it named before.                                           *)
(***************************************************************************)
CONSTANTS
  Process,               (* the runs that write to the path              *)
  Absent, Old, Special   (* what it may name before them; see QlayOutput *)

VARIABLES
  phase,      (* phase[p]: how far run p is                              *)
  temps,      (* the runs whose temporary file exists                    *)
  target,     (* what the path names: a run stands for its whole image   *)
  stable      (* what it would name after a power loss                   *)

fileVars == <<phase, temps, target, stable>>

Live == {"before", "writing"}

FileInit ==
  /\ phase = [p \in Process |-> "before"]
  /\ temps = {}
  /\ target \in {Absent, Old, Special}
  /\ stable = target

Enter(p, from, to) == phase[p] = from /\ phase' = [phase EXCEPT ![p] = to]

Refuse(p) == Enter(p, "before", "failed") /\ UNCHANGED <<temps, target, stable>>

Begin(p) ==
  /\ Enter(p, "before", "writing")
  /\ temps' = temps \cup {p}
  /\ UNCHANGED <<target, stable>>

Commit(p) ==
  /\ Enter(p, "writing", "succeeded")
  /\ temps' = temps \ {p}
  /\ target' = p
  /\ UNCHANGED stable

(* The result of unlink is ignored.                                        *)
Abandon(p) ==
  /\ Enter(p, "writing", "failed")
  /\ temps' \in {temps, temps \ {p}}
  /\ UNCHANGED <<target, stable>>

Die(p) ==
  /\ phase[p] \in Live
  /\ Enter(p, phase[p], "killed")
  /\ UNCHANGED <<temps, target, stable>>

Persist == stable' = target /\ UNCHANGED <<phase, temps, target>>

(* A temporary file may be gone after it, or one of a run that ended may   *)
(* be back.                                                                *)
PowerLoss ==
  /\ phase' = [p \in Process |-> IF phase[p] \in Live THEN "killed" ELSE phase[p]]
  /\ temps' \in SUBSET (temps \cup {p \in Process : phase[p] \in {"failed", "succeeded"}})
  /\ target' = stable
  /\ UNCHANGED stable

FileNext ==
  \/ \E p \in Process : Refuse(p) \/ Begin(p) \/ Commit(p) \/ Abandon(p) \/ Die(p)
  \/ Persist \/ PowerLoss

FileSpec == FileInit /\ [][FileNext]_fileVars
=============================================================================
