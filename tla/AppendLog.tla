----------------------------- MODULE AppendLog ------------------------------
(***************************************************************************)
(* What the byte buffers of runtime.c promise their callers: a log that    *)
(* takes whole pieces, each behind the last one, until it fails; from then *)
(* on it keeps what it has and takes nothing.  Callers need not look at    *)
(* the result of every append: it is enough to look at `failed` at last.   *)
(***************************************************************************)
EXTENDS Sequences

CONSTANT Pieces   (* the byte sequences callers append *)

VARIABLES log, failed

LogInit == log = << >> /\ failed = FALSE

Take(piece) == ~failed /\ log' = log \o piece /\ UNCHANGED failed

Fail == failed' = TRUE /\ UNCHANGED log

Clear == log' = << >> /\ failed' = FALSE

LogNext == (\E piece \in Pieces : Take(piece)) \/ Fail \/ Clear

LogSpec == LogInit /\ [][LogNext]_<<log, failed>>
=============================================================================
