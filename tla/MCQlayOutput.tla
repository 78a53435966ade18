---------------------------- MODULE MCQlayOutput ----------------------------
(***************************************************************************)
(* Two runs for one path, the second one forced.  A buffer that is not a   *)
(* multiple of a sector, as 4096 is not of 686, and an image that leaves   *)
(* some of it for the last write.                                          *)
(***************************************************************************)
EXTENDS QlayOutput

CONSTANTS p1, p2

MCProcess == {p1, p2}
MCForced == {p2}
=============================================================================
