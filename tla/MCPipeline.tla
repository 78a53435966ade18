----------------------------- MODULE MCPipeline -----------------------------
(***************************************************************************)
(* One run for TLC.  A block is 14 bytes with a header of 3, so that a     *)
(* file of 11 fills its block and one of 12 needs another; the map has     *)
(* seven pairs, six sectors at most and the number used.  Binaries end     *)
(* before, at and behind the end of a block, and reach beyond five and     *)
(* beyond six sectors, with and without a screen of two blocks.            *)
(***************************************************************************)
EXTENDS Pipeline

MCBinarySizes == {0, 1, 11, 12, 25, 26, 39, 40}

MCUserSizes ==
  [ screen |-> {11, 12},
    input  |-> {0, 2, 3},
    player |-> {1, 2} ]
=============================================================================
