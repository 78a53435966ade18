---------------------------- MODULE MCByteBuffer ----------------------------
(***************************************************************************)
(* ByteBuffer with sizes of up to 7, where the first capacity doubles once *)
(* and then has to be cut to what is needed, and pieces that fill it to    *)
(* the byte, overflow it by one, or find room in what it has.              *)
(***************************************************************************)
EXTENDS ByteBuffer

MCPieces == UNION {[1 .. n -> Octet] : n \in {1, 2, 4}}
=============================================================================
