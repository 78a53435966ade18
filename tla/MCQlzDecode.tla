---------------------------- MODULE MCQlzDecode -----------------------------
(***************************************************************************)
(* Every payload of up to MaxPayload bytes, longer ones of a few bytes     *)
(* that make all the packet types, and every decoded size up to MaxSize,   *)
(* with a header that tells the truth or not.                              *)
(***************************************************************************)
EXTENDS QlzDecode

CONSTANTS MaxPayload, LongPayload, MaxSize

Shortest == {type * CodeSpan : type \in {Literal, Short, Long, Continuation}}

Payloads ==
  UNION {[1 .. n -> Byte] : n \in 0 .. MaxPayload}
    \cup UNION {[1 .. n -> Shortest] : n \in MaxPayload + 1 .. LongPayload}

Init ==
  /\ \E payload \in Payloads, size \in 0 .. MaxSize :
       \/ stream = Stream(payload, size)
       \/ Len(payload) = 1 /\ stream = [Stream(payload, size) EXCEPT !.magic = FALSE]
       \/ Len(payload) = 1 /\ stream = [Stream(payload, size) EXCEPT !.payload_size = 2]
  /\ DecodeInit

Spec == Init /\ [][DecodeNext]_decodeVars
=============================================================================
