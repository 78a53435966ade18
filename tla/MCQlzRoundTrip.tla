--------------------------- MODULE MCQlzRoundTrip ---------------------------
(***************************************************************************)
(* Every input of two symbols up to MaxInput long, and longer ones that    *)
(* repeat with a period of up to three, for matches of many packets.       *)
(***************************************************************************)
EXTENDS QlzRoundTrip

CONSTANTS Symbol, MaxInput, MaxPeriodic

Inputs == UNION {[1 .. n -> Symbol] : n \in 0 .. MaxInput}

Periodic ==
  {[k \in 1 .. n |-> w[((k - 1) % Len(w)) + 1]] :
     w \in UNION {[1 .. n -> Symbol] : n \in 1 .. 3}, n \in MaxInput + 1 .. MaxPeriodic}

Init ==
  /\ input \in Inputs \cup Periodic
  /\ RoundTripInit

Spec == Init /\ [][RoundTripNext]_roundTripVars
=============================================================================
