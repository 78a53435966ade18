------------------------------ MODULE MCSongs -------------------------------
(***************************************************************************)
(* Small songs for TLC: every way to order up to MaxWrites writes of a     *)
(* pool over up to MaxSamples samples, with every loop point.              *)
(***************************************************************************)
EXTENDS VgmSong

SongsOf(Pool, MaxWrites, Totals, ClocksUsed) ==
  LET Timed(n, total) ==
        {times \in [1 .. n -> 0 .. total] : \A k, m \in 1 .. n : k <= m => times[k] <= times[m]}
      Writes(total) ==
        UNION {{[k \in 1 .. n |-> [sample |-> times[k], reg |-> what[k][1], value |-> what[k][2]]] :
                  times \in Timed(n, total), what \in [1 .. n -> Pool]} : n \in 0 .. MaxWrites}
      Loops(w, total) ==
        {<<FALSE, 0, 0>>} \cup
          {l \in {TRUE} \X (0 .. total - 1) \X (0 .. Len(w)) :
             \A k \in DOMAIN w :
               IF k <= l[3] THEN w[k].sample <= l[2] ELSE w[k].sample >= l[2]}
  IN  UNION {UNION {{[writes |-> w, total_samples |-> total, has_loop |-> l[1],
                      loop_sample |-> l[2], loop_write |-> l[3], clock_hz |-> clock] :
                       l \in Loops(w, total), clock \in ClocksUsed} :
                    w \in Writes(total)} : total \in Totals}
=============================================================================
