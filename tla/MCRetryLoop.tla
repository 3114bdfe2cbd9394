----------------------------- MODULE MCRetryLoop -----------------------------
(* RetryLoop in a word of 8 bits with a shift capped at 7: initial 6, cap  *)
(* 15, floor 2.  The products of the request loop are 6, 12, .. 192, then  *)
(* 384, which wraps to 128, then 768 and 1536, which wrap to 0; like 800   *)
(* in 64 bits, 6 loses its last bit before the power itself does.          *)
EXTENDS RetryLoop

MCConfig ==
  [ SiaOptimized EXCEPT !.initial_delay_ms = 6, !.max_delay_ms = 15,
                        !.jitter_den = 8 ]

MCErrors ==
  { Error("Timeout"), Error("Parse"), Error("InvalidInput"),
    StatusError(503), StatusError(404) }
=============================================================================
