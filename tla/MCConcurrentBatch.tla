-------------------------- MODULE MCConcurrentBatch --------------------------
(* ConcurrentBatch with the default retry policy and one error of each     *)
(* kind that matters: retryable, and not.                                  *)
EXTENDS ConcurrentBatch

MCErrors == { Error("Timeout"), Error("InvalidInput") }
=============================================================================
