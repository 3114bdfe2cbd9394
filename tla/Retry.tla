-------------------------------- MODULE Retry --------------------------------
(***************************************************************************)
(* The retry policy of rust/src/http/retry.rs and the two backoff formulas *)
(* of the crate, as pure operators.  A u64 is a number modulo WordMax + 1: *)
(* the code's word is 64 bits wide and its shift is capped at 31; both are *)
(* parameters here, so that small words can be checked exhaustively.       *)
(***************************************************************************)
EXTENDS Integers

CONSTANTS
  WordMax,          (* u64::MAX                                             *)
  ShiftCap,         (* 31: the largest shift compute_backoff_ms takes       *)
  MinDelay          (* 100: the floor, in ms, of a delay between requests   *)

ASSUME WordAssumption ==
  /\ WordMax \in Nat
  /\ ShiftCap \in Nat
  /\ MinDelay \in Nat
  /\ 2 ^ ShiftCap <= WordMax

-----------------------------------------------------------------------------
(* HttpError: only the status of an HttpStatusError matters to the policy. *)

Error(k)       == [kind |-> k, status |-> 0]
StatusError(s) == [kind |-> "HttpStatus", status |-> s]

(* RetryConfig::sia_optimized, with the jitter factor as a fraction.       *)
SiaOptimized ==
  [ max_attempts |-> 4, initial_delay_ms |-> 800, max_delay_ms |-> 6000,
    jitter_num |-> 1, jitter_den |-> 4,
    retry_on_timeout |-> TRUE, retry_on_connection_error |-> TRUE,
    retry_on_status |-> {502, 503, 504, 429} ]

ShouldRetryIgnoringStatus(e, config) ==
  e.kind \in {"Timeout", "Network", "HttpStatus", "Parse"}

ShouldRetry(e, config) ==
  \/ e.kind = "Timeout" /\ config.retry_on_timeout
  \/ e.kind = "Network" /\ config.retry_on_connection_error
  \/ e.kind = "HttpStatus" /\ e.status \in config.retry_on_status
  \/ e.kind = "Parse"

-----------------------------------------------------------------------------
Smaller(a, b) == IF a <= b THEN a ELSE b
Larger(a, b)  == IF a >= b THEN a ELSE b

WrappingMul(a, b)   == (a * b) % (WordMax + 1)
SaturatingMul(a, b) == Smaller(a * b, WordMax)

(* compute_backoff_ms: the wait before the attempt after `attempt`.        *)
WrappingBackoffMs(config, retry_delay_ms, attempt) ==
  Smaller(WrappingMul(Larger(retry_delay_ms, 1), 2 ^ attempt),
          config.max_delay_ms)

ComputeBackoffMs(config, retry_delay_ms, attempt) ==
  Smaller(SaturatingMul(Larger(retry_delay_ms, 1), 2 ^ Smaller(attempt, ShiftCap)),
          config.max_delay_ms)

NarrowPow2(exponent) == (2 ^ exponent) % (WordMax \div 16 + 1)

(* 2_u64.pow: unchecked, as is the multiplication that follows it, so that *)
(* a release build wraps.  (A debug build panics instead.)                 *)
WrappingPow2(exponent) == (2 ^ exponent) % (WordMax + 1)

(* calculate_delay without its jitter.                                     *)
CappedDelay(config, attempt) ==
  Smaller(WrappingMul(config.initial_delay_ms, WrappingPow2(Larger(attempt, 1) - 1)),
          config.max_delay_ms)

JitterRange(config, attempt) ==
  (CappedDelay(config, attempt) * config.jitter_num) \div config.jitter_den

(* calculate_delay: the delays its random jitter can produce.              *)
CalculateDelays(config, attempt) ==
  LET delay == CappedDelay(config, attempt)
      range == JitterRange(config, attempt)
  IN  { Larger(d, MinDelay) : d \in (delay - range) .. (delay + range) }

-----------------------------------------------------------------------------
(* What a backoff is meant to be: the unbounded product, capped.           *)
ExactBackoffMs(config, retry_delay_ms, attempt) ==
  Smaller(Larger(retry_delay_ms, 1) * 2 ^ attempt, config.max_delay_ms)
=============================================================================
