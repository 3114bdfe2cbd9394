------------------------------ MODULE RetryLoop ------------------------------
(***************************************************************************)
(* The two retry loops of sia_session.rs:                                  *)
(*  - "init_session" and "post_request": attempts 1..=max_attempts of one  *)
(*    HTTP request, waiting calculate_delay in between;                    *)
(*  - "course": scrape_course_with_retry, attempts 0..=max_retries of a    *)
(*    whole course scrape, waiting compute_backoff_ms in between.          *)
(* async_get, async_post and async_get_with_config of rust/src/lib.rs make *)
(* one request and have no loop at all.                                    *)
(* What an attempt returns is the environment's choice.                    *)
(***************************************************************************)
EXTENDS Retry, Sequences

CONSTANTS
  Config,           (* the session's RetryConfig, its max_attempts excepted *)
  AttemptLimits,    (* values of RetryConfig.max_attempts                   *)
  RetryLimits,      (* values of the max_retries argument                   *)
  BaseDelays,       (* values of retry_delay_ms                             *)
  Errors            (* the errors an attempt can end with                   *)

ASSUME LoopAssumption ==
  /\ AttemptLimits \subseteq Nat
  /\ RetryLimits \subseteq Nat
  /\ BaseDelays \subseteq Nat

(* The fields are unsigned in the code, the jitter factor is a fraction.   *)
ASSUME ConfigAssumption ==
  Config \in [ max_attempts : Nat, initial_delay_ms : Nat, max_delay_ms : Nat,
               jitter_num : Nat, jitter_den : Nat \ {0},
               retry_on_timeout : BOOLEAN, retry_on_connection_error : BOOLEAN,
               retry_on_status : SUBSET Nat ]

VARIABLES
  call,             (* the loop that runs, with its arguments               *)
  pc,               (* trying | sleeping | ok | failed                      *)
  attempt,          (* the loop's own counter                               *)
  tried,            (* how many attempts were made (a history)              *)
  error,            (* the error of the last attempt                        *)
  slept             (* the delays waited, in order (a history)              *)

vars == <<call, pc, attempt, tried, error, slept>>

NoError == Error("None")

RequestLoops == {"init_session", "post_request"}

SingleRequests ==
  [loop : {"async_get", "async_post", "async_get_with_config"}, limit : {1}, delay : {0}]

Calls ==
  [loop : RequestLoops, limit : AttemptLimits, delay : {0}]
    \cup [loop : {"course"}, limit : RetryLimits, delay : BaseDelays]
    \cup SingleRequests

FirstAttempt(c) == IF c.loop = "course" THEN 0 ELSE 1

(* The last value of the counter for which the body runs: both bounds are  *)
(* inclusive.                                                              *)
LastAttempt(c) == c.limit

Init ==
  /\ call \in Calls
  /\ attempt = FirstAttempt(call)
  /\ tried = 0
  /\ slept = <<>>
  /\ IF FirstAttempt(call) > LastAttempt(call)   \* max_attempts is 0
       THEN pc = "failed" /\ error = Error("Network")  \* "Unknown error"
       ELSE pc = "trying" /\ error = NoError

Succeed ==
  /\ pc = "trying"
  /\ pc' = "ok"
  /\ tried' = tried + 1
  /\ UNCHANGED <<call, attempt, error, slept>>

GivesUpOffByOne(e) == ~ShouldRetry(e, Config) \/ attempt + 1 = LastAttempt(call)
GivesUpOnlyLast(e)   == attempt = LastAttempt(call)

(* These two return the answer whatever its status.                        *)
RaisesStatus == call.loop \notin {"post_request", "async_get_with_config"}

GivesUp(e) == ~ShouldRetry(e, Config) \/ attempt = LastAttempt(call)

RetriesAtOnce(e) ==
  /\ pc = "trying"
  /\ error' = e
  /\ pc' = IF GivesUp(e) THEN "failed" ELSE "trying"
  /\ UNCHANGED <<call, attempt, tried, slept>>

Fail(e) ==
  /\ pc = "trying"
  /\ e.kind = "HttpStatus" => RaisesStatus
  /\ error' = e
  /\ tried' = tried + 1
  /\ pc' = IF GivesUp(e) THEN "failed" ELSE "sleeping"
  /\ UNCHANGED <<call, attempt, slept>>

Delays ==
  IF call.loop = "course"
    THEN {ComputeBackoffMs(Config, call.delay, attempt)}
    ELSE CalculateDelays(Config, attempt)

Wake ==
  /\ pc = "sleeping"
  /\ \E d \in Delays : slept' = Append(slept, d)
  /\ attempt' = attempt + 1
  /\ pc' = "trying"
  /\ UNCHANGED <<call, tried, error>>

Done == pc \in {"ok", "failed"} /\ UNCHANGED vars

Next == Succeed \/ (\E e \in Errors : Fail(e)) \/ Wake \/ Done

Spec == Init /\ [][Next]_vars /\ WF_vars(Next)

-----------------------------------------------------------------------------
TypeOK ==
  /\ call \in Calls
  /\ pc \in {"trying", "sleeping", "ok", "failed"}
  /\ attempt \in 0..Larger(call.limit, 1)
  /\ tried \in Nat
  /\ error \in Errors \cup {NoError, Error("Network")}
  /\ slept \in Seq(Int)

(* The number of attempts a loop may make.                                 *)
Budget == IF call.loop = "course" THEN call.limit + 1 ELSE call.limit

(* A loop reports failure only when the error cannot be cured by another   *)
(* attempt or when it has used exactly the attempts its caller allowed: it *)
(* neither stops one short nor makes one too many, for either of the two   *)
(* counting conventions (1..=max_attempts, 0..=max_retries).               *)
GivesUpWithReason ==
  /\ tried <= Budget
  /\ pc = "failed" => (tried = Budget \/ ~ShouldRetry(error, Config))

(* Each attempt but the last is followed by one wait, and a retried error  *)
(* is always a retryable one: an InvalidInput, SessionError or Aborted is  *)
(* never waited on.                                                        *)
WaitsBetweenAttempts ==
  /\ pc \in {"ok", "failed"} /\ tried > 0 => Len(slept) = tried - 1
  /\ pc = "sleeping" => ShouldRetry(error, Config)

(* The waits of the course loop are exactly retry_delay_ms * 2^attempt     *)
(* capped by max_delay_ms: neither the word size nor the cap on the shift  *)
(* ever shows.                                                             *)
CourseBackoffExact ==
  call.loop = "course" =>
    \A i \in 1..Len(slept) :
      slept[i] = ExactBackoffMs(Config, call.delay, i - 1)

(* The wait after attempt i multiplies by 2^(i-1), which has shifted every *)
(* bit of initial_delay_ms out of the word.                                *)
ShiftedOut(i) == (Config.initial_delay_ms * 2 ^ (i - 1)) % (WordMax + 1) = 0

(* The u64 product of calculate_delay wraps after enough attempts, and     *)
(* with_max_attempts allows any number of them.  The waits stay those of   *)
(* the unbounded initial * 2^(i-1), capped and within the jitter, although *)
(* products wrap: what a wrapped product keeps is still above the cap.     *)
(* Only once the whole initial delay is shifted out of the word do the     *)
(* waits collapse, and then every one of them to the floor (attempt 60     *)
(* of the 64-bit word and the 800 ms of sia_optimized).                    *)
RequestBackoffUntilShiftedOut ==
  call.loop \in RequestLoops =>
    \A i \in 1..Len(slept) :
      LET exact == ExactBackoffMs(Config, Config.initial_delay_ms, i - 1)
          slack == (exact * Config.jitter_num) \div Config.jitter_den
      IN  IF ShiftedOut(i)
            THEN slept[i] = MinDelay
            ELSE /\ slept[i] >= MinDelay
                 /\ slept[i] >= exact - slack
                 /\ slept[i] <= Larger(exact + slack, MinDelay)

(* Every call of a loop ends: retries are bounded.                         *)
Terminates == <>(pc \in {"ok", "failed"})
=============================================================================
