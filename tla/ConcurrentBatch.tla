--------------------------- MODULE ConcurrentBatch ---------------------------
(***************************************************************************)
(* scrape_courses_concurrent of sia_session.rs: one future per course,     *)
(* driven by buffer_unordered(max_concurrent) and collected.  The futures  *)
(* run on one task: between two awaits a future is never interrupted, so   *)
(* each action below is what one poll does.  Every future owns a copy of   *)
(* the session state, so what a scrape returns is the environment's choice.*)
(***************************************************************************)
EXTENDS Retry, Ordering

CONSTANTS
  N,                (* the number of course indices                         *)
  Errors,           (* the errors scrape_course_info can end with           *)
  Config,           (* the session's RetryConfig                            *)
  ConcurrencyLimits,(* values of max_concurrent                             *)
  RetryLimits       (* values of max_retries                                *)

AbortedError == Error("Aborted")

ASSUME BatchAssumption ==
  /\ N \in Nat
  /\ ConcurrencyLimits \subseteq Nat
  /\ RetryLimits \subseteq Nat
  /\ AbortedError \notin Errors

VARIABLES
  call,             (* mode, max_concurrent, max_retries: the arguments     *)
  abort_flag,       (* the AtomicBool shared by the futures                 *)
  pc,               (* queued | admitted | scraping | sleeping | done       *)
  attempt,          (* per future: its loop counter                         *)
  answer,           (* per future: its ConcurrentScrapeOutcome              *)
  clock,            (* Instant::now()                                       *)
  results,          (* the positions collected, in completion order         *)
  reply             (* what the caller got                                  *)

vars == <<call, abort_flag, pc, attempt, answer, clock, results, reply>>

Positions == 1..N
Modes == {"abort", "skip", "retry"}

NoAnswer       == [kind |-> "none"]
Scraped        == [kind |-> "ok"]
Failed(e, t)   == [kind |-> "failed", error |-> e, time |-> t]

NoReply        == [kind |-> "none"]
Refusal(e)     == [kind |-> "err", error |-> e]

Calls == [mode : Modes, max_concurrent : ConcurrencyLimits, max_retries : RetryLimits]

EffectiveRetries == IF call.mode = "retry" THEN call.max_retries ELSE 0

Init ==
  /\ call \in Calls
  /\ abort_flag = FALSE
  /\ pc = [p \in Positions |-> "queued"]
  /\ attempt = [p \in Positions |-> 0]
  /\ answer = [p \in Positions |-> NoAnswer]
  /\ clock = 0
  /\ results = <<>>
  /\ reply = IF call.max_concurrent = 0 THEN Refusal(Error("InvalidInput")) ELSE NoReply

-----------------------------------------------------------------------------
InFlight == { p \in Positions : pc[p] \in {"admitted", "scraping", "sleeping"} }

(* buffer_unordered pulls the next future of the stream while it has room. *)
AdmitUnbounded(p) ==
  /\ reply = NoReply
  /\ pc[p] = "queued"
  /\ \A q \in Positions : pc[q] = "queued" => p <= q
  /\ pc' = [pc EXCEPT ![p] = "admitted"]
  /\ UNCHANGED <<call, abort_flag, attempt, answer, clock, results, reply>>

Admit(p) ==
  /\ reply = NoReply
  /\ pc[p] = "queued"
  /\ \A q \in Positions : pc[q] = "queued" => p <= q
  /\ Cardinality(InFlight) < call.max_concurrent
  /\ pc' = [pc EXCEPT ![p] = "admitted"]
  /\ UNCHANGED <<call, abort_flag, attempt, answer, clock, results, reply>>

(* A future returns: buffer_unordered yields it and collect pushes it.     *)
(* Two Instants taken one after the other may be equal.                    *)
FinishUncollected(p, a) ==
  /\ pc' = [pc EXCEPT ![p] = "done"]
  /\ answer' = [answer EXCEPT ![p] = a]
  /\ clock' \in {clock, clock + 1}
  /\ results' = IF a.kind = "ok" \/ call.mode # "abort" THEN Append(results, p) ELSE results

Finish(p, a) ==
  /\ pc' = [pc EXCEPT ![p] = "done"]
  /\ answer' = [answer EXCEPT ![p] = a]
  /\ clock' \in {clock, clock + 1}
  /\ results' = Append(results, p)

(* The head of the loop body: load the flag, then call scrape_course_info. *)
BeginUnchecked(p) ==
  /\ pc' = [pc EXCEPT ![p] = "scraping"]
  /\ UNCHANGED <<answer, clock, results>>

Begin(p) ==
  IF abort_flag
    THEN Finish(p, Failed(AbortedError, clock))
    ELSE /\ pc' = [pc EXCEPT ![p] = "scraping"]
         /\ UNCHANGED <<answer, clock, results>>

Start(p) ==
  /\ pc[p] = "admitted"
  /\ Begin(p)
  /\ UNCHANGED <<call, abort_flag, attempt, reply>>

ScrapeOk(p) ==
  /\ pc[p] = "scraping"
  /\ Finish(p, Scraped)
  /\ UNCHANGED <<call, abort_flag, attempt, reply>>

NeverGivesUp(p, e) == ~ShouldRetry(e, Config)

GivesUpEarly(p, e) == ~ShouldRetry(e, Config) \/ attempt[p] + 1 >= EffectiveRetries

GivesUp(p, e) == ~ShouldRetry(e, Config) \/ attempt[p] = EffectiveRetries

ScrapeErrUnflagged(p, e) ==
  /\ pc[p] = "scraping"
  /\ IF GivesUp(p, e)
       THEN Finish(p, Failed(e, clock)) /\ UNCHANGED abort_flag
       ELSE /\ pc' = [pc EXCEPT ![p] = "sleeping"]
            /\ UNCHANGED <<abort_flag, answer, clock, results>>
  /\ UNCHANGED <<call, attempt, reply>>

ScrapeErrUnconfirmed(p, e) ==
  /\ pc[p] = "scraping"
  /\ IF GivesUp(p, e)
       THEN /\ Finish(p, Failed(e, clock))
            /\ abort_flag' = (abort_flag \/ call.mode = "abort")
       ELSE /\ pc' = [pc EXCEPT ![p] = "sleeping"]
            /\ UNCHANGED <<abort_flag, answer, clock, results>>
  /\ UNCHANGED <<call, attempt, reply>>

ScrapeErr(p, e) ==
  /\ pc[p] = "scraping"
  /\ \/ /\ abort_flag
        /\ Finish(p, Failed(AbortedError, clock))
        /\ UNCHANGED abort_flag
     \/ /\ ~abort_flag
        /\ GivesUp(p, e)
        /\ Finish(p, Failed(e, clock))
        /\ abort_flag' = (call.mode = "abort")
     \/ /\ ~abort_flag
        /\ ~GivesUp(p, e)
        /\ pc' = [pc EXCEPT ![p] = "sleeping"]
        /\ UNCHANGED <<abort_flag, answer, clock, results>>
  /\ UNCHANGED <<call, attempt, reply>>

WakeUncounted(p) ==
  /\ pc[p] = "sleeping"
  /\ Begin(p)
  /\ UNCHANGED <<call, abort_flag, attempt, reply>>

Wake(p) ==
  /\ pc[p] = "sleeping"
  /\ attempt' = [attempt EXCEPT ![p] = @ + 1]
  /\ Begin(p)
  /\ UNCHANGED <<call, abort_flag, reply>>

-----------------------------------------------------------------------------
IsTrigger(p) == answer[p].kind = "failed" /\ answer[p].error # AbortedError

Triggers == { p \in Positions : IsTrigger(p) }

(* The earliest error that is not Aborted; on a tie, the lowest position.  *)
EarliestTrigger ==
  CHOOSE p \in Triggers :
    \A q \in Triggers :
      \/ answer[p].time < answer[q].time
      \/ answer[p].time = answer[q].time /\ p <= q

InCompletionOrder == results

(* sort_by_key on the position                                             *)
InInputOrder == SortBy(results, LAMBDA p : p)

ScrapeResult ==
  LET failing == IF call.mode = "abort"
                   THEN <<>>
                   ELSE Filter(InInputOrder, LAMBDA p : answer[p].kind = "failed")
  IN [ kind      |-> "ok",
       successes |-> Filter(InInputOrder, LAMBDA p : answer[p] = Scraped),
       failures  |-> [i \in 1..Len(failing) |-> <<failing[i], answer[failing[i]].error>>] ]

(* The code after collect().                                               *)
Assemble ==
  /\ reply = NoReply
  /\ \A p \in Positions : pc[p] = "done"
  /\ reply' = IF call.mode = "abort" /\ Triggers # {}
                THEN Refusal(answer[EarliestTrigger].error)
                ELSE ScrapeResult
  /\ UNCHANGED <<call, abort_flag, pc, attempt, answer, clock, results>>

Returned == reply # NoReply /\ UNCHANGED vars

Step(p) == Admit(p) \/ Start(p) \/ ScrapeOk(p) \/ (\E e \in Errors : ScrapeErr(p, e)) \/ Wake(p)

Next == (\E p \in Positions : Step(p)) \/ Assemble \/ Returned

(* The executor polls every woken future, reqwest ends every request and   *)
(* tokio every sleep.                                                      *)
Fairness == (\A p \in Positions : WF_vars(Step(p))) /\ WF_vars(Assemble)

Spec == Init /\ [][Next]_vars /\ Fairness
-----------------------------------------------------------------------------
Answers ==
  {NoAnswer, Scraped}
    \cup [kind : {"failed"}, error : Errors \cup {AbortedError}, time : Nat]

TypeOK ==
  /\ call \in Calls
  /\ abort_flag \in BOOLEAN
  /\ pc \in [Positions -> {"queued", "admitted", "scraping", "sleeping", "done"}]
  /\ attempt \in [Positions -> 0..EffectiveRetries]
  /\ answer \in [Positions -> Answers]
  /\ clock \in Nat
  /\ results \in Seq(Positions)

(* In abort mode at most one future ends with an error of its own: the     *)
(* load of the flag after a failed scrape and the store that follows it    *)
(* happen within one poll, so the second failure already reads TRUE.  The  *)
(* search for the earliest timestamp never has to choose.                  *)
OneTrigger ==
  call.mode = "abort" => \A p, q \in Triggers : p = q

(* The flag is up exactly when that future exists, and a future is         *)
(* cancelled only on its account: no Aborted answer without a cause, none  *)
(* outside abort mode.                                                     *)
AbortHasCause ==
  /\ abort_flag <=> call.mode = "abort" /\ Triggers # {}
  /\ \A p \in Positions :
       answer[p].kind = "failed" /\ answer[p].error = AbortedError => abort_flag

(* A future gives up on a retryable error only after max_retries further   *)
(* attempts: its failure is never reported early.                          *)
RetriesUsedUp ==
  \A p \in Positions :
    IsTrigger(p) /\ ShouldRetry(answer[p].error, Config) => attempt[p] = EffectiveRetries

(* buffer_unordered's bound: no more than max_concurrent scrapes at a time *)
(* hold a request open or sleep between attempts.                          *)
WithinConcurrency == Cardinality(InFlight) <= call.max_concurrent

(* Every future that ended was collected, once.                            *)
CollectedOnce ==
  /\ \A p \in Positions : pc[p] = "done" => \E i \in 1..Len(results) : results[i] = p
  /\ \A i, j \in 1..Len(results) : results[i] = results[j] => i = j

(* Once the flag is up no future sends the first request of an attempt.    *)
NoScrapeAfterAbort ==
  [][ \A p \in Positions :
        abort_flag /\ pc'[p] = "scraping" => pc[p] = "scraping" ]_vars

(* The call returns: every future ends and the results are assembled.      *)
Terminates == <>(reply # NoReply)

-----------------------------------------------------------------------------
VerdictOf(a) ==
  IF a.kind = "ok" THEN [kind |-> "ok"]
  ELSE IF a.kind = "failed" /\ a.error # AbortedError
    THEN [kind |-> "failed", error |-> a.error]
    ELSE [kind |-> "open"]

Abstract == INSTANCE BatchContract WITH
  mode    <- call.mode,
  verdict <- [p \in Positions |-> VerdictOf(answer[p])],
  reply   <- IF call.max_concurrent = 0 THEN NoReply ELSE reply

(* The concurrent schedule keeps the contract of a batch: a cancelled      *)
(* course stays without verdict, the reply lists every verdict in input    *)
(* order, and an abort answers with the error that caused it.              *)
KeepsContract == Abstract!Contract
=============================================================================
