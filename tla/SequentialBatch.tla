--------------------------- MODULE SequentialBatch ---------------------------
(***************************************************************************)
(* scrape_courses_batch of sia_session.rs: the courses one after the       *)
(* other on one session, each through scrape_course_with_retry.  Every     *)
(* scrape navigates again, so every scrape that reaches the server may     *)
(* replace the session's course list; an answer without a table leaves it  *)
(* empty.  A scrape whose index is not in the list fails with InvalidInput *)
(* before it sends anything.                                               *)
(***************************************************************************)
EXTENDS Retry, Sequences

CONSTANTS
  Indices,          (* the course indices asked for, in order               *)
  ListLengths,      (* the lengths a navigation can read                    *)
  Errors,           (* the errors a scrape that reached the server ends with*)
  Config,           (* the session's RetryConfig                            *)
  RetryLimits       (* values of max_retries                                *)

ASSUME SequentialAssumption ==
  /\ Indices \in Seq(Int)
  /\ ListLengths \subseteq Nat
  /\ RetryLimits \subseteq Nat

VARIABLES
  call,             (* mode, max_retries: the arguments                     *)
  pc,               (* scraping | sleeping | scraped | returned             *)
  position,         (* the place in Indices                                 *)
  attempt,          (* scrape_course_with_retry's counter                   *)
  list_len,         (* the length of the session's course_list              *)
  course,           (* what scrape_course_with_retry returned               *)
  successes,        (* result.successes, as positions                       *)
  failures,         (* result.failures, as positions with their errors      *)
  reply             (* what the caller got                                  *)

vars == <<call, pc, position, attempt, list_len, course, successes, failures, reply>>

N == Len(Indices)
Positions == 1..N

NoCourse   == [kind |-> "none"]
Scraped    == [kind |-> "ok"]
Failed(e)  == [kind |-> "failed", error |-> e]

NoReply    == [kind |-> "none"]
Refusal(e) == [kind |-> "err", error |-> e]

Calls == [mode : {"abort", "skip", "retry"}, max_retries : RetryLimits]

EffectiveRetries == IF call.mode = "retry" THEN call.max_retries ELSE 0

Init ==
  /\ call \in Calls
  /\ pc = "scraping"
  /\ position = 1
  /\ attempt = 0
  /\ list_len \in ListLengths
  /\ course = NoCourse
  /\ successes = <<>>
  /\ failures = <<>>
  /\ reply = NoReply

-----------------------------------------------------------------------------
Scraping == pc = "scraping" /\ position <= N

InList == 0 <= Indices[position] /\ Indices[position] < list_len

Give(c) == pc' = "scraped" /\ course' = c

ScrapeOk ==
  /\ Scraping
  /\ InList
  /\ list_len' \in ListLengths
  /\ Give(Scraped)
  /\ UNCHANGED <<call, position, attempt, successes, failures, reply>>

GivesUp(e) == ~ShouldRetry(e, Config) \/ attempt = EffectiveRetries

ScrapeErr(e) ==
  /\ Scraping
  /\ InList
  /\ list_len' \in ListLengths
  /\ IF GivesUp(e)
       THEN Give(Failed(e))
       ELSE pc' = "sleeping" /\ UNCHANGED course
  /\ UNCHANGED <<call, position, attempt, successes, failures, reply>>

NavigateAnyway ==
  /\ Scraping
  /\ ~InList
  /\ list_len' \in ListLengths
  /\ Give(Failed(Error("InvalidInput")))
  /\ UNCHANGED <<call, position, attempt, successes, failures, reply>>

(* scrape_course_info finds the index outside the list: no request leaves, *)
(* and InvalidInput is not retried.                                        *)
RefuseIndex ==
  /\ Scraping
  /\ ~InList
  /\ Give(Failed(Error("InvalidInput")))
  /\ UNCHANGED <<call, position, attempt, list_len, successes, failures, reply>>

WakeUncounted ==
  /\ pc = "sleeping"
  /\ pc' = "scraping"
  /\ UNCHANGED <<call, position, attempt, list_len, course, successes, failures, reply>>

Wake ==
  /\ pc = "sleeping"
  /\ pc' = "scraping"
  /\ attempt' = attempt + 1
  /\ UNCHANGED <<call, position, list_len, course, successes, failures, reply>>

NextCourse ==
  /\ pc' = "scraping"
  /\ position' = position + 1
  /\ attempt' = 0
  /\ course' = NoCourse

RecordOk ==
  /\ pc = "scraped"
  /\ course = Scraped
  /\ successes' = Append(successes, position)
  /\ NextCourse
  /\ UNCHANGED <<call, list_len, failures, reply>>

RecordAndGoOn ==
  /\ pc = "scraped"
  /\ course.kind = "failed"
  /\ failures' = Append(failures, <<position, course.error>>)
  /\ NextCourse
  /\ UNCHANGED <<call, list_len, successes, reply>>

RecordErr ==
  /\ pc = "scraped"
  /\ course.kind = "failed"
  /\ call.mode # "abort"
  /\ failures' = Append(failures, <<position, course.error>>)
  /\ NextCourse
  /\ UNCHANGED <<call, list_len, successes, reply>>

Abort ==
  /\ pc = "scraped"
  /\ course.kind = "failed"
  /\ call.mode = "abort"
  /\ pc' = "returned"
  /\ reply' = Refusal(course.error)
  /\ UNCHANGED <<call, position, attempt, list_len, course, successes, failures>>

Return ==
  /\ pc = "scraping"
  /\ position > N
  /\ pc' = "returned"
  /\ reply' = [kind |-> "ok", successes |-> successes, failures |-> failures]
  /\ UNCHANGED <<call, position, attempt, list_len, course, successes, failures>>

Returned == pc = "returned" /\ UNCHANGED vars

Next ==
  \/ ScrapeOk \/ (\E e \in Errors : ScrapeErr(e)) \/ RefuseIndex \/ Wake
  \/ RecordOk \/ RecordErr \/ Abort \/ Return \/ Returned

Spec == Init /\ [][Next]_vars /\ WF_vars(Next)

-----------------------------------------------------------------------------
(* An empty list is absorbing: only a navigation replaces it and no scrape *)
(* navigates on it.  Once one answer came without a table, every later     *)
(* course of the batch fails, whatever the server would answer, and retry  *)
(* mode does not recover.                                                  *)
EmptyListPoisonsTheRest ==
  [][ list_len = 0 => list_len' = 0 /\ (course' = Scraped => course = Scraped) ]_vars

(* The batch returns, after finitely many attempts on each course.         *)
Terminates == <>(pc = "returned")

-----------------------------------------------------------------------------
VerdictAt(p) ==
  IF \E i \in 1..Len(successes) : successes[i] = p
    THEN [kind |-> "ok"]
  ELSE IF \E i \in 1..Len(failures) : failures[i][1] = p
    THEN LET i == CHOOSE k \in 1..Len(failures) : failures[k][1] = p
         IN  [kind |-> "failed", error |-> failures[i][2]]
  ELSE IF p = position /\ course.kind = "ok" THEN [kind |-> "ok"]
  ELSE IF p = position /\ course.kind = "failed"
    THEN [kind |-> "failed", error |-> course.error]
    ELSE [kind |-> "open"]

Abstract == INSTANCE BatchContract WITH
  Errors  <- Errors \cup {Error("InvalidInput")},
  mode    <- call.mode,
  verdict <- [p \in Positions |-> VerdictAt(p)]

(* The sequential schedule keeps the contract of a batch too: one verdict  *)
(* per course in input order, and in abort mode the first error at once.   *)
KeepsContract == Abstract!Contract
=============================================================================
