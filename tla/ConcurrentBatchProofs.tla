------------------------ MODULE ConcurrentBatchProofs ------------------------
(***************************************************************************)
(* Proofs about ConcurrentBatch for every batch length, concurrency limit, *)
(* retry limit and retry policy.                                           *)
(***************************************************************************)
EXTENDS ConcurrentBatch, SequenceLemmas

(* A future holds an answer exactly when it ended, ...                     *)
AnsweredWhenDone ==
  \A p \in Positions : answer[p] = NoAnswer <=> pc[p] # "done"

(* ... sleeps only with an attempt left, ...                               *)
SleepsBelowLimit ==
  \A p \in Positions : pc[p] = "sleeping" => attempt[p] < EffectiveRetries

(* ... and is collected only then.                                         *)
OnlyDoneCollected ==
  \A i \in 1..Len(results) : pc[results[i]] = "done"

(* The inductive invariant: the invariants of the model, and what a step   *)
(* needs to know of the futures that have not ended.                       *)
IndInv ==
  /\ TypeOK
  /\ AnsweredWhenDone
  /\ SleepsBelowLimit
  /\ OnlyDoneCollected
  /\ AbortHasCause
  /\ OneTrigger
  /\ RetriesUsedUp
  /\ CollectedOnce

-----------------------------------------------------------------------------
(* The bound on the retries does not depend on the step.                   *)
LEMMA RetriesConstant ==
  ASSUME TypeOK
  PROVE  /\ EffectiveRetries \in Nat
         /\ call' = call => EffectiveRetries' = EffectiveRetries
BY BatchAssumption DEF TypeOK, EffectiveRetries, Calls

(* A future that ends keeps the types, gets its one answer and is          *)
(* collected once.                                                         *)
LEMMA FinishKeeps ==
  ASSUME IndInv, NEW p \in Positions, pc[p] # "done",
         NEW a \in Answers, a # NoAnswer,
         Finish(p, a), call' = call,
         abort_flag' \in BOOLEAN,
         attempt' \in [Positions -> 0..EffectiveRetries],
         \A q \in Positions \ {p} : attempt'[q] = attempt[q]
  PROVE  /\ TypeOK'
         /\ AnsweredWhenDone'
         /\ SleepsBelowLimit'
         /\ OnlyDoneCollected'
         /\ CollectedOnce'
<1> USE DEF IndInv, TypeOK, Finish, Positions
<1>1. EffectiveRetries \in Nat /\ EffectiveRetries' = EffectiveRetries
  BY RetriesConstant
<1>2. /\ Len(results') = Len(results) + 1
      /\ results'[Len(results) + 1] = p
      /\ \A i \in 1..Len(results) : results'[i] = results[i]
  OBVIOUS
<1>3. TypeOK'
  BY <1>1
<1>4. AnsweredWhenDone'
  BY DEF AnsweredWhenDone
<1>5. SleepsBelowLimit'
  BY <1>1 DEF SleepsBelowLimit
<1>6. OnlyDoneCollected'
  BY <1>2 DEF OnlyDoneCollected
<1>7. CollectedOnce'
  <2>1. ASSUME NEW q \in Positions, pc'[q] = "done"
        PROVE  \E i \in 1..Len(results') : results'[i] = q
    <3>1. CASE q = p
      BY <1>2, <3>1
    <3>2. CASE q # p
      <4>1. PICK i \in 1..Len(results) : results[i] = q
        BY <2>1, <3>2 DEF CollectedOnce
      <4> QED BY <4>1, <1>2
    <3> QED BY <3>1, <3>2
  <2>2. \A i \in 1..Len(results) : results[i] # p
    BY DEF OnlyDoneCollected
  <2>3. \A i, j \in 1..Len(results') : results'[i] = results'[j] => i = j
    BY <1>2, <2>2 DEF CollectedOnce
  <2> QED BY <2>1, <2>3 DEF CollectedOnce
<1> QED BY <1>3, <1>4, <1>5, <1>6, <1>7

(* A future that ends without an error of its own - scraped, or cancelled  *)
(* while the flag is up - adds no trigger.                                 *)
LEMMA FinishWithoutTrigger ==
  ASSUME IndInv, NEW p \in Positions, pc[p] # "done",
         NEW a \in Answers, a # NoAnswer,
         a = Scraped \/ (abort_flag /\ a.error = AbortedError),
         Finish(p, a), UNCHANGED <<call, abort_flag>>,
         attempt' \in [Positions -> 0..EffectiveRetries],
         \A q \in Positions \ {p} : attempt'[q] = attempt[q]
  PROVE  IndInv'
<1>1. /\ TypeOK' /\ AnsweredWhenDone' /\ SleepsBelowLimit'
      /\ OnlyDoneCollected' /\ CollectedOnce'
  BY FinishKeeps DEF IndInv, TypeOK
<1>2. answer' = [answer EXCEPT ![p] = a] /\ answer \in [Positions -> Answers]
  BY DEF Finish, IndInv, TypeOK
<1>3. answer[p] = NoAnswer
  BY DEF IndInv, AnsweredWhenDone
<1>4. ~IsTrigger(p) /\ ~IsTrigger(p)'
  BY <1>2, <1>3 DEF IsTrigger, NoAnswer, Scraped
<1>5. \A q \in Positions : IsTrigger(q)' <=> IsTrigger(q)
  BY <1>2, <1>4 DEF IsTrigger
<1>6. Triggers' = Triggers
  BY <1>5 DEF Triggers
<1>7. AbortHasCause'
  BY <1>2, <1>6 DEF IndInv, AbortHasCause, Scraped
<1>8. OneTrigger'
  BY <1>6 DEF IndInv, OneTrigger
<1>9. RetriesUsedUp'
  BY <1>2, <1>4, <1>5, RetriesConstant DEF IndInv, RetriesUsedUp, IsTrigger
<1> QED BY <1>1, <1>7, <1>8, <1>9 DEF IndInv

(* A future that goes on to another attempt, or to sleep before one,       *)
(* changes nothing the others can see.                                     *)
LEMMA MoveKeeps ==
  ASSUME IndInv, NEW p \in Positions, pc[p] # "done",
         NEW s \in {"admitted", "scraping", "sleeping"},
         pc' = [pc EXCEPT ![p] = s],
         UNCHANGED <<call, abort_flag, answer, clock, results>>,
         attempt' \in [Positions -> 0..EffectiveRetries],
         \A q \in Positions \ {p} : attempt'[q] = attempt[q],
         s = "sleeping" => attempt'[p] < EffectiveRetries
  PROVE  IndInv'
<1>1. EffectiveRetries \in Nat /\ EffectiveRetries' = EffectiveRetries
  BY RetriesConstant DEF IndInv
<1>2. TypeOK'
  BY <1>1 DEF IndInv, TypeOK
<1>3. AnsweredWhenDone' /\ OnlyDoneCollected' /\ CollectedOnce'
  BY DEF IndInv, TypeOK, AnsweredWhenDone, OnlyDoneCollected, CollectedOnce
<1>4. SleepsBelowLimit'
  BY <1>1 DEF IndInv, TypeOK, SleepsBelowLimit
<1>5. \A q \in Positions : IsTrigger(q)' <=> IsTrigger(q)
  BY DEF IsTrigger
<1>6. Triggers' = Triggers
  BY <1>5 DEF Triggers
<1>7. AbortHasCause' /\ OneTrigger'
  BY <1>6 DEF IndInv, AbortHasCause, OneTrigger
<1>8. ~IsTrigger(p)
  BY DEF IndInv, AnsweredWhenDone, IsTrigger, NoAnswer
<1>9. RetriesUsedUp'
  BY <1>1, <1>5, <1>8 DEF IndInv, RetriesUsedUp
<1> QED BY <1>2, <1>3, <1>4, <1>7, <1>9 DEF IndInv

(* The flag is read at the head of every attempt, and only there.          *)
LEMMA BeginKeeps ==
  ASSUME IndInv, NEW p \in Positions, pc[p] # "done",
         Begin(p), UNCHANGED <<call, abort_flag, reply>>,
         attempt' \in [Positions -> 0..EffectiveRetries],
         \A q \in Positions \ {p} : attempt'[q] = attempt[q]
  PROVE  IndInv'
<1>1. CASE abort_flag
  <2>1. Failed(AbortedError, clock) \in Answers \ {NoAnswer}
    BY DEF IndInv, TypeOK, Answers, Failed, NoAnswer
  <2>2. Finish(p, Failed(AbortedError, clock))
    BY <1>1 DEF Begin
  <2> QED BY <1>1, <2>1, <2>2, FinishWithoutTrigger DEF Failed
<1>2. CASE ~abort_flag
  <2>1. /\ pc' = [pc EXCEPT ![p] = "scraping"]
        /\ UNCHANGED <<answer, clock, results>>
    BY <1>2 DEF Begin
  <2> QED BY <2>1, MoveKeeps
<1> QED BY <1>1, <1>2

(* A future that gives up: in abort mode it is the first, because the flag *)
(* was still down in the poll that raises it.                              *)
LEMMA GivingUpKeeps ==
  ASSUME IndInv, NEW p \in Positions, NEW e \in Errors,
         pc[p] = "scraping", ~abort_flag, GivesUp(p, e),
         Finish(p, Failed(e, clock)),
         abort_flag' = (call.mode = "abort"),
         UNCHANGED <<call, attempt>>
  PROVE  IndInv'
<1>1. Failed(e, clock) \in Answers /\ Failed(e, clock) # NoAnswer
  BY DEF IndInv, TypeOK, Answers, Failed, NoAnswer
<1>2. attempt \in [Positions -> 0..EffectiveRetries]
  BY DEF IndInv, TypeOK
<1>3. /\ TypeOK' /\ AnsweredWhenDone' /\ SleepsBelowLimit'
      /\ OnlyDoneCollected' /\ CollectedOnce'
  BY <1>1, <1>2, FinishKeeps
<1>4. answer' = [answer EXCEPT ![p] = Failed(e, clock)] /\ answer \in [Positions -> Answers]
  BY DEF Finish, IndInv, TypeOK
<1>5. IsTrigger(p)'
  BY <1>4, BatchAssumption DEF IsTrigger, Failed
<1>6. \A q \in Positions \ {p} : IsTrigger(q)' <=> IsTrigger(q)
  BY <1>4 DEF IsTrigger
<1>7. p \in Triggers' /\ (call.mode = "abort" => Triggers' = {p})
  <2>1. call.mode = "abort" => Triggers = {}
    BY DEF IndInv, AbortHasCause
  <2> QED BY <2>1, <1>5, <1>6 DEF Triggers
<1>8. AbortHasCause'
  <2>1. abort_flag' <=> call.mode' = "abort" /\ Triggers' # {}
    BY <1>7
  <2>2. ASSUME NEW q \in Positions, answer'[q].kind = "failed", answer'[q].error = AbortedError
        PROVE  FALSE
    BY <2>2, <1>4, BatchAssumption DEF IndInv, AbortHasCause, Failed
  <2> QED BY <2>1, <2>2 DEF AbortHasCause
<1>9. OneTrigger'
  BY <1>7 DEF OneTrigger
<1>10. RetriesUsedUp'
  <2>1. EffectiveRetries' = EffectiveRetries
    BY RetriesConstant DEF IndInv
  <2>2. answer'[p].error = e /\ (ShouldRetry(e, Config) => attempt[p] = EffectiveRetries)
    BY <1>4 DEF GivesUp, Failed
  <2> QED BY <1>4, <1>6, <2>1, <2>2 DEF IndInv, RetriesUsedUp
<1> QED BY <1>3, <1>8, <1>9, <1>10 DEF IndInv

-----------------------------------------------------------------------------
(* The parts of the inductive invariant hold before the first scrape:      *)
(* nothing is answered, so nothing has triggered an abort.                 *)
LEMMA InitIndInv == Init => IndInv
<1> SUFFICES ASSUME Init
             PROVE  IndInv
  OBVIOUS
<1> USE DEF Init
<1>1. call \in Calls /\ EffectiveRetries \in Nat
  BY BatchAssumption DEF EffectiveRetries, Calls
<1>2. TypeOK
  <2>1. NoAnswer \in Answers
    BY DEF Answers
  <2>2. answer \in [Positions -> Answers]
    BY <2>1
  <2>3. attempt \in [Positions -> 0..EffectiveRetries] /\ results \in Seq(Positions)
    BY <1>1
  <2> QED BY <1>1, <2>2, <2>3 DEF TypeOK
<1>3. AnsweredWhenDone /\ SleepsBelowLimit /\ OnlyDoneCollected /\ CollectedOnce
  BY DEF AnsweredWhenDone, SleepsBelowLimit, OnlyDoneCollected, CollectedOnce
<1>4. \A p \in Positions : answer[p].kind # "failed"
  BY DEF NoAnswer
<1>5. Triggers = {}
  BY <1>4 DEF Triggers, IsTrigger
<1>6. AbortHasCause /\ OneTrigger /\ RetriesUsedUp
  BY <1>4, <1>5 DEF AbortHasCause, OneTrigger, RetriesUsedUp, IsTrigger
<1> QED BY <1>2, <1>3, <1>6 DEF IndInv

(* Each of the five ways a future moves, and the return of the call,       *)
(* preserves the inductive invariant.                                      *)
LEMMA NextIndInv == IndInv /\ [Next]_vars => IndInv'
<1> SUFFICES ASSUME IndInv, [Next]_vars
             PROVE  IndInv'
  OBVIOUS
<1>1. attempt \in [Positions -> 0..EffectiveRetries] /\ EffectiveRetries \in Nat
  BY RetriesConstant DEF IndInv, TypeOK
<1>2. ASSUME NEW p \in Positions, Admit(p)
      PROVE  IndInv'
  BY <1>1, <1>2, MoveKeeps DEF Admit
<1>3. ASSUME NEW p \in Positions, Start(p)
      PROVE  IndInv'
  BY <1>1, <1>3, BeginKeeps DEF Start
<1>4. ASSUME NEW p \in Positions, ScrapeOk(p)
      PROVE  IndInv'
  <2>1. Scraped \in Answers /\ Scraped # NoAnswer
    BY DEF Answers, Scraped, NoAnswer
  <2> QED BY <1>1, <1>4, <2>1, FinishWithoutTrigger DEF ScrapeOk
<1>5. ASSUME NEW p \in Positions, NEW e \in Errors, ScrapeErr(p, e)
      PROVE  IndInv'
  <2> USE <1>1, <1>5 DEF ScrapeErr
  <2>1. CASE abort_flag
    <3>1. Failed(AbortedError, clock) \in Answers /\ Failed(AbortedError, clock) # NoAnswer
      BY DEF IndInv, TypeOK, Answers, Failed, NoAnswer
    <3> QED BY <2>1, <3>1, FinishWithoutTrigger DEF Failed
  <2>2. CASE ~abort_flag /\ GivesUp(p, e)
    BY <2>2, GivingUpKeeps
  <2>3. CASE ~abort_flag /\ ~GivesUp(p, e)
    <3>1. attempt[p] < EffectiveRetries
      BY <2>3 DEF GivesUp
    <3> QED BY <2>3, <3>1, MoveKeeps
  <2> QED BY <2>1, <2>2, <2>3
<1>6. ASSUME NEW p \in Positions, Wake(p)
      PROVE  IndInv'
  <2>1. attempt[p] < EffectiveRetries
    BY <1>6 DEF IndInv, SleepsBelowLimit, Wake
  <2>2. /\ attempt' \in [Positions -> 0..EffectiveRetries]
        /\ \A q \in Positions \ {p} : attempt'[q] = attempt[q]
    BY <1>1, <1>6, <2>1 DEF Wake
  <2> QED BY <1>6, <2>2, BeginKeeps DEF Wake
<1>7. ASSUME UNCHANGED <<call, abort_flag, pc, attempt, answer, clock, results>>
      PROVE  IndInv'
  BY <1>7 DEF IndInv, TypeOK, AnsweredWhenDone, SleepsBelowLimit, OnlyDoneCollected,
              AbortHasCause, OneTrigger, RetriesUsedUp, CollectedOnce,
              Triggers, IsTrigger, EffectiveRetries
<1> QED
  BY <1>2, <1>3, <1>4, <1>5, <1>6, <1>7 DEF Next, Step, Assemble, Returned, vars

-----------------------------------------------------------------------------
(* The inductive invariant holds of every reachable state.                 *)
THEOREM Invariance == Spec => []IndInv
<1> QED BY InitIndInv, NextIndInv, PTL DEF Spec

(* Every variable keeps its type; in particular no future retries more     *)
(* often than the caller allowed.                                          *)
THEOREM TypeCorrect == Spec => []TypeOK
<1>1. IndInv => TypeOK
  BY DEF IndInv
<1> QED BY Invariance, <1>1, PTL

(* For any number of courses and any concurrency, one failure at most ends *)
(* a batch in abort mode.                                                  *)
THEOREM SingleTrigger == Spec => []OneTrigger
<1>1. IndInv => OneTrigger
  BY DEF IndInv
<1> QED BY Invariance, <1>1, PTL

(* A course is reported as aborted only when another one failed.           *)
THEOREM AbortCaused == Spec => []AbortHasCause
<1>1. IndInv => AbortHasCause
  BY DEF IndInv
<1> QED BY Invariance, <1>1, PTL

(* No retryable failure is reported before its attempts are used up.       *)
THEOREM NoEarlyFailure == Spec => []RetriesUsedUp
<1>1. IndInv => RetriesUsedUp
  BY DEF IndInv
<1> QED BY Invariance, <1>1, PTL

(* Every future that ends is in the results exactly once.                  *)
THEOREM Collected == Spec => []CollectedOnce
<1>1. IndInv => CollectedOnce
  BY DEF IndInv
<1> QED BY Invariance, <1>1, PTL

(* After the first failure of a batch in abort mode no further scrape      *)
(* begins: the flag never falls, and it is read before each attempt.       *)
THEOREM QuietAfterAbort == Spec => NoScrapeAfterAbort
<1>1. ASSUME IndInv, [Next]_vars, NEW p \in Positions,
             abort_flag, pc'[p] = "scraping"
      PROVE  pc[p] = "scraping"
  <2> USE <1>1 DEF IndInv, TypeOK
  <2>1. ASSUME NEW q \in Positions, Step(q)
        PROVE  pc[p] = "scraping"
    BY <2>1 DEF Step, Admit, Start, Begin, ScrapeOk, ScrapeErr, Wake, Finish
  <2> QED BY <2>1 DEF Next, Assemble, Returned, vars
<1>2. IndInv /\ [Next]_vars =>
        [\A p \in Positions :
           abort_flag /\ pc'[p] = "scraping" => pc[p] = "scraping"]_vars
  BY <1>1
<1> QED BY Invariance, <1>2, PTL DEF Spec, NoScrapeAfterAbort

-----------------------------------------------------------------------------
(* The bound of buffer_unordered: any set of positions is finite, so the   *)
(* number of futures in flight is a natural number.                        *)
LEMMA InFlightFinite ==
  ASSUME NEW S \in SUBSET Positions
  PROVE  IsFiniteSet(S) /\ Cardinality(S) \in Nat
<1>1. IsFiniteSet(Positions)
  BY BatchAssumption, FS_Interval DEF Positions
<1>2. IsFiniteSet(S)
  BY <1>1, FS_Subset
<1> QED BY <1>2, FS_CardinalityType

(* Only Admit puts a future in flight, and it does so below the bound.     *)
LEMMA NextWithinConcurrency ==
  TypeOK /\ WithinConcurrency /\ [Next]_vars => WithinConcurrency'
<1> SUFFICES ASSUME TypeOK, WithinConcurrency, [Next]_vars
             PROVE  WithinConcurrency'
  OBVIOUS
<1>1. call.max_concurrent \in Nat /\ call' = call
  BY BatchAssumption
  DEF TypeOK, Calls, Next, Step, Admit, Start, ScrapeOk, ScrapeErr, Wake, Assemble, Returned, vars
<1>2. InFlight \subseteq Positions /\ InFlight' \subseteq Positions
  BY DEF InFlight
<1>3. ASSUME NEW p \in Positions, Admit(p)
      PROVE  WithinConcurrency'
  <2>1. InFlight' = InFlight \cup {p}
    BY <1>3 DEF Admit, InFlight, TypeOK
  <2>2. Cardinality(InFlight') <= Cardinality(InFlight) + 1
    BY <1>2, <2>1, InFlightFinite, FS_AddElement
  <2>3. Cardinality(InFlight) < call.max_concurrent
    BY <1>3 DEF Admit
  <2> QED BY <1>1, <1>2, <2>2, <2>3, InFlightFinite DEF WithinConcurrency
<1>4. ASSUME InFlight' \subseteq InFlight
      PROVE  WithinConcurrency'
  <2>1. Cardinality(InFlight') <= Cardinality(InFlight)
    BY <1>2, <1>4, InFlightFinite, FS_Subset
  <2> QED BY <1>1, <1>2, <2>1, InFlightFinite DEF WithinConcurrency
<1>5. ASSUME NEW p \in Positions, Step(p), ~Admit(p)
      PROVE  InFlight' \subseteq InFlight
  BY <1>5 DEF Step, Start, Begin, ScrapeOk, ScrapeErr, Wake, Finish, InFlight, TypeOK
<1>6. ASSUME UNCHANGED pc
      PROVE  InFlight' \subseteq InFlight
  BY <1>6 DEF InFlight
<1> QED
  BY <1>3, <1>4, <1>5, <1>6 DEF Next, Assemble, Returned, vars

(* Never more than max_concurrent scrapes at a time.                       *)
THEOREM Bounded == Spec => []WithinConcurrency
<1>1. Init => WithinConcurrency
  <2> SUFFICES ASSUME Init
               PROVE  WithinConcurrency
    OBVIOUS
  <2>1. InFlight = {}
    BY DEF Init, InFlight
  <2>2. call.max_concurrent \in Nat
    BY BatchAssumption DEF Init, Calls
  <2> QED BY <2>1, <2>2, FS_EmptySet DEF WithinConcurrency
<1> QED BY <1>1, TypeCorrect, NextWithinConcurrency, PTL DEF Spec

-----------------------------------------------------------------------------
(* The call is answered when every future has ended, or at once when it    *)
(* may have none in flight.                                                *)
RepliesLast ==
  IF call.max_concurrent = 0
    THEN reply # NoReply /\ \A p \in Positions : pc[p] = "queued"
    ELSE reply # NoReply => \A p \in Positions : pc[p] = "done"

BatchVerdicts == [p \in Positions |-> VerdictOf(answer[p])]

LEMMA InitRepliesLast == Init => RepliesLast
BY DEF Init, RepliesLast, NoReply, Refusal

LEMMA NextRepliesLast == TypeOK /\ RepliesLast /\ [Next]_vars => RepliesLast'
<1> SUFFICES ASSUME TypeOK, RepliesLast, [Next]_vars
             PROVE  RepliesLast'
  OBVIOUS
<1>1. ASSUME NEW p \in Positions, Step(p)
      PROVE  RepliesLast'
  <2>1. /\ call' = call /\ reply' = reply /\ pc[p] # "done"
        /\ pc[p] # "queued" \/ reply = NoReply
    BY <1>1 DEF Step, Admit, Start, ScrapeOk, ScrapeErr, Wake
  <2>2. call.max_concurrent # 0 /\ reply = NoReply
    BY <2>1 DEF RepliesLast
  <2> QED BY <2>1, <2>2 DEF RepliesLast
<1>2. CASE Assemble
  BY <1>2 DEF Assemble, RepliesLast, Refusal, NoReply, ScrapeResult
<1>3. CASE UNCHANGED vars
  BY <1>3 DEF vars, RepliesLast
<1> QED BY <1>1, <1>2, <1>3 DEF Next, Returned

(* The positions are sorted: each is there, and once.                      *)
LEMMA SortedResults ==
  ASSUME TypeOK, CollectedOnce, \A p \in Positions : pc[p] = "done"
  PROVE  /\ InInputOrder \in Seq(Positions)
         /\ \A p \in Positions : \E n \in DOMAIN InInputOrder : InInputOrder[n] = p
         /\ \A m, n \in DOMAIN InInputOrder : m < n => InInputOrder[m] < InInputOrder[n]
<1>1. results \in Seq(Positions) /\ DOMAIN results = 1..Len(results) /\ Len(results) \in Nat
  BY LenProperties DEF TypeOK
<1>2. results = [k \in DOMAIN results |-> results[k]]
  BY <1>1
<1> DEFINE order == ByKey(results)
<1>3. InInputOrder = Pick(results, order)
  BY <1>2 DEF InInputOrder, SortBy
<1>4. \A k \in DOMAIN results : k \in Int /\ results[k] \in Positions /\ results[k] \in Int
  <2>1. \A k \in 1..Len(results) : results[k] \in Positions
    BY <1>1, ElementOfSeq
  <2>2. \A p \in Positions : p \in Int
    BY DEF Positions
  <2>3. \A k \in 1..Len(results) : k \in Int
    OBVIOUS
  <2> QED BY <1>1, <2>1, <2>2, <2>3
<1>5. IsKeyed(results)
  <2>1. IsFiniteSet(1..Len(results))
    BY <1>1, FS_Interval
  <2> QED BY <1>1, <1>4, <2>1 DEF IsKeyed
<1>6. /\ Cardinality(DOMAIN results) \in Nat
      /\ DOMAIN order = 1..Cardinality(DOMAIN results)
      /\ \A n \in DOMAIN order : order[n] \in DOMAIN results
      /\ \A k \in DOMAIN results : \E n \in DOMAIN order : order[n] = k
      /\ \A m, n \in DOMAIN order :
           m < n => \/ results[order[m]] < results[order[n]]
                    \/ results[order[m]] = results[order[n]] /\ order[m] < order[n]
  BY <1>5, ByKeyOrders
<1> HIDE DEF order
<1>7. InInputOrder = [n \in 1..Cardinality(DOMAIN results) |-> results[order[n]]]
  BY <1>3, <1>6 DEF Pick
<1>8. InInputOrder \in Seq(Positions)
  BY <1>4, <1>6, <1>7
<1>9. ASSUME NEW p \in Positions
      PROVE  \E n \in DOMAIN InInputOrder : InInputOrder[n] = p
  <2>1. PICK k \in DOMAIN results : results[k] = p
    BY <1>1 DEF CollectedOnce
  <2>2. PICK n \in DOMAIN order : order[n] = k
    BY <1>6
  <2> QED BY <1>6, <1>7, <2>1, <2>2
<1>10. ASSUME NEW m \in DOMAIN order, NEW n \in DOMAIN order, m < n
       PROVE  results[order[m]] < results[order[n]]
  <2>1. CASE results[order[m]] = results[order[n]] /\ order[m] < order[n]
    <3>1. order[m] = order[n]
      BY <1>1, <1>6, <2>1 DEF CollectedOnce
    <3> QED BY <1>4, <1>6, <2>1, <3>1
  <2> QED BY <1>6, <1>10, <2>1
<1>11. \A m, n \in DOMAIN InInputOrder : m < n => InInputOrder[m] < InInputOrder[n]
  BY <1>6, <1>7, <1>10
<1> QED BY <1>8, <1>9, <1>11

(* What is filtered from a sorted sequence is sorted, and complete.        *)
LEMMA SortedPart ==
  ASSUME NEW s \in Seq(Positions), NEW S \in SUBSET Positions,
         NEW K \in SUBSET (DOMAIN s),
         \A k \in DOMAIN s : k \in K <=> s[k] \in S,
         \A p \in Positions : \E n \in DOMAIN s : s[n] = p,
         \A m, n \in DOMAIN s : m < n => s[m] < s[n]
  PROVE  Abstract!InInputOrder(Pick(s, Increasing(K)), S)
<1> DEFINE f == Pick(s, Increasing(K))
<1>1. /\ Cardinality(K) \in Nat /\ IsFiniteSet(K) /\ K \in SUBSET Int
      /\ f \in Seq(Positions) /\ DOMAIN f = 1..Cardinality(K) /\ Len(f) = Cardinality(K)
      /\ \A n \in 1..Cardinality(K) : Increasing(K)[n] \in K /\ f[n] = s[Increasing(K)[n]]
  BY PickIncreasing
<1>2. /\ \A k \in K : \E n \in 1..Cardinality(K) : Increasing(K)[n] = k
      /\ \A m, n \in 1..Cardinality(K) : m < n => Increasing(K)[m] < Increasing(K)[n]
  BY <1>1, IncreasingOrders
<1> HIDE DEF f
<1>3. \A n \in DOMAIN f : f[n] \in S
  BY <1>1
<1>4. f \in Seq(S)
  <2>1. f = [n \in 1..Len(f) |-> f[n]]
    BY <1>1
  <2>2. Len(f) \in Nat /\ \A n \in 1..Len(f) : f[n] \in S
    BY <1>1, <1>3
  <2>3. f \in [1..Len(f) -> S]
    BY <2>1, <2>2
  <2> QED BY <2>2, <2>3, SeqDef
<1>5. ASSUME NEW p \in S
      PROVE  \E n \in DOMAIN f : f[n] = p
  <2>1. PICK k \in DOMAIN s : s[k] = p
    OBVIOUS
  <2>2. k \in K
    BY <2>1
  <2>3. PICK n \in 1..Cardinality(K) : Increasing(K)[n] = k
    BY <1>2, <2>2
  <2> QED BY <1>1, <2>1, <2>3
<1>6. ASSUME NEW m \in DOMAIN f, NEW n \in DOMAIN f, m < n
      PROVE  f[m] < f[n]
  <2> DEFINE i == Increasing(K)[m]
             j == Increasing(K)[n]
  <2>1. m \in 1..Cardinality(K) /\ n \in 1..Cardinality(K)
    BY <1>1
  <2>2. i < j /\ i \in K /\ j \in K /\ f[m] = s[i] /\ f[n] = s[j]
    BY <1>1, <1>2, <1>6, <2>1
  <2> HIDE DEF i, j
  <2> QED BY <2>2
<1>7. Abstract!InInputOrder(f, S)
  BY <1>4, <1>5, <1>6 DEF Abstract!InInputOrder
<1> QED BY <1>7 DEF f

(* The reply of the contract's state: a call that may have no course in    *)
(* flight is refused before it is a batch.                                 *)
BatchReply == IF call.max_concurrent = 0 THEN NoReply ELSE reply

(* A verdict is open as long as the course has no answer of its own.       *)
LEMMA VerdictCases ==
  ASSUME TypeOK, NEW p \in Positions
  PROVE  /\ answer[p] \in Answers
         /\ BatchVerdicts[p].kind = "failed" <=> IsTrigger(p)
         /\ IsTrigger(p) => BatchVerdicts[p] = [kind |-> "failed", error |-> answer[p].error]
         /\ BatchVerdicts[p] = [kind |-> "ok"] <=> answer[p] = Scraped
         /\ BatchVerdicts[p] = [kind |-> "open"] <=> answer[p] # Scraped /\ ~IsTrigger(p)
<1>1. answer[p] \in Answers
  BY DEF TypeOK
<1>2. BatchVerdicts[p] = VerdictOf(answer[p])
  BY DEF BatchVerdicts
<1>3. CASE answer[p] = NoAnswer
  BY <1>1, <1>2, <1>3 DEF IsTrigger, VerdictOf, NoAnswer, Scraped
<1>4. CASE answer[p] = Scraped
  BY <1>1, <1>2, <1>4 DEF IsTrigger, VerdictOf, Scraped
<1>5. CASE answer[p] \in [kind : {"failed"}, error : Errors \cup {AbortedError}, time : Nat]
  <2>1. answer[p].kind = "failed" /\ answer[p] # Scraped
    BY <1>5 DEF Scraped
  <2> QED BY <1>1, <1>2, <2>1 DEF IsTrigger, VerdictOf
<1> QED BY <1>1, <1>3, <1>4, <1>5 DEF Answers

LEMMA TriggerVerdict ==
  ASSUME TypeOK, NEW p \in Triggers
  PROVE  BatchVerdicts[p].error = answer[p].error
<1>1. p \in Positions /\ IsTrigger(p)
  BY DEF Triggers
<1>2. BatchVerdicts[p] = [kind |-> "failed", error |-> answer[p].error]
  BY <1>1, VerdictCases
<1> QED BY <1>2

LEMMA FailuresAreTriggers ==
  ASSUME TypeOK
  PROVE  Abstract!Failures = Triggers
<1>1. Abstract!Failures = { p \in Positions : BatchVerdicts[p].kind = "failed" }
  BY DEF Abstract!Failures, Abstract!Positions, Positions, BatchVerdicts
<1> QED BY <1>1, VerdictCases DEF Triggers

(* A future that ends settles its course, or was cancelled and leaves the  *)
(* verdict open.                                                           *)
LEMMA FinishImplements ==
  ASSUME IndInv, RepliesLast, NEW p \in Positions, pc[p] # "done", pc[p] # "queued",
         NEW a \in Answers, a # NoAnswer, Finish(p, a), UNCHANGED <<call, reply>>,
         a.kind = "failed" /\ a.error # AbortedError => ~abort_flag
  PROVE  [Abstract!ContractNext]_(Abstract!contractVars)
<1>1. TypeOK /\ answer \in [Positions -> Answers] /\ answer[p] = NoAnswer
  BY DEF IndInv, TypeOK, AnsweredWhenDone
<1>2. call.max_concurrent # 0 /\ reply = NoReply
  BY DEF RepliesLast
<1>3. answer' = [answer EXCEPT ![p] = a]
  BY DEF Finish
<1>4. BatchVerdicts' = [BatchVerdicts EXCEPT ![p] = VerdictOf(a)]
  BY <1>1, <1>3 DEF BatchVerdicts
<1>5. BatchVerdicts[p] = [kind |-> "open"]
  BY <1>1 DEF BatchVerdicts, VerdictOf, NoAnswer
<1>6. /\ \A v : [BatchVerdicts EXCEPT ![p] = v][p] = v
      /\ [BatchVerdicts EXCEPT ![p] = [kind |-> "open"]] = BatchVerdicts
  BY <1>5 DEF BatchVerdicts
<1>7. ASSUME NEW v \in {[kind |-> "ok"]} \cup { [kind |-> "failed", error |-> e] : e \in Errors },
             VerdictOf(a) = v,
             call.mode = "abort" /\ v # [kind |-> "ok"] => Triggers = {}
      PROVE  Abstract!ContractNext
  <2>1. Abstract!Settle(p, v)
    BY <1>1, <1>2, <1>4, <1>5, <1>7, FailuresAreTriggers
    DEF Abstract!Settle, Abstract!NoReply, Abstract!Open, Abstract!Scraped, NoReply, BatchVerdicts
  <2> QED BY <1>7, <2>1
          DEF Abstract!ContractNext, Abstract!Positions, Abstract!Scraped, Abstract!Failed, Positions
<1>8. CASE a = Scraped
  <2>1. VerdictOf(a) = [kind |-> "ok"]
    BY <1>8 DEF VerdictOf, Scraped
  <2> QED BY <1>7, <2>1
<1>9. CASE a.kind = "failed" /\ a.error # AbortedError
  <2>1. a.error \in Errors
    BY <1>9 DEF Answers, NoAnswer, Scraped
  <2>2. VerdictOf(a) = [kind |-> "failed", error |-> a.error]
    BY <1>9 DEF VerdictOf
  <2>3. call.mode = "abort" => Triggers = {}
    BY <1>9 DEF IndInv, AbortHasCause
  <2> QED BY <1>7, <2>1, <2>2, <2>3
<1>10. CASE a.kind = "failed" /\ a.error = AbortedError
  <2>1. VerdictOf(a) = [kind |-> "open"]
    BY <1>10 DEF VerdictOf
  <2>2. BatchVerdicts' = BatchVerdicts
    BY <1>4, <1>6, <2>1
  <2> QED BY <2>2 DEF Abstract!contractVars, BatchVerdicts
<1>11. a = Scraped \/ a.kind = "failed"
  BY DEF Answers
<1> QED BY <1>8, <1>9, <1>10, <1>11

(* An answer nobody cancelled is a verdict.                                *)
LEMMA AllSettled ==
  ASSUME IndInv, \A p \in Positions : pc[p] = "done", ~(call.mode = "abort" /\ Triggers # {})
  PROVE  \A p \in Positions : answer[p] = Scraped \/ IsTrigger(p)
<1> SUFFICES ASSUME NEW p \in Positions
             PROVE  answer[p] = Scraped \/ IsTrigger(p)
  OBVIOUS
<1>1. answer[p] # NoAnswer /\ answer[p] \in Answers
  BY DEF IndInv, AnsweredWhenDone, TypeOK
<1>2. answer[p].kind = "failed" => answer[p].error # AbortedError
  BY DEF IndInv, AbortHasCause
<1> QED BY <1>1, <1>2 DEF Answers, IsTrigger

LEMMA ResultComplete ==
  ASSUME IndInv, \A p \in Positions : pc[p] = "done", ~(call.mode = "abort" /\ Triggers # {})
  PROVE  Abstract!IsResult(ScrapeResult, BatchVerdicts)
<1> DEFINE s == InInputOrder
           S == { p \in Positions : answer[p] = Scraped }
           KS == { k \in DOMAIN s : answer[s[k]] = Scraped }
           KF == { k \in DOMAIN s : answer[s[k]].kind = "failed" }
           ok == Pick(s, Increasing(KS))
           failed == Pick(s, Increasing(KF))
           failing == IF call.mode = "abort" THEN <<>> ELSE failed
           failures == [i \in 1..Len(failing) |-> <<failing[i], answer[failing[i]].error>>]
<1>1. /\ s \in Seq(Positions) /\ DOMAIN s = 1..Len(s)
      /\ \A p \in Positions : \E n \in DOMAIN s : s[n] = p
      /\ \A m, n \in DOMAIN s : m < n => s[m] < s[n]
  BY SortedResults DEF IndInv
<1>2. ScrapeResult = [kind |-> "ok", successes |-> ok, failures |-> failures]
  BY DEF ScrapeResult, Filter
<1> HIDE DEF s
<1>3. \A k \in DOMAIN s : s[k] \in Positions
  BY <1>1
<1>4. /\ { p \in Positions : BatchVerdicts[p] = [kind |-> "ok"] } = S
      /\ { p \in Positions : BatchVerdicts[p].kind = "failed" } = Triggers
  BY VerdictCases DEF IndInv, Triggers
<1>5. Abstract!InInputOrder(ok, S)
  <2>1. \A k \in DOMAIN s : k \in KS <=> s[k] \in S
    BY <1>3
  <2>2. S \in SUBSET Positions /\ KS \in SUBSET DOMAIN s
    OBVIOUS
  <2> HIDE DEF S, KS
  <2> QED BY <1>1, <2>1, <2>2, SortedPart
<1>6. Abstract!InInputOrder(failing, Triggers) /\ failing \in Seq(Positions)
  <2>1. CASE call.mode = "abort"
    <3>1. Triggers = {} /\ failing = <<>>
      BY <2>1
    <3>2. /\ <<>> \in Seq({}) /\ <<>> \in Seq(Positions)
          /\ DOMAIN <<>> = {}
      OBVIOUS
    <3>3. Abstract!InInputOrder(<<>>, {})
      BY <3>2 DEF Abstract!InInputOrder
    <3> HIDE DEF failing
    <3> QED BY <3>1, <3>2, <3>3
  <2>2. CASE call.mode # "abort"
    <3>1. \A k \in DOMAIN s : k \in KF <=> s[k] \in Triggers
      <4>1. \A p \in Positions : answer[p].kind = "failed" <=> p \in Triggers
        BY AllSettled DEF Triggers, IsTrigger, Scraped
      <4> QED BY <1>3, <4>1
    <3>2. Triggers \in SUBSET Positions /\ KF \in SUBSET DOMAIN s /\ failing = failed
      BY <2>2 DEF Triggers
    <3> HIDE DEF KF, failing
    <3>3. Abstract!InInputOrder(failed, Triggers)
      BY <1>1, <3>1, <3>2, SortedPart
    <3>4. failed \in Seq(Positions)
      BY <1>1, <3>2, PickIncreasing
    <3> QED BY <3>2, <3>3, <3>4
  <2> QED BY <2>1, <2>2
<1>7. DOMAIN failing = 1..Len(failing) /\ \A i \in 1..Len(failing) : failing[i] \in Triggers
  BY <1>6, LenProperties DEF Abstract!InInputOrder
<1> HIDE DEF failing
<1>8. /\ [i \in DOMAIN failures |-> failures[i][1]] = failing
      /\ DOMAIN failures = 1..Len(failing)
      /\ \A i \in DOMAIN failures : failures[i][1] = failing[i] /\ failures[i][2] = answer[failing[i]].error
  <2>1. failing = [i \in 1..Len(failing) |-> failing[i]]
    BY <1>6, <1>7
  <2> QED BY <2>1
<1> HIDE DEF failures, ok
<1>9. \A p \in Triggers : BatchVerdicts[p].error = answer[p].error
  BY TriggerVerdict DEF IndInv
<1>10. \A i \in DOMAIN failures : failures[i][2] = BatchVerdicts[failures[i][1]].error
  BY <1>7, <1>8, <1>9
<1>11. /\ ScrapeResult.kind = "ok" /\ ScrapeResult.successes = ok
       /\ ScrapeResult.failures = failures
  BY <1>2
<1> QED BY <1>4, <1>5, <1>6, <1>8, <1>10, <1>11
        DEF Abstract!IsResult, Abstract!Positions, Abstract!Scraped, Positions

(* The call answers what the contract lets it answer.                      *)
LEMMA AssembleImplements ==
  ASSUME IndInv, RepliesLast, Assemble
  PROVE  Abstract!ContractNext
<1>1. /\ reply = NoReply /\ call.max_concurrent # 0 /\ \A p \in Positions : pc[p] = "done"
      /\ call' = call /\ answer' = answer
  BY DEF Assemble, RepliesLast
<1>2. Abstract!Failures = Triggers
  BY FailuresAreTriggers DEF IndInv
<1>3. BatchVerdicts' = BatchVerdicts
  BY <1>1 DEF BatchVerdicts
<1>4. CASE call.mode = "abort" /\ Triggers # {}
  <2>1. EarliestTrigger \in Triggers
    <3>1. PICK t \in Triggers : TRUE
      BY <1>4
    <3>2. \A q \in Triggers : q = t
      BY <1>4 DEF IndInv, OneTrigger
    <3>3. t \in Int
      BY DEF Triggers, Positions
    <3>4. \A q \in Triggers : \/ answer[t].time < answer[q].time
                             \/ /\ answer[t].time = answer[q].time
                                /\ t <= q
      BY <3>2, <3>3
    <3> QED BY <3>1, <3>4 DEF EarliestTrigger
  <2>2. /\ reply' = [kind |-> "err", error |-> answer[EarliestTrigger].error]
        /\ BatchVerdicts[EarliestTrigger].error = answer[EarliestTrigger].error
    BY <1>4, <2>1, TriggerVerdict DEF Assemble, Refusal, IndInv
  <2>3. Abstract!Answer
    BY <1>1, <1>2, <1>3, <1>4, <2>1, <2>2
    DEF Abstract!Answer, Abstract!NoReply, Abstract!Refusal, NoReply, BatchVerdicts
  <2> QED BY <2>3 DEF Abstract!ContractNext
<1>5. CASE ~(call.mode = "abort" /\ Triggers # {})
  <2>1. reply' = ScrapeResult
    BY <1>5 DEF Assemble
  <2>2. Abstract!IsResult(reply', BatchVerdicts)
    BY <1>1, <1>5, <2>1, ResultComplete
  <2>3. \A p \in Positions : BatchVerdicts[p] # [kind |-> "open"]
    BY <1>1, <1>5, AllSettled, VerdictCases DEF IndInv
  <2>4. Abstract!Answer
    BY <1>1, <1>2, <1>3, <1>5, <2>2, <2>3
    DEF Abstract!Answer, Abstract!NoReply, Abstract!Open, Abstract!Positions, Positions,
        NoReply, BatchVerdicts
  <2> QED BY <2>4 DEF Abstract!ContractNext
<1> QED BY <1>4, <1>5

LEMMA StepImplements ==
  ASSUME IndInv, RepliesLast, [Next]_vars
  PROVE  [Abstract!ContractNext]_(Abstract!contractVars)
<1>1. ASSUME UNCHANGED <<call, answer, reply>>
      PROVE  UNCHANGED Abstract!contractVars
  BY <1>1 DEF Abstract!contractVars
<1>2. ASSUME NEW p \in Positions, pc[p] \in {"admitted", "sleeping"}, Begin(p),
             UNCHANGED <<call, reply>>
      PROVE  [Abstract!ContractNext]_(Abstract!contractVars)
  <2>1. CASE abort_flag
    <3>1. Failed(AbortedError, clock) \in Answers /\ Failed(AbortedError, clock) # NoAnswer
      BY DEF IndInv, TypeOK, Answers, Failed, NoAnswer
    <3> QED BY <1>2, <2>1, <3>1, FinishImplements DEF Begin, Failed
  <2>2. CASE ~abort_flag
    BY <1>1, <1>2, <2>2 DEF Begin
  <2> QED BY <2>1, <2>2
<1>3. ASSUME NEW p \in Positions, Admit(p)
      PROVE  [Abstract!ContractNext]_(Abstract!contractVars)
  BY <1>1, <1>3 DEF Admit
<1>4. ASSUME NEW p \in Positions, Start(p) \/ Wake(p)
      PROVE  [Abstract!ContractNext]_(Abstract!contractVars)
  BY <1>2, <1>4 DEF Start, Wake
<1>5. ASSUME NEW p \in Positions, ScrapeOk(p)
      PROVE  [Abstract!ContractNext]_(Abstract!contractVars)
  <2>1. Scraped \in Answers /\ Scraped # NoAnswer /\ Scraped.kind # "failed"
    BY DEF Answers, Scraped, NoAnswer
  <2> QED BY <1>5, <2>1, FinishImplements DEF ScrapeOk
<1>6. ASSUME NEW p \in Positions, NEW e \in Errors, ScrapeErr(p, e)
      PROVE  [Abstract!ContractNext]_(Abstract!contractVars)
  <2>1. \A x \in Errors \cup {AbortedError} :
          /\ Failed(x, clock) \in Answers /\ Failed(x, clock) # NoAnswer
          /\ Failed(x, clock).error = x
    BY DEF IndInv, TypeOK, Answers, Failed, NoAnswer
  <2>2. CASE abort_flag
    BY <1>6, <2>1, <2>2, FinishImplements DEF ScrapeErr
  <2>3. CASE ~abort_flag /\ GivesUp(p, e)
    BY <1>6, <2>1, <2>3, FinishImplements DEF ScrapeErr
  <2>4. CASE ~abort_flag /\ ~GivesUp(p, e)
    BY <1>1, <1>6, <2>4 DEF ScrapeErr
  <2> QED BY <2>2, <2>3, <2>4
<1>7. CASE Assemble
  BY <1>7, AssembleImplements
<1>8. CASE UNCHANGED vars
  BY <1>1, <1>8 DEF vars
<1> QED BY <1>3, <1>4, <1>5, <1>6, <1>7, <1>8 DEF Next, Step, Returned

(* The concurrent schedule implements the contract of a batch too, however *)
(* its futures interleave: a cancelled course stays without verdict, the   *)
(* result lists every verdict in the order of the input although the       *)
(* futures end in any, and an abort answers with the error that caused it. *)
THEOREM ImplementsContract == Spec => KeepsContract
<1>1. Init => Abstract!ContractInit
  <2> SUFFICES ASSUME Init PROVE Abstract!ContractInit
    OBVIOUS
  <2>1. \A p \in Positions : VerdictOf(answer[p]) = [kind |-> "open"]
    BY DEF Init, VerdictOf, NoAnswer
  <2>2. call.mode \in {"abort", "skip", "retry"}
    BY DEF Init, Calls, Modes
  <2>3. call.max_concurrent = 0 \/ reply = NoReply
    BY DEF Init
  <2> QED BY <2>1, <2>2, <2>3
      DEF Abstract!ContractInit, Abstract!Positions, Abstract!Open, Abstract!NoReply,
          Positions, NoReply
<1>2. IndInv /\ RepliesLast /\ [Next]_vars => [Abstract!ContractNext]_(Abstract!contractVars)
  BY StepImplements
<1>3. IndInv /\ RepliesLast /\ [Next]_vars => RepliesLast'
  BY NextRepliesLast DEF IndInv
<1> QED BY <1>1, <1>2, <1>3, InitRepliesLast, Invariance, PTL
    DEF Spec, KeepsContract, Abstract!Contract
=============================================================================
