------------------------- MODULE SequentialBatchProofs -------------------------
(***************************************************************************)
(* Proofs about SequentialBatch: for every batch, every list the server    *)
(* may show and every limit, it implements the contract of a batch.        *)
(***************************************************************************)
EXTENDS SequentialBatch, SequenceTheorems, TLAPS

AllErrors == Errors \cup {Error("InvalidInput")}

Succeeded(p) == \E i \in 1..Len(successes) : successes[i] = p
FailedAt(p)  == \E i \in 1..Len(failures) : failures[i][1] = p

Control ==
  /\ call \in Calls
  /\ pc \in {"scraping", "sleeping", "scraped", "returned"}
  /\ position \in 1..(N + 1)
  /\ pc \in {"sleeping", "scraped"} => position <= N
  /\ pc \in {"scraping", "sleeping"} => course = NoCourse
  /\ pc = "scraped" => course = Scraped \/ \E e \in AllErrors : course = Failed(e)
  /\ pc # "returned" => reply = NoReply

(* What is recorded so far: the positions before this one, each once and   *)
(* in the order of the input.                                              *)
Records ==
  /\ successes \in Seq(Positions) /\ failures \in Seq(Positions \X AllErrors)
  /\ \A i \in 1..Len(successes) : successes[i] < position
  /\ \A i \in 1..Len(failures) : failures[i][1] < position
  /\ \A i, j \in 1..Len(successes) : i < j => successes[i] < successes[j]
  /\ \A i, j \in 1..Len(failures) : i < j => failures[i][1] < failures[j][1]
  /\ \A i \in 1..Len(successes), j \in 1..Len(failures) : successes[i] # failures[j][1]
  /\ \A p \in Positions : p < position => Succeeded(p) \/ FailedAt(p)
  /\ call.mode = "abort" => failures = <<>>

(* The inductive invariant.                                                *)
BatchInv == Control /\ Records

-----------------------------------------------------------------------------
LEMMA BatchLength == N \in Nat
BY SequentialAssumption DEF N

(* A sequence of S grows by one at its end.                                *)
LEMMA Appended ==
  ASSUME NEW S, NEW s \in Seq(S), NEW x \in S
  PROVE  /\ Append(s, x) \in Seq(S)
         /\ Len(s) \in Nat /\ Len(Append(s, x)) = Len(s) + 1
         /\ \A i \in 1..Len(s) : Append(s, x)[i] = s[i]
         /\ Append(s, x)[Len(s) + 1] = x
BY AppendProperties, LenProperties

LEMMA InitInv == Init => BatchInv
<1> SUFFICES ASSUME Init PROVE BatchInv
  OBVIOUS
<1>1. Control
  BY BatchLength DEF Init, Control
<1>2. Records
  BY BatchLength DEF Init, Records, Positions
<1> QED BY <1>1, <1>2 DEF BatchInv

(* A success is recorded behind all the positions before it.               *)
LEMMA RecordOkKeeps ==
  ASSUME BatchInv, RecordOk
  PROVE  BatchInv'
<1>1. /\ position \in Positions /\ position + 1 \in 1..(N + 1)
      /\ pc = "scraped" /\ successes' = Append(successes, position)
      /\ failures' = failures /\ call' = call /\ position' = position + 1
      /\ pc' = "scraping" /\ course' = NoCourse /\ reply' = reply
  BY BatchLength DEF BatchInv, Control, RecordOk, NextCourse, Positions
<1>2. /\ successes \in Seq(Positions) /\ Len(successes) \in Nat
      /\ successes' \in Seq(Positions) /\ Len(successes') = Len(successes) + 1
      /\ \A i \in 1..Len(successes) : successes'[i] = successes[i]
      /\ successes'[Len(successes) + 1] = position
  BY <1>1, Appended DEF BatchInv, Records
<1>3. Control'
  BY <1>1 DEF BatchInv, Control
<1>4. \A p \in Positions : p < position' => Succeeded(p)' \/ FailedAt(p)'
  <2> SUFFICES ASSUME NEW p \in Positions, p < position + 1 PROVE Succeeded(p)' \/ FailedAt(p)'
    BY <1>1
  <2>1. CASE p = position
    BY <1>2, <2>1 DEF Succeeded
  <2>2. CASE p # position
    <3>1. p < position
      BY <1>1, <2>2 DEF Positions
    <3>2. Succeeded(p) => Succeeded(p)'
      BY <1>2 DEF Succeeded
    <3> QED BY <1>1, <3>1, <3>2 DEF BatchInv, Records, FailedAt
  <2> QED BY <2>1, <2>2
<1>5. \A i \in 1..Len(successes') : successes'[i] < position'
  <2>1. \A i \in 1..Len(successes) : successes[i] \in Int /\ successes[i] < position
    BY BatchLength DEF BatchInv, Records, Positions
  <2>2. position \in Int
    BY <1>1 DEF Positions
  <2> QED BY <1>1, <1>2, <2>1, <2>2
<1>6. \A i, j \in 1..Len(successes') : i < j => successes'[i] < successes'[j]
  <2> SUFFICES ASSUME NEW i \in 1..Len(successes'), NEW j \in 1..Len(successes'), i < j
               PROVE  successes'[i] < successes'[j]
    OBVIOUS
  <2>1. i \in 1..Len(successes) /\ successes'[i] = successes[i]
    BY <1>2
  <2>2. CASE j \in 1..Len(successes)
    BY <1>2, <2>1, <2>2 DEF BatchInv, Records
  <2>3. CASE j = Len(successes) + 1
    BY <1>1, <1>2, <2>1, <2>3 DEF BatchInv, Records
  <2> QED BY <1>2, <2>2, <2>3
<1>7. /\ \A i \in 1..Len(failures') : failures'[i][1] < position'
      /\ \A i \in 1..Len(successes'), j \in 1..Len(failures') : successes'[i] # failures'[j][1]
  <2>1. \A j \in 1..Len(failures) : failures[j][1] \in Int /\ failures[j][1] < position
    BY BatchLength DEF BatchInv, Records, Positions
  <2> QED BY <1>1, <1>2, <2>1 DEF BatchInv, Records, Positions
<1>8. Records'
  BY <1>1, <1>2, <1>4, <1>5, <1>6, <1>7 DEF BatchInv, Records
<1> QED BY <1>3, <1>8 DEF BatchInv

(* And so is a failure, unless it ends the batch.                          *)
LEMMA RecordErrKeeps ==
  ASSUME BatchInv, RecordErr
  PROVE  BatchInv'
<1> DEFINE entry == <<position, course.error>>
<1>1. /\ position \in Positions /\ position + 1 \in 1..(N + 1)
      /\ pc = "scraped" /\ failures' = Append(failures, entry)
      /\ successes' = successes /\ call' = call /\ position' = position + 1
      /\ pc' = "scraping" /\ course' = NoCourse /\ reply' = reply /\ call.mode # "abort"
  BY BatchLength DEF BatchInv, Control, RecordErr, NextCourse, Positions
<1>2. entry \in Positions \X AllErrors
  <2>1. course.error \in AllErrors
    BY <1>1 DEF BatchInv, Control, RecordErr, Scraped, Failed
  <2> QED BY <1>1, <2>1
<1>3. /\ failures \in Seq(Positions \X AllErrors) /\ Len(failures) \in Nat
      /\ failures' \in Seq(Positions \X AllErrors) /\ Len(failures') = Len(failures) + 1
      /\ \A i \in 1..Len(failures) : failures'[i] = failures[i]
      /\ failures'[Len(failures) + 1] = entry
  <2> HIDE DEF entry
  <2> QED BY <1>1, <1>2, Appended DEF BatchInv, Records
<1>4. Control'
  BY <1>1 DEF BatchInv, Control
<1>5. \A p \in Positions : p < position' => Succeeded(p)' \/ FailedAt(p)'
  <2> SUFFICES ASSUME NEW p \in Positions, p < position + 1 PROVE Succeeded(p)' \/ FailedAt(p)'
    BY <1>1
  <2>1. CASE p = position
    BY <1>3, <2>1 DEF FailedAt
  <2>2. CASE p # position
    <3>1. p < position
      BY <1>1, <2>2 DEF Positions
    <3>2. FailedAt(p) => FailedAt(p)'
      BY <1>3 DEF FailedAt
    <3> QED BY <1>1, <3>1, <3>2 DEF BatchInv, Records, Succeeded
  <2> QED BY <2>1, <2>2
<1>6. \A i \in 1..Len(failures') : failures'[i][1] < position'
  BY <1>1, <1>3 DEF BatchInv, Records, Positions
<1>7. \A i, j \in 1..Len(failures') : i < j => failures'[i][1] < failures'[j][1]
  <2> SUFFICES ASSUME NEW i \in 1..Len(failures'), NEW j \in 1..Len(failures'), i < j
               PROVE  failures'[i][1] < failures'[j][1]
    OBVIOUS
  <2>1. i \in 1..Len(failures) /\ failures'[i] = failures[i]
    BY <1>3
  <2>2. CASE j \in 1..Len(failures)
    BY <1>3, <2>1, <2>2 DEF BatchInv, Records
  <2>3. CASE j = Len(failures) + 1
    BY <1>1, <1>3, <2>1, <2>3 DEF BatchInv, Records
  <2> QED BY <1>3, <2>2, <2>3
<1>8. /\ \A i \in 1..Len(successes') : successes'[i] < position'
      /\ \A i \in 1..Len(successes'), j \in 1..Len(failures') : successes'[i] # failures'[j][1]
  <2>1. \A i \in 1..Len(successes) : successes[i] \in Int /\ successes[i] < position
    BY BatchLength DEF BatchInv, Records, Positions
  <2> QED BY <1>1, <1>3, <2>1 DEF BatchInv, Records, Positions
<1>9. Records'
  BY <1>1, <1>3, <1>5, <1>6, <1>7, <1>8 DEF BatchInv, Records
<1> QED BY <1>4, <1>9 DEF BatchInv

(* The other steps record nothing.                                         *)
LEMMA NothingRecorded ==
  ASSUME BatchInv, UNCHANGED <<call, position, successes, failures>>, Control'
  PROVE  BatchInv'
BY DEF BatchInv, Records, Succeeded, FailedAt

LEMMA GiveKeeps ==
  ASSUME BatchInv, Scraping, NEW c, Give(c), c = Scraped \/ \E e \in AllErrors : c = Failed(e),
         UNCHANGED <<call, position, successes, failures, reply>>
  PROVE  BatchInv'
<1>1. Control'
  BY BatchLength DEF BatchInv, Control, Scraping, Give
<1> QED BY <1>1, NothingRecorded

LEMMA NextKeeps ==
  ASSUME BatchInv, [Next]_vars
  PROVE  BatchInv'
<1>1. CASE ScrapeOk
  BY <1>1, GiveKeeps DEF ScrapeOk
<1>2. ASSUME NEW e \in Errors, ScrapeErr(e) PROVE BatchInv'
  <2>1. CASE Give(Failed(e))
    BY <1>2, <2>1, GiveKeeps DEF ScrapeErr, AllErrors
  <2>2. CASE pc' = "sleeping" /\ UNCHANGED course
    <3>1. Control'
      BY <1>2, <2>2, BatchLength DEF ScrapeErr, Scraping, BatchInv, Control
    <3> QED BY <1>2, <3>1, NothingRecorded DEF ScrapeErr
  <2> QED BY <1>2, <2>1, <2>2 DEF ScrapeErr
<1>3. CASE RefuseIndex
  BY <1>3, GiveKeeps DEF RefuseIndex, AllErrors
<1>4. CASE Wake
  <2>1. Control'
    BY <1>4 DEF Wake, BatchInv, Control
  <2> QED BY <1>4, <2>1, NothingRecorded DEF Wake
<1>5. CASE Abort
  <2>1. Control'
    BY <1>5 DEF Abort, BatchInv, Control
  <2> QED BY <1>5, <2>1, NothingRecorded DEF Abort
<1>6. CASE Return
  <2>1. Control'
    BY <1>6 DEF Return, BatchInv, Control
  <2> QED BY <1>6, <2>1, NothingRecorded DEF Return
<1>7. CASE UNCHANGED vars
  <2>1. Control'
    BY <1>7 DEF vars, BatchInv, Control
  <2> QED BY <1>7, <2>1, NothingRecorded DEF vars
<1> QED BY <1>1, <1>2, <1>3, <1>4, <1>5, <1>6, <1>7, RecordOkKeeps, RecordErrKeeps
        DEF Next, Returned

THEOREM BatchInvariance == Spec => []BatchInv
<1>1. BatchInv /\ [Next]_vars => BatchInv'
  BY NextKeeps
<1> QED BY <1>1, InitInv, PTL DEF Spec

-----------------------------------------------------------------------------
(* Once an answer came without a table no later course of the batch is     *)
(* scraped, for any batch and any lists.                                   *)
THEOREM EmptyListIsFinal == Spec => EmptyListPoisonsTheRest
<1> DEFINE Poisoned ==
             list_len = 0 => list_len' = 0 /\ (course' = Scraped => course = Scraped)
<1>1. Scraped # NoCourse /\ \A e : Scraped # Failed(e)
  BY DEF Scraped, NoCourse, Failed
<1>2. BatchInv /\ [Next]_vars => [Poisoned]_vars
  <2> SUFFICES ASSUME BatchInv, Next, list_len = 0
               PROVE  list_len' = 0 /\ (course' = Scraped => course = Scraped)
    OBVIOUS
  <2>1. Scraping => ~InList
    <3> SUFFICES ASSUME Scraping, InList PROVE FALSE
      OBVIOUS
    <3>1. position \in 1..N
      BY BatchLength DEF Scraping, BatchInv, Control
    <3>2. Indices[position] \in Int
      BY <3>1, SequentialAssumption DEF N
    <3> QED BY <3>2 DEF InList
  <2>2. ~ScrapeOk /\ \A e \in Errors : ~ScrapeErr(e)
    BY <2>1 DEF ScrapeOk, ScrapeErr
  <2>3. CASE RefuseIndex
    BY <1>1, <2>3 DEF RefuseIndex, Give
  <2>4. CASE RecordOk \/ RecordErr
    BY <1>1, <2>4 DEF RecordOk, RecordErr, NextCourse
  <2>5. CASE Wake \/ Abort \/ Return \/ Returned
    BY <2>5 DEF Wake, Abort, Return, Returned, vars
  <2> QED BY <2>2, <2>3, <2>4, <2>5 DEF Next
<1>3. [][Poisoned]_vars => EmptyListPoisonsTheRest
  BY PTL DEF EmptyListPoisonsTheRest
<1> QED BY <1>2, <1>3, BatchInvariance, PTL DEF Spec

-----------------------------------------------------------------------------
(* The verdicts of the contract, read off the records.                     *)
Open == [kind |-> "open"]

Verdicts == [p \in Positions |-> VerdictAt(p)]

VerdictsKnown ==
  /\ \A p \in Positions : Succeeded(p) => VerdictAt(p) = Scraped
  /\ \A i \in 1..Len(failures) : VerdictAt(failures[i][1]) = Failed(failures[i][2])
  /\ \A p \in Positions : p > position => VerdictAt(p) = Open
  /\ position <= N /\ pc # "returned" =>
       VerdictAt(position) = IF pc = "scraped" THEN course ELSE Open

LEMMA VerdictsFollow == BatchInv => VerdictsKnown
<1> SUFFICES ASSUME BatchInv PROVE VerdictsKnown
  OBVIOUS
<1>1. /\ \A i \in 1..Len(successes) : successes[i] \in Positions /\ successes[i] < position
      /\ \A i \in 1..Len(failures) : failures[i][1] \in Positions /\ failures[i][1] < position
      /\ Len(failures) \in Nat /\ position \in Nat /\ \A p \in Positions : p \in Nat
  BY BatchLength DEF BatchInv, Control, Records, Positions
<1>2. \A p \in Positions : Succeeded(p) => VerdictAt(p) = Scraped
  BY DEF VerdictAt, Succeeded, Scraped
<1>3. ASSUME NEW i \in 1..Len(failures)
      PROVE  VerdictAt(failures[i][1]) = Failed(failures[i][2])
  <2> DEFINE p == failures[i][1]
             k == CHOOSE j \in 1..Len(failures) : failures[j][1] = p
  <2>1. ~(\E j \in 1..Len(successes) : successes[j] = p)
    BY DEF BatchInv, Records
  <2>2. k \in 1..Len(failures) /\ failures[k][1] = p
    OBVIOUS
  <2> HIDE DEF k
  <2>3. ~(k < i) /\ ~(i < k)
    BY <1>1, <2>2 DEF BatchInv, Records
  <2>4. k = i
    BY <1>1, <2>2, <2>3
  <2>5. VerdictAt(p) = [kind |-> "failed", error |-> failures[k][2]]
    BY <2>1, <2>2 DEF VerdictAt, k
  <2> QED BY <2>4, <2>5 DEF Failed
<1>4. ASSUME NEW p \in Positions, p >= position PROVE ~Succeeded(p) /\ ~FailedAt(p)
  BY <1>1, <1>4 DEF Succeeded, FailedAt
<1>5. ASSUME NEW p \in Positions, p > position PROVE VerdictAt(p) = Open
  BY <1>1, <1>4, <1>5 DEF VerdictAt, Succeeded, FailedAt, Open
<1>6. ASSUME position <= N, pc # "returned"
      PROVE  VerdictAt(position) = IF pc = "scraped" THEN course ELSE Open
  <2>1. position \in Positions
    BY <1>6, BatchLength DEF BatchInv, Control, Positions
  <2>2. ~Succeeded(position) /\ ~FailedAt(position)
    BY <1>1, <1>4, <2>1
  <2>3. CASE pc = "scraped"
    BY <2>2, <2>3 DEF VerdictAt, Succeeded, FailedAt, BatchInv, Control, Scraped, Failed
  <2>4. CASE pc # "scraped"
    BY <1>6, <2>2, <2>4
    DEF VerdictAt, Succeeded, FailedAt, BatchInv, Control, NoCourse, Open
  <2> QED BY <2>3, <2>4
<1> QED BY <1>2, <1>3, <1>5, <1>6 DEF VerdictsKnown

(* What came of a position before this one does not change.                *)
LEMMA SettledStay ==
  ASSUME BatchInv, VerdictsKnown, VerdictsKnown', NEW p \in Positions, p < position,
         Len(successes) <= Len(successes'), Len(failures) <= Len(failures'),
         \A i \in 1..Len(successes) : successes'[i] = successes[i],
         \A i \in 1..Len(failures) : failures'[i] = failures[i],
         Len(successes) \in Nat, Len(successes') \in Nat,
         Len(failures) \in Nat, Len(failures') \in Nat
  PROVE  VerdictAt(p)' = VerdictAt(p)
<1>1. CASE Succeeded(p)
  <2>1. Succeeded(p)'
    BY <1>1 DEF Succeeded
  <2> QED BY <1>1, <2>1 DEF VerdictsKnown
<1>2. CASE FailedAt(p)
  <2>1. PICK i \in 1..Len(failures) : failures[i][1] = p
    BY <1>2 DEF FailedAt
  <2>2. i \in 1..Len(failures') /\ failures'[i] = failures[i]
    BY <2>1
  <2> QED BY <2>1, <2>2 DEF VerdictsKnown
<1> QED BY <1>1, <1>2 DEF BatchInv, Records

(* The end of a scrape settles the verdict of its position, which was open.*)
LEMMA GiveSettles ==
  ASSUME BatchInv, VerdictsKnown, VerdictsKnown', Scraping, NEW c, Give(c),
         UNCHANGED <<position, successes, failures>>
  PROVE  /\ position \in Positions /\ Verdicts[position] = Open
         /\ Verdicts' = [Verdicts EXCEPT ![position] = c]
<1>1. /\ position \in Positions /\ position <= N /\ \A p \in Positions : p \in Nat
      /\ pc = "scraping" /\ pc' = "scraped" /\ course' = c
      /\ Len(successes) \in Nat /\ Len(failures) \in Nat
  BY BatchLength DEF BatchInv, Control, Records, Scraping, Give, Positions
<1>2. VerdictAt(position) = Open /\ VerdictAt(position)' = c
  BY <1>1 DEF VerdictsKnown
<1>3. ASSUME NEW p \in Positions, p # position PROVE VerdictAt(p)' = VerdictAt(p)
  <2>1. CASE p < position
    BY <1>1, <2>1, SettledStay
  <2>2. CASE p > position
    BY <2>2 DEF VerdictsKnown
  <2> QED BY <1>1, <1>3, <2>1, <2>2
<1> QED BY <1>1, <1>2, <1>3 DEF Verdicts

(* Recording a verdict does not change it; q is the position, in both      *)
(* states.                                                                 *)
LEMMA RecordedAsGiven ==
  ASSUME BatchInv, BatchInv', VerdictsKnown, VerdictsKnown', RecordOk \/ RecordErr,
         NEW q, q = position
  PROVE  /\ Len(successes) <= Len(successes') /\ Len(failures) <= Len(failures')
         /\ \A i \in 1..Len(successes) : successes'[i] = successes[i]
         /\ \A i \in 1..Len(failures) : failures'[i] = failures[i]
         /\ VerdictAt(q)' = VerdictAt(q)
<1>1. /\ q \in Positions /\ q <= N /\ pc = "scraped"
      /\ Len(successes) \in Nat /\ Len(failures) \in Nat
      /\ VerdictAt(q) = course
  BY BatchLength
  DEF BatchInv, Control, Records, RecordOk, RecordErr, Positions, VerdictsKnown
<1>2. CASE RecordOk
  <2>1. /\ Len(successes') = Len(successes) + 1 /\ failures' = failures
        /\ \A i \in 1..Len(successes) : successes'[i] = successes[i]
        /\ successes'[Len(successes) + 1] = q /\ course = Scraped
    BY <1>1, <1>2, Appended DEF RecordOk, BatchInv, Records
  <2>2. \E i \in 1..Len(successes') : successes'[i] = q
    BY <1>1, <2>1
  <2>3. VerdictAt(q)' = Scraped
    BY <2>2 DEF VerdictAt, Scraped
  <2> QED BY <1>1, <2>1, <2>3
<1>3. CASE RecordErr
  <2> DEFINE entry == <<q, course.error>>
  <2>1. course = Failed(course.error) /\ course.error \in AllErrors
    BY <1>1, <1>3 DEF RecordErr, BatchInv, Control, Scraped, Failed
  <2>2. entry \in Positions \X AllErrors /\ entry[1] = q /\ entry[2] = course.error
    BY <1>1, <2>1
  <2>3. failures' = Append(failures, entry) /\ successes' = successes
    BY <1>3 DEF RecordErr
  <2> HIDE DEF entry
  <2>4. /\ Len(failures') = Len(failures) + 1
        /\ \A i \in 1..Len(failures) : failures'[i] = failures[i]
        /\ failures'[Len(failures) + 1] = entry
    BY <2>2, <2>3, Appended DEF BatchInv, Records
  <2>5. PICK i \in 1..Len(failures') : failures'[i] = entry
    BY <1>1, <2>4
  <2>6. VerdictAt(failures[i][1])' = Failed(failures'[i][2])
    BY <2>5 DEF VerdictsKnown
  <2>7. VerdictAt(q)' = Failed(course.error)
    BY <2>2, <2>5, <2>6
  <2> QED BY <1>1, <2>1, <2>3, <2>4, <2>7
<1> QED BY <1>2, <1>3

LEMMA RecordingKeepsVerdicts ==
  ASSUME BatchInv, BatchInv', VerdictsKnown, VerdictsKnown', RecordOk \/ RecordErr
  PROVE  Verdicts' = Verdicts
<1>1. /\ position \in Positions /\ \A p \in Positions : p \in Nat /\ p <= N
      /\ pc' = "scraping" /\ position' = position + 1
      /\ Len(successes) \in Nat /\ Len(failures) \in Nat
      /\ Len(successes') \in Nat /\ Len(failures') \in Nat
  BY BatchLength DEF BatchInv, Control, Records, RecordOk, RecordErr, NextCourse, Positions
<1>2. ASSUME NEW p \in Positions PROVE VerdictAt(p)' = VerdictAt(p)
  <2>1. CASE p <= position
    BY <1>1, <2>1, RecordedAsGiven, SettledStay
  <2>2. CASE p > position
    <3>1. VerdictAt(p) = Open
      BY <2>2 DEF VerdictsKnown
    <3>2. CASE p = position'
      <4>1. VerdictAt(position)' = Open
        BY <1>1, <3>2 DEF VerdictsKnown
      <4> QED BY <3>1, <3>2, <4>1
    <3>3. CASE p > position'
      BY <3>1, <3>3 DEF VerdictsKnown
    <3> QED BY <1>1, <2>2, <3>2, <3>3
  <2> QED BY <1>1, <2>1, <2>2
<1> QED BY <1>2 DEF Verdicts, Positions

-----------------------------------------------------------------------------
(* Every step is one of the contract's, or changes nothing it speaks of.   *)
LEMMA NothingFailed ==
  ASSUME BatchInv, VerdictsKnown, call.mode = "abort", pc = "scraping"
  PROVE  { p \in Positions : Verdicts[p].kind = "failed" } = {}
<1> SUFFICES ASSUME NEW p \in Positions PROVE VerdictAt(p).kind # "failed"
  BY DEF Verdicts
<1>1. position \in Nat /\ p \in Nat /\ p <= N
  BY BatchLength DEF BatchInv, Control, Positions
<1>2. CASE p < position
  <2>1. Succeeded(p)
    BY <1>2 DEF BatchInv, Records, FailedAt
  <2> QED BY <2>1 DEF VerdictsKnown, Scraped
<1>3. CASE p >= position
  <2>1. VerdictAt(p) = Open
    BY <1>1, <1>3 DEF VerdictsKnown
  <2> QED BY <2>1 DEF Open
<1> QED BY <1>1, <1>2, <1>3

LEMMA GiveImplements ==
  ASSUME BatchInv, VerdictsKnown, VerdictsKnown', Scraping, NEW c, Give(c),
         c = Scraped \/ \E e \in AllErrors : c = Failed(e),
         UNCHANGED <<call, position, successes, failures, reply>>
  PROVE  Abstract!ContractNext
<1>1. /\ position \in Positions /\ Verdicts[position] = Open
      /\ Verdicts' = [Verdicts EXCEPT ![position] = c]
  BY GiveSettles
<1>2. reply = NoReply /\ (call.mode = "abort" => { p \in Positions : Verdicts[p].kind = "failed" } = {})
  BY NothingFailed DEF BatchInv, Control, Scraping
<1>3. Abstract!Settle(position, c)
  BY <1>1, <1>2
  DEF Abstract!Settle, Abstract!Failures, Abstract!Positions, Abstract!Open, Abstract!NoReply,
      Positions, Verdicts, Open, NoReply
<1>4. c \in {Abstract!Scraped} \cup { Abstract!Failed(e) : e \in AllErrors }
  BY DEF Abstract!Scraped, Abstract!Failed, Scraped, Failed
<1> QED BY <1>1, <1>3, <1>4 DEF Abstract!ContractNext, Abstract!Positions, Positions, AllErrors

LEMMA AbortImplements ==
  ASSUME BatchInv, VerdictsKnown, Abort
  PROVE  Abstract!ContractNext
<1>1. /\ position \in Positions /\ VerdictAt(position) = course /\ course.kind = "failed"
      /\ reply = NoReply /\ reply' = Refusal(course.error) /\ call.mode = "abort"
  BY BatchLength DEF Abort, BatchInv, Control, VerdictsKnown, Positions
<1>2. Verdicts' = Verdicts /\ call' = call
  BY DEF Abort, Verdicts, VerdictAt, Positions
<1>3. /\ position \in { p \in Positions : Verdicts[p].kind = "failed" }
      /\ reply' = [kind |-> "err", error |-> Verdicts[position].error]
  BY <1>1 DEF Verdicts, Refusal
<1>4. Abstract!Answer
  BY <1>1, <1>2, <1>3
  DEF Abstract!Answer, Abstract!Failures, Abstract!Positions, Abstract!NoReply,
      Abstract!Refusal, Positions, Verdicts, NoReply
<1> QED BY <1>4 DEF Abstract!ContractNext

(* The two lists of a result hold each its verdicts, in the input's order. *)
LEMMA ListsComplete ==
  ASSUME BatchInv, VerdictsKnown, position = N + 1
  PROVE  /\ \A p \in Positions : Verdicts[p] # Open
         /\ Abstract!InInputOrder(successes, { p \in Positions : Verdicts[p] = Scraped })
         /\ Abstract!InInputOrder([i \in DOMAIN failures |-> failures[i][1]],
                                  { p \in Positions : Verdicts[p].kind = "failed" })
         /\ \A i \in DOMAIN failures : failures[i][2] = Verdicts[failures[i][1]].error
<1> DEFINE S == { p \in Positions : Verdicts[p] = Scraped }
           F == { p \in Positions : Verdicts[p].kind = "failed" }
           f == [i \in DOMAIN failures |-> failures[i][1]]
<1>1. /\ successes \in Seq(Positions) /\ failures \in Seq(Positions \X AllErrors)
      /\ DOMAIN successes = 1..Len(successes) /\ DOMAIN failures = 1..Len(failures)
      /\ Len(successes) \in Nat /\ Len(failures) \in Nat
  BY LenProperties DEF BatchInv, Records
<1>2. \A i \in 1..Len(failures) : failures[i] \in Positions \X AllErrors
  BY <1>1
<1>3. ASSUME NEW p \in Positions PROVE Succeeded(p) \/ FailedAt(p)
  BY BatchLength DEF BatchInv, Records, Positions
<1>4. ASSUME NEW p \in Positions, Succeeded(p) PROVE Verdicts[p] = Scraped
  BY <1>4 DEF Verdicts, VerdictsKnown
<1>5. ASSUME NEW i \in 1..Len(failures)
      PROVE  /\ failures[i][1] \in Positions
             /\ Verdicts[failures[i][1]].kind = "failed"
             /\ Verdicts[failures[i][1]].error = failures[i][2]
  <2>1. /\ failures[i][1] \in Positions
        /\ Verdicts[failures[i][1]] = Failed(failures[i][2])
    BY <1>2 DEF Verdicts, VerdictsKnown
  <2>2. \A e : Failed(e).kind = "failed" /\ Failed(e).error = e
    BY DEF Failed
  <2> QED BY <2>1, <2>2
<1>6. ASSUME NEW p \in Positions, FailedAt(p)
      PROVE  Verdicts[p].kind = "failed" /\ \E i \in 1..Len(failures) : failures[i][1] = p
  <2>1. PICK i \in 1..Len(failures) : failures[i][1] = p
    BY <1>1, <1>6 DEF FailedAt
  <2> QED BY <2>1, <1>5
<1>7. Scraped.kind = "ok" /\ Open.kind = "open"
  BY DEF Scraped, Open
<1>8. \A p \in Positions : Verdicts[p] # Open
  BY <1>3, <1>4, <1>6, <1>7
<1>9. Abstract!InInputOrder(successes, S)
  <2>1. \A i \in 1..Len(successes) : successes[i] \in S
    BY <1>1, <1>4 DEF Succeeded
  <2>2. successes \in Seq(S)
    <3> HIDE DEF S
    <3> QED BY <1>1, <2>1
  <2>3. \A p \in S : \E i \in DOMAIN successes : successes[i] = p
    BY <1>1, <1>3, <1>6, <1>7 DEF Succeeded
  <2> HIDE DEF S
  <2> QED BY <1>1, <2>2, <2>3 DEF Abstract!InInputOrder, BatchInv, Records
<1>10. Abstract!InInputOrder(f, F)
  <2>1. \A i \in 1..Len(failures) : f[i] = failures[i][1] /\ f[i] \in F
    BY <1>1, <1>5
  <2>2. DOMAIN f = 1..Len(failures)
    BY <1>1
  <2>3. \A p \in F : \E i \in 1..Len(failures) : f[i] = p
    BY <1>3, <1>4, <1>6, <1>7, <2>1
  <2>4. f \in Seq(F)
    <3>1. f = [i \in 1..Len(failures) |-> f[i]]
      BY <2>2
    <3> HIDE DEF f, F
    <3> QED BY <1>1, <2>1, <3>1
  <2>5. \A i, j \in 1..Len(failures) : i < j => f[i] < f[j]
    BY <2>1 DEF BatchInv, Records
  <2> HIDE DEF f, F
  <2> QED BY <2>2, <2>3, <2>4, <2>5 DEF Abstract!InInputOrder
<1>11. \A i \in DOMAIN failures : failures[i][2] = Verdicts[failures[i][1]].error
  BY <1>1, <1>5
<1> QED BY <1>8, <1>9, <1>10, <1>11

LEMMA ReturnImplements ==
  ASSUME BatchInv, VerdictsKnown, Return
  PROVE  Abstract!ContractNext
<1> DEFINE answer == [kind |-> "ok", successes |-> successes, failures |-> failures]
<1>1. /\ position = N + 1 /\ pc = "scraping" /\ reply = NoReply /\ reply' = answer
  BY BatchLength DEF Return, BatchInv, Control
<1>2. Verdicts' = Verdicts /\ call' = call
  BY DEF Return, Verdicts, VerdictAt, Positions
<1>3. answer.kind = "ok" /\ answer.successes = successes /\ answer.failures = failures
  OBVIOUS
<1> HIDE DEF answer
<1>4. Abstract!IsResult(answer, Verdicts)
  BY <1>1, <1>3, ListsComplete
  DEF Abstract!IsResult, Abstract!Positions, Abstract!Scraped, Positions, Scraped
<1>5. /\ \A p \in Positions : Verdicts[p] # Open
      /\ call.mode = "abort" => { p \in Positions : Verdicts[p].kind = "failed" } = {}
  BY <1>1, ListsComplete, NothingFailed
<1>6. Abstract!Answer
  BY <1>1, <1>2, <1>4, <1>5
  DEF Abstract!Answer, Abstract!Failures, Abstract!Positions, Abstract!NoReply, Abstract!Open,
      Positions, Verdicts, NoReply, Open
<1> QED BY <1>6 DEF Abstract!ContractNext

LEMMA StepImplements ==
  ASSUME BatchInv, BatchInv', VerdictsKnown, VerdictsKnown', [Next]_vars
  PROVE  [Abstract!ContractNext]_(Abstract!contractVars)
<1>1. ASSUME Verdicts' = Verdicts, call' = call, reply' = reply
      PROVE  UNCHANGED Abstract!contractVars
  BY <1>1 DEF Abstract!contractVars, Verdicts
<1>2. CASE ScrapeOk
  BY <1>2, GiveImplements DEF ScrapeOk
<1>3. ASSUME NEW e \in Errors, ScrapeErr(e)
      PROVE  [Abstract!ContractNext]_(Abstract!contractVars)
  <2>1. CASE Give(Failed(e))
    BY <1>3, <2>1, GiveImplements DEF ScrapeErr, AllErrors
  <2>2. CASE UNCHANGED course
    BY <1>1, <1>3, <2>2 DEF ScrapeErr, Verdicts, VerdictAt, Positions
  <2> QED BY <1>3, <2>1, <2>2 DEF ScrapeErr
<1>4. CASE RefuseIndex
  BY <1>4, GiveImplements DEF RefuseIndex, AllErrors
<1>5. CASE Wake
  BY <1>1, <1>5 DEF Wake, Verdicts, VerdictAt, Positions
<1>6. CASE RecordOk \/ RecordErr
  BY <1>1, <1>6, RecordingKeepsVerdicts DEF RecordOk, RecordErr
<1>7. CASE Abort
  BY <1>7, AbortImplements
<1>8. CASE Return
  BY <1>8, ReturnImplements
<1>9. CASE UNCHANGED vars
  BY <1>1, <1>9 DEF vars, Verdicts, VerdictAt, Positions
<1> QED BY <1>2, <1>3, <1>4, <1>5, <1>6, <1>7, <1>8, <1>9 DEF Next, Returned

(* The sequential schedule implements the contract of a batch: one verdict *)
(* per course, a result with every course in the order of the input, and   *)
(* in abort mode the error of the course that failed.                      *)
THEOREM ImplementsContract == Spec => KeepsContract
<1>1. Init => Abstract!ContractInit
  <2> SUFFICES ASSUME Init PROVE Abstract!ContractInit
    OBVIOUS
  <2>1. \A p \in Positions : VerdictAt(p) = Open
    BY DEF Init, VerdictAt, NoCourse, Open
  <2>2. call.mode \in {"abort", "skip", "retry"} /\ reply = NoReply
    BY DEF Init, Calls
  <2> QED BY <2>1, <2>2
      DEF Abstract!ContractInit, Abstract!Positions, Abstract!Open, Abstract!NoReply,
          Positions, Open, NoReply
<1>2. BatchInv /\ BatchInv' /\ VerdictsKnown /\ VerdictsKnown' /\ [Next]_vars
        => [Abstract!ContractNext]_(Abstract!contractVars)
  BY StepImplements
<1> QED BY <1>1, <1>2, BatchInvariance, VerdictsFollow, PTL
    DEF Spec, KeepsContract, Abstract!Contract
=============================================================================
