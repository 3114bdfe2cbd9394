---------------------------- MODULE BatchContract ----------------------------
(***************************************************************************)
(* What a batch scrape promises its caller, whichever of the two schedules *)
(* runs it (scrape_courses_batch, scrape_courses_concurrent of             *)
(* sia_session.rs, through ScrapeResult and ErrorMode of                   *)
(* models/scrape_result.rs).  Position p of the input gets at most one     *)
(* verdict.  "skip" and "retry" answer with every verdict, in the order of *)
(* the input; "abort" answers with the one error that stopped it, or with  *)
(* every course when there was none.                                       *)
(***************************************************************************)
EXTENDS Naturals, Sequences

CONSTANTS
  N,                (* the length of the batch                              *)
  Errors            (* the errors a scrape can end with                     *)

VARIABLES
  mode,             (* abort | skip | retry                                 *)
  verdict,          (* per position: what came of it                        *)
  reply             (* what the caller got                                  *)

contractVars == <<mode, verdict, reply>>

Positions == 1..N

Open       == [kind |-> "open"]
Scraped    == [kind |-> "ok"]
Failed(e)  == [kind |-> "failed", error |-> e]

NoReply    == [kind |-> "none"]
Refusal(e) == [kind |-> "err", error |-> e]

InInputOrder(s, S) ==
  /\ s \in Seq(S)
  /\ \A p \in S : \E i \in DOMAIN s : s[i] = p
  /\ \A i, j \in DOMAIN s : i < j => s[i] < s[j]

(* r is the ScrapeResult of a verdict: the positions scraped, and the      *)
(* failed ones with their errors.                                          *)
IsResult(r, v) ==
  /\ r.kind = "ok"
  /\ InInputOrder(r.successes, { p \in Positions : v[p] = Scraped })
  /\ InInputOrder([i \in DOMAIN r.failures |-> r.failures[i][1]],
                  { p \in Positions : v[p].kind = "failed" })
  /\ \A i \in DOMAIN r.failures : r.failures[i][2] = v[r.failures[i][1]].error

Failures == { p \in Positions : verdict[p].kind = "failed" }

ContractInit ==
  /\ mode \in {"abort", "skip", "retry"}
  /\ verdict = [p \in Positions |-> Open]
  /\ reply = NoReply

Settle(p, v) ==
  /\ reply = NoReply
  /\ verdict[p] = Open
  /\ mode = "abort" /\ v # Scraped => Failures = {}
  /\ verdict' = [verdict EXCEPT ![p] = v]
  /\ UNCHANGED <<mode, reply>>

Answer ==
  /\ reply = NoReply
  /\ \/ /\ mode = "abort"
        /\ \E p \in Failures : reply' = Refusal(verdict[p].error)
     \/ /\ \A p \in Positions : verdict[p] # Open
        /\ mode = "abort" => Failures = {}
        /\ IsResult(reply', verdict)
  /\ UNCHANGED <<mode, verdict>>

ContractNext ==
  \/ \E p \in Positions : \E v \in {Scraped} \cup { Failed(e) : e \in Errors } : Settle(p, v)
  \/ Answer

Contract == ContractInit /\ [][ContractNext]_contractVars
=============================================================================
