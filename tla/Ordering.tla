------------------------------- MODULE Ordering -------------------------------
(***************************************************************************)
(* Sorting and filtering, by rank: an element stands at the n-th place     *)
(* when n elements, itself among them, do not come after it.  SortSeq and  *)
(* SelectSeq say the same; what is written here is what proofs can expand. *)
(***************************************************************************)
EXTENDS Integers, Sequences, FiniteSets

(* Of the numbers in DOMAIN keys, those that do not come after k when they *)
(* are ordered by key, and by themselves where keys are equal.             *)
UpTo(keys, k) ==
  { j \in DOMAIN keys : keys[j] < keys[k] \/ (keys[j] = keys[k] /\ j <= k) }

(* The numbers in DOMAIN keys in that order.                               *)
ByKey(keys) ==
  [ n \in 1..Cardinality(DOMAIN keys) |->
      CHOOSE k \in DOMAIN keys : Cardinality(UpTo(keys, k)) = n ]

(* A finite set of numbers in increasing order.                            *)
Increasing(S) == ByKey([k \in S |-> k])

Pick(s, order) == [n \in DOMAIN order |-> s[order[n]]]

(* The elements of s by key: a stable sort.                                *)
SortBy(s, Key(_)) == Pick(s, ByKey([k \in DOMAIN s |-> Key(s[k])]))

(* The elements of s that pass, in their order.                            *)
Filter(s, Test(_)) == Pick(s, Increasing({ k \in DOMAIN s : Test(s[k]) }))
=============================================================================
