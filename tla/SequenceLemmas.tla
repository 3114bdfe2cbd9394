---------------------------- MODULE SequenceLemmas ----------------------------
(***************************************************************************)
(* What Ordering's operators return, for every set and sequence, and       *)
(* induction over the natural numbers in the form the proofs use: a set of *)
(* them that is not empty has a least element.                             *)
(***************************************************************************)
EXTENDS Ordering, SequenceTheorems, FunctionTheorems, FiniteSetTheorems,
        WellFoundedInduction, TLAPS

LEMMA LeastNatural ==
  ASSUME NEW S \in SUBSET Nat, S # {}
  PROVE  \E n \in S : \A m \in S : n <= m
<1>1. IsWellFoundedOn(OpToRel(<, Nat), Nat)
  BY NatLessThanWellFounded
<1>2. PICK n \in S : \A m \in S : <<m, n>> \notin OpToRel(<, Nat)
  BY <1>1, WFMin
<1>3. \A m \in S : m < n => <<m, n>> \in OpToRel(<, Nat)
  BY DEF OpToRel
<1>4. \A m \in S : ~(m < n)
  BY <1>2, <1>3
<1> QED BY <1>4

-----------------------------------------------------------------------------
IsKeyed(keys) == IsFiniteSet(DOMAIN keys) /\ \A k \in DOMAIN keys : k \in Int /\ keys[k] \in Int

(* Of two numbers one comes after the other, and has the larger rank.      *)
LEMMA RankGrows ==
  ASSUME NEW keys, IsKeyed(keys), NEW j \in DOMAIN keys, NEW k \in DOMAIN keys,
         keys[j] < keys[k] \/ (keys[j] = keys[k] /\ j < k)
  PROVE  Cardinality(UpTo(keys, j)) < Cardinality(UpTo(keys, k))
<1>1. UpTo(keys, k) \subseteq DOMAIN keys /\ IsFiniteSet(UpTo(keys, k))
  BY FS_Subset DEF UpTo, IsKeyed
<1>2. UpTo(keys, j) \subseteq UpTo(keys, k)
  BY DEF UpTo, IsKeyed
<1>3. k \in UpTo(keys, k) /\ k \notin UpTo(keys, j)
  BY DEF UpTo, IsKeyed
<1>4. /\ Cardinality(UpTo(keys, j)) <= Cardinality(UpTo(keys, k))
      /\ Cardinality(UpTo(keys, j)) # Cardinality(UpTo(keys, k))
  BY <1>1, <1>2, <1>3, FS_Subset
<1>5. Cardinality(UpTo(keys, j)) \in Nat /\ Cardinality(UpTo(keys, k)) \in Nat
  BY <1>1, <1>2, FS_Subset, FS_CardinalityType
<1> QED BY <1>4, <1>5

LEMMA RankBounded ==
  ASSUME NEW keys, IsKeyed(keys), NEW k \in DOMAIN keys
  PROVE  Cardinality(UpTo(keys, k)) \in 1..Cardinality(DOMAIN keys)
<1>1. IsFiniteSet(DOMAIN keys) /\ UpTo(keys, k) \in SUBSET DOMAIN keys
  BY DEF UpTo, IsKeyed
<1>2. /\ IsFiniteSet(UpTo(keys, k))
      /\ Cardinality(UpTo(keys, k)) <= Cardinality(DOMAIN keys)
  BY <1>1, FS_Subset
<1>3. UpTo(keys, k) # {}
  BY DEF UpTo, IsKeyed
<1>4. Cardinality(UpTo(keys, k)) # 0
  BY <1>2, <1>3, FS_EmptySet
<1>5. Cardinality(UpTo(keys, k)) \in Nat /\ Cardinality(DOMAIN keys) \in Nat
  BY <1>1, <1>2, FS_CardinalityType
<1> QED BY <1>2, <1>4, <1>5

(* Every number has a place, and every place a number.                     *)
LEMMA RankReached ==
  ASSUME NEW keys, IsKeyed(keys), NEW n \in 1..Cardinality(DOMAIN keys)
  PROVE  \E k \in DOMAIN keys : Cardinality(UpTo(keys, k)) = n
<1> DEFINE D == DOMAIN keys
           C == Cardinality(D)
           rank == [k \in D |-> Cardinality(UpTo(keys, k))]
<1>1. IsFiniteSet(D) /\ C \in Nat
  BY FS_CardinalityType DEF IsKeyed
<1>2. rank \in [D -> 1..C]
  BY RankBounded
<1>3. ASSUME NEW j \in D, NEW k \in D, rank[j] = rank[k]
      PROVE  j = k
  <2>1. Cardinality(UpTo(keys, j)) = Cardinality(UpTo(keys, k))
    BY <1>3
  <2>2. j \in Int /\ k \in Int /\ keys[j] \in Int /\ keys[k] \in Int
    BY DEF IsKeyed
  <2>3. /\ Cardinality(UpTo(keys, j)) \in 1..C /\ Cardinality(UpTo(keys, k)) \in 1..C
    BY RankBounded
  <2>4. ~(keys[j] < keys[k] \/ (keys[j] = keys[k] /\ j < k))
    BY <1>1, <2>1, <2>3, RankGrows
  <2>5. ~(keys[k] < keys[j] \/ (keys[k] = keys[j] /\ k < j))
    BY <1>1, <2>1, <2>3, RankGrows
  <2> QED BY <2>2, <2>4, <2>5
<1>4. rank \in Injection(D, 1..C)
  BY <1>2, <1>3, Fun_IsInj
<1>5. IsFiniteSet(1..C) /\ Cardinality(1..C) = C
  BY <1>1, FS_Interval
<1>6. rank \in Surjection(D, 1..C)
  BY <1>4, <1>5, FS_Injection
<1>7. n \in 1..C
  OBVIOUS
<1> HIDE DEF D, C, rank
<1>8. \E k \in D : rank[k] = n
  BY <1>6, <1>7 DEF Surjection
<1> QED BY <1>8 DEF D, rank

(* The order of the keys: each number once, with keys that never decrease. *)
LEMMA ByKeyOrders ==
  ASSUME NEW keys, IsKeyed(keys)
  PROVE  /\ Cardinality(DOMAIN keys) \in Nat
         /\ DOMAIN ByKey(keys) = 1..Cardinality(DOMAIN keys)
         /\ \A n \in DOMAIN ByKey(keys) :
              /\ ByKey(keys)[n] \in DOMAIN keys
              /\ Cardinality(UpTo(keys, ByKey(keys)[n])) = n
         /\ \A k \in DOMAIN keys : \E n \in DOMAIN ByKey(keys) : ByKey(keys)[n] = k
         /\ \A m, n \in DOMAIN ByKey(keys) :
              m < n => \/ keys[ByKey(keys)[m]] < keys[ByKey(keys)[n]]
                       \/ /\ keys[ByKey(keys)[m]] = keys[ByKey(keys)[n]]
                          /\ ByKey(keys)[m] < ByKey(keys)[n]
<1>1. Cardinality(DOMAIN keys) \in Nat
  BY FS_CardinalityType DEF IsKeyed
<1>2. DOMAIN ByKey(keys) = 1..Cardinality(DOMAIN keys)
  BY DEF ByKey
<1>3. ASSUME NEW n \in DOMAIN ByKey(keys)
      PROVE  /\ ByKey(keys)[n] \in DOMAIN keys
             /\ Cardinality(UpTo(keys, ByKey(keys)[n])) = n
  <2>1. ByKey(keys)[n] = CHOOSE k \in DOMAIN keys : Cardinality(UpTo(keys, k)) = n
    BY <1>2, <1>3 DEF ByKey
  <2>2. \E k \in DOMAIN keys : Cardinality(UpTo(keys, k)) = n
    BY <1>2, <1>3, RankReached
  <2> QED BY <2>1, <2>2
<1>4. ASSUME NEW j \in DOMAIN keys, NEW k \in DOMAIN keys,
             Cardinality(UpTo(keys, j)) <= Cardinality(UpTo(keys, k)), j # k
      PROVE  keys[j] < keys[k] \/ (keys[j] = keys[k] /\ j < k)
  <2>1. /\ Cardinality(UpTo(keys, j)) \in 1..Cardinality(DOMAIN keys)
        /\ Cardinality(UpTo(keys, k)) \in 1..Cardinality(DOMAIN keys)
    BY RankBounded
  <2>2. ~(keys[k] < keys[j] \/ (keys[k] = keys[j] /\ k < j))
    BY <1>1, <1>4, <2>1, RankGrows
  <2>3. j \in Int /\ k \in Int /\ keys[j] \in Int /\ keys[k] \in Int
    BY DEF IsKeyed
  <2> QED BY <1>4, <2>2, <2>3
<1>5. ASSUME NEW k \in DOMAIN keys
      PROVE  \E n \in DOMAIN ByKey(keys) : ByKey(keys)[n] = k
  <2>1. PICK n \in DOMAIN ByKey(keys) : n = Cardinality(UpTo(keys, k))
    BY <1>2, RankBounded
  <2>2. ByKey(keys)[n] \in DOMAIN keys /\ Cardinality(UpTo(keys, ByKey(keys)[n])) = n
    BY <1>3
  <2>3. n \in Nat
    BY <1>1, <1>2
  <2>4. CASE ByKey(keys)[n] # k
    <3>1. \/ keys[ByKey(keys)[n]] < keys[k]
          \/ keys[ByKey(keys)[n]] = keys[k] /\ ByKey(keys)[n] < k
      BY <1>4, <2>1, <2>2, <2>3, <2>4
    <3>2. Cardinality(UpTo(keys, ByKey(keys)[n])) < Cardinality(UpTo(keys, k))
      BY <2>2, <3>1, RankGrows
    <3> QED BY <2>1, <2>2, <2>3, <3>2
  <2> QED BY <2>4
<1>6. ASSUME NEW m \in DOMAIN ByKey(keys), NEW n \in DOMAIN ByKey(keys), m < n
      PROVE  \/ keys[ByKey(keys)[m]] < keys[ByKey(keys)[n]]
             \/ /\ keys[ByKey(keys)[m]] = keys[ByKey(keys)[n]]
                /\ ByKey(keys)[m] < ByKey(keys)[n]
  <2>1. m \in Int /\ n \in Int
    BY <1>1, <1>2
  <2>2. /\ ByKey(keys)[m] \in DOMAIN keys /\ Cardinality(UpTo(keys, ByKey(keys)[m])) = m
        /\ ByKey(keys)[n] \in DOMAIN keys /\ Cardinality(UpTo(keys, ByKey(keys)[n])) = n
    BY <1>3
  <2>3. ByKey(keys)[m] # ByKey(keys)[n]
    BY <1>6, <2>1, <2>2
  <2> QED BY <1>4, <1>6, <2>1, <2>2, <2>3
<1> QED BY <1>1, <1>2, <1>3, <1>5, <1>6

-----------------------------------------------------------------------------
(* A finite set of numbers in increasing order.                            *)
LEMMA IncreasingOrders ==
  ASSUME NEW S \in SUBSET Int, IsFiniteSet(S)
  PROVE  /\ Cardinality(S) \in Nat
         /\ DOMAIN Increasing(S) = 1..Cardinality(S)
         /\ \A n \in 1..Cardinality(S) : Increasing(S)[n] \in S
         /\ \A k \in S : \E n \in 1..Cardinality(S) : Increasing(S)[n] = k
         /\ \A m, n \in 1..Cardinality(S) : m < n => Increasing(S)[m] < Increasing(S)[n]
<1> DEFINE keys == [k \in S |-> k]
<1>1. IsKeyed(keys) /\ DOMAIN keys = S /\ \A k \in S : keys[k] = k
  BY DEF IsKeyed
<1>2. Increasing(S) = ByKey(keys)
  BY DEF Increasing
<1> HIDE DEF keys
<1>3. /\ Cardinality(S) \in Nat
      /\ DOMAIN Increasing(S) = 1..Cardinality(S)
      /\ \A n \in 1..Cardinality(S) : Increasing(S)[n] \in S
      /\ \A k \in S : \E n \in 1..Cardinality(S) : Increasing(S)[n] = k
  BY <1>1, <1>2, ByKeyOrders
<1>4. ASSUME NEW m \in 1..Cardinality(S), NEW n \in 1..Cardinality(S), m < n
      PROVE  Increasing(S)[m] < Increasing(S)[n]
  <2>1. \/ keys[ByKey(keys)[m]] < keys[ByKey(keys)[n]]
        \/ /\ keys[ByKey(keys)[m]] = keys[ByKey(keys)[n]]
           /\ ByKey(keys)[m] < ByKey(keys)[n]
    BY <1>1, <1>2, <1>3, <1>4, ByKeyOrders
  <2> QED BY <1>1, <1>2, <1>3, <2>1
<1> QED BY <1>3, <1>4

(* A set that holds 1 to i begins with them.                               *)
LEMMA IncreasingBegins ==
  ASSUME NEW S \in SUBSET Int, IsFiniteSet(S), \A k \in S : k >= 1,
         NEW i \in Nat \ {0}, 1..i \subseteq S
  PROVE  i \in 1..Cardinality(S) /\ Increasing(S)[i] = i
<1> DEFINE keys == [k \in S |-> k]
<1>0. \A k \in S : k \in Int
  OBVIOUS
<1>1. IsKeyed(keys) /\ DOMAIN keys = S /\ \A k \in S : keys[k] = k
  BY DEF IsKeyed
<1>2. Increasing(S) = ByKey(keys)
  BY DEF Increasing
<1> HIDE DEF keys
<1>3. UpTo(keys, i) = 1..i /\ i \in S
  <2>1. i \in S
    OBVIOUS
  <2>2. UpTo(keys, i) = { j \in S : keys[j] < keys[i] \/ (keys[j] = keys[i] /\ j <= i) }
    BY <1>1 DEF UpTo
  <2>3. \A j \in S : (keys[j] < keys[i] \/ (keys[j] = keys[i] /\ j <= i)) <=> j \in 1..i
    BY <1>0, <1>1, <2>1
  <2> QED BY <2>1, <2>2, <2>3
<1>4. Cardinality(UpTo(keys, i)) = i
  BY <1>3, FS_Interval
<1>5. i \in 1..Cardinality(S)
  BY <1>1, <1>3, <1>4, RankBounded
<1>6. /\ ByKey(keys)[i] \in S /\ Cardinality(UpTo(keys, ByKey(keys)[i])) = i
  BY <1>1, <1>5, ByKeyOrders
<1>7. CASE ByKey(keys)[i] < i
  <2>1. Cardinality(UpTo(keys, ByKey(keys)[i])) < Cardinality(UpTo(keys, i))
    BY <1>1, <1>3, <1>6, <1>7, RankGrows
  <2> QED BY <1>4, <1>6, <2>1
<1>8. CASE i < ByKey(keys)[i]
  <2>1. Cardinality(UpTo(keys, i)) < Cardinality(UpTo(keys, ByKey(keys)[i]))
    BY <1>1, <1>3, <1>6, <1>8, RankGrows
  <2> QED BY <1>4, <1>6, <2>1
<1>9. ByKey(keys)[i] \in Int
  BY <1>0, <1>6, Zenon
<1> QED BY <1>2, <1>5, <1>7, <1>8, <1>9

(* The elements of a sequence at the places of a set.                      *)
LEMMA PickIncreasing ==
  ASSUME NEW T, NEW s \in Seq(T), NEW S \in SUBSET (DOMAIN s)
  PROVE  /\ Cardinality(S) \in Nat /\ Cardinality(S) <= Len(s) /\ IsFiniteSet(S)
         /\ S \in SUBSET Int
         /\ Pick(s, Increasing(S)) \in Seq(T)
         /\ Len(Pick(s, Increasing(S))) = Cardinality(S)
         /\ DOMAIN Pick(s, Increasing(S)) = 1..Cardinality(S)
         /\ \A n \in 1..Cardinality(S) :
              /\ Increasing(S)[n] \in S
              /\ Pick(s, Increasing(S))[n] = s[Increasing(S)[n]]
<1>1. DOMAIN s = 1..Len(s) /\ Len(s) \in Nat
  BY LenProperties
<1>2. IsFiniteSet(1..Len(s)) /\ Cardinality(1..Len(s)) = Len(s)
  <2>1. \A n \in Nat : IsFiniteSet(1..n) /\ Cardinality(1..n) = n
    BY FS_Interval
  <2> QED BY <1>1, <2>1
<1>3. IsFiniteSet(S) /\ S \in SUBSET Int /\ Cardinality(S) <= Len(s)
  BY <1>1, <1>2, FS_Subset
<1>4. /\ Cardinality(S) \in Nat
      /\ DOMAIN Increasing(S) = 1..Cardinality(S)
      /\ \A n \in 1..Cardinality(S) : Increasing(S)[n] \in S
  BY <1>3, IncreasingOrders
<1>5. Pick(s, Increasing(S)) = [n \in 1..Cardinality(S) |-> s[Increasing(S)[n]]]
  BY <1>4 DEF Pick
<1>6. \A n \in 1..Cardinality(S) : s[Increasing(S)[n]] \in T
  BY <1>1, <1>4
<1>7. /\ Pick(s, Increasing(S)) \in Seq(T)
      /\ Len(Pick(s, Increasing(S))) = Cardinality(S)
  BY <1>4, <1>5, <1>6
<1> QED BY <1>3, <1>4, <1>5, <1>7
=============================================================================
