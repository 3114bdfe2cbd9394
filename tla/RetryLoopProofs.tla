--------------------------- MODULE RetryLoopProofs ---------------------------
(***************************************************************************)
(* Proofs about RetryLoop for every limit, delay and configuration.        *)
(***************************************************************************)
EXTENDS RetryLoop, SequenceTheorems, WellFoundedInduction, TLAPS

(* What the counter says of the attempts that were made.                   *)
Made == attempt - FirstAttempt(call) + 1

Accounts ==
  /\ pc = "trying"   => tried = Made - 1 /\ attempt <= LastAttempt(call)
  /\ pc = "sleeping" => tried = Made /\ attempt < LastAttempt(call) /\ ShouldRetry(error, Config)
  /\ pc = "ok"       => tried = Made /\ attempt <= LastAttempt(call)
  /\ pc = "failed"   =>
       \/ tried = 0 /\ Budget = 0
       \/ /\ tried = Made /\ attempt <= LastAttempt(call)
          /\ attempt = LastAttempt(call) \/ ~ShouldRetry(error, Config)
  /\ Len(slept) = Made - 1

(* The inductive invariant.                                                *)
LoopInv == TypeOK /\ Accounts

-----------------------------------------------------------------------------
(* The arguments of a loop, and the counter's first value.                 *)
LEMMA CallFacts ==
  ASSUME call \in Calls
  PROVE  /\ call.limit \in Nat
         /\ call.delay \in Nat
         /\ FirstAttempt(call) \in {0, 1}
         /\ FirstAttempt(call) = IF call.loop = "course" THEN 0 ELSE 1
         /\ Budget = call.limit + 1 - FirstAttempt(call)
<1>1. /\ AttemptLimits \cup RetryLimits \cup {1} \subseteq Nat
      /\ BaseDelays \cup {0} \subseteq Nat
  BY LoopAssumption
<1>2. /\ call.limit \in AttemptLimits \cup RetryLimits \cup {1}
      /\ call.delay \in BaseDelays \cup {0}
  BY DEF Calls, SingleRequests
<1>3. call.limit \in Nat /\ call.delay \in Nat
  BY <1>1, <1>2
<1> QED BY <1>3 DEF FirstAttempt, Budget

LEMMA CappedIsInteger ==
  ASSUME NEW n \in Nat
  PROVE  CappedDelay(Config, n) \in Int
<1>1. WrappingPow2(Larger(n, 1) - 1) \in Int
  BY WordAssumption DEF Larger, WrappingPow2
<1>2. WrappingMul(Config.initial_delay_ms, WrappingPow2(Larger(n, 1) - 1)) \in Int
  BY <1>1, ConfigAssumption, WordAssumption DEF WrappingMul
<1> QED BY <1>2, ConfigAssumption DEF CappedDelay, Smaller

(* Every wait is an integer.                                               *)
LEMMA DelaysAreIntegers ==
  ASSUME call \in Calls, attempt \in Nat, NEW d \in Delays
  PROVE  d \in Int
<1>1. call.delay \in Nat
  BY CallFacts
<1>2. ComputeBackoffMs(Config, call.delay, attempt) \in Int
  BY <1>1, ConfigAssumption, WordAssumption
  DEF ComputeBackoffMs, SaturatingMul, Smaller, Larger
<1>3. CappedDelay(Config, attempt) \in Int
  BY CappedIsInteger
<1>4. \A e \in CalculateDelays(Config, attempt) : e \in Int
  BY WordAssumption DEF CalculateDelays, Larger
<1> QED BY <1>2, <1>4 DEF Delays

LEMMA InitLoopInv == Init => LoopInv
<1> SUFFICES ASSUME Init PROVE LoopInv
  OBVIOUS
<1> USE DEF Init, LastAttempt
<1>1. call.limit \in Nat /\ FirstAttempt(call) \in {0, 1}
      /\ Budget = call.limit + 1 - FirstAttempt(call)
  BY CallFacts
<1>2. TypeOK
  BY <1>1 DEF TypeOK, Larger
<1>3. Accounts
  BY <1>1 DEF Accounts, Made
<1> QED BY <1>2, <1>3 DEF LoopInv

LEMMA NextKeepsLoopInv == LoopInv /\ [Next]_vars => LoopInv'
<1> SUFFICES ASSUME LoopInv, [Next]_vars PROVE LoopInv'
  OBVIOUS
<1> USE DEF LoopInv
<1>1. /\ call.limit \in Nat /\ FirstAttempt(call) \in {0, 1}
      /\ Budget = call.limit + 1 - FirstAttempt(call)
  BY CallFacts DEF TypeOK
<1>2. call' = call => /\ FirstAttempt(call)' = FirstAttempt(call)
                      /\ Budget' = Budget
  BY DEF FirstAttempt, Budget
<1>3. CASE Succeed
  <2>1. TypeOK'
    BY <1>3 DEF Succeed, TypeOK
  <2>2. Accounts'
    BY <1>1, <1>2, <1>3 DEF Succeed, TypeOK, Accounts, Made, LastAttempt
  <2> QED BY <2>1, <2>2
<1>4. ASSUME NEW e \in Errors, Fail(e) PROVE LoopInv'
  <2>1. TypeOK'
    BY <1>4 DEF Fail, TypeOK
  <2>2. Accounts'
    BY <1>1, <1>2, <1>4 DEF Fail, TypeOK, Accounts, Made, LastAttempt, GivesUp
  <2> QED BY <2>1, <2>2
<1>5. CASE Wake
  <2>1. PICK d \in Delays : slept' = Append(slept, d)
    BY <1>5 DEF Wake
  <2>2. attempt \in Nat
    BY <1>1 DEF TypeOK, Larger
  <2>3. d \in Int
    BY <2>2, DelaysAreIntegers DEF TypeOK
  <2>4. slept' \in Seq(Int) /\ Len(slept') = Len(slept) + 1
    BY <2>1, <2>3, AppendProperties DEF TypeOK
  <2>5. TypeOK'
    BY <1>1, <1>5, <2>4 DEF Wake, TypeOK, Accounts, LastAttempt, Larger
  <2>6. Accounts'
    BY <1>1, <1>2, <1>5, <2>2, <2>4 DEF Wake, Accounts, Made, LastAttempt
  <2> QED BY <2>5, <2>6
<1>6. CASE UNCHANGED vars
  BY <1>6 DEF vars, TypeOK, Accounts, Made, LastAttempt, FirstAttempt, Budget
<1> QED BY <1>3, <1>4, <1>5, <1>6 DEF Next, Done

(* The counter accounts for the attempts in every reachable state.         *)
THEOREM LoopInvariance == Spec => []LoopInv
<1> QED BY InitLoopInv, NextKeepsLoopInv, PTL DEF Spec

(* Every attempt the caller allowed is used before a curable error is      *)
(* reported, and none more, for every limit and either way of counting.    *)
THEOREM GivesUpOnlyWithReason == Spec => []GivesUpWithReason
<1>1. LoopInv => GivesUpWithReason
  <2> SUFFICES ASSUME LoopInv PROVE GivesUpWithReason
    OBVIOUS
  <2>1. /\ call.limit \in Nat /\ FirstAttempt(call) \in {0, 1}
        /\ Budget = call.limit + 1 - FirstAttempt(call)
    BY CallFacts DEF LoopInv, TypeOK
  <2> QED BY <2>1 DEF LoopInv, TypeOK, Accounts, Made, GivesUpWithReason, LastAttempt
<1> QED BY LoopInvariance, <1>1, PTL

(* One wait after each attempt but the last, and only for an error another *)
(* attempt can cure.                                                       *)
THEOREM WaitsOnlyBetween == Spec => []WaitsBetweenAttempts
<1>1. LoopInv => WaitsBetweenAttempts
  BY CallFacts DEF LoopInv, TypeOK, Accounts, Made, WaitsBetweenAttempts
<1> QED BY LoopInvariance, <1>1, PTL

-----------------------------------------------------------------------------
(* The provers know of ^ only that it is a number.  What they need is what *)
(* defines the powers of two, and it is a hypothesis of every statement    *)
(* that needs it.                                                          *)
PowersOfTwo == 2 ^ 0 = 1 /\ \A n \in Nat : 2 ^ (n + 1) = 2 * 2 ^ n

(* Every set of naturals that is not empty has a least element.            *)
LEMMA LeastElement ==
  ASSUME NEW T, T \subseteq Nat, T # {}
  PROVE  \E m \in T : \A y \in T : ~(y < m)
<1>1. \E x \in T : \A y \in T : ~(<<y, x>> \in OpToRel(<, Nat))
  BY NatLessThanWellFounded, WFMin
<1> QED BY <1>1 DEF OpToRel

LEMMA PowerPositive ==
  ASSUME PowersOfTwo
  PROVE  \A n \in Nat : 2 ^ n \in Nat /\ 2 ^ n >= 1
<1> DEFINE T == { n \in Nat : ~(2 ^ n \in Nat /\ 2 ^ n >= 1) }
<1>1. SUFFICES ASSUME T # {} PROVE FALSE
  OBVIOUS
<1>2. PICK m \in T : \A y \in T : ~(y < m)
  <2> HIDE DEF T
  <2>1. T \subseteq Nat
    BY DEF T
  <2> QED BY <1>1, <2>1, LeastElement
<1>3. m # 0
  <2>1. 2 ^ 0 = 1
    BY DEF PowersOfTwo
  <2>2. 0 \notin T
    BY <2>1
  <2> QED BY <2>2
<1>4. m - 1 \in Nat /\ m - 1 \notin T
  BY <1>2, <1>3
<1>5. 2 ^ (m - 1) \in Nat /\ 2 ^ (m - 1) >= 1
  BY <1>4
<1>6. 2 ^ ((m - 1) + 1) = 2 * 2 ^ (m - 1)
  BY <1>4 DEF PowersOfTwo
<1>7. (m - 1) + 1 = m
  BY <1>4
<1> QED BY <1>5, <1>6, <1>7

LEMMA PowerMonotonic ==
  ASSUME PowersOfTwo, NEW i \in Nat
  PROVE  \A n \in Nat : i <= n => 2 ^ i <= 2 ^ n
<1> DEFINE T == { n \in Nat : i <= n /\ ~(2 ^ i <= 2 ^ n) }
<1>1. SUFFICES ASSUME T # {} PROVE FALSE
  OBVIOUS
<1>2. PICK m \in T : \A y \in T : ~(y < m)
  <2> HIDE DEF T
  <2>1. T \subseteq Nat
    BY DEF T
  <2> QED BY <1>1, <2>1, LeastElement
<1>3. 2 ^ i \in Nat
  BY PowerPositive
<1>4. m # i
  BY <1>3
<1>5. m - 1 \in Nat /\ i <= m - 1 /\ m - 1 \notin T
  BY <1>2, <1>4
<1>6. 2 ^ (m - 1) \in Nat /\ 2 ^ i <= 2 ^ (m - 1)
  BY <1>5, PowerPositive
<1>7. 2 ^ ((m - 1) + 1) = 2 * 2 ^ (m - 1)
  BY <1>5 DEF PowersOfTwo
<1>8. (m - 1) + 1 = m
  BY <1>5
<1> QED BY <1>3, <1>6, <1>7, <1>8

-----------------------------------------------------------------------------
(* The course loop's formula is exact when the cap on the delays fits the  *)
(* cap on the shift, 2^31 ms in the code.                                  *)
LEMMA BackoffExact ==
  ASSUME PowersOfTwo, Config.max_delay_ms <= 2 ^ ShiftCap,
         NEW delay \in Nat, NEW n \in Nat
  PROVE  ComputeBackoffMs(Config, delay, n) = ExactBackoffMs(Config, delay, n)
<1> DEFINE base   == Larger(delay, 1)
           max    == Config.max_delay_ms
           shift  == Smaller(n, ShiftCap)
<1>1. base \in Nat /\ base >= 1
  BY DEF Larger
<1>2. max \in Nat /\ max <= WordMax
  BY ConfigAssumption, WordAssumption, PowerPositive
<1>3. shift \in Nat /\ ShiftCap \in Nat
  BY WordAssumption DEF Smaller
<1> HIDE DEF base, max, shift
<1>4. 2 ^ shift \in Nat /\ 2 ^ n \in Nat /\ 2 ^ ShiftCap \in Nat
  BY <1>3, PowerPositive
<1>5. CASE n <= ShiftCap
  <2>1. shift = n
    BY <1>5 DEF shift, Smaller
  <2>2. base * 2 ^ n \in Nat
    BY <1>1, <1>4
  <2> QED BY <1>2, <2>1, <2>2, WordAssumption
      DEF ComputeBackoffMs, ExactBackoffMs, SaturatingMul, Smaller, base, max, shift
<1>6. CASE ~(n <= ShiftCap)
  <2>1. shift = ShiftCap
    BY <1>6 DEF shift, Smaller
  <2>2. 2 ^ ShiftCap <= 2 ^ n
    BY <1>3, <1>6, PowerMonotonic
  <2> DEFINE p == 2 ^ ShiftCap
             q == 2 ^ n
  <2>3. p \in Nat /\ q \in Nat /\ p <= q /\ max <= p
    BY <1>4, <2>2 DEF max
  <2> HIDE DEF p, q
  <2>4. base * p \in Nat /\ base * q \in Nat /\ max <= base * p /\ max <= base * q
    BY <1>1, <1>2, <2>3
  <2>5. ExactBackoffMs(Config, delay, n) = max
    BY <1>2, <2>4 DEF ExactBackoffMs, Smaller, base, max, q
  <2>6. ComputeBackoffMs(Config, delay, n) = Smaller(Smaller(base * p, WordMax), max)
    BY <2>1 DEF ComputeBackoffMs, SaturatingMul, base, shift, max, p
  <2>7. Smaller(Smaller(base * p, WordMax), max) = max
    BY <1>2, <2>4, WordAssumption DEF Smaller
  <2> QED BY <2>5, <2>6, <2>7
<1> QED BY <1>5, <1>6

(* Shifts add up.                                                          *)
LEMMA PowerOfSum ==
  ASSUME PowersOfTwo, NEW i \in Nat
  PROVE  \A n \in Nat : 2 ^ (i + n) = 2 ^ i * 2 ^ n
<1> DEFINE T == { n \in Nat : 2 ^ (i + n) # 2 ^ i * 2 ^ n }
<1>1. SUFFICES ASSUME T # {} PROVE FALSE
  OBVIOUS
<1>2. PICK m \in T : \A y \in T : ~(y < m)
  <2> HIDE DEF T
  <2>1. T \subseteq Nat
    BY DEF T
  <2> QED BY <1>1, <2>1, LeastElement
<1>3. 2 ^ i \in Nat
  BY PowerPositive
<1>4. m # 0
  <2>1. i + 0 = i /\ 2 ^ i * 1 = 2 ^ i
    BY <1>3
  <2>2. 2 ^ (i + 0) = 2 ^ i * 2 ^ 0
    BY <2>1 DEF PowersOfTwo
  <2>3. 0 \notin T
    BY <2>2
  <2> QED BY <2>3
<1>5. m - 1 \in Nat /\ m - 1 \notin T
  BY <1>2, <1>4
<1> DEFINE a == 2 ^ i
           b == 2 ^ (m - 1)
<1>6. b \in Nat
  BY <1>5, PowerPositive
<1>7. 2 ^ (i + (m - 1)) = a * b
  BY <1>5
<1>8. 2 ^ ((m - 1) + 1) = 2 * b
  BY <1>5 DEF PowersOfTwo
<1>9. 2 ^ ((i + (m - 1)) + 1) = 2 * (a * b)
  BY <1>5, <1>7 DEF PowersOfTwo
<1>10. (m - 1) + 1 = m /\ (i + (m - 1)) + 1 = i + m
  BY <1>5
<1>11. 2 ^ (i + m) = 2 * (a * b) /\ 2 ^ m = 2 * b
  BY <1>8, <1>9, <1>10
<1>12. a * (2 * b) = 2 * (a * b)
  <2> HIDE DEF a, b
  <2>1. a \in Nat
    BY <1>3 DEF a
  <2> QED BY <1>6, <2>1
<1> QED BY <1>11, <1>12

(* Quotient and remainder.                                                 *)
LEMMA Quotient ==
  ASSUME NEW x \in Int, NEW w \in Int, w > 0
  PROVE  \E q \in Int : x = q * w + (x % w)
<1>1. x = (x \div w) * w + (x % w)
  OBVIOUS
<1>2. x \div w \in Int
  OBVIOUS
<1> QED BY <1>1, <1>2

LEMMA Remainder ==
  ASSUME NEW x \in Nat, NEW w \in Nat \ {0}
  PROVE  /\ x % w \in 0..(w - 1)
         /\ \E q \in Nat : x = q * w + (x % w)
<1>1. x % w \in 0..(w - 1)
  OBVIOUS
<1>2. x \in Int /\ w \in Int /\ w > 0
  OBVIOUS
<1>3. PICK q \in Int : x = q * w + (x % w)
  BY <1>2, Quotient
<1>4. PICK r \in 0..(w - 1) : r = x % w
  BY <1>1
<1>5. x = q * w + r
  BY <1>3, <1>4
<1>6. q < 0 => q * w <= -w
  BY <1>2
<1>7. q \in Nat
  BY <1>2, <1>4, <1>5, <1>6
<1> QED BY <1>1, <1>3, <1>7

LEMMA MultipleHasNoRemainder ==
  ASSUME NEW m \in Nat, NEW w \in Nat \ {0}
  PROVE  (w * m) % w = 0
<1> DEFINE r == (w * m) % w
<1>1. w * m \in Nat
  OBVIOUS
<1>2. r \in 0..(w - 1) /\ \E q \in Nat : w * m = q * w + r
  BY <1>1, Remainder
<1> HIDE DEF r
<1>3. PICK q \in Nat : w * m = q * w + r
  BY <1>2
<1>4. r = w * (m - q)
  BY <1>2, <1>3
<1>5. m - q < 1
  <2>1. m - q >= 1 => w * (m - q) >= w
    BY <1>1
  <2> QED BY <1>2, <1>4, <2>1
<1>6. m - q >= 0
  <2>1. m - q < 0 => w * (m - q) < 0
    OBVIOUS
  <2> QED BY <1>2, <1>4, <2>1
<1>7. m - q = 0
  BY <1>5, <1>6
<1> QED BY <1>4, <1>7 DEF r

(* The policy: an initial delay of at least 1 ms and at most the cap, and  *)
(* a cap whose square a word holds (6000 ms squared is far below 2^64).    *)
CapSquaredFits ==
  /\ Config.initial_delay_ms \in 1..Config.max_delay_ms
  /\ Config.max_delay_ms * Config.max_delay_ms <= WordMax + 1

(* What the word keeps of the product: all of it, or nothing, or at least  *)
(* the power of two, which is above the cap when anything was lost.        *)
LEMMA DelayExactOrGone ==
  ASSUME PowersOfTwo, NEW bits \in Nat, WordMax + 1 = 2 ^ bits, CapSquaredFits,
         NEW n \in Nat \ {0}
  PROVE  CappedDelay(Config, n) =
           IF ShiftedOut(n)
             THEN 0
             ELSE ExactBackoffMs(Config, Config.initial_delay_ms, n - 1)
<1> DEFINE init == Config.initial_delay_ms
           max  == Config.max_delay_ms
           w    == WordMax + 1
           p    == 2 ^ (n - 1)
           x    == init * p
           r    == x % w
<1>1. init \in Nat /\ init >= 1 /\ max \in Nat /\ init <= max /\ max * max <= w
      /\ w \in Nat \ {0}
  BY ConfigAssumption, WordAssumption DEF CapSquaredFits
<1>2. p \in Nat /\ p >= 1
  BY PowerPositive
<1>3. Larger(n, 1) - 1 = n - 1 /\ Larger(init, 1) = init
  BY <1>1 DEF Larger
<1>4. CappedDelay(Config, n) = Smaller((init * (p % w)) % w, max)
  BY <1>3 DEF CappedDelay, WrappingMul, WrappingPow2
<1>5. ExactBackoffMs(Config, init, n - 1) = Smaller(x, max)
  BY <1>3 DEF ExactBackoffMs
<1>6. ShiftedOut(n) <=> r = 0
  BY DEF ShiftedOut
<1>7. w = 2 ^ bits
  OBVIOUS
<1> HIDE DEF init, max, w, p
<1>8. x \in Nat /\ x >= p
  BY <1>1, <1>2
<1>9. CASE n - 1 < bits
  <2>1. bits - (n - 1) \in Nat /\ (n - 1) + (bits - (n - 1)) = bits
    BY <1>9
  <2>2. PICK m \in Nat : m = 2 ^ (bits - (n - 1)) /\ m >= 1
    BY <2>1, PowerPositive
  <2>3. w = p * m
    BY <1>7, <2>1, <2>2, PowerOfSum DEF p
  <2>4. 2 * p <= w
    <3>1. (n - 1) + 1 <= bits /\ (n - 1) + 1 \in Nat
      BY <1>9
    <3>2. 2 ^ ((n - 1) + 1) <= 2 ^ bits
      BY <3>1, PowerMonotonic
    <3>3. 2 ^ ((n - 1) + 1) = 2 * p
      BY DEF PowersOfTwo, p
    <3> QED BY <1>7, <3>2, <3>3
  <2>5. p % w = p
    BY <1>1, <1>2, <2>4
  <2>6. r \in 0..(w - 1) /\ \E q \in Nat : x = q * w + r
    BY <1>1, <1>8, Remainder
  <2>7. CASE x < w
    <3>1. r = x
      BY <1>1, <1>8, <2>7
    <3>2. CappedDelay(Config, n) = Smaller(x, max)
      BY <1>4, <2>5, <3>1
    <3>3. r # 0
      BY <1>2, <1>8, <3>1
    <3> QED BY <1>5, <1>6, <3>2, <3>3 DEF init
  <2>8. CASE x >= w
    <3>1. p >= max
      <4>1. init * p >= max * max
        BY <1>1, <1>8, <2>8
      <4>2. p < max => init * p < max * max
        <5>1. init * p <= max * p
          BY <1>1, <1>2
        <5>2. p < max => max * p < max * max
          BY <1>1, <1>2
        <5> QED BY <1>1, <1>2, <5>1, <5>2
      <4> QED BY <1>1, <1>2, <4>1, <4>2
    <3>2. r # 0 => r >= p
      <4>1. PICK q \in Nat : x = q * w + r
        BY <2>6
      <4> HIDE DEF r
      <4>2. r = p * (init - m * q)
        <5>1. init * p = (p * m) * q + r
          BY <2>3, <4>1
        <5> QED BY <1>1, <1>2, <2>2, <2>6, <5>1
      <4>3. PICK d \in Int : d = init - m * q
        BY <1>1, <2>2
      <4>4. d <= 0 => p * d <= 0
        BY <1>2, <4>3
      <4>5. d >= 1 => p * d >= p
        BY <1>2, <4>3
      <4> QED BY <1>1, <1>2, <2>6, <4>2, <4>3, <4>4, <4>5
    <3> HIDE DEF r, x
    <3>3. Smaller(x, max) = max
      BY <1>1, <1>2, <1>8, <3>1 DEF Smaller
    <3>4. r # 0 => Smaller(r, max) = max
      BY <1>1, <1>2, <2>6, <3>1, <3>2 DEF Smaller
    <3>5. r = 0 => Smaller(r, max) = 0
      BY <1>1 DEF Smaller
    <3>6. CappedDelay(Config, n) = Smaller(r, max)
      BY <1>4, <2>5 DEF r, x
    <3> QED BY <1>5, <1>6, <3>3, <3>4, <3>5, <3>6 DEF init
  <2> QED BY <1>1, <1>8, <2>7, <2>8
<1>10. CASE n - 1 >= bits
  <2>1. (n - 1) - bits \in Nat /\ bits + ((n - 1) - bits) = n - 1
    BY <1>10
  <2>2. PICK m \in Nat : m = 2 ^ ((n - 1) - bits)
    BY <2>1, PowerPositive
  <2>3. p = w * m
    BY <1>7, <2>1, <2>2, PowerOfSum DEF p
  <2>4. p % w = 0
    BY <1>1, <2>2, <2>3, MultipleHasNoRemainder
  <2>5. x = w * (init * m) /\ init * m \in Nat
    BY <1>1, <2>2, <2>3
  <2>6. r = 0
    BY <1>1, <2>5, MultipleHasNoRemainder
  <2>7. (init * (p % w)) % w = 0
    BY <1>1, <2>4
  <2> QED BY <1>1, <1>4, <1>6, <2>6, <2>7 DEF Smaller
<1> QED BY <1>9, <1>10
-----------------------------------------------------------------------------
(* A wait is added at the end, its place given by the counter.             *)
LEMMA WaitAppended ==
  ASSUME LoopInv, Wake
  PROVE  /\ call' = call
         /\ attempt \in Nat /\ attempt >= FirstAttempt(call) /\ attempt < call.limit
         /\ Len(slept) = attempt - FirstAttempt(call)
         /\ Len(slept') = Len(slept) + 1
         /\ \A i \in 1..Len(slept) : slept'[i] = slept[i]
         /\ slept'[Len(slept) + 1] \in Delays
<1> USE DEF LoopInv
<1>1. PICK d \in Delays : slept' = Append(slept, d)
  BY DEF Wake
<1>2. attempt \in Nat /\ call \in Calls /\ FirstAttempt(call) \in {0, 1}
  BY CallFacts DEF TypeOK, Larger
<1>3. slept \in Seq(Int) /\ d \in Int
  BY <1>2, DelaysAreIntegers DEF TypeOK
<1>4. Len(slept) \in Nat
  BY <1>3, LenProperties
<1>5. Len(slept) = attempt - FirstAttempt(call) /\ attempt < call.limit
  BY <1>2 DEF Accounts, Made, Wake, LastAttempt
<1>6. /\ Len(slept') = Len(slept) + 1
      /\ \A i \in 1..Len(slept) : slept'[i] = slept[i]
      /\ slept'[Len(slept) + 1] = d
  BY <1>1, <1>3, AppendProperties
<1> QED BY <1>2, <1>4, <1>5, <1>6 DEF Wake

(* Nothing but Wake touches the waits.                                     *)
LEMMA OnlyWakeWaits ==
  ASSUME [Next]_vars, ~Wake
  PROVE  call' = call /\ slept' = slept
BY DEF Next, Succeed, Fail, Done, vars

(* The waits of the course loop are exact for every number of retries and  *)
(* every base delay: neither the saturation nor the cap on the shift shows *)
(* as long as max_delay_ms is below 2^31 ms.                               *)
THEOREM CourseBackoff ==
  ASSUME PowersOfTwo, Config.max_delay_ms <= 2 ^ ShiftCap
  PROVE  Spec => []CourseBackoffExact
<1>1. Init => CourseBackoffExact
  BY DEF Init, CourseBackoffExact
<1>2. LoopInv /\ CourseBackoffExact /\ [Next]_vars => CourseBackoffExact'
  <2> SUFFICES ASSUME LoopInv, CourseBackoffExact, [Next]_vars, call'.loop = "course",
                      NEW i \in 1..Len(slept')
               PROVE  slept'[i] = ExactBackoffMs(Config, call'.delay, i - 1)
    BY DEF CourseBackoffExact
  <2>1. CASE ~Wake
    BY <2>1, OnlyWakeWaits DEF CourseBackoffExact
  <2>2. CASE Wake
    <3>1. /\ call' = call /\ attempt \in Nat /\ Len(slept) = attempt
          /\ Len(slept') = Len(slept) + 1
          /\ \A j \in 1..Len(slept) : slept'[j] = slept[j]
          /\ slept'[Len(slept) + 1] \in Delays
      BY <2>2, WaitAppended DEF FirstAttempt
    <3>2. CASE i <= Len(slept)
      BY <3>1, <3>2 DEF CourseBackoffExact
    <3>3. CASE i = Len(slept) + 1
      <4>1. slept'[i] = ComputeBackoffMs(Config, call.delay, attempt)
        BY <3>1, <3>3 DEF Delays
      <4>2. call.delay \in Nat
        BY CallFacts DEF LoopInv, TypeOK
      <4>3. attempt = i - 1
        BY <3>1, <3>3
      <4> QED BY <3>1, <4>1, <4>2, <4>3, BackoffExact
    <3> QED BY <3>1, <3>2, <3>3
  <2> QED BY <2>1, <2>2
<1> QED BY <1>1, <1>2, LoopInvariance, PTL DEF Spec

(* For every number of attempts, wrapped products included, the waits      *)
(* between requests are the unbounded ones, within the jitter and above    *)
(* the floor, until the word has lost the whole initial delay; from then   *)
(* on each is the floor.                                                   *)
THEOREM RequestBackoff ==
  ASSUME PowersOfTwo, NEW bits \in Nat, WordMax + 1 = 2 ^ bits, CapSquaredFits
  PROVE  Spec => []RequestBackoffUntilShiftedOut
<1> DEFINE
      Exact(i) == ExactBackoffMs(Config, Config.initial_delay_ms, i - 1)
      Slack(i) == (Exact(i) * Config.jitter_num) \div Config.jitter_den
      Meant(d, i) ==
        IF ShiftedOut(i)
          THEN d = MinDelay
          ELSE /\ d >= MinDelay
               /\ d >= Exact(i) - Slack(i)
               /\ d <= Larger(Exact(i) + Slack(i), MinDelay)
<1>1. RequestBackoffUntilShiftedOut <=>
        (call.loop \in RequestLoops => \A i \in 1..Len(slept) : Meant(slept[i], i))
  BY DEF RequestBackoffUntilShiftedOut
<1>2. Init => RequestBackoffUntilShiftedOut
  BY DEF Init, RequestBackoffUntilShiftedOut
<1>3. LoopInv /\ RequestBackoffUntilShiftedOut /\ [Next]_vars
        => RequestBackoffUntilShiftedOut'
  <2> HIDE DEF Meant
  <2> SUFFICES ASSUME LoopInv, RequestBackoffUntilShiftedOut, [Next]_vars,
                      call'.loop \in RequestLoops, NEW i \in 1..Len(slept')
               PROVE  Meant(slept'[i], i)
    BY DEF RequestBackoffUntilShiftedOut, ShiftedOut, Meant
  <2>1. CASE ~Wake
    BY <1>1, <2>1, OnlyWakeWaits
  <2>2. CASE Wake
    <3>1. /\ call' = call /\ attempt \in Nat \ {0}
          /\ Len(slept) = attempt - 1
          /\ Len(slept') = Len(slept) + 1
          /\ \A j \in 1..Len(slept) : slept'[j] = slept[j]
          /\ slept'[Len(slept) + 1] \in Delays
      BY <2>2, WaitAppended DEF FirstAttempt, RequestLoops
    <3>2. CASE i <= Len(slept)
      BY <1>1, <3>1, <3>2
    <3>3. CASE i = Len(slept) + 1
      <4>1. i = attempt /\ i \in Nat \ {0} /\ slept'[i] \in CalculateDelays(Config, i)
        BY <3>1, <3>3 DEF Delays, RequestLoops
      <4>2. CASE ShiftedOut(i)
        <5>1. CappedDelay(Config, i) = 0
          BY <4>1, <4>2, DelayExactOrGone
        <5>2. JitterRange(Config, i) = 0
          BY <5>1, ConfigAssumption DEF JitterRange
        <5>3. slept'[i] = Larger(0, MinDelay)
          BY <4>1, <5>1, <5>2 DEF CalculateDelays
        <5> QED BY <4>2, <5>3, WordAssumption DEF Meant, Larger
      <4>3. CASE ~ShiftedOut(i)
        <5>1. CappedDelay(Config, i) = Exact(i)
          BY <4>1, <4>3, DelayExactOrGone
        <5>2. PICK d \in (Exact(i) - Slack(i)) .. (Exact(i) + Slack(i)) :
                slept'[i] = Larger(d, MinDelay)
          BY <4>1, <5>1 DEF CalculateDelays, JitterRange
        <5>3. Exact(i) \in Int /\ Slack(i) \in Int
          <6>1. CappedDelay(Config, i) \in Int
            BY <4>1, CappedIsInteger
          <6> QED BY <5>1, <6>1, ConfigAssumption
        <5> HIDE DEF Exact, Slack
        <5>4. d \in Int /\ d >= Exact(i) - Slack(i) /\ d <= Exact(i) + Slack(i)
          BY <5>2, <5>3
        <5> QED BY <4>3, <5>2, <5>3, <5>4, WordAssumption DEF Meant, Larger
      <4> QED BY <4>2, <4>3
    <3> QED BY <3>1, <3>2, <3>3
  <2> QED BY <2>1, <2>2
<1> QED BY <1>2, <1>3, LoopInvariance, PTL DEF Spec
=============================================================================
