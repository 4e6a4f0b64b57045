-------------------------- MODULE RetryDelayProofs --------------------------
(***************************************************************************)
(* The delays of RetryPolicy::delay stay in range and grow, and a task     *)
(* only ends when its attempts are used up or at the one jitter_max whose  *)
(* modulus is zero, for every width of the integers, every policy and any  *)
(* number of failures.                                                     *)
(***************************************************************************)
EXTENDS RetryDelay, SequenceFacts

-----------------------------------------------------------------------------
(* The powers of two, up to the largest u32.  TLA+ chooses a function that    *)
(* fits its recursive definition: there is one, built from the functions      *)
(* that fit it up to some exponent.                                           *)

Factors == 1..(U32 - 1)

Twice(x) == Least(2 * x, U32 - 1)

Fits(h, n) ==
  /\ h \in [0..n -> Factors] /\ h[0] = 1
  /\ \A i \in 1..n : h[i] = Twice(h[i - 1])

\* Doubling stays within the u32, and never makes less.
LEMMA TwiceFacts ==
  \A x \in Factors : Twice(x) \in Factors /\ x <= Twice(x)
BY DelayAssumption DEF Factors, Twice, Least

\* There is a function that fits up to any exponent.
LEMMA FittingExists ==
  ASSUME NEW n \in Nat
  PROVE  \E h : Fits(h, n)
<1> DEFINE Bad == {m \in Nat : \A h : ~ Fits(h, m)}
<1>1. ASSUME Bad # {} PROVE FALSE
  <2>1. PICK m \in Bad : \A k \in Bad : m <= k
    <3>1. Bad \in SUBSET Nat
      OBVIOUS
    <3> HIDE DEF Bad
    <3> QED BY <1>1, <3>1, LeastElement
  <2>2. CASE m = 0
    <3> DEFINE h == [i \in 0..0 |-> 1]
    <3>1. 1 \in Factors
      BY DelayAssumption DEF Factors
    <3>2. h \in [0..0 -> Factors] /\ h[0] = 1 /\ \A i \in 1..0 : FALSE
      BY <3>1
    <3>3. Fits(h, 0)
      BY <3>2 DEF Fits
    <3> QED BY <2>2, <3>3
  <2>3. CASE m > 0
    <3>1. m \in Nat /\ m - 1 \in Nat /\ m - 1 \notin Bad
      BY <2>1, <2>3
    <3>2. PICK g : Fits(g, m - 1)
      BY <3>1
    <3> DEFINE h == [i \in 0..m |-> IF i < m THEN g[i] ELSE Twice(g[m - 1])]
    <3>3. /\ \A i \in 0..(m - 1) : g[i] \in Factors
          /\ g[0] = 1 /\ \A i \in 1..(m - 1) : g[i] = Twice(g[i - 1])
      BY <3>2 DEF Fits
    <3>4. m - 1 \in 0..(m - 1) /\ \A i \in 0..m : i < m => i \in 0..(m - 1)
      BY <3>1
    <3>5. h \in [0..m -> Factors]
      BY <3>3, <3>4, TwiceFacts
    <3>6. h[0] = 1
      BY <2>3, <3>1, <3>3
    <3>7. \A i \in 1..m : h[i] = Twice(h[i - 1])
      <4> TAKE i \in 1..m
      <4>1. i \in 0..m /\ i - 1 \in 0..m /\ i - 1 < m
        BY <3>1
      <4>2. h[i - 1] = g[i - 1]
        BY <4>1
      <4>3. CASE i < m
        <5>1. i \in 1..(m - 1) /\ h[i] = g[i]
          BY <3>1, <4>1, <4>3
        <5> QED BY <3>3, <4>2, <5>1
      <4>4. CASE i = m
        BY <4>1, <4>2, <4>4
      <4> QED BY <3>1, <4>3, <4>4
    <3> HIDE DEF h
    <3>8. Fits(h, m)
      BY <3>5, <3>6, <3>7 DEF Fits
    <3> QED BY <2>1, <3>8
  <2> QED BY <2>1, <2>2, <2>3
<1> QED BY <1>1

\* Two functions that fit agree.
LEMMA FittingUnique ==
  ASSUME NEW n \in Nat, NEW m \in Nat, NEW h, Fits(h, n), NEW g, Fits(g, m)
  PROVE  \A i \in Nat : i <= n /\ i <= m => h[i] = g[i]
<1> DEFINE Bad == {i \in Nat : i <= n /\ i <= m /\ h[i] # g[i]}
<1>1. ASSUME Bad # {} PROVE FALSE
  <2>1. PICK i \in Bad : \A k \in Bad : i <= k
    <3>1. Bad \in SUBSET Nat
      OBVIOUS
    <3> HIDE DEF Bad
    <3> QED BY <1>1, <3>1, LeastElement
  <2>2. i # 0
    BY <2>1 DEF Fits
  <2>3. i - 1 \in Nat /\ i - 1 <= n /\ i - 1 <= m /\ i \in 1..n /\ i \in 1..m
    BY <2>1, <2>2
  <2>4. i - 1 \notin Bad
    BY <2>1, <2>3
  <2>5. h[i - 1] = g[i - 1]
    BY <2>3, <2>4
  <2> QED BY <2>1, <2>3, <2>5 DEF Fits
<1> QED BY <1>1

\* The powers of two, as the function SaturatingPow is defined.
LEMMA PowerFacts ==
  /\ SaturatingPow \in [Nat -> Factors]
  /\ SaturatingPow[0] = 1
  /\ \A e \in Nat : e # 0 => SaturatingPow[e] = Twice(SaturatingPow[e - 1])
<1> DEFINE H(n) == CHOOSE h : Fits(h, n)
           P == [e \in Nat |-> H(e)[e]]
           Equation(f) == f = [e \in Nat |-> IF e = 0 THEN 1 ELSE Least(2 * f[e - 1], U32 - 1)]
<1>1. \A n \in Nat : Fits(H(n), n)
  BY FittingExists
<1> HIDE DEF H
<1>2. \A e \in Nat : P[e] \in Factors
  <2> TAKE e \in Nat
  <2>1. e \in 0..e
    OBVIOUS
  <2> QED BY <1>1, <2>1 DEF Fits
<1>3. P[0] = 1
  BY <1>1 DEF Fits
<1>4. ASSUME NEW e \in Nat, e # 0 PROVE P[e] = Twice(P[e - 1])
  <2>1. e - 1 \in Nat /\ e \in 1..e /\ e - 1 <= e
    BY <1>4
  <2>2. H(e)[e] = Twice(H(e)[e - 1])
    BY <1>1, <2>1 DEF Fits
  <2>3. H(e)[e - 1] = H(e - 1)[e - 1]
    BY <1>1, <2>1, FittingUnique
  <2> QED BY <2>1, <2>2, <2>3
<1>5. Equation(P)
  <2>1. \A e \in Nat : P[e] = IF e = 0 THEN 1 ELSE Least(2 * P[e - 1], U32 - 1)
    BY <1>3, <1>4 DEF Twice
  <2>2. P = [e \in Nat |-> P[e]]
    OBVIOUS
  <2> HIDE DEF P
  <2> QED BY <2>1, <2>2
<1>6. SaturatingPow = CHOOSE f : Equation(f)
  BY DEF SaturatingPow
<1>7. Equation(SaturatingPow)
  <2> HIDE DEF Equation
  <2> QED BY <1>5, <1>6
<1> DEFINE S == SaturatingPow
<1>8. \A e \in Nat : S[e] = IF e = 0 THEN 1 ELSE Twice(S[e - 1])
  BY <1>7 DEF Twice
<1>9. \A e \in Nat : S[e] \in Factors
  <2> DEFINE Bad == {e \in Nat : S[e] \notin Factors}
  <2>1. ASSUME Bad # {} PROVE FALSE
    <3>1. PICK e \in Bad : \A k \in Bad : e <= k
      <4>1. Bad \in SUBSET Nat
        OBVIOUS
      <4> HIDE DEF Bad
      <4> QED BY <2>1, <4>1, LeastElement
    <3>2. 1 \in Factors
      BY DelayAssumption DEF Factors
    <3>3. e # 0
      BY <1>8, <3>1, <3>2
    <3>4. e - 1 \in Nat /\ e - 1 \notin Bad
      BY <3>1, <3>3
    <3>5. S[e - 1] \in Factors
      BY <3>4
    <3> QED BY <1>8, <3>1, <3>3, <3>5, TwiceFacts
  <2> QED BY <2>1
<1>10. S = [e \in Nat |-> S[e]]
  BY <1>7
<1> HIDE DEF S
<1>11. S \in [Nat -> Factors]
  BY <1>9, <1>10
<1> QED BY <1>8, <1>11 DEF S
-----------------------------------------------------------------------------
(* One delay. *)

\* The factor fits a u32, is never zero, and grows until the attempt wraps.
LEMMA FactorFacts ==
  /\ \A n \in Nat \ {0} : Factor(n) \in Factors
  /\ \A n \in Nat \ {0} : n + 1 <= U32 => Factor(n) <= Factor(n + 1)
<1>1. U32 \in Nat \ {0}
  BY DelayAssumption
<1>2. ASSUME NEW n \in Nat \ {0} PROVE (n - 1) % U32 \in Nat
  BY <1>1
<1>3. \A n \in Nat \ {0} : Factor(n) \in Factors
  BY <1>2, PowerFacts DEF Factor
<1>4. ASSUME NEW n \in Nat \ {0}, n + 1 <= U32 PROVE Factor(n) <= Factor(n + 1)
  <2>1. n - 1 \in 0..(U32 - 1) /\ n \in 0..(U32 - 1) /\ (n + 1) - 1 = n
    BY <1>1, <1>4
  <2>2. (n - 1) % U32 = n - 1 /\ n % U32 = n
    BY <1>1, <2>1
  <2>3. Factor(n) = SaturatingPow[n - 1] /\ Factor(n + 1) = SaturatingPow[n]
    BY <2>1, <2>2 DEF Factor
  <2>4. SaturatingPow[n] = Twice(SaturatingPow[n - 1]) /\ SaturatingPow[n - 1] \in Factors
    BY <2>1, PowerFacts
  <2> QED BY <2>3, <2>4, TwiceFacts
<1> QED BY <1>3, <1>4

\* Products of naturals, for the provers' linear arithmetic.
LEMMA Products ==
  ASSUME NEW b \in Nat, NEW f \in Nat \ {0}, NEW g \in Nat, f <= g
  PROVE  b * f \in Nat /\ b <= b * f /\ b * f <= b * g
<1>1. b * f \in Nat /\ b * (f - 1) \in Nat /\ b * (g - f) \in Nat
  <2>1. f - 1 \in Nat /\ g - f \in Nat
    OBVIOUS
  <2>2. \A c, d \in Nat : c * d \in Nat
    OBVIOUS
  <2> QED BY <2>1, <2>2
<1>2. b * f = b + b * (f - 1) /\ b * g = b * f + b * (g - f)
  OBVIOUS
<1> QED BY <1>1, <1>2

\* What a policy is made of.
LEMMA PolicyFacts ==
  ASSUME NEW p \in Policy
  PROVE  /\ p.base \in Nat /\ p.base <= MaxDuration /\ p.max \in Nat /\ p.max <= MaxDuration
         /\ p.jitter \in Nat /\ p.jitter \in Jitters /\ p.queueing \in BOOLEAN
         /\ p.limit \in Nat \cup {-1} /\ MaxDuration \in Nat
<1>1. /\ p.base \in Durations /\ p.max \in Durations /\ p.jitter \in Jitters
      /\ p.limit \in Limits /\ p.queueing \in BOOLEAN
  BY DEF Policy
<1>2. /\ Durations \subseteq 0..MaxDuration /\ Jitters \subseteq 0..MaxDuration
      /\ Limits \subseteq Nat \cup {-1} /\ MaxDuration \in Nat
  BY DelayAssumption
<1>3. p.base \in 0..MaxDuration /\ p.max \in 0..MaxDuration /\ p.jitter \in 0..MaxDuration
  BY <1>1, <1>2
<1>4. p.limit \in Nat \cup {-1}
  BY <1>1, <1>2
<1>5. /\ p.base \in Nat /\ p.base <= MaxDuration /\ p.max \in Nat /\ p.max <= MaxDuration
      /\ p.jitter \in Nat
  BY <1>2, <1>3
<1> QED BY <1>1, <1>2, <1>4, <1>5

\* The backoff lies between the least of base and max, and max, and grows.
LEMMA BackoffFacts ==
  ASSUME NEW p \in Policy, NEW n \in Nat \ {0}
  PROVE  /\ Backoff(p, n) \in Nat /\ Backoff(p, n) <= p.max
         /\ Least(p.base, p.max) <= Backoff(p, n)
         /\ n + 1 <= U32 => Backoff(p, n) <= Backoff(p, n + 1)
<1>1. Factor(n) \in Nat \ {0} /\ (n + 1 <= U32 => Factor(n + 1) \in Nat /\ Factor(n) <= Factor(n + 1))
  BY FactorFacts DEF Factors
<1>2. p.base * Factor(n) \in Nat /\ p.base <= p.base * Factor(n)
  BY <1>1, PolicyFacts, Products
<1>3. ASSUME n + 1 <= U32
      PROVE  p.base * Factor(n) <= p.base * Factor(n + 1) /\ p.base * Factor(n + 1) \in Nat
  <2>1. Factor(n + 1) \in Nat \ {0}
    BY <1>1, <1>3
  <2> QED BY <1>1, <1>3, <2>1, PolicyFacts, Products
<1> DEFINE x == p.base * Factor(n)
           y == p.base * Factor(n + 1)
<1> HIDE DEF x, y
<1>4. /\ Backoff(p, n) = Least(Least(x, MaxDuration), p.max)
      /\ Backoff(p, n + 1) = Least(Least(y, MaxDuration), p.max)
  BY DEF Backoff, x, y
<1>5. x \in Nat /\ p.base <= x /\ (n + 1 <= U32 => x <= y /\ y \in Nat)
  BY <1>2, <1>3 DEF x, y
<1> QED BY <1>4, <1>5, PolicyFacts DEF Least

\* The jitter is a natural number, unless its modulus is zero.
LEMMA JitterFacts ==
  ASSUME NEW p \in Policy, NEW n \in Nat, ~ Panics(p)
  PROVE  Jitter(p, n) \in Nat /\ (p.jitter = 0 => Jitter(p, n) = 0)
<1>1. U64 \in Nat \ {0} /\ Multiplier \in Nat /\ Increment \in Nat
  BY DelayAssumption
<1>2. CASE p.jitter = 0
  BY <1>2 DEF Jitter
<1>3. CASE p.jitter # 0
  <2>1. Modulus(p.jitter) \in Nat
    BY <1>1, PolicyFacts DEF Modulus
  <2>2. Modulus(p.jitter) \in Nat \ {0}
    BY <1>3, <2>1 DEF Panics
  <2>3. Seed(n) \in Nat
    <3>1. n * Multiplier \in Nat
      BY <1>1
    <3>2. n * Multiplier + Increment \in Nat
      BY <1>1, <3>1
    <3> QED BY <1>1, <3>2 DEF Seed
  <2>4. \A a \in Nat, b \in Nat \ {0} : a % b \in Nat
    OBVIOUS
  <2> QED BY <1>3, <2>2, <2>3, <2>4 DEF Jitter
<1> QED BY <1>2, <1>3

\* A delay lies in the range of its policy; without jitter it is the backoff.
LEMMA DelayFacts ==
  ASSUME NEW p \in Policy, NEW n \in Nat \ {0}, ~ Panics(p)
  PROVE  /\ Least(p.base, p.max) <= Delay(p, n) /\ Delay(p, n) <= p.max + p.jitter
         /\ p.jitter = 0 => Delay(p, n) = Backoff(p, n)
<1>1. /\ Backoff(p, n) \in Nat /\ Backoff(p, n) <= p.max
      /\ Least(p.base, p.max) <= Backoff(p, n)
  BY BackoffFacts
<1>2. Jitter(p, n) \in Nat /\ (p.jitter = 0 => Jitter(p, n) = 0)
  BY JitterFacts
<1> QED BY <1>1, <1>2, PolicyFacts DEF Delay, Saturated, Least
-----------------------------------------------------------------------------
(* The delays of a task. *)

\* The variables' types, the range of the last delay, and which delay it is while
\* attempts are left.
DelayFollows ==
  /\ policy \in Policy /\ attempt \in Nat
  /\ DelayInRange
  /\ policy.jitter = 0 /\ attempt > 0 /\ ~ NoneLeft(policy, attempt) =>
       delay = Delay(policy, attempt)

\* It holds before the first attempt.
LEMMA InitFollows == Init => DelayFollows
<1> SUFFICES ASSUME Init PROVE DelayFollows
  OBVIOUS
<1>1. policy \in Policy /\ attempt = 0 /\ delay = Least(policy.base, policy.max)
  BY DEF Init
<1> QED BY <1>1, PolicyFacts DEF DelayFollows, DelayInRange, Least

\* A failed attempt sleeps the policy's delay, or the second of a queueing handle.
LEMMA StepFollows == DelayFollows /\ [Next]_vars => DelayFollows'
<1> SUFFICES ASSUME DelayFollows, [Next]_vars PROVE DelayFollows'
  OBVIOUS
<1>1. policy \in Policy /\ attempt \in Nat
  BY DEF DelayFollows
<1>2. CASE AttemptFails
  <2>1. attempt' = attempt + 1 /\ policy' = policy /\ attempt' \in Nat \ {0}
    BY <1>1, <1>2 DEF AttemptFails
  <2>2. CASE NoneLeft(policy, attempt')
    <3>1. delay' = delay \/ (policy.queueing /\ delay' = Second)
      BY <1>2, <2>2 DEF AttemptFails
    <3>2. DelayInRange'
      BY <2>1, <3>1 DEF DelayFollows, DelayInRange
    <3> QED BY <1>1, <2>1, <2>2, <3>2 DEF DelayFollows, NoneLeft
  <2>3. CASE ~ NoneLeft(policy, attempt') /\ Panics(policy)
    <3>1. UNCHANGED delay
      BY <1>2, <2>3 DEF AttemptFails
    <3>2. DelayInRange'
      BY <2>1, <3>1 DEF DelayFollows, DelayInRange
    <3> QED BY <1>1, <2>1, <2>3, <3>2 DEF DelayFollows, Panics
  <2>4. CASE ~ NoneLeft(policy, attempt') /\ ~ Panics(policy)
    <3>1. delay' = Delay(policy, attempt')
      BY <1>2, <2>4 DEF AttemptFails
    <3>2. /\ Least(policy.base, policy.max) <= delay'
          /\ delay' <= policy.max + policy.jitter
      BY <1>1, <2>1, <2>4, <3>1, DelayFacts
    <3>3. DelayInRange'
      BY <2>1, <3>2 DEF DelayInRange
    <3> QED BY <1>1, <2>1, <3>1, <3>3 DEF DelayFollows
  <2> QED BY <2>2, <2>3, <2>4
<1>3. CASE Hydrates
  BY <1>3 DEF Hydrates, DelayFollows, DelayInRange
<1>4. CASE UNCHANGED vars
  BY <1>4 DEF vars, DelayFollows, DelayInRange, NoneLeft
<1> QED BY <1>2, <1>3, <1>4 DEF Next

\* So it always holds.
LEMMA AlwaysFollows == Spec => []DelayFollows
<1> QED BY InitFollows, StepFollows, PTL DEF Spec

\* However many attempts fail, the delay stays between the least of base and max, and
\* max plus jitter_max (or is the second of an exhausted queueing handle): neither the
\* power nor the product nor the jitter's seed overflows it.
THEOREM DelaysStayInRange == Spec => []DelayInRange
<1>1. DelayFollows => DelayInRange
  BY DEF DelayFollows
<1> QED BY <1>1, AlwaysFollows, PTL

\* Without jitter, a series of failures never waits less than before, up to the first
\* attempt that does not fit a u32.
THEOREM DelaysGrow == Spec => BackoffGrows
<1>1. ASSUME DelayFollows, [Next]_vars, attempt > 0, attempt' = attempt + 1, attempt' <= U32,
             policy.jitter = 0, ~ NoneLeft(policy, attempt')
      PROVE  delay <= delay'
  <2>1. policy \in Policy /\ attempt \in Nat \ {0} /\ attempt + 1 \in Nat \ {0}
    BY <1>1 DEF DelayFollows
  <2>2. AttemptFails
    BY <1>1, <2>1 DEF Next, Hydrates, vars
  <2>3. ~ Panics(policy)
    BY <1>1 DEF Panics
  <2>4. delay' = Delay(policy, attempt + 1)
    BY <1>1, <2>2, <2>3 DEF AttemptFails
  <2>5. ~ NoneLeft(policy, attempt)
    BY <1>1, <2>1, PolicyFacts DEF NoneLeft
  <2>6. delay = Delay(policy, attempt)
    BY <1>1, <2>1, <2>5 DEF DelayFollows
  <2>7. delay = Backoff(policy, attempt) /\ delay' = Backoff(policy, attempt + 1)
    BY <1>1, <2>1, <2>3, <2>4, <2>6, DelayFacts
  <2> QED BY <1>1, <2>1, <2>7, BackoffFacts
<1>2. DelayFollows /\ [Next]_vars =>
        [/\ attempt > 0 /\ attempt' = attempt + 1 /\ attempt' <= U32
         /\ policy.jitter = 0 /\ ~ NoneLeft(policy, attempt')
         => delay <= delay']_vars
  BY <1>1
<1> QED BY <1>2, AlwaysFollows, PTL DEF Spec, BackoffGrows

\* The modulus is zero for the values of jitter_max that EndsOnlyAtLimits names.
LEMMA ModulusZero ==
  ASSUME NEW j \in Nat, Modulus(j) = 0 PROVE (j + 1) % U64 = 0
<1> DEFINE r == j % U64
           q == j \div U64
<1>1. U64 \in Nat /\ U64 > 0
  BY DelayAssumption
<1>2. r \in 0..(U64 - 1) /\ q \in Nat /\ j = U64 * q + r
  BY <1>1
<1>3. (r + 1) % U64 = 0
  BY DEF Modulus
<1> HIDE DEF r, q
<1>4. r + 1 = U64
  <2>1. CASE r + 1 < U64
    <3>1. (r + 1) % U64 = r + 1
      BY <1>1, <1>2, <2>1
    <3> QED BY <1>2, <1>3, <3>1
  <2> QED BY <1>1, <1>2, <2>1
<1>5. j + 1 = U64 * (q + 1)
  <2>1. j + 1 = U64 * q + U64
    BY <1>1, <1>2, <1>4
  <2> QED BY <1>1, <1>2, <2>1
<1>6. (U64 * (q + 1)) % U64 = 0
  BY <1>1, <1>2
<1> QED BY <1>5, <1>6

\* A task ends only when its attempts are used up or its jitter_max has the largest
\* u64 at its end, whatever the widths, the policy and the number of failures.
THEOREM EndsExplained == Spec => []EndsOnlyAtLimits
<1> DEFINE Inv == policy \in Policy /\ EndsOnlyAtLimits
<1>1. Init => Inv
  BY DEF Init, EndsOnlyAtLimits
<1>2. Inv /\ [Next]_vars => Inv'
  <2> SUFFICES ASSUME Inv, [Next]_vars PROVE Inv'
    OBVIOUS
  <2>1. Panics(policy) => (policy.jitter + 1) % U64 = 0
    BY PolicyFacts, ModulusZero DEF Panics
  <2>2. CASE AttemptFails
    BY <2>1, <2>2 DEF AttemptFails, EndsOnlyAtLimits
  <2>3. CASE Hydrates
    BY <2>3 DEF Hydrates, EndsOnlyAtLimits
  <2>4. CASE UNCHANGED vars
    BY <2>4 DEF vars, EndsOnlyAtLimits, NoneLeft
  <2> QED BY <2>2, <2>3, <2>4 DEF Next
<1>3. Inv => EndsOnlyAtLimits
  OBVIOUS
<1> QED BY <1>1, <1>2, <1>3, PTL DEF Spec
=============================================================================
