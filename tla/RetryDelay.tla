----------------------------- MODULE RetryDelay -----------------------------
(***************************************************************************)
(* RetryPolicy::delay (src/src/lib.rs) and the loops that use it, in the   *)
(* code's fixed widths: `factor` is a u32, the jitter a u64 of nanoseconds *)
(* and a Duration saturates at its own maximum, which as nanoseconds is    *)
(* larger than a u64.  The widths are constants, so that small ones reach  *)
(* every boundary.                                                         *)
(***************************************************************************)
EXTENDS Integers

CONSTANTS U32, U64,       \* one more than the largest u32 and u64: powers of two
          MaxDuration,    \* Duration::MAX, in nanoseconds
          Second,         \* the delay of a queueing handle without attempts left
          Multiplier, Increment,    \* of the jitter's seed
          Durations, Jitters,       \* values of base and max, of jitter_max
          Limits,         \* values of max_attempts; None is -1
          MaxAttempt      \* bound on the attempts that are looked at

ASSUME DelayAssumption ==
  /\ {U32, U64, Second} \subseteq Nat \ {0} /\ U32 > 1 /\ MaxDuration \in Nat
  /\ {Multiplier, Increment, MaxAttempt} \subseteq Nat
  /\ Durations \subseteq 0..MaxDuration /\ Jitters \subseteq 0..MaxDuration
  /\ Limits \subseteq Nat \cup {-1}

Policy == [base : Durations, max : Durations, jitter : Jitters, limit : Limits,
           queueing : BOOLEAN]

VARIABLES policy,    \* Config.retry, jitter_max, and whether the handle queues
          attempt,
          delay,     \* the delay last slept
          ended      \* the task has given up

vars == <<policy, attempt, delay, ended>>

Least(a, b) == IF a < b THEN a ELSE b
-----------------------------------------------------------------------------
Saturated(a, b) == Least(a + b, MaxDuration)

\* 2u32.saturating_pow(e)
SaturatingPow[e \in Nat] == IF e = 0 THEN 1 ELSE Least(2 * SaturatingPow[e - 1], U32 - 1)

\* Mutant: wrapping_pow.
FactorWrapping(n) == (2 ^ ((n - 1) % U32)) % U32

\* Mutant: the attempt is truncated before one is taken from it.
FactorTruncated(n) ==
  LET e == IF n % U32 = 0 THEN 0 ELSE (n % U32) - 1 IN Least(2 ^ e, U32 - 1)

\* 2u32.saturating_pow(attempt.saturating_sub(1) as u32)
Factor(n) == SaturatingPow[(n - 1) % U32]

Backoff(p, n) == Least(Least(p.base * Factor(n), MaxDuration), p.max)

\* Mutant: jitter_max itself is the modulus.
ModulusUpTo(j) == j % U64

\* jitter_max.as_nanos() as u64 + 1
Modulus(j) == ((j % U64) + 1) % U64

Seed(n) == (n * Multiplier + Increment) % U64

\* A seed modulo zero panics.
Panics(p) == p.jitter # 0 /\ Modulus(p.jitter) = 0

Jitter(p, n) == IF p.jitter = 0 THEN 0 ELSE Seed(n) % Modulus(p.jitter)

Delay(p, n) ==
  Least(Saturated(Backoff(p, n), Jitter(p, n)), Saturated(p.max, p.jitter))

NoneLeft(p, n) == p.limit # -1 /\ n > p.limit
-----------------------------------------------------------------------------
Init ==
  /\ policy \in Policy
  /\ attempt = 0 /\ delay = Least(policy.base, policy.max) /\ ended = FALSE

\* retry, reconnect_or_queue and the offline select; a panic ends the task.
AttemptFails ==
  /\ ~ended /\ attempt < MaxAttempt
  /\ attempt' = attempt + 1
  /\ \/ /\ NoneLeft(policy, attempt') /\ ~policy.queueing
        /\ ended' = TRUE /\ UNCHANGED delay
     \/ /\ NoneLeft(policy, attempt') /\ policy.queueing
        /\ delay' = Second /\ UNCHANGED ended
     \/ /\ ~NoneLeft(policy, attempt')
        /\ IF Panics(policy) THEN ended' = TRUE /\ UNCHANGED delay
           ELSE delay' = Delay(policy, attempt') /\ UNCHANGED ended
  /\ UNCHANGED policy

\* A hydration resets the attempts.
Hydrates ==
  /\ ~ended /\ attempt > 0
  /\ attempt' = 0
  /\ UNCHANGED <<policy, delay, ended>>

Next == AttemptFails \/ Hydrates

Spec == Init /\ [][Next]_vars
-----------------------------------------------------------------------------
(* Properties. *)

\* However many attempts have failed, a handle sleeps at least base and at most
\* max plus jitter_max, or the second of an exhausted queueing handle: no
\* overflow makes it spin or wait for ever.
DelayInRange ==
  \/ /\ Least(policy.base, policy.max) <= delay
     /\ delay <= policy.max + policy.jitter
  \/ policy.queueing /\ delay = Second

\* Without jitter no delay of a series of failures is shorter than the one
\* before it, up to the first attempt that no longer fits a u32: a server that
\* stays away is never asked more often.
BackoffGrows ==
  [][/\ attempt > 0 /\ attempt' = attempt + 1 /\ attempt' <= U32
     /\ policy.jitter = 0 /\ ~NoneLeft(policy, attempt')
     => delay <= delay']_vars

\* A handle ends only because max_attempts are used up, or by the panic of a
\* jitter_max whose nanoseconds, plus one, are a multiple of what a u64 counts:
\* Duration::MAX is one.  No other value at a boundary, and no attempt, ends it.
EndsOnlyAtLimits ==
  ended => \/ NoneLeft(policy, attempt) /\ ~policy.queueing
           \/ (policy.jitter + 1) % U64 = 0
=============================================================================
