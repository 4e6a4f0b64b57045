---------------------------- MODULE MCRetryDelay ----------------------------
(* RetryDelay with a u32 of three bits and a u64 of four.  A Duration holds    *)
(* more nanoseconds than the u64, and its maximum is a multiple of it less    *)
(* one, as Duration::MAX is.                                                  *)
EXTENDS RetryDelay

Longest == 3 * U64 - 1

SmallDurations == {0, 1, 3, 7, U64, Longest}

\* Zero, one, around the largest u64 and the longest duration.
SomeJitters == {0, 1, 5, U64 - 2, U64 - 1, U64, U64 + 1, Longest - 1, Longest}

SomeLimits == {-1, 0, 3}
=============================================================================
