SPECIFICATION Spec
CONSTANTS
  U32 = 8
  U64 = 16
  MaxDuration <- Longest
  Second = 2
  Multiplier = 13
  Increment = 7
  Durations <- SmallDurations
  Jitters <- SomeJitters
  Limits <- SomeLimits
  MaxAttempt = 10
CHECK_DEADLOCK FALSE
INVARIANTS
  DelayInRange
  EndsOnlyAtLimits
PROPERTY BackoffGrows
