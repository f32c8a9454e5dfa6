SPECIFICATION Spec
CONSTANTS
  SampleMs = 2
  DebounceMs = 4
  CooldownMs = 3
  AttemptWindowMs = 18
  MaxAttempts = 2
  MinSamples = 3
  MaxDelay = 7
  TimeBound = 30
INVARIANT RateLimited
INVARIANT DarkOnlyWhenDisabled
PROPERTY RequestIffEvidence
PROPERTY FailureIsFinal
CHECK_DEADLOCK FALSE
