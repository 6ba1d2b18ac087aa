SPECIFICATION LiveSpec
CONSTANTS
  c1 = c1
  c2 = c2
  Callers <- TwoCallers
  MaxRetries = 2
  Weight = 2
  Burst = 3
  Rate = 1
  PauseTime = 3
  RetryAfters <- ShortRetryAfters
  MaxBackoff = 3
INVARIANTS
  TypeOK
  BoundedRequests
PROPERTIES
  OnlyStaleCallsIgnorePause
  CallsReturn
  BanSilences
