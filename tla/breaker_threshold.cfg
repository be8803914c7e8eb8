SPECIFICATION Spec
CONSTANTS
  Calls = {c1, c2}
  MaxAttempts = 3
  InitialDelay = 1
  MaxDelay = 30
  BackoffMultiplier = 2
  Timeout = 3
  FailureThreshold = 5
  ResetTimeout = 2
  MonitoringPeriod = 6
  Spacing = 1
  Epoch = 10
  LastCall = 12
CHECK_DEADLOCK FALSE
INVARIANTS OpensAfterThreshold
