SPECIFICATION MCSpec
CONSTANTS
  Calls = {c1, c2}
  MaxAttempts = 3
  InitialDelay = 1
  MaxDelay = 30
  BackoffMultiplier = 2
  Timeout = 3
  FailureThreshold = 5
  ResetTimeout = 2
  MonitoringPeriod = 6
  Spacing = 1
  Epoch = 10
  LastCall = 12
  Executions = {1, 2, 3}
  RetryOnFailure = {1, 2}
  Clients = {"a", "b"}
  Tasks = {"t", "u"}
  MaxRequests = 2
  Callers = {1, 2}
  MaxOperations = 5
  Keys = {"k", "l"}
  Tags = {"t"}
  Ttls = {0, 1}
  MaxSets = 2
  CacheTime = 3
  Operations = {1, 2}
  AdapterCalls = {c1, c2, c3}
  BreakerThreshold = 2
  BreakerReset = 5
  HalfOpenMaxAttempts = 2
  MaxRetries = 2
  AdapterTime = 6
  Feedback = {"f", "g"}
  Keep = 2
  Exporters = {"x1", "x2"}
  MaxSaves = 2
  MaxFailures = 1
  MaxCrashes = 1
  Nothing = Nothing
  Broken = Broken
CHECK_DEADLOCK FALSE
INVARIANTS
  NeverOpens RetriesBounded SuccessIsFinal  SubscribersConnected EnabledIsLoaded
  InvalidationComplete
PROPERTIES
  CallsEnd
