SPECIFICATION Spec
CONSTANTS
  Executions = {e1, e2}
  RetryOnFailure = {e1, e2}
CHECK_DEADLOCK FALSE
INVARIANTS ListedNotRetried
