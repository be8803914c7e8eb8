SPECIFICATION MCSpec
CONSTANTS
  j1 = j1
  a2 = a2
  Nodes = {n1, n2}
  Tasks = {t1}
  None = None
  Jobs = {j1, a2}
  Monitors = {}
  Handlers = {h1}
  MaxConcurrency = 1
  MaxRetries = 2
  Budgets <- Throws
INVARIANTS NoTaskLost OneRunAtATime
PROPERTIES EventuallySettled CompletedIsFinal
