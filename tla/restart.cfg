SPECIFICATION FairSpec
CONSTANTS
  Nodes = {n1, n2}
  Tasks = {t1}
  None = None
  Jobs = {j1}
  Monitors = {m1}
  Handlers = {h1}
  MaxConcurrency = 1
  MaxRetries = 3
  Budgets <- CrashAndRestart
PROPERTIES EventuallySettled
