SPECIFICATION Spec
CONSTANTS
  Nodes = {n1, n2}
  Tasks = {t1}
  None = None
  Jobs = {j1}
  Monitors = {m1}
  Handlers = {h1}
  MaxConcurrency = 2
  MaxRetries = 1
  Budgets <- ClusterFaults
INVARIANTS LoadCountsJobs ClaimedOncePerEnqueue
SYMMETRY NodeSymmetry
