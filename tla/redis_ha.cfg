SPECIFICATION MCSpec
CONSTANTS
  s1 = s1
  s2 = s2
  s3 = s3
  r1 = r1
  r2 = r2
  Sentinels = {s1, s2, s3}
  Instances = {m0, r1, r2}
  First = m0
  Quorum = 2
  Scenarios <- SentinelScenarios
  Nobody = Nobody
  Nodes = {1, 2, 3, 4, 5}
  MasterOf <- Masters
  ClusterScenarios <- MCClusterScenarios
SYMMETRY Sym
CHECK_DEADLOCK FALSE
INVARIANTS
  SameHistory ReplicasConverge
  OneLeaderPerEpoch OneMasterPerConfigEpoch
  OneWinnerPerEpoch Convergence

   
