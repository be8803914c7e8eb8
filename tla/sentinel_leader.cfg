SPECIFICATION Spec
CONSTANTS
  s1 = s1
  s2 = s2
  s3 = s3
  r1 = r1
  r2 = r2
  Sentinels = {s1, s2, s3}
  Instances = {m, r1, r2}
  First = m
  Nobody = Nobody
  Quorum = 2
  Scenarios <- TwoCandidates
SYMMETRY Sym
CHECK_DEADLOCK FALSE
INVARIANTS LeaderHasMajority
