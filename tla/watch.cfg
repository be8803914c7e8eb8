SPECIFICATION Spec
CONSTANTS
  Clients = {c1, c2}
  Dbs = {0, 1}
  Keys = {k}
  Roles = {"master"}
  MaxWrites = 3
  MaxSent = 1
CHECK_DEADLOCK FALSE
INVARIANTS TouchedByWrites
