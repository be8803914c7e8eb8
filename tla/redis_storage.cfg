SPECIFICATION MCSpec
CONSTANTS
  c1 = c1
  c2 = c2
  Clients = {t1, t2}
  Trackers = {t1}
  Keys = {"a", "b"}
  Prefixes <- TrackedPrefixes
  PrefixLists <- TrackedPrefixLists
  TableMaxKeys = 1
  IntsetValues <- MCIntsetValues
  IntsetHalf <- MCIntsetHalf
  MaxVersion = 2
  Nobody = Nobody
  NotDue = NotDue
CHECK_DEADLOCK FALSE
INVARIANTS
  CacheCoherent
  LookupsFind ScanComplete IterationExact KeyspaceExact HoldsMembers RanksExact
   ClaimsDurable OnePlace
PROPERTIES
   EveryoneServed
