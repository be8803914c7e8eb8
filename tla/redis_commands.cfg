SPECIFICATION MCSpec
CONSTANTS
  c1 = c1
  c2 = c2
  k1 = k1
  NoConsumer = NoConsumer
  Clients = {c1, c2}
  Channels = {"x"}
  Shards = {"s"}
  Patterns = {"*"}
  Match <- MCMatch
  SlotOf <- MCSlotOf
  MaxMessages = 2
  Dbs = {0, 1}
  Keys = {k1}
  Roles = {"master", "replica"}
  MaxWrites = 2
  MaxSent = 1
SYMMETRY Sym
CHECK_DEADLOCK FALSE
INVARIANTS
  TablesAgree CheckAndSet NobodyWaitsInVain CopiesAgree LagExact
PROPERTIES
  ImplementsBus
