SPECIFICATION Spec
CONSTANTS
  MaxId = 7
  Backends = {"b1", "b2"}
  Groups = {"g1"}
  Servers = {"s1", "s2"}
  GroupOf <- MCGroupOf
  ServerOf <- MCServerOf
  Tables <- MCTables
  Loads <- MCLoads
  Controlled = {}
  MaxPolls = 2
  MaxClock = 2
  MaxAgain = 0
INVARIANTS
  OldStatsUsed
