SPECIFICATION Spec
CONSTANTS
  MaxId = 7
  Backends = {"b1", "b2"}
  Groups = {"g1"}
  Servers = {"s1", "s2"}
  GroupOf <- MCGroupOf
  ServerOf <- MCServerOf
  Tables <- MCTables
  Loads <- MCLoads
  Controlled = {"b1"}
  MaxPolls = 2
  MaxClock = 3
  MaxAgain = 1
INVARIANTS
  TypeOK
  RingShares
  RateIsTrue
  PIDExclusive
PROPERTIES
  OlderStatsStay
