SPECIFICATION Spec
CONSTANTS
  c1 = c1
  c2 = c2
  t1 = t1
  Calls <- MCCalls
  Threads <- MCThreads
  Methods <- OneWrite
  Volume = 2
  MaxResults = 1
  MaxEarly = 0
  MayAbandon = FALSE
INVARIANTS
  NoTypePanic
