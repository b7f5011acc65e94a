SPECIFICATION FairSpec
CONSTANTS
  c1 = c1
  c2 = c2
  t1 = t1
  Calls <- MCCalls
  Threads <- MCThreads
  Methods <- Live
  Volume = 1
  MaxResults = 2
  MaxEarly = 0
  MayAbandon = TRUE
PROPERTIES
  RequestsEnd
CHECK_DEADLOCK FALSE
