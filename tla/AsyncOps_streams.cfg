SPECIFICATION Spec
CONSTANTS
  c1 = c1
  c2 = c2
  t1 = t1
  Calls <- MCCalls
  Threads <- MCThreads
  Methods <- Varied
  Volume = 2
  MaxResults = 1
  MaxEarly = 1
  MayAbandon = FALSE
INVARIANTS
  Sound
  CloseIsFaithful
PROPERTIES
  ImplementsStreams
