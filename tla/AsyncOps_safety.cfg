SPECIFICATION Spec
CONSTANTS
  c1 = c1
  c2 = c2
  t1 = t1
  Calls <- MCCalls
  Threads <- MCThreads
  Methods <- Streaming
  Volume = 2
  MaxResults = 2
  MaxEarly = 1
  MayAbandon = FALSE
INVARIANTS
  TypeOK
  NoMissingContext
  NoSendOnClosed
  NoTypePanic
  PinnedUntilFinal
  LeaksOnlyByIndexPanic
  OwnInOrderEndLast
