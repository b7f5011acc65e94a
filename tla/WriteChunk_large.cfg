SPECIFICATION FairSpec
CONSTANTS
  MaxChunk = 3
  Volume = 2
  Word = 64
  Requests <- LargeRequests
  MaxLookups = 2
  MaxStalls = 1
INVARIANTS
  TypeOK
  CopiesInOrder
  BufferHoldsFlight
  ClosedIsQuiet
  SuccessMeansCommitted
  OnlyCommitReported
  OvershootFails
  FailureLast
PROPERTIES
  CallEnds
