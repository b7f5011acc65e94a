SPECIFICATION Spec
CONSTANTS
  MaxChunk = 3
  Volume = 2
  Word = 64
  Requests <- SmallRequests
  MaxLookups = 1
  MaxStalls = 0
INVARIANTS
  SuccessMeansCommitted
