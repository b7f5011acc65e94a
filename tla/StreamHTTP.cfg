SPECIFICATION FairSpec
CONSTANTS
  MaxChunk = 3
  Word = 32
  Requests <- MCRequests
  MaxLength = 8
  MaxRewrites = 2
INVARIANTS
  TypeOK
  BodyIsContiguous
  WithinAnnounced
  SuccessIsWhole
  ExactRange
  AsksWithin
PROPERTIES
  EndsUnlessEmpty
