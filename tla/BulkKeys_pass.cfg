SPECIFICATION Spec
CONSTANTS
  c1 = c1
  c2 = c2
  Names <- MCNames
  Namespaces = {"a", "b"}
  DefaultNamespace = "a"
  Hashes <- MCHashes
  Slices <- MCSlices
  Calls <- MCCalls
  MaxSettings = 1
INVARIANTS
  TypeOK
  SuccessIsReal
  NamedWhenOrdered
  DropsOnlyBeyondLast
  FailuresReported
  KeysOutliveRequest
SYMMETRY
  MCSymmetry
