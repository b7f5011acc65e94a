SPECIFICATION Spec
CONSTANTS
  c1 = c1
  c2 = c2
  Names <- MCNames
  Namespaces = {"a", "b"}
  DefaultNamespace = "a"
  Hashes <- MCHashes
  Slices <- TwoKeys
  Calls <- MCCalls
  MaxSettings = 0
INVARIANTS
  AllRetrieved
