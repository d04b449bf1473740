SPECIFICATION CarefulSpec
CONSTANTS
  l1 = l1
  l2 = l2
  List = {l1, l2}
  w2 = w2
  Buffer = {w2}
  lengthOf <- MCLengthOf
  IOVec = {v1}
  DefaultCapacity = 1
  NoList = NoList
  NoIOVec = NoIOVec
  MaxReferences = 2
  MaxEntries = 2
INVARIANTS Accounted EncodingReferencesExact SliceSelectsBytes
PROPERTIES ImplementsByteLists
SYMMETRY ListSymmetry
CHECK_DEADLOCK FALSE
