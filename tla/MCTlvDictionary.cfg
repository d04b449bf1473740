SPECIFICATION Spec
CONSTANTS
  d1 = d1
  d2 = d2
  b1 = b1
  b2 = b2
  hash = hash
  Dictionary = {d1, d2}
  Object = {b1, b2, hash}
  kindOf <- MCKindOf
  contentOf <- MCContentOf
  FastKey = {"PAYLOAD"}
  ListKey = {"CUSTOM"}
  EntryKey = {1}
  Integer = {0}
  MessageType = {"Interest", "InterestReturn"}
  NoDictionary = NoDictionary
  MaxReferences = 2
  MaxHeld = 1
  MaxList = 2
INVARIANTS ReferencesExact CopyMirrorsLists
SYMMETRY MCSymmetry
CHECK_DEADLOCK FALSE
