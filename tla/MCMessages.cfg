SPECIFICATION MessageSpec
CONSTANTS
  d1 = d1
  d2 = d2
  n1 = n1
  p1 = p1
  p2 = p2
  w1 = w1
  h1 = h1
  h2 = h2
  g1 = g1
  Dictionary = {d1, d2}
  Object <- MCObject
  kindOf <- MCKindOf
  contentOf <- MCContentOf
  FastKey = {"NAME", "PAYLOAD", "PAYLOADTYPE", "HOPLIMIT", "KEYID_RESTRICTION", "RETURN_CODE", "WIRE"}
  ListKey = {"HASH_GROUPS"}
  EntryKey = {0}
  Integer = {0, 1, 255, 257}
  MessageType = {"Interest", "InterestReturn", "ContentObject", "Manifest"}
  NoDictionary = NoDictionary
  NoObject = NoObject
  HopLimit = {255, 257}
  DefaultHopLimit = 255
  ReturnCode = {1}
  WireType = {"Interest"}
  MaxReferences = 1
  MaxHeld = 1
  MaxList = 1
  MaxIds = 2
INVARIANTS MessageTypeOK ReferencesExact IdentifiedByName PayloadTypeBelongs HopLimitInSync
SYMMETRY MCSymmetry
CHECK_DEADLOCK FALSE
