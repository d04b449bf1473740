SPECIFICATION Spec
CONSTANTS
  Group = {g1}
  Manifest = {m1}
  Name = {n1, n2}
  Digest = {h1, h2}
  SizeField = {"dataSize", "treeHeight"}
  Size = {0, 1}
  None = None
  MaxPointers = 2
  MaxHashGroups = 2
  MaxMetadata = 1
INVARIANTS HashGroupsAreSnapshots IteratorFaithful InterestsCoverPointers
CHECK_DEADLOCK FALSE
