SPECIFICATION LiveSpec
CONSTANTS
  Byte <- MCByte
  Unwritten = Unwritten
  b1 = b1
  b2 = b2
  HeadCapacity = 2
  BlockCapacity <- MCBlockCapacity
  IntSizes <- MCIntSizes
  MaxArray = 3
  MaxLimit = 4
  Vec = {v1}
  MaxRefs = 2
INVARIANTS TypeOK BlocksTile RoomAhead CursorInBlock MemorySafe SignatureInHead
INVARIANTS RefcountExact IoVecIsPacketPrefix
PROPERTIES FullBlocksKeepShape ImplementsFlatBuffer PutsComplete
CHECK_DEADLOCK FALSE
