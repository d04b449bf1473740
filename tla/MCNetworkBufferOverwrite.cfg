SPECIFICATION Spec
CONSTANTS
  Byte <- MCByte
  Unwritten = Unwritten
  b1 = b1
  b2 = b2
  HeadCapacity = 2
  BlockCapacity <- MCBlockCapacity
  IntSizes <- MCIntSizes
  MaxArray = 0
  MaxLimit = 4
INVARIANT MemorySafe
CHECK_DEADLOCK FALSE
