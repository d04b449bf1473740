SPECIFICATION ClientSpec
CONSTANTS
  Base = 4
  HeaderSize = 1
  Types <- MCTypes
  Octets <- MCOctets
  MaxValue = 1
  MaxDepth = 2
  MaxLimit = 9
INVARIANTS TlvTypeOK InnerLengthExact
PROPERTIES ImplementsTlvTree
CHECK_DEADLOCK FALSE
