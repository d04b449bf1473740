SPECIFICATION ReceivedSpec
CONSTANTS
  m1 = m1
  m2 = m2
  w1 = w1
  s1 = s1
  s2 = s2
  Message = {m1, m2}
  Packet = {w1}
  NoMessage = NoMessage
  NoPacket = NoPacket
  NoSigner = NoSigner
  Signer = {s1, s2}
  PacketContent <- MCPacketContent
  MessageLength = 2
  AlgorithmLength = 1
  Position = {0, 4}
  RegionStart = {8, 9}
  RegionLength = {3}
  HopLimit = {7}
  ReturnCode = {2}
  MaxCalls = 6
  Suite = {"RSA_SHA256", "CRC32C"}
INVARIANTS ServedUnlessReceived HashesStand AcceptedSignatureStays
SYMMETRY MCSymmetry
CHECK_DEADLOCK FALSE
