SPECIFICATION SpecCodec
CONSTANTS
  Base = 256
  HeaderSize = 8
  Dictionaries <- MCDictionaries
  Signers <- MCSigners
  NoSigner = NoSigner
  MaxEncodes = 2
  MaxNow = 2
  WordSize = 65536
  RelayedHops = {0, 254}
  RelayedLifetimes = {1}
INVARIANTS PacketTypeOK DecodesBack RegionsAgree ReencodeStable ReadsAsSent RelayKeepsHash
CHECK_DEADLOCK FALSE
