SPECIFICATION ChecksumSpec
CONSTANTS
  MaxLength = 5
  Bytes = {0, 1, 127, 248, 255}
  Packets <- MCPackets
  Unknown = Unknown
CHECK_DEADLOCK FALSE
INVARIANTS
  Verifies
