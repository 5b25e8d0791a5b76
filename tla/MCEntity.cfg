CONSTANTS
  IntBits = 3
  EpochBits = 2
  AddressBits = 3
  AddressBytes = 2
  ByteBits = 2
  Windows = TRUE
  Matching <- MCMatching
  Requests <- MCRequests
SPECIFICATION EntitySpec
INVARIANTS
  ValuesAreOrdered
  ChecksAreFollowed
CHECK_DEADLOCK FALSE
