SPECIFICATION FairSpec
CONSTANTS
  NoPacket = NoPacket
  Profiles <- MCProfiles
  MaxEvents = 4
  MaxSends = 2
  Channels = {"a", "b"}
  Lengths = {18, 19}
  MaxDatagram = 53
  QueueCap = 1
  MsgIDSpace = 8
INVARIANTS
  PartsInOrder
  RefusalHasCause
  PartsRejoin
PROPERTIES
  CloseReturns
CHECK_DEADLOCK FALSE
