CONSTANTS
  Ceiling = 2
  PacketSize = 2
  Packets = 5
SPECIFICATION GateFairSpec
INVARIANTS NoLostWakeup BacklogBounded
PROPERTIES StopsOnClose
CHECK_DEADLOCK FALSE
