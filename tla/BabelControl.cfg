\* Four packets, headers of two bytes, answers of two sizes.
CONSTANTS
  Header = 2
  BodySize = {1, 2}
  MaxPacket = 4
SPECIFICATION ControlFairSpec
INVARIANTS SafeStreams Understood HandledAtOnce
PROPERTIES Fresh CallEnds
CHECK_DEADLOCK FALSE
