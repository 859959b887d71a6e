CONSTANTS
  Base = 2
  Packets <- SamplePackets
  MaxPackets = 2
SPECIFICATION WireFairSpec
INVARIANTS WireTypeOK InStep WholePackets
PROPERTY ImplementsPacketChannel
CHECK_DEADLOCK FALSE
