SPECIFICATION Spec
CONSTANTS
  MaxCount = 4
  MaxChannels = 2
  MaxMessages = 2
  Streams <- AllStreams
INVARIANTS TypeOK PacketFilled AsSent Complete
CHECK_DEADLOCK FALSE
