SPECIFICATION Spec
CONSTANTS
  Robot = Robot
  Phone = Phone
  Camera = Camera
  Motors = Motors
  Ends <- TwoEnds
  Opener = Robot
  Channels <- TwoChannels
  MaxSubs = 1
  MaxBreaks = 0
INVARIANTS PeerKnows
CHECK_DEADLOCK FALSE
