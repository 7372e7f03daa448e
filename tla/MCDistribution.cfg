SPECIFICATION PostFairSpec
CONSTANTS
  Robot = Robot
  Phone = Phone
  Camera = Camera
  Ends <- TwoEnds
  Opener = Robot
  Channels <- OnTheCamera
  Topics <- OnTheCamera
  MaxSubs = 2
  MaxBreaks = 1
  MaxPosts = 1
INVARIANTS PostTypeOK ApartKnown NoSurplus HeardEnough
PROPERTIES PublishedIsHeard ComesToRest
CHECK_DEADLOCK FALSE
