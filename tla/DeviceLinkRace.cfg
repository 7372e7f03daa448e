SPECIFICATION FairSpec
CONSTANTS
  Robot = Robot
  Phone = Phone
  NoName = NoName
  Publisher = Publisher
  Devices <- OneDevice
  Peer <- Distinct
  Publishing = TRUE
  Apple = FALSE
  Hasty <- NoDevice
  Refusing = FALSE
  Stopping = FALSE
PROPERTIES ConnectFollows
CHECK_DEADLOCK FALSE
