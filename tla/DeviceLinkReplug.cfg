SPECIFICATION Spec
CONSTANTS
  Robot = Robot
  Phone = Phone
  NoName = NoName
  Publisher = Publisher
  Devices <- TwoDevices
  Peer <- Replugged
  Publishing = TRUE
  Apple = FALSE
  Hasty <- NoDevice
  Refusing = FALSE
  Stopping = FALSE
INVARIANTS ReachesClient
CHECK_DEADLOCK FALSE
