SPECIFICATION Spec
CONSTANTS
  Robot = Robot
  Phone = Phone
  NoName = NoName
  Publisher = Publisher
  Devices <- TwoDevices
  Peer <- Distinct
  Publishing = FALSE
  Apple = FALSE
  Hasty <- OneDevice
  Refusing = FALSE
  Stopping = FALSE
INVARIANTS ReachesClient
CHECK_DEADLOCK FALSE
