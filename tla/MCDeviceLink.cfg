SPECIFICATION FairSpec
CONSTANTS
  Robot = Robot
  Phone = Phone
  NoName = NoName
  Publisher = Publisher
  Devices <- OneDevice
  Peer <- Distinct
  Publishing = TRUE
  Apple = TRUE
  Hasty <- NoDevice
  Refusing = TRUE
  Stopping = TRUE
INVARIANTS TypeOK ConfirmedOrClosing IdleMeansClosed ConnectAfterTunnel
PROPERTIES KeepsSessions JoinersReturn
CHECK_DEADLOCK FALSE
