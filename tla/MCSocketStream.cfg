SPECIFICATION StreamFairSpec
CONSTANTS
  App = App
  Worker = Worker
  Closer = Closer
  NoOne = NoOne
  Senders <- TwoSenders
  Rests <- ThreePackets
  Start <- Places
  Cuts <- ThreeCuts
  LengthBytes = 4
INVARIANTS StreamTypeOK PartsTogether RestFits Whole NothingCutOff
PROPERTIES ImplementsStream CloseReturns
CHECK_DEADLOCK FALSE
