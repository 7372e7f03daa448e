---------------------------- MODULE MCSocketStream ----------------------------
EXTENDS SocketStream

CONSTANTS App, Worker

TwoSenders   == {App, Worker}
ThreePackets == <<2, 3, 1>>
Places       == <<0, 6, 13, 18>>
ThreeCuts    == <<<<5, 6>>, <<11, 12, 13>>, <<18>>>>
=============================================================================
