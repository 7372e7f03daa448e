--------------------------- MODULE MCSubscriptions ---------------------------
EXTENDS Subscriptions

CONSTANTS Robot, Phone, Camera, Motors

TwoEnds     == {Robot, Phone}
TwoChannels == {Camera, Motors}
=============================================================================
