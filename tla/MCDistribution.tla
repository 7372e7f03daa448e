---------------------------- MODULE MCDistribution ----------------------------
EXTENDS Distribution

CONSTANTS Robot, Phone, Camera

TwoEnds     == {Robot, Phone}
OnTheCamera == {Camera}
=============================================================================
