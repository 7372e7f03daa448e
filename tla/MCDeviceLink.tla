----------------------------- MODULE MCDeviceLink -----------------------------
EXTENDS DeviceLink

CONSTANTS Robot, Phone  \* the names of the applications on the devices

NoDevice   == {}
OneDevice  == {1}
TwoDevices == {1, 2}
Distinct   == [d \in Devices |-> IF d = 1 THEN Robot ELSE Phone]
\* Every device is the same one, plugged in again.
Replugged  == [d \in Devices |-> Robot]
=============================================================================
