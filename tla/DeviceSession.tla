---------------------------- MODULE DeviceSession ----------------------------
(***************************************************************************)
(* The one session of each device, with no status, callback or thread of   *)
(* the hub in sight: its socket is opened once, one thread reads from it,  *)
(* usbmuxd grants a tunnel only to a socket that is read from, and the     *)
(* descriptor is given back only after a shutdown and when nobody reads    *)
(* from it any more.  Nothing of a session comes back.  A session may be   *)
(* lost, of which nothing more is said, but only before it is read from.   *)
(* DeviceLink implements this module.                                      *)
(***************************************************************************)
CONSTANT Devices

VARIABLES socket,   \* socket[d]: "none", "fresh", "open", "shut" down, "closed", "lost"
          reading,  \* the devices from whose socket a thread reads
          granted   \* the devices to which usbmuxd has opened a tunnel

vars == <<socket, reading, granted>>

TypeOK ==
  /\ socket \in [Devices -> {"none", "fresh", "open", "shut", "closed", "lost"}]
  /\ reading \subseteq Devices
  /\ granted \subseteq Devices

Init ==
  /\ socket = [d \in Devices |-> "none"]
  /\ reading = {} /\ granted = {}

Open(d) ==
  /\ socket[d] = "none"
  /\ socket' = [socket EXCEPT ![d] = "fresh"]
  /\ UNCHANGED <<reading, granted>>

Lose(d) ==
  /\ socket[d] \in {"none", "fresh"}
  /\ socket' = [socket EXCEPT ![d] = "lost"]
  /\ UNCHANGED <<reading, granted>>

StartReading(d) ==
  /\ socket[d] = "fresh"
  /\ socket' = [socket EXCEPT ![d] = "open"]
  /\ reading' = reading \cup {d}
  /\ UNCHANGED granted

Grant(d) ==
  /\ socket[d] \in {"open", "shut", "closed"} /\ d \notin granted
  /\ granted' = granted \cup {d}
  /\ UNCHANGED <<socket, reading>>

StopReading(d) ==
  /\ d \in reading
  /\ reading' = reading \ {d}
  /\ UNCHANGED <<socket, granted>>

Shutdown(d) ==
  /\ socket[d] = "open"
  /\ socket' = [socket EXCEPT ![d] = "shut"]
  /\ UNCHANGED <<reading, granted>>

Close(d) ==
  /\ socket[d] = "shut" /\ d \notin reading
  /\ socket' = [socket EXCEPT ![d] = "closed"]
  /\ UNCHANGED <<reading, granted>>

Next ==
  \E d \in Devices :
    \/ Open(d) \/ Lose(d) \/ StartReading(d) \/ Grant(d)
    \/ StopReading(d) \/ Shutdown(d) \/ Close(d)

Spec == Init /\ [][Next]_vars
=============================================================================
