---------------------------- MODULE PacketStream ----------------------------
(***************************************************************************)
(* What a socket's listening thread promises: the packets that reach this  *)
(* end are handed to the callback in order, each once and not before all   *)
(* of it is there, until the thread ends.  SocketReader implements it.     *)
(***************************************************************************)
EXTENDS Naturals

CONSTANT Count  \* the number of packets the peer has for us

VARIABLES here,       \* how many packets have arrived with their last byte
          delivered,  \* how many the callback has been given
          ended       \* the thread has left its loop

vars == <<here, delivered, ended>>

Init == here = 0 /\ delivered = 0 /\ ended = FALSE

Arrive == here' \in (here + 1)..Count /\ UNCHANGED <<delivered, ended>>

Deliver ==
  /\ ~ended /\ delivered < here
  /\ delivered' = delivered + 1
  /\ UNCHANGED <<here, ended>>

End == ~ended /\ ended' = TRUE /\ UNCHANGED <<here, delivered>>

Next == Arrive \/ Deliver \/ End

Spec == Init /\ [][Next]_vars

(***************************************************************************)
(* A packet that is there is delivered unless the thread ends.             *)
(***************************************************************************)
FairSpec == Spec /\ WF_vars(Deliver)
=============================================================================
