----------------------------- MODULE SocketReader -----------------------------
(***************************************************************************)
(* The listening thread of a SocketClient (socket_client.cpp).  The peer's *)
(* packets are a stream of bytes: LengthBytes bytes that say how long the  *)
(* packet is, then the rest.  recv() blocks while nothing has arrived and  *)
(* otherwise returns what has, up to what it was asked for; the thread     *)
(* must find the packets again.                                            *)
(*                                                                         *)
(* A byte is its place in the stream.  What a variable holds is then known *)
(* from the place the thread has read up to, so no contents are kept.      *)
(***************************************************************************)
EXTENDS Integers, Sequences, FiniteSets

CONSTANTS Rests,         \* the size of each packet the peer sends, without its length
          Start,         \* the place of the first byte of each packet, and of the end
          LengthBytes    \* sizeof(buffer), 4 in the code

ASSUME SizeAssumption ==
  /\ Rests \in Seq(Nat \ {0})
  /\ LengthBytes \in Nat \ {0}
ASSUME PlaceAssumption ==
  /\ Start \in [1..(Len(Rests) + 1) -> Nat]
  /\ Start[1] = 0
  /\ \A i \in 1..Len(Rests) : Start[i + 1] = Start[i] + LengthBytes + Rests[i]
  /\ \A i, j \in 1..(Len(Rests) + 1) : i < j => Start[i] < Start[j]

VARIABLES arrived,    \* bytes that have arrived at this end
          peer,       \* "sending", "finished" (end of file follows), "reset", or
                      \* "absent": open() has failed
          shut,       \* close() has shut the socket down
          pos,        \* bytes the thread has received
          phase,      \* where the thread is
          ask,        \* bytes it asks recv() for
          taken,      \* bytes recieveMessageSize() has stored since it was called
          size,       \* data_size - 4: what is wanted of the packet being read
          capacity,   \* data_buffer_capacity
          delivered,  \* packets given to the callback, each <<first byte, size>>
          closing     \* progress of close()

vars == <<arrived, peer, shut, pos, phase, ask, taken, size, capacity, delivered, closing>>

Total == Start[Len(Rests) + 1]

TypeOK ==
  /\ arrived \in 0..Total /\ pos \in 0..arrived
  /\ peer \in {"sending", "finished", "reset", "absent"}
  /\ shut \in BOOLEAN
  /\ phase \in {"length", "rest", "callback", "ended", "crashed"}
  /\ {ask, taken, size, capacity} \subseteq Nat
  /\ delivered \in Seq(Int \X Nat)
  /\ closing \in {"no", "joining", "closed", "abandoned"}

\* startListening() after open(), which empties data_buffer.  Neither connect()
\* nor startLookingForConnections() looks at what open() returns.
Init ==
  /\ arrived = 0 /\ pos = 0
  /\ peer \in {"sending", "absent"} /\ shut = FALSE
  /\ phase = "length" /\ ask = LengthBytes /\ taken = 0
  /\ size = 0 /\ capacity = 0
  /\ delivered = <<>>
  /\ closing = "no"

-----------------------------------------------------------------------------
(* The network. *)

Arrive ==
  /\ peer = "sending"
  /\ arrived' \in (arrived + 1)..Total
  /\ UNCHANGED <<peer, shut, pos, phase, ask, taken, size, capacity, delivered, closing>>

\* The peer closes its end, or the connection breaks.
PeerEnds ==
  /\ peer = "sending"
  /\ peer' \in {"finished", "reset"}
  /\ UNCHANGED <<arrived, shut, pos, phase, ask, taken, size, capacity, delivered, closing>>

-----------------------------------------------------------------------------
(* recv(): some bytes, 0 at the end of the stream, -1 for an error: the    *)
(* peer has reset the connection, which is reported once, or there has     *)
(* never been one, which every call reports.                               *)

Received == IF ask < arrived - pos THEN ask ELSE arrived - pos

RecvSome  == Received > 0
RecvEnd   == Received = 0 /\ (shut \/ peer = "finished") /\ peer # "absent"
RecvError == Received = 0 /\ ((~shut /\ peer = "reset") \/ peer = "absent")

\* The value of the length that has been read: that of the packet it belongs to.
RestAt(place) == Rests[CHOOSE i \in 1..Len(Rests) : Start[i] = place]

\* Faulty: data_buffer is allocated for the first packet only.
ReadLengthOnce ==
  /\ phase = "length" /\ RecvSome
  /\ pos' = pos + Received
  /\ IF Received = LengthBytes
     THEN /\ phase' = "rest"
          /\ size' = RestAt(pos) /\ ask' = size'
          /\ capacity' = IF capacity = 0 THEN size' ELSE capacity
          /\ taken' = 0
     ELSE /\ ask' = LengthBytes - Received
          /\ taken' = taken + Received
          /\ UNCHANGED <<phase, size, capacity>>
  /\ UNCHANGED <<arrived, peer, shut, delivered, closing>>

(***************************************************************************)
(* recieveMessageSize(), one recv() of it: all of LengthBytes at once is   *)
(* the length, and listenLoop() makes room for the rest; anything less,    *)
(* also in a call that asked for less, leads to another recv() for         *)
(* LengthBytes minus what this one brought.  Bytes stored beyond buffer    *)
(* overwrite the members behind it.                                        *)
(***************************************************************************)
ReadLength ==
  /\ phase = "length" /\ RecvSome
  /\ pos' = pos + Received
  /\ IF Received = LengthBytes
     THEN /\ phase' = "rest"
          /\ size' = RestAt(pos) /\ ask' = size'
          /\ capacity' = IF size' > capacity THEN size' ELSE capacity
          /\ taken' = 0
     ELSE /\ ask' = LengthBytes - Received
          /\ taken' = taken + Received
          /\ phase' \in IF taken' > LengthBytes THEN {"length", "crashed"} ELSE {"length"}
          /\ UNCHANGED <<size, capacity>>
  /\ UNCHANGED <<arrived, peer, shut, delivered, closing>>

\* recv() returns (size_t)-1, which is neither <= 0 nor LengthBytes: once more,
\* for one byte more, one byte lower.  Without a connection that goes on until
\* the stack is used up, or for ever if the compiler has made a loop of it.
LengthError ==
  /\ phase = "length" /\ RecvError
  /\ ask' = LengthBytes + 1
  /\ peer' = IF peer = "reset" THEN "finished" ELSE peer
  /\ phase' \in IF peer = "absent" THEN {"length", "crashed"} ELSE {"length"}
  /\ UNCHANGED <<arrived, shut, pos, taken, size, capacity, delivered, closing>>

\* Faulty: what has arrived is taken for the whole packet.
ReadRestOnce ==
  /\ phase = "rest" /\ RecvSome
  /\ pos' = pos + Received
  /\ ask' = 0
  /\ phase' = "callback"
  /\ UNCHANGED <<arrived, peer, shut, taken, size, capacity, delivered, closing>>

\* Faulty: the bytes asked for are counted.
ReadRestAsked ==
  /\ phase = "rest" /\ RecvSome
  /\ pos' = pos + ask
  /\ ask' = 0
  /\ phase' = "callback"
  /\ UNCHANGED <<arrived, peer, shut, taken, size, capacity, delivered, closing>>

\* listen(), one recv() of it.
ReadRest ==
  /\ phase = "rest" /\ RecvSome
  /\ pos' = pos + Received
  /\ ask' = ask - Received
  /\ phase' = IF ask' = 0 THEN "callback" ELSE "rest"
  /\ UNCHANGED <<arrived, peer, shut, taken, size, capacity, delivered, closing>>

RestError ==
  /\ phase = "rest" /\ RecvError
  /\ ask' = ask + 1
  /\ peer' = "finished"
  /\ UNCHANGED <<arrived, shut, pos, phase, taken, size, capacity, delivered, closing>>

\* The last size bytes received are in data_buffer, from its first place on.
Callback ==
  /\ phase = "callback"
  /\ delivered' = Append(delivered, <<pos - size, size>>)
  /\ phase' = "length" /\ ask' = LengthBytes
  /\ UNCHANGED <<arrived, peer, shut, pos, taken, size, capacity, closing>>

\* Faulty: listen() calls itself again when recv() returns 0.
EndOfLengths ==
  /\ phase = "length" /\ RecvEnd
  /\ phase' = "ended"
  /\ UNCHANGED <<arrived, peer, shut, pos, ask, taken, size, capacity, delivered, closing>>

\* 0 bytes: the loop is left, from either read.
EndOfStream ==
  /\ phase \in {"length", "rest"} /\ RecvEnd
  /\ phase' = "ended"
  /\ UNCHANGED <<arrived, peer, shut, pos, ask, taken, size, capacity, delivered, closing>>

-----------------------------------------------------------------------------
\* close() by another thread: shutdown() wakes the listening thread, which is
\* then joined; data_buffer is freed.  On a socket without a connection, or
\* whose peer has ended first, shutdown() fails on some platforms (ENOTCONN),
\* and then close() returns at once and leaves thread and socket as they are.
Close ==
  /\ closing = "no"
  /\ \/ shut' = TRUE /\ closing' = "joining"
     \/ peer # "sending" /\ shut' = shut /\ closing' = "abandoned"
  /\ UNCHANGED <<arrived, peer, pos, phase, ask, taken, size, capacity, delivered>>

\* Faulty: the thread is not joined.
JoinedEarly ==
  /\ closing = "joining"
  /\ closing' = "closed" /\ capacity' = 0
  /\ UNCHANGED <<arrived, peer, shut, pos, phase, ask, taken, size, delivered>>

Joined ==
  /\ closing = "joining" /\ phase = "ended"
  /\ closing' = "closed" /\ capacity' = 0
  /\ UNCHANGED <<arrived, peer, shut, pos, phase, ask, taken, size, delivered>>

Listen == ReadLength \/ LengthError \/ ReadRest \/ RestError \/ Callback \/ EndOfStream

Next ==
  /\ phase # "crashed"
  /\ Arrive \/ PeerEnds \/ Listen \/ Close \/ Joined

Spec == Init /\ [][Next]_vars

\* The bytes on their way arrive, and the thread goes on when recv() returns.
FairSpec ==
  /\ Spec
  /\ WF_vars(phase # "crashed" /\ Arrive)
  /\ WF_vars(phase # "crashed" /\ Listen)
  /\ WF_vars(phase # "crashed" /\ Joined)

-----------------------------------------------------------------------------
(* Properties *)

(***************************************************************************)
(* What is being read fits into data_buffer, whose memory is reused for    *)
(* later packets and freed by close() (socket_client.cpp:91-111, 185-198). *)
(***************************************************************************)
RestFits ==
  phase \in {"rest", "callback"} => size <= capacity

(***************************************************************************)
(* What is delivered are whole packets, in order and once, however the     *)
(* stream is cut and wherever it ends (socket_client.cpp:163-208).         *)
(***************************************************************************)
Whole ==
  \A i \in 1..Len(delivered) :
    delivered[i] = <<Start[i] + LengthBytes, Rests[i]>>

\* A length has arrived in pieces: recieveMessageSize(), which compares each
\* piece with LengthBytes, does not find it or any other packet any more.
LostTrack == taken > 0

(***************************************************************************)
(* The thread implements PacketStream: every packet that is there is       *)
(* delivered until the stream ends; it ends early only because a length    *)
(* has come in pieces (socket_client.cpp:151-208).                         *)
(***************************************************************************)
Stream == INSTANCE PacketStream
            WITH Count     <- Len(Rests),
                 here      <- Cardinality({i \in 1..Len(Rests) : Start[i + 1] <= arrived}),
                 delivered <- Len(delivered),
                 ended     <- LostTrack \/ phase \in {"ended", "crashed"}

ImplementsStream == Stream!FairSpec

(***************************************************************************)
(* close() of a socket that has been connected returns also when it does   *)
(* not give up at shutdown(): the thread ends after the socket has been    *)
(* shut down, whatever it was reading, unless a length in pieces has made  *)
(* it write where it must not (socket_client.cpp:93-101, 151-159).         *)
(***************************************************************************)
CloseReturns ==
  closing = "joining" /\ peer # "absent" ~> closing = "closed" \/ phase = "crashed"
=============================================================================
