-------------------------- MODULE SocketReaderProofs --------------------------
(***************************************************************************)
(* For packets of any number and any sizes and however the stream is cut   *)
(* into pieces: the types of the listening thread's state, that whatever   *)
(* reaches the callback is the next packet whole, that it fits into the    *)
(* buffer it is read into, and that the thread implements PacketStream.    *)
(***************************************************************************)
EXTENDS SocketReader, FiniteSetTheorems, TLAPS

\* The packet that is next for the callback, and where its last byte ends.
Current == Len(delivered) + 1
End     == Start[Current] + LengthBytes + Rests[Current]

\* No byte will come any more.
Dry == peer # "sending" /\ pos = arrived

(***************************************************************************)
(* The thread's place in the stream.  Between packets it stands at the     *)
(* start of one, unless it has taken a length in pieces: then it asks for  *)
(* fewer bytes than a length has from now on, and so never finds one.      *)
(***************************************************************************)
AtLength ==
  phase = "length" =>
    /\ ask > 0
    /\ \/ Dry
       \/ ask = LengthBytes /\ pos = Start[Current]
       \/ ask < LengthBytes

AtRest ==
  phase = "rest" =>
    /\ ask > 0
    /\ Current <= Len(Rests) /\ size = Rests[Current]
    /\ Dry \/ pos + ask = End

AtCallback ==
  phase = "callback" => Current <= Len(Rests) /\ size = Rests[Current] /\ pos = End

Place == /\ TypeOK /\ Whole /\ RestFits
         /\ Len(delivered) <= Len(Rests)
         /\ AtLength /\ AtRest /\ AtCallback

LEMMA Constants ==
  /\ LengthBytes \in Nat /\ LengthBytes > 0
  /\ Len(Rests) \in Nat
  /\ \A i \in 1..Len(Rests) : Rests[i] \in Nat /\ Rests[i] > 0
  /\ \A i \in 1..(Len(Rests) + 1) : Start[i] \in Nat /\ Start[i] <= Total
  /\ Total \in Nat
<1>1. LengthBytes \in Nat /\ LengthBytes > 0
  BY SizeAssumption
<1>2. Len(Rests) \in Nat /\ \A i \in 1..Len(Rests) : Rests[i] \in Nat \ {0}
  BY SizeAssumption
<1>3. \A i \in 1..(Len(Rests) + 1) : Start[i] \in Nat
  BY PlaceAssumption
<1>4. Len(Rests) + 1 \in 1..(Len(Rests) + 1)
  BY <1>2
<1>5. ASSUME NEW i \in 1..(Len(Rests) + 1) PROVE Start[i] <= Total
  <2>1. CASE i = Len(Rests) + 1
    BY <2>1, <1>3 DEF Total
  <2>2. CASE i < Len(Rests) + 1
    <3>1. Start[i] < Start[Len(Rests) + 1]
      BY <2>2, <1>4, PlaceAssumption
    <3>. QED  BY <3>1, <1>3, <1>4 DEF Total
  <2>. QED  BY <2>1, <2>2, <1>2
<1>. QED  BY <1>1, <1>2, <1>3, <1>4, <1>5 DEF Total

\* The length that is read at the start of a packet is that packet's.
LEMMA LengthFound ==
  ASSUME NEW i \in 1..Len(Rests)
  PROVE  RestAt(Start[i]) = Rests[i]
<1>1. \A k \in 1..Len(Rests) : Start[k] = Start[i] => k = i
  BY Constants, PlaceAssumption
<1>. QED  BY <1>1 DEF RestAt

LEMMA ReadLengthPlace ==
  ASSUME Place, ReadLength
  PROVE  Place'
<1> USE Constants
<1>1. /\ pos \in Nat /\ arrived \in 0..Total /\ pos <= arrived /\ ask \in Nat /\ taken \in Nat
      /\ Len(delivered) \in Nat
  BY DEF Place, TypeOK
<1>2. Received \in Nat /\ Received > 0 /\ Received <= ask /\ pos + Received <= arrived /\ ~Dry
  BY <1>1 DEF ReadLength, RecvSome, Received, Dry
<1>3. CASE Received = LengthBytes
  <2>1. pos = Start[Current]
    BY <1>1, <1>2, <1>3 DEF Place, AtLength, ReadLength
  <2>2. Current \in 1..Len(Rests)
    BY <1>1, <1>2, <2>1 DEF Place, Current, Total
  <2>3. RestAt(pos) = Rests[Current]
    BY <2>1, <2>2, LengthFound
  <2>4. /\ phase' = "rest" /\ ask' = Rests[Current] /\ size' = Rests[Current]
        /\ pos' = Start[Current] + LengthBytes
        /\ capacity' \in Nat /\ size' <= capacity' /\ taken' = 0
        /\ UNCHANGED <<arrived, peer, shut, delivered, closing>>
    BY <1>3, <2>1, <2>2, <2>3 DEF ReadLength, Place, TypeOK
  <2>5. TypeOK'
    BY <1>1, <1>2, <1>3, <2>1, <2>2, <2>4, SMTT(20) DEF Place, TypeOK
  <2>. QED
    BY <1>1, <2>2, <2>4, <2>5
    DEF Place, Whole, RestFits, AtLength, AtRest, AtCallback, Current, End
<1>4. CASE Received # LengthBytes
  <2>1. ask <= LengthBytes
    BY <1>1, <1>2 DEF Place, AtLength, ReadLength
  <2>2. /\ phase' \in {"length", "crashed"} /\ pos' = pos + Received
        /\ ask' = LengthBytes - Received /\ taken' = taken + Received
        /\ UNCHANGED <<arrived, peer, shut, size, capacity, delivered, closing>>
    BY <1>4 DEF ReadLength
  <2>3. ask' \in Nat /\ ask' > 0 /\ ask' < LengthBytes
    BY <1>1, <1>2, <1>4, <2>1, <2>2
  <2>4. TypeOK'
    BY <1>1, <1>2, <2>2, <2>3 DEF Place, TypeOK
  <2>. QED
    BY <2>2, <2>3, <2>4 DEF Place, Whole, RestFits, AtLength, AtRest, AtCallback, Current
<1>. QED  BY <1>3, <1>4

LEMMA ReadRestPlace ==
  ASSUME Place, ReadRest
  PROVE  Place'
<1> USE Constants
<1>1. /\ pos \in Nat /\ arrived \in 0..Total /\ pos <= arrived /\ ask \in Nat
      /\ Len(delivered) \in Nat
  BY DEF Place, TypeOK
<1>2. Received \in Nat /\ Received > 0 /\ Received <= ask /\ pos + Received <= arrived /\ ~Dry
  BY <1>1 DEF ReadRest, RecvSome, Received, Dry
<1>3. Current \in 1..Len(Rests) /\ size = Rests[Current] /\ pos + ask = End
  BY <1>1, <1>2 DEF Place, AtRest, ReadRest, Current
<1>4. /\ pos' = pos + Received /\ ask' = ask - Received
      /\ phase' = IF ask' = 0 THEN "callback" ELSE "rest"
      /\ UNCHANGED <<arrived, peer, shut, taken, size, capacity, delivered, closing>>
  BY DEF ReadRest
<1>5. TypeOK'
  BY <1>1, <1>2, <1>4 DEF Place, TypeOK
<1>6. End \in Nat /\ End' = End /\ Current' = Current
  BY <1>3, <1>4, PlaceAssumption DEF End, Current
<1>7. Current <= Len(Rests) /\ Current' <= Len(Rests)' /\ size' = Rests[Current']
  BY <1>3, <1>4, <1>6
<1>8. ask' = 0 => pos' = End'
  BY <1>1, <1>2, <1>3, <1>4, <1>6
<1>9. ask' # 0 => ask' > 0 /\ pos' + ask' = End'
  BY <1>1, <1>2, <1>3, <1>4, <1>6
<1>10. AtLength' /\ AtRest' /\ AtCallback'
  BY <1>4, <1>7, <1>8, <1>9 DEF AtLength, AtRest, AtCallback
<1>11. Whole' /\ RestFits' /\ Len(delivered') <= Len(Rests)
  BY <1>4 DEF Place, Whole, RestFits, ReadRest
<1>. QED
  BY <1>5, <1>10, <1>11 DEF Place

\* recv() fails: from now on there is nothing more to come.
LEMMA ErrorPlace ==
  ASSUME Place, LengthError \/ RestError
  PROVE  Place'
<1> USE Constants
<1>1. /\ pos \in Nat /\ arrived \in 0..Total /\ pos <= arrived /\ ask \in Nat
  BY DEF Place, TypeOK
<1>2. Dry'
  <2>1. ask > 0
    BY DEF Place, AtLength, AtRest, LengthError, RestError
  <2>2. pos = arrived /\ peer \in {"reset", "absent"}
    BY <1>1, <2>1 DEF LengthError, RestError, RecvError, Received
  <2>. QED  BY <2>2 DEF LengthError, RestError, Dry
<1>3. /\ ask' \in Nat /\ ask' > 0
      /\ peer' \in {"finished", "absent"}
      /\ phase' \in {phase, "crashed"}
      /\ UNCHANGED <<arrived, shut, pos, taken, size, capacity, delivered, closing>>
  BY <1>1 DEF LengthError, RestError, RecvError, Place, TypeOK
<1>4. TypeOK'
  BY <1>3 DEF Place, TypeOK
<1>. QED
  BY <1>2, <1>3, <1>4
  DEF Place, Whole, RestFits, AtLength, AtRest, AtCallback, Current, LengthError, RestError

LEMMA CallbackPlace ==
  ASSUME Place, Callback
  PROVE  Place'
<1> USE Constants
<1>1. /\ pos \in Nat /\ arrived \in 0..Total /\ size \in Nat /\ Len(delivered) \in Nat
      /\ delivered \in Seq(Int \X Nat)
  BY DEF Place, TypeOK
<1>2. Current \in 1..Len(Rests) /\ size = Rests[Current] /\ pos = End
  BY <1>1 DEF Place, AtCallback, Callback, Current
<1>3. pos - size = Start[Current] + LengthBytes /\ pos = Start[Current + 1]
  BY <1>2, PlaceAssumption DEF End
<1>4. /\ delivered' = Append(delivered, <<Start[Current] + LengthBytes, Rests[Current]>>)
      /\ phase' = "length" /\ ask' = LengthBytes
      /\ UNCHANGED <<arrived, peer, shut, pos, taken, size, capacity, closing>>
  BY <1>2, <1>3 DEF Callback
<1>5. /\ delivered' \in Seq(Int \X Nat) /\ Len(delivered') = Current
      /\ \A i \in 1..Len(delivered) : delivered'[i] = delivered[i]
      /\ delivered'[Current] = <<Start[Current] + LengthBytes, Rests[Current]>>
  <2> DEFINE packet == <<Start[Current] + LengthBytes, Rests[Current]>>
  <2>1. packet \in Int \X Nat
    BY <1>2, PlaceAssumption
  <2>2. delivered' = Append(delivered, packet)
    BY <1>4
  <2>3. Current = Len(delivered) + 1
    BY DEF Current
  <2> HIDE DEF packet
  <2>4. /\ delivered' \in Seq(Int \X Nat) /\ Len(delivered') = Current
        /\ \A i \in 1..Len(delivered) : delivered'[i] = delivered[i]
        /\ delivered'[Current] = packet
    BY <1>1, <2>1, <2>2, <2>3
  <2>. QED  BY <2>4 DEF packet
<1>6. Whole'
  <2>1. \A i \in 1..Len(delivered') : i \in 1..Len(delivered) \/ i = Current
    BY <1>1, <1>5 DEF Current
  <2>. QED  BY <1>5, <2>1 DEF Place, Whole
<1>7. TypeOK'
  BY <1>1, <1>4, <1>5 DEF Place, TypeOK
<1>8. Current' = Current + 1
  BY <1>5 DEF Current
<1>9. AtLength' /\ AtRest' /\ AtCallback'
  BY <1>3, <1>4, <1>8 DEF AtLength, AtRest, AtCallback
<1>10. RestFits' /\ Len(delivered') <= Len(Rests)
  BY <1>2, <1>4, <1>5 DEF RestFits
<1>. QED
  BY <1>6, <1>7, <1>9, <1>10 DEF Place

LEMMA PlaceInduction == Spec => []Place
<1> USE Constants
<1>1. ASSUME Init PROVE Place
  <2>1. TypeOK
    <3>1. 0 \in 0..Total /\ 0 \in 0..0 /\ {LengthBytes, 0} \subseteq Nat
      OBVIOUS
    <3>2. delivered \in Seq(Int \X Nat)
      BY <1>1 DEF Init
    <3>. QED  BY <1>1, <3>1, <3>2 DEF Init, TypeOK
  <2>2. delivered = <<>> /\ pos = Start[1] /\ phase = "length" /\ ask = LengthBytes
    BY <1>1, PlaceAssumption DEF Init
  <2>3. Len(delivered) = 0 /\ Current = 1
    BY <2>2 DEF Current
  <2>4. Whole
    BY <2>3 DEF Whole
  <2>5. RestFits /\ AtLength /\ AtRest /\ AtCallback
    BY <2>2, <2>3 DEF RestFits, AtLength, AtRest, AtCallback
  <2>. QED
    BY <2>1, <2>3, <2>4, <2>5 DEF Place
<1>2. Place /\ [Next]_vars => Place'
  <2> SUFFICES ASSUME Place, [Next]_vars PROVE Place'
    OBVIOUS
  <2> USE DEF Whole, RestFits, AtLength, AtRest, AtCallback, Current, End, Dry
  <2>1. CASE Arrive
    <3>1. peer = "sending" /\ arrived' \in arrived..Total
      BY <2>1 DEF Arrive, Place, TypeOK
    <3>2. TypeOK'
      BY <2>1, <3>1 DEF Arrive, Place, TypeOK
    <3>. QED  BY <2>1, <3>1, <3>2 DEF Arrive, Place
  <2>2. CASE PeerEnds
    <3>1. TypeOK'
      BY <2>2 DEF PeerEnds, Place, TypeOK
    <3>. QED  BY <2>2, <3>1 DEF PeerEnds, Place
  <2>3. CASE EndOfStream
    <3>1. TypeOK'
      BY <2>3 DEF EndOfStream, Place, TypeOK
    <3>. QED  BY <2>3, <3>1 DEF EndOfStream, Place
  <2>4. CASE Close
    <3>1. TypeOK'
      BY <2>4 DEF Close, Place, TypeOK
    <3>. QED  BY <2>4, <3>1 DEF Close, Place
  <2>5. CASE Joined
    <3>1. TypeOK'
      BY <2>5 DEF Joined, Place, TypeOK
    <3>. QED  BY <2>5, <3>1 DEF Joined, Place
  <2>6. CASE UNCHANGED vars
    <3>1. TypeOK'
      BY <2>6 DEF vars, Place, TypeOK
    <3>. QED  BY <2>6, <3>1 DEF vars, Place
  <2>. QED
    BY <2>1, <2>2, <2>3, <2>4, <2>5, <2>6, ReadLengthPlace, ReadRestPlace, ErrorPlace,
       CallbackPlace
    DEF Next, Listen
<1>. QED  BY <1>1, <1>2, PTL DEF Spec

(***************************************************************************)
(* Type correctness of the listening thread (socket_client.h:28-34).       *)
(***************************************************************************)
THEOREM TypeCorrect == Spec => []TypeOK
<1>1. Place => TypeOK
  BY DEF Place
<1>. QED  BY <1>1, PlaceInduction, PTL

(***************************************************************************)
(* What reaches the callback is a prefix of the packets sent, each whole   *)
(* (socket_client.cpp:151-208).                                            *)
(***************************************************************************)
THEOREM DeliversWhole == Spec => []Whole
<1>1. Place => Whole
  BY DEF Place
<1>. QED  BY <1>1, PlaceInduction, PTL

(***************************************************************************)
(* data_buffer is always large enough (socket_client.cpp:185-198).         *)
(***************************************************************************)
THEOREM BufferHolds == Spec => []RestFits
<1>1. Place => RestFits
  BY DEF Place
<1>. QED  BY <1>1, PlaceInduction, PTL

-----------------------------------------------------------------------------
(* The thread implements PacketStream *)

\* After a length has come in pieces the thread finds no packet any more.
Tracked ==
  /\ phase \in {"rest", "callback"} => taken = 0
  /\ phase = "length" => Dry \/ taken = 0 \/ ask < LengthBytes

\* The packets that have arrived with their last byte.
Here == {i \in 1..Len(Rests) : Start[i + 1] <= arrived}

LEMMA CountTo ==
  ASSUME NEW n \in Nat
  PROVE  IsFiniteSet(1..n) /\ Cardinality(1..n) = n
<1>1. IsFiniteSet(1..n) /\ Cardinality(1..n) = IF 1 > n THEN 0 ELSE n - 1 + 1
  BY FS_Interval
<1>. QED  BY <1>1

LEMMA HereType == IsFiniteSet(Here) /\ Cardinality(Here) \in 0..Len(Rests)
<1>1. IsFiniteSet(1..Len(Rests)) /\ Cardinality(1..Len(Rests)) = Len(Rests)
  BY Constants, CountTo
<1>2. Here \subseteq 1..Len(Rests)
  BY DEF Here
<1>3. /\ IsFiniteSet(Here) /\ Cardinality(Here) \in Nat
      /\ Cardinality(Here) <= Cardinality(1..Len(Rests))
  BY <1>1, <1>2, FS_Subset, FS_CardinalityType
<1>. QED  BY <1>1, <1>3, Constants

LEMMA TrackedStep == Place /\ Tracked /\ [Next]_vars => Tracked'
<1> SUFFICES ASSUME Place, Tracked, [Next]_vars PROVE Tracked'
  OBVIOUS
<1> USE Constants
<1>1. /\ pos \in Nat /\ arrived \in 0..Total /\ pos <= arrived /\ ask \in Nat /\ taken \in Nat
  BY DEF Place, TypeOK
<1>2. CASE ReadLength
  <2>1. Received \in Nat /\ Received > 0 /\ Received <= ask /\ ~Dry
    BY <1>1, <1>2 DEF ReadLength, RecvSome, Received, Dry
  <2>2. ask <= LengthBytes
    BY <1>1, <1>2, <2>1 DEF Place, AtLength, ReadLength
  <2>. QED  BY <1>1, <1>2, <2>1, <2>2 DEF ReadLength, Tracked
<1>3. CASE LengthError \/ RestError
  <2>1. ask > 0
    BY <1>3 DEF Place, AtLength, AtRest, LengthError, RestError
  <2>2. pos = arrived /\ peer \in {"reset", "absent"}
    BY <1>1, <1>3, <2>1 DEF LengthError, RestError, RecvError, Received
  <2>. QED  BY <1>3, <2>2 DEF LengthError, RestError, Tracked, Dry
<1>4. CASE ReadRest
  BY <1>4 DEF ReadRest, Tracked
<1>5. CASE Callback
  BY <1>5 DEF Callback, Tracked
<1>6. CASE Arrive \/ PeerEnds
  BY <1>1, <1>6 DEF Arrive, PeerEnds, Tracked, Dry
<1>7. CASE EndOfStream \/ Close \/ Joined \/ UNCHANGED vars
  BY <1>7 DEF EndOfStream, Close, Joined, vars, Tracked, Dry
<1>. QED  BY <1>2, <1>3, <1>4, <1>5, <1>6, <1>7 DEF Next, Listen

LEMMA TrackedInduction == Spec => [](Place /\ Tracked)
<1>1. Init => Tracked
  BY DEF Init, Tracked
<1>. QED  BY <1>1, TrackedStep, PlaceInduction, PTL DEF Spec

\* What PacketStream sees of the thread.
Ended == LostTrack \/ phase \in {"ended", "crashed"}

LEMMA StreamUnchanged ==
  ASSUME UNCHANGED <<arrived, delivered>>, Ended' = Ended
  PROVE  UNCHANGED Stream!vars
BY DEF Stream!vars, Ended, LostTrack

LEMMA StreamEnds ==
  ASSUME UNCHANGED <<arrived, delivered>>, Ended'
  PROVE  Stream!End \/ UNCHANGED Stream!vars
<1>1. CASE Ended
  <2>1. Ended' = Ended
    BY <1>1 DEF Ended, LostTrack
  <2>. QED  BY <2>1, StreamUnchanged
<1>2. CASE ~Ended
  BY <1>2 DEF Stream!End, Ended, LostTrack
<1>. QED  BY <1>1, <1>2

LEMMA StreamArrives ==
  ASSUME Place, Place', Arrive
  PROVE  Stream!Arrive \/ UNCHANGED Stream!vars
<1>1. arrived \in Nat /\ arrived' \in Nat /\ arrived < arrived'
  BY Constants DEF Arrive, Place, TypeOK
<1>2. UNCHANGED delivered /\ Ended' = Ended
  BY DEF Arrive, Ended, LostTrack
<1>3. Here \subseteq Here'
  BY <1>1, PlaceAssumption, Constants DEF Here
<1>4. /\ Cardinality(Here) \in 0..Len(Rests) /\ Cardinality(Here') \in 0..Len(Rests)
      /\ Cardinality(Here) <= Cardinality(Here')
  <2>1. IsFiniteSet(Here') /\ Cardinality(Here') \in 0..Len(Rests)
    <3>1. IsFiniteSet(1..Len(Rests)) /\ Cardinality(1..Len(Rests)) = Len(Rests)
      BY Constants, CountTo
    <3>2. Here' \subseteq 1..Len(Rests)
      BY DEF Here
    <3>3. /\ IsFiniteSet(Here') /\ Cardinality(Here') \in Nat
          /\ Cardinality(Here') <= Cardinality(1..Len(Rests))
      BY <3>1, <3>2, FS_Subset, FS_CardinalityType
    <3>. QED  BY <3>1, <3>3, Constants
  <2>. QED  BY <1>3, <2>1, HereType, FS_Subset
<1>5. CASE Cardinality(Here') = Cardinality(Here)
  BY <1>2, <1>5 DEF Stream!vars, Here, Ended, LostTrack
<1>6. CASE Cardinality(Here') # Cardinality(Here)
  <2>1. Cardinality(Here') \in (Cardinality(Here) + 1)..Len(Rests)
    BY <1>4, <1>6, Constants
  <2>. QED  BY <1>2, <2>1 DEF Stream!Arrive, Here, Ended, LostTrack
<1>. QED  BY <1>5, <1>6

LEMMA StreamDelivers ==
  ASSUME Place, Tracked, Callback
  PROVE  Stream!Deliver
<1> USE Constants
<1>1. /\ pos \in Nat /\ arrived \in 0..Total /\ pos <= arrived /\ Len(delivered) \in Nat
      /\ delivered \in Seq(Int \X Nat)
  BY DEF Place, TypeOK
<1>2. Current \in 1..Len(Rests) /\ pos = End
  BY <1>1 DEF Place, AtCallback, Callback, Current
<1>3. Start[Current + 1] <= arrived
  BY <1>1, <1>2, PlaceAssumption DEF End
<1>4. 1..Current \subseteq Here
  <2> SUFFICES ASSUME NEW i \in 1..Current PROVE Start[i + 1] <= arrived /\ i \in 1..Len(Rests)
    BY DEF Here
  <2>1. i \in 1..Len(Rests) /\ i + 1 \in 1..(Len(Rests) + 1) /\ i <= Current
    BY <1>2
  <2>2. CASE i = Current
    BY <1>3, <2>1, <2>2
  <2>3. CASE i < Current
    <3>1. i + 1 < Current + 1 /\ Current + 1 \in 1..(Len(Rests) + 1)
      BY <1>2, <2>1, <2>3
    <3>2. Start[i + 1] < Start[Current + 1]
      BY <2>1, <3>1, PlaceAssumption
    <3>. QED  BY <1>1, <1>3, <2>1, <3>1, <3>2
  <2>4. Current \in Nat
    BY <1>2
  <2>. QED  BY <2>1, <2>2, <2>3, <2>4
<1>5. Cardinality(Here) >= Current
  <2>1. Cardinality(1..Current) = Current /\ Current \in Nat
    BY <1>2, CountTo
  <2>2. Cardinality(1..Current) <= Cardinality(Here)
    BY <1>4, HereType, FS_Subset
  <2>. QED  BY <2>1, <2>2, HereType
<1>6. Len(delivered) < Cardinality(Here)
  BY <1>1, <1>2, <1>5, HereType DEF Current
<1>7. ~Ended /\ Ended' = Ended
  BY DEF Tracked, Callback, Ended, LostTrack
<1>8. Len(delivered') = Len(delivered) + 1 /\ UNCHANGED arrived
  <2>1. <<pos - size, size>> \in Int \X Nat
    BY <1>1 DEF Place, TypeOK
  <2>2. delivered' = Append(delivered, <<pos - size, size>>)
    BY DEF Callback
  <2> DEFINE packet == <<pos - size, size>>
  <2> HIDE DEF packet
  <2>3. Len(Append(delivered, packet)) = Len(delivered) + 1
    BY <1>1, <2>1 DEF packet
  <2>. QED  BY <2>2, <2>3 DEF Callback, packet
<1>. QED  BY <1>6, <1>7, <1>8 DEF Stream!Deliver, Here, Ended, LostTrack

LEMMA StreamStep ==
  Place /\ Place' /\ Tracked /\ [Next]_vars => [Stream!Next]_(Stream!vars)
<1> SUFFICES ASSUME Place, Place', Tracked, [Next]_vars
             PROVE  Stream!Next \/ UNCHANGED Stream!vars
  OBVIOUS
<1>1. /\ pos \in Nat /\ arrived \in Nat /\ pos <= arrived /\ ask \in Nat /\ taken \in Nat
  BY Constants DEF Place, TypeOK
<1>2. CASE Arrive
  BY <1>2, StreamArrives DEF Stream!Next
<1>3. CASE ReadLength
  <2>1. Received \in Nat /\ Received > 0 /\ Received <= ask /\ ~Dry
    BY <1>1, <1>3 DEF ReadLength, RecvSome, Received, Dry
  <2>2. CASE Received = LengthBytes
    <3>1. taken = 0
      BY <1>1, <1>3, <2>1, <2>2, Constants DEF Tracked, ReadLength
    <3>2. phase = "length" /\ phase' = "rest" /\ taken' = 0 /\ UNCHANGED <<arrived, delivered>>
      BY <1>3, <2>2 DEF ReadLength
    <3>3. Ended' = Ended
      BY <3>1, <3>2 DEF Ended, LostTrack
    <3>. QED  BY <3>2, <3>3, StreamUnchanged
  <2>3. CASE Received # LengthBytes
    <3>1. taken' > 0 /\ UNCHANGED <<arrived, delivered>>
      BY <1>1, <1>3, <2>1, <2>3 DEF ReadLength
    <3>2. Ended'
      BY <3>1 DEF Ended, LostTrack
    <3>. QED  BY <3>1, <3>2, StreamEnds DEF Stream!Next
  <2>. QED  BY <2>2, <2>3
<1>4. CASE LengthError
  <2>1. UNCHANGED <<arrived, delivered, taken>> /\ phase = "length"
        /\ phase' \in {"length", "crashed"}
    BY <1>4 DEF LengthError
  <2>2. CASE phase' = "crashed"
    BY <2>1, <2>2, StreamEnds DEF Ended, Stream!Next
  <2>3. CASE phase' = "length"
    BY <2>1, <2>3, StreamUnchanged DEF Ended, LostTrack
  <2>. QED  BY <2>1, <2>2, <2>3
<1>5. CASE ReadRest \/ RestError
  <2>1. /\ UNCHANGED <<arrived, delivered, taken>> /\ phase = "rest"
        /\ phase' \in {"rest", "callback"}
    BY <1>5 DEF ReadRest, RestError
  <2>. QED  BY <2>1, StreamUnchanged DEF Ended, LostTrack
<1>6. CASE Callback
  BY <1>6, StreamDelivers DEF Stream!Next
<1>7. CASE EndOfStream
  BY <1>7, StreamEnds DEF EndOfStream, Ended, Stream!Next
<1>8. CASE PeerEnds \/ Close \/ Joined \/ UNCHANGED vars
  <2>1. UNCHANGED <<arrived, delivered, taken, phase>>
    BY <1>8 DEF PeerEnds, Close, Joined, vars
  <2>. QED  BY <2>1, StreamUnchanged DEF Ended, LostTrack
<1>. QED  BY <1>2, <1>3, <1>4, <1>5, <1>6, <1>7, <1>8 DEF Next, Listen

(***************************************************************************)
(* The thread hands over the packets that reach it in order, each once and *)
(* not before its last byte is there; when a length has come in pieces, or *)
(* the stream has ended, it hands over nothing any more                    *)
(* (socket_client.cpp:151-208).                                            *)
(***************************************************************************)
THEOREM ReadsAStream == Spec => Stream!Spec
<1>1. Init => Stream!Init
  <2> SUFFICES ASSUME Init PROVE Stream!Init
    OBVIOUS
  <2>1. Here = {}
    <3> SUFFICES ASSUME NEW i \in 1..Len(Rests), Start[i + 1] <= 0 PROVE FALSE
      BY DEF Init, Here
    <3>1. 1 \in 1..(Len(Rests) + 1) /\ i + 1 \in 1..(Len(Rests) + 1) /\ 1 < i + 1
      BY Constants
    <3>2. Start[1] < Start[i + 1] /\ Start[1] = 0 /\ Start[i + 1] \in Nat
      BY <3>1, PlaceAssumption, Constants
    <3>. QED  BY <3>2
  <2>2. Cardinality(Here) = 0
    BY <2>1, FS_EmptySet
  <2>3. ~Ended /\ Len(delivered) = 0
    BY DEF Init, Ended, LostTrack
  <2>. QED  BY <2>2, <2>3 DEF Stream!Init, Here, Ended, LostTrack
<1>. QED
  BY <1>1, StreamStep, TrackedInduction, PTL DEF Spec, Stream!Spec
=============================================================================
