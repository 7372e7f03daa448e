-------------------------- MODULE SocketStreamProofs --------------------------
(***************************************************************************)
(* For any number of sending threads and any packets in any parts: the     *)
(* stream they make on one socket is one that SocketReader takes for       *)
(* granted, so that its theorems hold of it, and send_mutex keeps the      *)
(* parts of every packet together and lets close() cut off none.           *)
(***************************************************************************)
EXTENDS SocketStream, SocketReaderProofs

-----------------------------------------------------------------------------
(* The reading end *)

\* Every step of the two ends is one of the reader, or none of its business.
LEMMA ReaderStep == [StreamNext]_streamVars => [Next]_vars
<1>1. ASSUME StreamNext PROVE [Next]_vars
  <2>1. CASE \E s \in Senders : Send(s) \/ Write(s) \/ SendReturns(s)
    BY <2>1 DEF Send, Write, SendReturns
  <2>2. CASE LockToClose \/ Shutdown
    BY <2>2 DEF LockToClose, Shutdown
  <2>3. CASE Carry \/ EndArrives \/ Snap
    BY <1>1, <2>3 DEF StreamNext, Carry, EndArrives, Snap, Next
  <2>4. CASE (Listen \/ Close \/ Joined) /\ UNCHANGED sendVars
    BY <1>1, <2>4 DEF StreamNext, Next
  <2>. QED  BY <1>1, <2>1, <2>2, <2>3, <2>4 DEF StreamNext
<1>2. UNCHANGED streamVars => UNCHANGED vars
  BY DEF streamVars
<1>. QED  BY <1>1, <1>2

(***************************************************************************)
(* What the senders make of the socket is a stream as SocketReader has it  *)
(* (socket_client.cpp:91-145).                                             *)
(***************************************************************************)
THEOREM StreamIsRead == StreamSpec => Spec
<1>1. StreamInit => Init
  BY DEF StreamInit
<1>. QED  BY <1>1, ReaderStep, PTL DEF StreamSpec, Spec

(***************************************************************************)
(* Whoever sends, only whole packets in order reach the callback           *)
(* (socket_client.cpp:113-208).                                            *)
(***************************************************************************)
THEOREM SentIsDeliveredWhole == StreamSpec => []Whole
  BY StreamIsRead, DeliversWhole, PTL

(***************************************************************************)
(* data_buffer is large enough for whatever is sent                        *)
(* (socket_client.cpp:185-198).                                            *)
(***************************************************************************)
THEOREM SentFits == StreamSpec => []RestFits
  BY StreamIsRead, BufferHolds, PTL

-----------------------------------------------------------------------------
(* The sending end *)

\* The last part that has been written is part j of packet i; for j = 0, that of the
\* packet before.
WrittenUpTo(i, j) ==
  IF j > 0 THEN wire # <<>> /\ wire[Len(wire)] = <<i, j>>
  ELSE IF i = 1 THEN wire = <<>>
  ELSE wire # <<>> /\ wire[Len(wire)] = <<i - 1, Len(Cuts[i - 1])>>

SendTypeOK ==
  /\ mutex \in Senders \cup {Closer, NoOne}
  /\ sending \in [Senders -> (0..Len(Rests)) \X Nat]
  /\ begun \in 0..Len(Rests)
  /\ wire \in Seq((1..Len(Rests)) \X Nat)
  /\ {closed, broken} \subseteq BOOLEAN

\* Who holds the mutex sends the packet that was begun last, and nobody else sends.
Holding ==
  \A s \in Senders :
    /\ sending[s] # Nothing <=> mutex = s
    /\ sending[s] # Nothing => /\ sending[s][1] = begun /\ begun > 0
                               /\ sending[s][2] \in 1..(Len(Cuts[begun]) + 1)

\* Until the connection ends the parts written are all those that were to be.
UpToDate ==
  Open =>
    /\ \A s \in Senders : mutex = s => WrittenUpTo(begun, sending[s][2] - 1)
    /\ mutex \notin Senders =>
         IF begun = 0 THEN wire = <<>> ELSE WrittenUpTo(begun, Len(Cuts[begun]))

SendInv == SendTypeOK /\ Holding /\ UpToDate /\ PartsTogether

LEMMA CutFacts ==
  \A i \in 1..Len(Rests) : Cuts[i] \in Seq(Nat) /\ Len(Cuts[i]) \in Nat /\ Len(Cuts[i]) > 0
  BY CutAssumption

\* An ended connection does not come back.
LEMMA OpenStays == [StreamNext]_streamVars /\ Open' => Open
<1>1. ASSUME [Next]_vars, peer' = "sending" PROVE peer = "sending"
  BY <1>1 DEF Next, vars, Arrive, PeerEnds, Listen, Close, Joined, ReadLength, LengthError,
     ReadRest, RestError, Callback, EndOfStream
<1>2. ASSUME [StreamNext]_streamVars, ~closed', ~broken'
      PROVE  ~closed /\ ~broken
  BY <1>2 DEF StreamNext, streamVars, sendVars, Send, Write, SendReturns, LockToClose, Shutdown,
     Carry, EndArrives, Snap
<1>. QED  BY <1>1, <1>2, ReaderStep DEF Open

LEMMA SendKeeps ==
  ASSUME SendInv, NEW s \in Senders, Send(s)
  PROVE  SendInv'
<1> USE SenderAssumption DEF SendInv
<1>1. mutex = NoOne /\ mutex' = s /\ begun < Len(Rests) /\ begun' = begun + 1
      /\ sending' = [sending EXCEPT ![s] = <<begun + 1, 1>>]
      /\ UNCHANGED <<vars, wire, sent, closed, broken>>
  BY DEF Send
<1>2. begun \in Nat /\ Len(Rests) \in Nat /\ begun + 1 \in 1..Len(Rests)
  BY <1>1, CutFacts, Constants DEF SendTypeOK
<1>3. SendTypeOK'
  BY <1>1, <1>2 DEF SendTypeOK
<1>4. \A t \in Senders : sending[t] = Nothing
  BY <1>1 DEF Holding
<1>5. sending'[s] = <<begun + 1, 1>> /\ \A t \in Senders : t # s => sending'[t] = Nothing
  BY <1>1, <1>4 DEF SendTypeOK
<1>6. Holding'
  BY <1>1, <1>2, <1>5, CutFacts DEF Holding, Nothing
<1>7. UpToDate'
  <2>1. SUFFICES ASSUME Open PROVE WrittenUpTo(begun + 1, 0)
    BY <1>1, <1>5 DEF UpToDate, Open, vars, WrittenUpTo
  <2>2. mutex \notin Senders
    BY <1>1
  <2>3. CASE begun = 0
    BY <2>1, <2>2, <2>3 DEF UpToDate, WrittenUpTo
  <2>4. CASE begun # 0
    <3>1. WrittenUpTo(begun, Len(Cuts[begun])) /\ Len(Cuts[begun]) > 0
      BY <1>2, <2>1, <2>2, <2>4, CutFacts DEF UpToDate
    <3>. QED  BY <3>1, <1>2, <2>4 DEF WrittenUpTo
  <2>. QED  BY <2>3, <2>4
<1>8. PartsTogether'
  BY <1>1 DEF PartsTogether
<1>. QED  BY <1>3, <1>6, <1>7, <1>8

LEMMA WriteKeeps ==
  ASSUME SendInv, NEW s \in Senders, Write(s)
  PROVE  SendInv'
<1> DEFINE j == sending[s][2]
<1> USE SenderAssumption DEF SendInv
<1>1. sending[s] # Nothing /\ sending[s][1] = begun /\ begun > 0 /\ mutex = s
      /\ begun \in 1..Len(Rests)
  BY DEF Write, Holding, SendTypeOK
<1>2. j \in 1..Len(Cuts[begun]) /\ Len(Cuts[begun]) \in Nat
  BY <1>1, CutFacts DEF Write, Parts
<1>3. sending' = [sending EXCEPT ![s] = <<begun, j + 1>>] /\ UNCHANGED <<vars, mutex, begun, closed, broken>>
  BY <1>1 DEF Write
<1>4. sending'[s] = <<begun, j + 1>> /\ \A t \in Senders : t # s => sending'[t] = sending[t]
  BY <1>3 DEF SendTypeOK
<1>5. Holding'
  BY <1>1, <1>2, <1>3, <1>4 DEF Holding, Nothing
<1>6. CASE ~Open
  <2>1. UNCHANGED wire /\ ~Open'
    BY <1>3, <1>6 DEF Write, Open, vars
  <2>2. SendTypeOK'
    BY <1>1, <1>2, <1>3, <2>1 DEF SendTypeOK
  <2>. QED  BY <1>5, <2>1, <2>2 DEF UpToDate, PartsTogether
<1>7. CASE Open
  <2>1. wire' = Append(wire, <<begun, j>>)
    BY <1>1, <1>7 DEF Write
  <2>2. wire \in Seq((1..Len(Rests)) \X Nat) /\ <<begun, j>> \in (1..Len(Rests)) \X Nat
    BY <1>1, <1>2 DEF SendTypeOK
  <2>3. Len(wire') = Len(wire) + 1 /\ wire' # <<>> /\ wire'[Len(wire')] = <<begun, j>>
        /\ \A n \in 1..Len(wire) : wire'[n] = wire[n]
    BY <2>1, <2>2
  <2>4. SendTypeOK'
    BY <1>1, <1>2, <1>3, <2>1, <2>2 DEF SendTypeOK
  <2>5. UpToDate'
    <3>1. (j + 1) - 1 = j /\ j > 0
      BY <1>2
    <3>2. SUFFICES ASSUME NEW t \in Senders, mutex' = t PROVE WrittenUpTo(begun, sending[t][2] - 1)'
      BY <1>1, <1>3 DEF UpToDate
    <3>3. t = s
      BY <1>1, <1>3, <3>2
    <3>4. sending'[s][2] - 1 = j
      BY <1>4, <3>1
    <3>. QED  BY <1>3, <2>3, <3>1, <3>3, <3>4 DEF WrittenUpTo
  <2>6. WrittenUpTo(begun, j - 1)
    BY <1>1, <1>7 DEF UpToDate
  <2>7. PartsTogether'
    <3>1. SUFFICES ASSUME NEW n \in 1..Len(wire')
                   PROVE  LET i == wire'[n][1] IN
                          LET k == wire'[n][2] IN
                          IF k > 1 THEN n > 1 /\ wire'[n - 1] = <<i, k - 1>>
                          ELSE IF n = 1 THEN i = 1
                          ELSE wire'[n - 1] = <<i - 1, Len(Cuts[i - 1])>>
      BY DEF PartsTogether
    <3>2. Len(wire) \in Nat
      BY <2>2
    <3>3. CASE n \in 1..Len(wire)
      <4>1. n # 1 => n - 1 \in 1..Len(wire)
        BY <3>2, <3>3
      <4>. QED  BY <2>3, <3>3, <4>1 DEF PartsTogether
    <3>4. CASE n = Len(wire) + 1
      <4>1. wire'[n] = <<begun, j>>
        BY <2>3, <3>4
      <4>2. CASE j > 1
        <5>1. wire # <<>> /\ wire[Len(wire)] = <<begun, j - 1>>
          BY <1>2, <2>6, <4>2 DEF WrittenUpTo
        <5>2. Len(wire) > 0
          BY <2>2, <5>1
        <5>. QED  BY <2>3, <3>2, <3>4, <4>1, <4>2, <5>1, <5>2
      <4>3. CASE j = 1 /\ begun = 1
        BY <2>2, <2>6, <3>2, <3>4, <4>1, <4>3 DEF WrittenUpTo
      <4>4. CASE j = 1 /\ begun # 1
        <5>1. wire # <<>> /\ wire[Len(wire)] = <<begun - 1, Len(Cuts[begun - 1])>>
          BY <2>6, <4>4 DEF WrittenUpTo
        <5>2. Len(wire) > 0
          BY <2>2, <5>1
        <5>. QED  BY <2>3, <3>2, <3>4, <4>1, <4>4, <5>1, <5>2
      <4>. QED  BY <1>2, <4>2, <4>3, <4>4
    <3>. QED  BY <2>3, <3>1, <3>2, <3>3, <3>4
  <2>. QED  BY <1>5, <2>4, <2>5, <2>7
<1>. QED  BY <1>6, <1>7

LEMMA ReturnKeeps ==
  ASSUME SendInv, NEW s \in Senders, SendReturns(s)
  PROVE  SendInv'
<1> USE SenderAssumption DEF SendInv
<1>1. sending[s] # Nothing /\ sending[s][1] = begun /\ begun > 0 /\ mutex = s /\ begun \in 1..Len(Rests)
      /\ sending[s][2] \in 1..(Len(Cuts[begun]) + 1)
  BY DEF SendReturns, Holding, SendTypeOK
<1>2. Len(Cuts[begun]) \in Nat /\ sending[s][2] - 1 = Len(Cuts[begun])
  BY <1>1, CutFacts DEF SendReturns, Parts
<1>3. sending' = [sending EXCEPT ![s] = Nothing] /\ mutex' = NoOne
      /\ UNCHANGED <<vars, begun, wire, sent, closed, broken>>
  BY <1>1 DEF SendReturns
<1>4. \A t \in Senders : sending'[t] = Nothing
  BY <1>1, <1>3 DEF SendTypeOK, Holding
<1>5. SendTypeOK'
  BY <1>1, <1>3 DEF SendTypeOK, Nothing
<1>6. Holding'
  BY <1>3, <1>4 DEF Holding
<1>7. UpToDate'
  <2>1. SUFFICES ASSUME Open PROVE WrittenUpTo(begun, Len(Cuts[begun]))
    BY <1>1, <1>3 DEF UpToDate, Open, vars, WrittenUpTo
  <2>. QED  BY <1>1, <1>2, <2>1 DEF UpToDate
<1>8. PartsTogether'
  BY <1>3 DEF PartsTogether
<1>. QED  BY <1>5, <1>6, <1>7, <1>8

\* What the mutex is held for besides sending, and everything else.
LEMMA OthersKeep ==
  ASSUME SendInv, [StreamNext]_streamVars,
         UNCHANGED <<sending, begun, wire>> /\ {closed', broken'} \subseteq BOOLEAN,
         mutex' = mutex \/ (mutex \notin Senders /\ mutex' \in {NoOne, Closer})
  PROVE  SendInv'
<1> USE SenderAssumption DEF SendInv
<1>1. SendTypeOK'
  BY DEF SendTypeOK
<1>2. Holding'
  BY DEF Holding
<1>3. UpToDate'
  BY OpenStays DEF UpToDate, WrittenUpTo
<1>4. PartsTogether'
  BY DEF PartsTogether
<1>. QED  BY <1>1, <1>2, <1>3, <1>4

LEMMA SendInduction == StreamSpec => []SendInv
<1>1. StreamInit => SendInv
  <2>1. SUFFICES ASSUME StreamInit PROVE SendInv
    OBVIOUS
  <2>2. SendTypeOK
    <3>1. Len(Rests) \in Nat /\ Nothing \in (0..Len(Rests)) \X Nat
      BY Constants DEF Nothing
    <3>2. sending \in [Senders -> (0..Len(Rests)) \X Nat]
      BY <2>1, <3>1 DEF StreamInit
    <3>3. wire \in Seq((1..Len(Rests)) \X Nat)
      BY <2>1 DEF StreamInit
    <3>4. mutex = NoOne /\ begun \in 0..Len(Rests)
      BY <2>1, <3>1 DEF StreamInit
    <3>5. {closed, broken} \subseteq BOOLEAN
      BY <2>1 DEF StreamInit
    <3>. QED  BY <3>2, <3>3, <3>4, <3>5 DEF SendTypeOK
  <2>3. Holding /\ UpToDate /\ PartsTogether
    BY <2>1, SenderAssumption DEF StreamInit, Holding, UpToDate, PartsTogether
  <2>. QED  BY <2>2, <2>3 DEF SendInv
<1>2. SendInv /\ [StreamNext]_streamVars => SendInv'
  <2>1. SUFFICES ASSUME SendInv, [StreamNext]_streamVars PROVE SendInv'
    OBVIOUS
  <2>2. {closed, broken} \subseteq BOOLEAN
    BY <2>1 DEF SendInv, SendTypeOK
  <2>3. CASE \E s \in Senders : Send(s) \/ Write(s) \/ SendReturns(s)
    BY <2>1, <2>3, SendKeeps, WriteKeeps, ReturnKeeps
  <2>4. CASE LockToClose \/ Shutdown
    BY <2>1, <2>2, <2>4, OthersKeep, SenderAssumption DEF LockToClose, Shutdown
  <2>5. CASE Carry \/ EndArrives \/ Snap
    BY <2>1, <2>2, <2>5, OthersKeep DEF Carry, EndArrives, Snap, sendVars
  <2>6. CASE UNCHANGED sendVars
    BY <2>1, <2>2, <2>6, OthersKeep DEF sendVars
  <2>. QED  BY <2>1, <2>3, <2>4, <2>5, <2>6 DEF StreamNext, streamVars
<1>. QED  BY <1>1, <1>2, PTL DEF StreamSpec

(***************************************************************************)
(* However the sending threads take turns, the parts of a packet are       *)
(* together on the socket (socket_client.cpp:113-145).                     *)
(***************************************************************************)
THEOREM MutexKeepsTogether == StreamSpec => []PartsTogether
<1>1. SendInv => PartsTogether
  BY DEF SendInv
<1>. QED  BY <1>1, SendInduction, PTL

\* No more arrives than has been written.
Covered == sent \in Nat /\ arrived \in Nat /\ arrived <= sent

LEMMA SizesPositive ==
  ASSUME NEW i \in 1..Len(Rests), NEW j \in Parts(i)
  PROVE  SizeOf(i, j) \in Nat
<1>1. Start[i] \in Nat
  BY Constants
<1>2. Cuts[i] \in Seq(Nat) /\ Len(Cuts[i]) \in Nat /\ Cuts[i][1] > Start[i] + LengthBytes
  <2>1. Cuts[i] \in Seq(Nat) /\ Len(Cuts[i]) \in Nat
    BY CutFacts
  <2>2. Cuts[i][1] > Start[i] + LengthBytes
    BY CutAssumption
  <2>. QED  BY <2>1, <2>2
<1>3. j \in 1..Len(Cuts[i]) /\ Cuts[i][j] \in Nat
  BY <1>2 DEF Parts
<1>4. CASE j = 1
  BY <1>1, <1>2, <1>3, <1>4, Constants DEF SizeOf
<1>5. CASE j # 1
  <2>1. j - 1 \in 1..Len(Cuts[i]) /\ j - 1 < j
    BY <1>2, <1>3, <1>5
  <2>2. Cuts[i][j - 1] \in Nat /\ Cuts[i][j - 1] < Cuts[i][j]
    <3>1. \A h, k \in 1..Len(Cuts[i]) : h < k => Cuts[i][h] < Cuts[i][k]
      BY CutAssumption
    <3>2. Cuts[i][j - 1] < Cuts[i][j]
      BY <1>3, <2>1, <3>1
    <3>3. Cuts[i][j - 1] \in Nat
      BY <1>2, <2>1
    <3>. QED  BY <3>2, <3>3
  <2>. QED  BY <1>3, <1>5, <2>2 DEF SizeOf
<1>. QED  BY <1>4, <1>5

LEMMA CoveredStep == SendInv /\ Covered /\ TypeOK' /\ [StreamNext]_streamVars => Covered'
<1> SUFFICES ASSUME SendInv, Covered, TypeOK', [StreamNext]_streamVars PROVE Covered'
  OBVIOUS
<1>1. arrived' \in Nat
  BY Constants DEF TypeOK, Total
<1>2. ASSUME NEW s \in Senders, Write(s) PROVE Covered'
  <2>1. sending[s][1] \in 1..Len(Rests) /\ sending[s][2] \in Parts(sending[s][1])
    BY <1>2 DEF Write, SendInv, SendTypeOK, Holding
  <2>2. SizeOf(sending[s][1], sending[s][2]) \in Nat
    BY <2>1, SizesPositive
  <2>. QED  BY <1>2, <2>2 DEF Write, Covered, vars
<1>3. CASE \E s \in Senders : Send(s) \/ SendReturns(s)
  BY <1>3 DEF Send, SendReturns, Covered, vars
<1>4. CASE LockToClose \/ Shutdown
  BY <1>4 DEF LockToClose, Shutdown, Covered, vars
<1>5. CASE Carry
  BY <1>1, <1>5 DEF Carry, Covered, sendVars
<1>6. CASE EndArrives \/ Snap
  BY <1>6 DEF EndArrives, Snap, PeerEnds, Covered, sendVars
<1>7. CASE (Listen \/ Close \/ Joined) /\ UNCHANGED sendVars
  BY <1>7 DEF Listen, ReadLength, LengthError, ReadRest, RestError, Callback, EndOfStream,
     Close, Joined, Covered, sendVars
<1>8. CASE UNCHANGED streamVars
  BY <1>8 DEF streamVars, vars, sendVars, Covered
<1>. QED  BY <1>2, <1>3, <1>4, <1>5, <1>6, <1>7, <1>8 DEF StreamNext

(***************************************************************************)
(* Type correctness of both ends; no byte arrives that has not been sent   *)
(* (socket_client.cpp:91-145).                                             *)
(***************************************************************************)
THEOREM StreamTypeCorrect == StreamSpec => []StreamTypeOK
<1>1. StreamInit => Covered
  BY DEF StreamInit, Init, Covered
<1>2. TypeOK /\ SendInv /\ Covered => StreamTypeOK
  BY DEF SendInv, SendTypeOK, Holding, Covered, StreamTypeOK
<1>3. StreamSpec => []TypeOK
  BY StreamIsRead, TypeCorrect, PTL
<1>. QED  BY <1>1, <1>2, <1>3, CoveredStep, SendInduction, PTL DEF StreamSpec

-----------------------------------------------------------------------------
(* The end of the stream *)

\* As many bytes have been sent as the last part written ends at.
Measured ==
  IF wire = <<>> THEN sent = 0
  ELSE sent = Cuts[wire[Len(wire)][1]][wire[Len(wire)][2]]

\* Every part of every packet that has been begun is written.
AllWritten == IF begun = 0 THEN wire = <<>> ELSE WrittenUpTo(begun, Len(Cuts[begun]))

(***************************************************************************)
(* The stream of a connection that has not broken ends because it has been *)
(* closed, between two packets; and its end is not seen before everything  *)
(* that has been sent has arrived.  Without a connection there is none.    *)
(***************************************************************************)
EndsClosed ==
  /\ peer = "absent" => arrived = 0 /\ phase \notin {"rest", "callback"}
  /\ closed \/ mutex = Closer => peer # "absent"
  /\ peer = "reset" => broken
  /\ peer = "finished" /\ ~broken => closed /\ arrived = sent
  /\ closed /\ ~broken => mutex \notin Senders /\ AllWritten

\* The thread is at the start of the packet that is next for the callback, or in it.
OnTheWay ==
  \/ pos = Start[Current]
  \/ Current <= Len(Rests) /\ Start[Current] < pos /\ pos < Start[Current + 1]

(***************************************************************************)
(* A thread that has kept track of a connection that has not broken, and   *)
(* where it is when the stream ends.                                       *)
(***************************************************************************)
Steady ==
  /\ phase = "ended" /\ ~shut => pos = arrived /\ peer = "finished"
  /\ taken = 0 /\ ~broken /\ peer # "absent" =>
       /\ phase = "length" => ask = LengthBytes /\ pos = Start[Current]
       /\ phase = "rest" => ask \in 1..Rests[Current] /\ pos + ask = End
       /\ phase = "ended" => OnTheWay

LEMMA AllMeasured ==
  ASSUME SendTypeOK, Measured, AllWritten
  PROVE  sent = Start[begun + 1] /\ begun + 1 \in 1..(Len(Rests) + 1)
<1>1. begun \in 0..Len(Rests) /\ Len(Rests) \in Nat
  BY Constants DEF SendTypeOK
<1>2. CASE begun = 0
  BY <1>1, <1>2, PlaceAssumption DEF Measured, AllWritten
<1>3. CASE begun # 0
  <2>1. begun \in 1..Len(Rests) /\ Len(Cuts[begun]) > 0
    BY <1>1, <1>3, CutFacts
  <2>2. wire # <<>> /\ wire[Len(wire)] = <<begun, Len(Cuts[begun])>>
    BY <1>3, <2>1 DEF AllWritten, WrittenUpTo
  <2>3. sent = Cuts[begun][Len(Cuts[begun])]
    BY <2>2 DEF Measured
  <2>. QED  BY <1>1, <2>1, <2>3, CutAssumption
<1>. QED  BY <1>2, <1>3

LEMMA AppendedIsLast ==
  ASSUME NEW S, NEW seq \in Seq(S), NEW elt \in S
  PROVE  Append(seq, elt) # <<>> /\ Append(seq, elt)[Len(Append(seq, elt))] = elt
<1>1. Len(seq) \in Nat /\ Len(Append(seq, elt)) = Len(seq) + 1
  OBVIOUS
<1>2. Append(seq, elt)[Len(seq) + 1] = elt
  OBVIOUS
<1>. QED  BY <1>1, <1>2

LEMMA MeasuredStep == SendInv /\ Measured /\ [StreamNext]_streamVars => Measured'
<1> SUFFICES ASSUME SendInv, Measured, [StreamNext]_streamVars PROVE Measured'
  OBVIOUS
<1>1. ASSUME UNCHANGED <<wire, sent>> PROVE Measured'
  BY <1>1 DEF Measured
<1>2. ASSUME NEW s \in Senders, Write(s), Open PROVE Measured'
  <2> DEFINE j == sending[s][2]
  <2>1. /\ sending[s][1] = begun /\ begun \in 1..Len(Rests) /\ mutex = s
        /\ j \in 1..Len(Cuts[begun]) /\ wire \in Seq((1..Len(Rests)) \X Nat)
    BY <1>2 DEF Write, Parts, SendInv, Holding, SendTypeOK
  <2>2. wire' = Append(wire, <<begun, j>>) /\ sent' = sent + SizeOf(begun, j)
    BY <1>2, <2>1 DEF Write
  <2>3. WrittenUpTo(begun, j - 1)
    BY <1>2, <2>1 DEF SendInv, UpToDate
  <2>4. Cuts[begun] \in Seq(Nat) /\ j \in 1..Len(Cuts[begun]) /\ Cuts[begun][j] \in Nat
    BY <2>1, CutFacts, SMTT(20)
  <2> HIDE DEF j
  <2>5. sent = Cuts[begun][j] - SizeOf(begun, j) /\ SizeOf(begun, j) \in Int
    <3>1. CASE j > 1
      <4>1. wire # <<>> /\ wire[Len(wire)] = <<begun, j - 1>>
        BY <2>3, <2>4, <3>1 DEF WrittenUpTo
      <4>2. sent = Cuts[begun][j - 1] /\ sent \in Nat
        <5>1. sent = Cuts[begun][j - 1]
          BY <4>1 DEF Measured
        <5>2. j - 1 \in 1..Len(Cuts[begun])
          BY <2>1, <2>4, <3>1
        <5>. QED  BY <2>4, <5>1, <5>2
      <4>. QED  BY <2>4, <3>1, <4>2 DEF SizeOf
    <3>2. CASE j = 1
      <4>1. sent = Start[begun] /\ Start[begun] \in Nat
        <5>1. CASE begun = 1
          BY <2>3, <3>2, <5>1, PlaceAssumption DEF WrittenUpTo, Measured
        <5>2. CASE begun # 1
          <6>1. wire # <<>> /\ wire[Len(wire)] = <<begun - 1, Len(Cuts[begun - 1])>>
            BY <2>3, <3>2, <5>2 DEF WrittenUpTo
          <6>2. begun - 1 \in 1..Len(Rests) /\ (begun - 1) + 1 = begun
            BY <2>1, <5>2, Constants
          <6>3. Cuts[begun - 1][Len(Cuts[begun - 1])] = Start[(begun - 1) + 1]
            BY <6>2, CutAssumption
          <6>. QED  BY <2>1, <6>1, <6>2, <6>3, Constants DEF Measured
        <5>. QED  BY <5>1, <5>2
      <4>. QED  BY <2>4, <3>2, <4>1 DEF SizeOf
    <3>. QED  BY <2>1, <2>4, <3>1, <3>2
  <2>6. sent' = Cuts[begun][j]
    BY <2>2, <2>4, <2>5
  <2>7. wire' # <<>> /\ wire'[Len(wire')] = <<begun, j>>
    <3>1. <<begun, j>> \in (1..Len(Rests)) \X Nat
      BY <2>1, <2>4
    <3>2. wire \in Seq((1..Len(Rests)) \X Nat)
      BY <2>1
    <3>. QED  BY <2>2, <3>1, <3>2, AppendedIsLast
  <2>. QED  BY <2>6, <2>7 DEF Measured
<1>3. ASSUME NEW s \in Senders, Write(s), ~Open PROVE Measured'
  BY <1>1, <1>3 DEF Write
<1>4. ASSUME NEW s \in Senders, Send(s) \/ SendReturns(s) PROVE Measured'
  BY <1>1, <1>4 DEF Send, SendReturns
<1>5. CASE LockToClose \/ Shutdown \/ Snap
  BY <1>1, <1>5 DEF LockToClose, Shutdown, Snap
<1>6. CASE UNCHANGED sendVars
  BY <1>1, <1>6 DEF sendVars
<1>. QED
  BY <1>2, <1>3, <1>4, <1>5, <1>6 DEF StreamNext, Carry, EndArrives, streamVars

LEMMA EndsStep ==
  Place /\ SendInv /\ EndsClosed /\ [StreamNext]_streamVars => EndsClosed'
<1> SUFFICES ASSUME Place, SendInv, EndsClosed, [StreamNext]_streamVars PROVE EndsClosed'
  OBVIOUS
<1>1. UNCHANGED <<wire, begun>> => AllWritten' = AllWritten
  BY DEF AllWritten, WrittenUpTo
<1>2. ASSUME UNCHANGED <<peer, arrived, phase, mutex, wire, begun, sent, closed, broken>>
      PROVE  EndsClosed'
  BY <1>1, <1>2 DEF EndsClosed
<1>3. CASE UNCHANGED sendVars /\ (Listen \/ Close \/ Joined)
  <2>1. AllWritten' = AllWritten /\ UNCHANGED <<mutex, closed, broken, sent, arrived>>
    BY <1>1, <1>3 DEF sendVars, Listen, ReadLength, LengthError, ReadRest, RestError,
       Callback, EndOfStream, Close, Joined
  <2>2. /\ peer' = peer \/ (peer' = "finished" /\ peer = "reset")
        /\ peer = "absent" => phase' \notin {"rest", "callback"}
    <3>1. CASE LengthError
      BY <3>1 DEF LengthError
    <3>2. CASE RestError
      BY <3>2 DEF RestError, RecvError, EndsClosed
    <3>3. CASE ReadLength
      <4>1. peer # "absent"
        BY <3>3 DEF ReadLength, RecvSome, Received, EndsClosed, Place, TypeOK
      <4>. QED  BY <3>3, <4>1 DEF ReadLength
    <3>4. CASE ReadRest \/ Callback \/ EndOfStream \/ Close \/ Joined
      BY <3>4 DEF ReadRest, Callback, EndOfStream, Close, Joined, EndsClosed
    <3>. QED  BY <1>3, <3>1, <3>2, <3>3, <3>4 DEF Listen
  <2>. QED  BY <2>1, <2>2 DEF EndsClosed
<1>4. CASE Carry
  BY <1>1, <1>4 DEF Carry, Arrive, sendVars, EndsClosed
<1>5. CASE EndArrives
  BY <1>1, <1>5 DEF EndArrives, PeerEnds, sendVars, EndsClosed
<1>6. CASE Snap
  BY <1>1, <1>6 DEF Snap, PeerEnds, EndsClosed
<1>7. CASE LockToClose
  BY <1>1, <1>7, SenderAssumption DEF LockToClose, Open, EndsClosed, vars
<1>8. CASE Shutdown
  <2>1. ~broken => AllWritten
    <3>1. mutex \notin Senders /\ peer # "absent"
      BY <1>8, SenderAssumption DEF Shutdown, EndsClosed
    <3>2. CASE Open
      BY <3>1, <3>2 DEF SendInv, UpToDate, AllWritten
    <3>3. CASE ~Open
      BY <3>1, <3>3 DEF Open, EndsClosed, Place, TypeOK
    <3>. QED  BY <3>2, <3>3
  <2>. QED  BY <1>1, <1>8, <2>1, SenderAssumption DEF Shutdown, EndsClosed, vars
<1>9. ASSUME NEW s \in Senders, Send(s)
      PROVE  EndsClosed'
  BY <1>9, SenderAssumption DEF Send, Open, EndsClosed, vars
<1>10. ASSUME NEW s \in Senders, Write(s)
       PROVE  EndsClosed'
  <2>1. CASE ~Open
    BY <1>2, <1>10, <2>1 DEF Write, vars
  <2>2. CASE Open
    BY <1>10, <2>2 DEF Write, Open, EndsClosed, vars
  <2>. QED  BY <2>1, <2>2
<1>11. ASSUME NEW s \in Senders, SendReturns(s)
       PROVE  EndsClosed'
  BY <1>1, <1>11, SenderAssumption DEF SendReturns, EndsClosed, vars
<1>12. CASE UNCHANGED streamVars
  BY <1>2, <1>12 DEF streamVars, sendVars, vars
<1>. QED
  BY <1>3, <1>4, <1>5, <1>6, <1>7, <1>8, <1>9, <1>10, <1>11, <1>12 DEF StreamNext

LEMMA SteadyStep ==
  /\ Place /\ Tracked /\ SendInv /\ EndsClosed /\ Steady /\ [StreamNext]_streamVars
  => Steady'
<1> SUFFICES ASSUME Place, Tracked, SendInv, EndsClosed, Steady, [StreamNext]_streamVars
             PROVE  Steady'
  OBVIOUS
<1>1. /\ pos \in Nat /\ arrived \in Nat /\ pos <= arrived /\ ask \in Nat /\ taken \in Nat
      /\ Len(delivered) \in Nat
  BY Constants DEF Place, TypeOK
<1>2. ASSUME UNCHANGED <<arrived, peer, shut, pos, phase, ask, taken, delivered, broken>>
      PROVE  Steady'
  BY <1>2 DEF Steady, OnTheWay, End, Current
<1>3. CASE ReadLength /\ UNCHANGED sendVars
  <2>1. Received \in Nat /\ Received > 0 /\ Received <= ask /\ ~Dry
    BY <1>1, <1>3 DEF ReadLength, RecvSome, Received, Dry
  <2>2. CASE Received # LengthBytes
    BY <1>1, <1>3, <2>1, <2>2 DEF ReadLength, Steady
  <2>3. CASE Received = LengthBytes
    <3>1. taken = 0
      BY <1>1, <1>3, <2>1, <2>3, Constants DEF Tracked, ReadLength
    <3>2. phase = "length" /\ UNCHANGED <<peer, broken, delivered, shut>>
      BY <1>3 DEF ReadLength, sendVars
    <3>3. SUFFICES ASSUME ~broken, peer # "absent"
                   PROVE  ask' \in 1..Rests[Current] /\ pos' + ask' = End
      BY <1>3, <2>3, <3>2 DEF ReadLength, Steady, End, Current
    <3>4. pos = Start[Current]
      BY <3>1, <3>2, <3>3 DEF Steady
    <3>5. Current \in 1..Len(Rests)
      <4>1. Current \in 1..(Len(Rests) + 1) /\ arrived <= Total
        BY <1>1, Constants DEF Place, TypeOK, Current
      <4>2. pos + Received <= arrived
        BY <1>1, <2>1 DEF Received
      <4>3. pos # Total
        BY <1>1, <2>1, <4>1, <4>2, Constants
      <4>. QED  BY <3>4, <4>1, <4>3, Constants DEF Total
    <3>6. ask' = Rests[Current] /\ pos' = Start[Current] + LengthBytes
      BY <1>3, <2>3, <3>4, <3>5, LengthFound DEF ReadLength
    <3>. QED  BY <3>5, <3>6, Constants DEF End
  <2>. QED  BY <2>2, <2>3
<1>4. CASE ReadRest /\ UNCHANGED sendVars
  <2>1. Received \in Nat /\ Received > 0 /\ Received <= ask
    BY <1>1, <1>4 DEF ReadRest, RecvSome, Received
  <2>2. /\ phase = "rest" /\ UNCHANGED <<peer, broken, delivered, shut, taken>>
        /\ pos' = pos + Received /\ ask' = ask - Received
        /\ phase' = IF ask' = 0 THEN "callback" ELSE "rest"
    BY <1>4 DEF ReadRest, sendVars
  <2>3. SUFFICES ASSUME ~broken, peer # "absent", taken = 0, ask' # 0
                 PROVE  ask' \in 1..Rests[Current] /\ pos' + ask' = End
    BY <2>2 DEF Steady, End, Current
  <2>4. ask \in 1..Rests[Current] /\ pos + ask = End
    BY <2>2, <2>3 DEF Steady
  <2>5. Rests[Current] \in Nat
    BY <2>2, <1>1, Constants DEF Place, AtRest, Current
  <2>. QED  BY <1>1, <2>1, <2>2, <2>3, <2>4, <2>5
<1>5. CASE (LengthError \/ RestError) /\ UNCHANGED sendVars
  <2>1. peer \in {"reset", "absent"} /\ phase' \notin {"ended"} /\ UNCHANGED broken
    BY <1>5 DEF LengthError, RestError, RecvError, sendVars
  <2>2. peer = "absent" => peer' = "absent"
    BY <1>5 DEF LengthError, RestError, EndsClosed
  <2>. QED  BY <2>1, <2>2 DEF Steady, EndsClosed
<1>6. CASE Callback /\ UNCHANGED sendVars
  <2>1. Current \in 1..Len(Rests) /\ pos = End
    BY <1>1, <1>6 DEF Place, AtCallback, Callback, Current
  <2>2. pos = Start[Current + 1]
    BY <2>1, PlaceAssumption DEF End
  <2>3. Current' = Current + 1
    <3>1. <<pos - size, size>> \in Int \X Nat /\ delivered \in Seq(Int \X Nat)
      BY <1>1 DEF Place, TypeOK
    <3>2. delivered' = Append(delivered, <<pos - size, size>>)
      BY <1>6 DEF Callback
    <3> DEFINE packet == <<pos - size, size>>
    <3> HIDE DEF packet
    <3>3. Len(Append(delivered, packet)) = Len(delivered) + 1
      BY <3>1 DEF packet
    <3>. QED  BY <1>1, <3>2, <3>3 DEF Current, packet
  <2>. QED  BY <1>6, <2>2, <2>3 DEF Callback, Steady
<1>7. CASE EndOfStream /\ UNCHANGED sendVars
  <2>1. /\ phase \in {"length", "rest"} /\ phase' = "ended" /\ Received = 0
        /\ shut \/ peer = "finished"
        /\ UNCHANGED <<arrived, peer, shut, pos, ask, taken, delivered, broken>>
    BY <1>7 DEF EndOfStream, RecvEnd, sendVars
  <2>2. pos = arrived
    BY <1>1, <2>1 DEF Received, Place, AtLength, AtRest
  <2>3. ASSUME ~broken, peer # "absent", taken = 0
        PROVE  OnTheWay
    <3>1. CASE phase = "length"
      BY <2>3, <3>1 DEF Steady, OnTheWay
    <3>2. CASE phase = "rest"
      <4>1. ask \in 1..Rests[Current] /\ pos + ask = End
        BY <2>3, <3>2 DEF Steady
      <4>2. Current \in 1..Len(Rests) /\ End = Start[Current + 1]
        BY <1>1, <3>2, PlaceAssumption DEF Place, AtRest, Current, End
      <4>. QED  BY <1>1, <4>1, <4>2, Constants DEF OnTheWay, End
    <3>. QED  BY <2>1, <3>1, <3>2
  <2>. QED  BY <2>1, <2>2, <2>3 DEF Steady, OnTheWay, Current
<1>8. CASE (Close \/ Joined) /\ UNCHANGED sendVars
  BY <1>8 DEF Close, Joined, sendVars, Steady, OnTheWay, End, Current
<1>9. CASE Carry \/ EndArrives \/ Snap
  <2>1. /\ peer = "sending" /\ peer' # "absent" /\ broken \in BOOLEAN
        /\ UNCHANGED <<shut, pos, phase, ask, taken, delivered>>
        /\ broken' = broken \/ broken'
    BY <1>9 DEF Carry, EndArrives, Snap, Arrive, PeerEnds, sendVars, SendInv, SendTypeOK
  <2>. QED  BY <2>1 DEF Steady, OnTheWay, End, Current
<1>10. ASSUME NEW s \in Senders, Send(s) \/ Write(s) \/ SendReturns(s)
       PROVE  Steady'
  BY <1>2, <1>10 DEF Send, Write, SendReturns, vars
<1>11. CASE LockToClose \/ Shutdown \/ UNCHANGED streamVars
  BY <1>2, <1>11 DEF LockToClose, Shutdown, streamVars, vars, sendVars
<1>. QED
  BY <1>3, <1>4, <1>5, <1>6, <1>7, <1>8, <1>9, <1>10, <1>11 DEF StreamNext, Listen

(***************************************************************************)
(* close() cuts off nothing, however many threads send and wherever the    *)
(* stream is cut: a thread that has read to the end of a stream that was   *)
(* closed, not broken, and has kept its place in it, has delivered every   *)
(* packet that any thread has sent (socket_client.cpp:91-97, 118-124,      *)
(* 151-208).                                                               *)
(***************************************************************************)
THEOREM CloseCutsNothing == StreamSpec => []NothingCutOff
<1>1. StreamInit => Measured /\ EndsClosed /\ Steady
  <2> SUFFICES ASSUME StreamInit PROVE Measured /\ EndsClosed /\ Steady
    OBVIOUS
  <2>1. pos = Start[1] /\ Current = 1
    BY PlaceAssumption DEF StreamInit, Init, Current
  <2>. QED
    BY <2>1, SenderAssumption DEF StreamInit, Init, Measured, EndsClosed, Steady
<1>2. Place /\ SendInv /\ Measured /\ EndsClosed /\ Steady => NothingCutOff
  <2> SUFFICES ASSUME Place, SendInv, Measured, EndsClosed, Steady,
                      phase = "ended", ~shut, ~broken, ~LostTrack
               PROVE  Len(delivered) = begun
    BY DEF NothingCutOff
  <2>1. taken = 0 /\ Len(delivered) \in Nat /\ begun \in Nat
    BY Constants DEF LostTrack, Place, TypeOK, SendInv, SendTypeOK
  <2>2. peer = "finished" /\ pos = arrived /\ OnTheWay
    BY <2>1 DEF Steady
  <2>3. arrived = sent /\ AllWritten
    BY <2>2 DEF EndsClosed
  <2>4. pos = Start[begun + 1] /\ begun + 1 \in 1..(Len(Rests) + 1)
    BY <2>2, <2>3, AllMeasured DEF SendInv
  <2>5. Current \in 1..(Len(Rests) + 1)
    BY <2>1, Constants DEF Place, Current
  <2>6. \A i, j \in 1..(Len(Rests) + 1) : i < j => Start[i] < Start[j]
    BY PlaceAssumption
  <2>7. \A i \in 1..(Len(Rests) + 1) : Start[i] \in Nat
    BY Constants
  <2>8. begun + 1 <= Current
    <3> SUFFICES ASSUME begun + 1 > Current PROVE FALSE
      BY <2>4, <2>5
    <3>1. Start[Current] < Start[begun + 1]
      BY <2>4, <2>5, <2>6
    <3>2. Current <= Len(Rests) /\ pos < Start[Current + 1]
      BY <2>2, <2>4, <2>5, <2>7, <3>1 DEF OnTheWay
    <3>3. Current + 1 \in 1..(Len(Rests) + 1) /\ Current + 1 <= begun + 1
      BY <2>4, <2>5, <3>2, Constants
    <3>4. Start[Current + 1] <= Start[begun + 1]
      BY <2>4, <2>6, <2>7, <3>3
    <3>. QED  BY <2>4, <2>7, <3>2, <3>3, <3>4
  <2>9. begun + 1 >= Current
    <3> SUFFICES ASSUME begun + 1 < Current PROVE FALSE
      BY <2>4, <2>5
    <3>1. Start[begun + 1] < Start[Current]
      BY <2>4, <2>5, <2>6
    <3>. QED  BY <2>2, <2>4, <2>5, <2>7, <3>1 DEF OnTheWay
  <2>. QED  BY <2>1, <2>8, <2>9 DEF Current
<1>3. StreamSpec => [](Place /\ Tracked)
  BY StreamIsRead, TrackedInduction, PTL
<1>. QED
  BY <1>1, <1>2, <1>3, SendInduction, MeasuredStep, EndsStep, SteadyStep, PTL DEF StreamSpec

-----------------------------------------------------------------------------
(* The whole socket *)

(***************************************************************************)
(* Whoever sends and however the network cuts it, what comes out of the    *)
(* socket is what PacketStream promises: each packet once and in order,    *)
(* none before all of it has arrived, and nothing after the end of the     *)
(* listening thread (socket_client.cpp:91-208).                            *)
(***************************************************************************)
THEOREM SocketIsAStream == StreamSpec => Stream!Spec
BY StreamIsRead, ReadsAStream
=============================================================================
