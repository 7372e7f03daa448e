----------------------------- MODULE SocketStream -----------------------------
(***************************************************************************)
(* Both ends of a socket: several threads send packets on a SocketClient   *)
(* (socket_client.cpp:91-145), and the listening thread of another one     *)
(* (SocketReader) reads them.  A packet goes out in parts, one ::send()    *)
(* each, and send_mutex is what keeps the parts of a packet together.      *)
(*                                                                         *)
(* Packets are numbered in the order in which their threads get the mutex. *)
(* ::send() on these sockets blocks until it has taken all it was given,   *)
(* or the connection is gone; after close() it takes nothing, which leaves *)
(* the stream as it is.                                                    *)
(***************************************************************************)
EXTENDS SocketReader

CONSTANTS Cuts,      \* the places where the parts of each packet end: its header, then
                     \* each buffer that is not empty
          Senders,   \* the threads that send
          Closer,    \* the thread that calls close() on the sending end
          NoOne

ASSUME CutAssumption ==
  /\ Cuts \in [1..Len(Rests) -> Seq(Nat)]
  /\ \A i \in 1..Len(Rests) :
       /\ Len(Cuts[i]) > 0
       /\ Cuts[i][1] > Start[i] + LengthBytes
       /\ Cuts[i][Len(Cuts[i])] = Start[i + 1]
       /\ \A j, k \in 1..Len(Cuts[i]) : j < k => Cuts[i][j] < Cuts[i][k]
ASSUME SenderAssumption ==
  Closer \notin Senders /\ NoOne \notin Senders \cup {Closer}

VARIABLES mutex,    \* who holds send_mutex
          sending,  \* for each thread in send(): the packet, and the part that is next
          begun,    \* how many packets have been begun
          wire,     \* the parts written to the socket, each <<packet, part>>
          sent,     \* how many bytes they are
          closed,   \* shutdown() has been called on the sending end
          broken    \* the connection, or the sending process, has come to an end by itself

sendVars   == <<mutex, sending, begun, wire, sent, closed, broken>>
streamVars == <<vars, sendVars>>

Parts(i) == 1..Len(Cuts[i])

\* Not in send(): no packet has that number.
Nothing == <<0, 0>>

SizeOf(i, j) == Cuts[i][j] - (IF j = 1 THEN Start[i] ELSE Cuts[i][j - 1])

StreamTypeOK ==
  /\ TypeOK
  /\ mutex \in Senders \cup {Closer, NoOne}
  /\ sending \in [Senders -> (0..Len(Rests)) \X Nat]
  /\ \A s \in Senders :
       sending[s] # Nothing => /\ sending[s][1] \in 1..begun
                               /\ sending[s][2] \in 1..(Len(Cuts[sending[s][1]]) + 1)
  /\ begun \in 0..Len(Rests)
  /\ wire \in Seq((1..Len(Rests)) \X Nat)
  /\ arrived <= sent
  /\ {closed, broken} \subseteq BOOLEAN

StreamInit ==
  /\ Init
  /\ mutex = NoOne
  /\ sending = [s \in Senders |-> Nothing]
  /\ begun = 0 /\ wire = <<>> /\ sent = 0
  /\ closed = FALSE /\ broken = FALSE

-----------------------------------------------------------------------------
(* send(), send2() *)

Open == peer = "sending" /\ ~closed /\ ~broken

\* Faulty: without send_mutex.
SendUnlocked(s) ==
  /\ Open /\ sending[s] = Nothing /\ begun < Len(Rests)
  /\ begun' = begun + 1
  /\ sending' = [sending EXCEPT ![s] = <<begun', 1>>]
  /\ UNCHANGED <<vars, mutex, wire, sent, closed, broken>>

\* The header is filled in and the mutex taken.
Send(s) ==
  /\ Open /\ sending[s] = Nothing /\ begun < Len(Rests)
  /\ mutex = NoOne /\ mutex' = s
  /\ begun' = begun + 1
  /\ sending' = [sending EXCEPT ![s] = <<begun', 1>>]
  /\ UNCHANGED <<vars, wire, sent, closed, broken>>

\* ::send() of one part; nothing goes out on a connection that has ended.
Write(s) ==
  LET i == sending[s][1] IN
  LET j == sending[s][2] IN
  /\ sending[s] # Nothing /\ j \in Parts(i)
  /\ IF Open
     THEN wire' = Append(wire, <<i, j>>) /\ sent' = sent + SizeOf(i, j)
     ELSE UNCHANGED <<wire, sent>>
  /\ sending' = [sending EXCEPT ![s] = <<i, j + 1>>]
  /\ UNCHANGED <<vars, mutex, begun, closed, broken>>

SendReturns(s) ==
  /\ sending[s] # Nothing /\ sending[s][2] \notin Parts(sending[s][1])
  /\ sending' = [sending EXCEPT ![s] = Nothing]
  /\ mutex' = IF mutex = s THEN NoOne ELSE mutex
  /\ UNCHANGED <<vars, begun, wire, sent, closed, broken>>

-----------------------------------------------------------------------------
(* close() of the sending end *)

LockToClose ==
  /\ Open /\ mutex = NoOne /\ mutex' = Closer
  /\ UNCHANGED <<vars, sending, begun, wire, sent, closed, broken>>

\* Faulty: without send_mutex.
ShutdownUnlocked ==
  /\ mutex = Closer \/ Open
  /\ mutex' = (IF mutex = Closer THEN NoOne ELSE mutex) /\ closed' = TRUE
  /\ UNCHANGED <<vars, sending, begun, wire, sent, broken>>

Shutdown ==
  /\ mutex = Closer
  /\ mutex' = NoOne /\ closed' = TRUE
  /\ UNCHANGED <<vars, sending, begun, wire, sent, broken>>

-----------------------------------------------------------------------------
(* The network *)

\* Written bytes arrive.
Carry == Arrive /\ arrived' <= sent /\ UNCHANGED sendVars

\* What has been written before shutdown() arrives before the end of the stream.
EndArrives ==
  /\ closed /\ arrived = sent
  /\ PeerEnds /\ peer' = "finished"
  /\ UNCHANGED sendVars

\* The connection breaks, or the process at the other end does.
Snap ==
  /\ PeerEnds
  /\ broken' = TRUE
  /\ UNCHANGED <<mutex, sending, begun, wire, sent, closed>>

-----------------------------------------------------------------------------
StreamNext ==
  /\ phase # "crashed"
  /\ \/ \E s \in Senders : Send(s) \/ Write(s) \/ SendReturns(s)
     \/ LockToClose \/ Shutdown
     \/ Carry \/ EndArrives \/ Snap
     \/ (Listen \/ Close \/ Joined) /\ UNCHANGED sendVars

StreamSpec == StreamInit /\ [][StreamNext]_streamVars

\* Written bytes arrive, the end of the stream behind them, and no thread stops.
StreamFairSpec ==
  /\ StreamSpec
  /\ WF_streamVars(phase # "crashed" /\ Carry)
  /\ WF_streamVars(phase # "crashed" /\ EndArrives)
  /\ WF_streamVars(phase # "crashed" /\ Listen /\ UNCHANGED sendVars)
  /\ WF_streamVars(phase # "crashed" /\ Joined /\ UNCHANGED sendVars)
  /\ WF_streamVars(phase # "crashed" /\ Shutdown)
  /\ \A s \in Senders :
       WF_streamVars(phase # "crashed" /\ (Write(s) \/ SendReturns(s)))

-----------------------------------------------------------------------------
(* Properties *)

(***************************************************************************)
(* However the threads that send take turns, what is written are the parts *)
(* of one packet after the other, in their order: a reader finds every     *)
(* header where the packet before it has ended (socket_client.cpp:113-145).*)
(***************************************************************************)
PartsTogether ==
  \A n \in 1..Len(wire) :
    LET i == wire[n][1] IN
    LET j == wire[n][2] IN
    IF j > 1 THEN n > 1 /\ wire[n - 1] = <<i, j - 1>>
    ELSE IF n = 1 THEN i = 1
    ELSE wire[n - 1] = <<i - 1, Len(Cuts[i - 1])>>

(***************************************************************************)
(* close() cuts off nothing: a thread that has read to the end of a stream *)
(* that was closed, not broken, and has kept its place in it, has          *)
(* delivered every packet that any thread has sent                         *)
(* (socket_client.cpp:91-97, 118-124, 151-208).                            *)
(***************************************************************************)
NothingCutOff ==
  phase = "ended" /\ ~shut /\ ~broken /\ ~LostTrack => Len(delivered) = begun
=============================================================================
