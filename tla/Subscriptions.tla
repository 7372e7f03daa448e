---------------------------- MODULE Subscriptions ----------------------------
(***************************************************************************)
(* How two applications learn each other's subscriptions                   *)
(* (client_dispatcher.cpp).  Connect and ConnectAck carry the whole list,  *)
(* a SubscribeRequest one channel more.  The end that opens the connection *)
(* and sends Connect is this library.  The other end, the application on   *)
(* the phone, is taken to follow the same protocol.  Between them is one   *)
(* connection at a time, a stream in each direction.                       *)
(*                                                                         *)
(* At each end the application's thread subscribes while the connection's  *)
(* listening thread composes Connect or ConnectAck.                        *)
(***************************************************************************)
EXTENDS Integers, Sequences, FiniteSets

CONSTANTS Ends,       \* the two applications
          Opener,     \* the end whose connection usbmuxd has confirmed
          Channels,
          MaxSubs,    \* bound on the calls of subscribe()
          MaxBreaks   \* bound on how often the connection breaks

ASSUME EndAssumption   == IsFiniteSet(Ends) /\ Cardinality(Ends) = 2 /\ Opener \in Ends
ASSUME BoundAssumption == {MaxSubs, MaxBreaks} \subseteq Nat

VARIABLES subs,     \* clientChannelSubsciptions of each end
          theirs,   \* the subscriptions each end has of the other, in its clients
          early,    \* those of the client named "", in its clients
          named,    \* has this end's connection heard its peer's name?
          status,   \* "down", or "CONNECTED"
          app,      \* the request the application's thread is about to send
          reply,    \* Connect or ConnectAck the listening thread is working on
          net,      \* the packets on their way to each end
          breaks,   \* how often the connection has broken
          apart     \* subscriptions each end has made while no handshake was
                    \* going on (only the properties look at it)

vars == <<subs, theirs, early, named, status, app, reply, net, breaks, apart>>

Other(e) == CHOOSE f \in Ends : f # e

Idle    == [kind |-> "none", channels |-> <<>>]
Greets  == {"Connect", "ConnectAck"}
Kinds   == Greets \cup {"SubscribeRequest", "Message"}
Packets == [kind : Kinds, channels : Seq(Channels)]

\* What the listening thread is about to compose.
Draft(kind) == [kind |-> kind, channels |-> <<>>, copied |-> FALSE]
NoDraft     == Draft("none")

TypeOK ==
  /\ {subs, theirs, early} \subseteq [Ends -> Seq(Channels)]
  /\ named \in [Ends -> BOOLEAN]
  /\ status \in [Ends -> {"down", "CONNECTED"}]
  /\ app \in [Ends -> Packets \cup {Idle}]
  /\ reply \in [Ends -> [kind : Greets \cup {"none"}, channels : Seq(Channels),
                         copied : BOOLEAN]]
  /\ net \in [Ends -> Seq(Packets)]
  /\ breaks \in 0..MaxBreaks
  /\ apart \in [Ends -> SUBSET Channels]

Init ==
  /\ subs = [e \in Ends |-> <<>>] /\ theirs = subs /\ early = subs
  /\ named = [e \in Ends |-> FALSE]
  /\ status = [e \in Ends |-> "down"]
  /\ app = [e \in Ends |-> Idle] /\ reply = [e \in Ends |-> NoDraft]
  /\ net = [e \in Ends |-> <<>>]
  /\ breaks = 0
  /\ apart = [e \in Ends |-> {}]

\* Connection::send() drops what it is given unless the status is CONNECTED.
Transmit(e, packet) ==
  net' = IF status[e] = "CONNECTED"
         THEN [net EXCEPT ![Other(e)] = Append(@, packet)] ELSE net

-----------------------------------------------------------------------------
(* The connection *)

\* The stream is there; at the end that asked for it connectedRoutine() follows.
Establish ==
  /\ \A e \in Ends : status[e] = "down" /\ reply[e] = NoDraft
  /\ status' = [e \in Ends |-> "CONNECTED"]
  /\ reply' = [reply EXCEPT ![Opener] = Draft("Connect")]
  /\ UNCHANGED <<subs, theirs, early, named, app, net, breaks, apart>>

\* Both ends lose what is on its way.  The clients keep their entries; the next
\* connection is a new one, without a name.
Break ==
  /\ breaks < MaxBreaks
  /\ \A e \in Ends : status[e] = "CONNECTED"
  /\ status' = [e \in Ends |-> "down"]
  /\ named' = [e \in Ends |-> FALSE]
  /\ net' = [e \in Ends |-> <<>>]
  /\ breaks' = breaks + 1
  /\ UNCHANGED <<subs, theirs, early, app, reply, apart>>

-----------------------------------------------------------------------------
(* subscribe() *)

\* Connect or ConnectAck is under way, or the peer has not been heard yet.
Handshake ==
  \E e \in Ends :
    status[e] = "CONNECTED" /\ (~named[e] \/ reply[e] # NoDraft)

\* subscribeRequest() stores the channel ...
SubscribeRequest(e, c) ==
  /\ app[e] = Idle /\ Len(subs[e]) + Len(subs[Other(e)]) < MaxSubs
  /\ apart' = IF Handshake THEN apart ELSE [apart EXCEPT ![e] = @ \cup {c}]
  /\ subs' = [subs EXCEPT ![e] = Append(@, c)]
  /\ app' = [app EXCEPT ![e] = [kind |-> "SubscribeRequest", channels |-> <<c>>]]
  /\ UNCHANGED <<theirs, early, named, status, reply, net, breaks>>

\* ... and sends the request to every connection.
SendSubscribeRequest(e) ==
  /\ app[e] # Idle
  /\ Transmit(e, app[e])
  /\ app' = [app EXCEPT ![e] = Idle]
  /\ UNCHANGED <<subs, theirs, early, named, status, reply, breaks, apart>>

-----------------------------------------------------------------------------
(* The listening thread *)

\* sendConnectForUnkownUSBDevice(), sendConnectAck(): the list is copied ...
Compose(e) ==
  /\ reply[e] # NoDraft /\ ~reply[e].copied
  /\ reply' = [reply EXCEPT ![e].channels = subs[e], ![e].copied = TRUE]
  /\ UNCHANGED <<subs, theirs, early, named, status, app, net, breaks, apart>>

\* ... and the packet sent.
SendGreeting(e) ==
  /\ reply[e].copied
  /\ Transmit(e, [kind |-> reply[e].kind, channels |-> reply[e].channels])
  /\ reply' = [reply EXCEPT ![e] = NoDraft]
  /\ UNCHANGED <<subs, theirs, early, named, status, app, breaks, apart>>

\* Faulty: the list is added to what is known.
HandleGreetingAdding(e) ==
  /\ reply[e] = NoDraft /\ net[e] # <<>> /\ Head(net[e]).kind \in Greets
  /\ theirs' = [theirs EXCEPT ![e] = @ \o Head(net[e]).channels]
  /\ named' = [named EXCEPT ![e] = TRUE]
  /\ reply' = [reply EXCEPT ![e] =
                 IF Head(net[e]).kind = "Connect" THEN Draft("ConnectAck") ELSE NoDraft]
  /\ net' = [net EXCEPT ![e] = Tail(@)]
  /\ UNCHANGED <<subs, early, status, app, breaks, apart>>

\* Faulty: a Connect is answered but its list not stored.
HandleGreetingAnswering(e) ==
  /\ reply[e] = NoDraft /\ net[e] # <<>> /\ Head(net[e]).kind \in Greets
  /\ theirs' = IF Head(net[e]).kind = "Connect" THEN theirs
               ELSE [theirs EXCEPT ![e] = Head(net[e]).channels]
  /\ named' = [named EXCEPT ![e] = TRUE]
  /\ reply' = [reply EXCEPT ![e] =
                 IF Head(net[e]).kind = "Connect" THEN Draft("ConnectAck") ELSE NoDraft]
  /\ net' = [net EXCEPT ![e] = Tail(@)]
  /\ UNCHANGED <<subs, early, status, app, breaks, apart>>

\* Faulty: a ConnectAck is answered too.
HandleGreetingEchoing(e) ==
  /\ reply[e] = NoDraft /\ net[e] # <<>> /\ Head(net[e]).kind \in Greets
  /\ theirs' = [theirs EXCEPT ![e] = Head(net[e]).channels]
  /\ named' = [named EXCEPT ![e] = TRUE]
  /\ reply' = [reply EXCEPT ![e] = Draft("ConnectAck")]
  /\ net' = [net EXCEPT ![e] = Tail(@)]
  /\ UNCHANGED <<subs, early, status, app, breaks, apart>>

\* messageReceived() sets the name, handleConnectAck() replaces the client's entry; in
\* between no other thread's step in this module looks at either.  A Connect is answered.
HandleGreeting(e) ==
  /\ reply[e] = NoDraft /\ net[e] # <<>> /\ Head(net[e]).kind \in Greets
  /\ theirs' = [theirs EXCEPT ![e] = Head(net[e]).channels]
  /\ named' = [named EXCEPT ![e] = TRUE]
  /\ reply' = [reply EXCEPT ![e] =
                 IF Head(net[e]).kind = "Connect" THEN Draft("ConnectAck") ELSE NoDraft]
  /\ net' = [net EXCEPT ![e] = Tail(@)]
  /\ UNCHANGED <<subs, early, status, app, breaks, apart>>

\* A request on a connection that has no name yet goes to a client named "", which
\* keeps it.
HandleSubscribeRequest(e) ==
  /\ reply[e] = NoDraft /\ net[e] # <<>> /\ Head(net[e]).kind = "SubscribeRequest"
  /\ IF named[e]
     THEN /\ theirs' = [theirs EXCEPT ![e] = @ \o Head(net[e]).channels]
          /\ early' = early
     ELSE /\ early' = [early EXCEPT ![e] = @ \o Head(net[e]).channels]
          /\ theirs' = theirs
  /\ net' = [net EXCEPT ![e] = Tail(@)]
  /\ UNCHANGED <<subs, named, status, app, reply, breaks, apart>>

-----------------------------------------------------------------------------
Next ==
  \/ Establish \/ Break
  \/ \E e \in Ends :
       \/ \E c \in Channels : SubscribeRequest(e, c)
       \/ SendSubscribeRequest(e) \/ Compose(e) \/ SendGreeting(e)
       \/ HandleGreeting(e) \/ HandleSubscribeRequest(e)

Spec == Init /\ [][Next]_vars

-----------------------------------------------------------------------------
(* Properties *)

Times(c, s) == Cardinality({i \in 1..Len(s) : s[i] = c})

\* Connected, with nothing on its way or being worked on.
Quiet ==
  \A e \in Ends :
    status[e] = "CONNECTED" /\ app[e] = Idle /\ reply[e] = NoDraft /\ net[e] = <<>>

(***************************************************************************)
(* When everything has been sent and handled, each end knows what the      *)
(* other has subscribed to before, between and after the handshakes,       *)
(* although lists replace what requests have added                         *)
(* (client_dispatcher.cpp:37-40, 151-164).                                 *)
(***************************************************************************)
ApartKnown ==
  Quiet => \A e \in Ends : \A c \in apart[e] : Times(c, theirs[Other(e)]) > 0

(***************************************************************************)
(* The same of every subscription: the requests are there "to let the peer *)
(* know what channels should be distributed" (swiftrobot_packet.h:100).    *)
(***************************************************************************)
PeerKnows ==
  Quiet => \A e \in Ends, c \in Channels :
             Times(c, subs[e]) > 0 => Times(c, theirs[Other(e)]) > 0

(***************************************************************************)
(* Whatever is lost, repeated or replaced, nobody is sent messages of a    *)
(* channel he has not subscribed to, and none more than twice for each     *)
(* subscription: once for the list it is in and once for its request       *)
(* (client_dispatcher.cpp:27-40, 151-164).                                 *)
(***************************************************************************)
NoSurplus ==
  \A e \in Ends, c \in Channels :
    Times(c, theirs[Other(e)]) + Times(c, early[Other(e)]) <= 2 * Times(c, subs[e])
=============================================================================
