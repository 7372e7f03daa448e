----------------------------- MODULE Distribution -----------------------------
(***************************************************************************)
(* Messages between two applications (client_dispatcher.cpp:27-35,         *)
(* 139-144, 177-190), over the connection on which Subscriptions tells     *)
(* each end what the other wants.  publish() walks over the clients, the   *)
(* one named "" first, and over the channels of each, and sends the        *)
(* message once for every entry that is equal to its channel; meanwhile    *)
(* the listening thread changes these lists.                               *)
(*                                                                         *)
(* A client is sent to by name: what is meant for it goes out on the first *)
(* connection that has its name, in the order of the ids that usbmuxd has  *)
(* given.  At the end that opens connections every connection there has    *)
(* been is still in devices, and may come before the present one.          *)
(*                                                                         *)
(* Subscriptions handles a greeting in one step.  The code sets the name   *)
(* of the connection before it replaces the list; what is sent in between  *)
(* may already go to the new name.                                         *)
(*                                                                         *)
(* A message is its channel: its payload is not what was published, since  *)
(* dispatchMessage() takes the Message without the derived object, whose   *)
(* serialize() writes nothing.                                             *)
(***************************************************************************)
EXTENDS Subscriptions

CONSTANTS Topics,     \* the channels on which messages are published
          MaxPosts    \* bound on the calls of publish()

ASSUME PostAssumption == Topics \subseteq Channels /\ MaxPosts \in Nat

VARIABLES walk,     \* each end's walk over its clients, in publish()
          posts,    \* the messages that have been published: <<end, channel>>
          heard,    \* what each end has handed to its subscribers
          old,      \* do connections of the past have a name ("named"), or not ("unnamed")?
          owed,     \* channels each end must still hear of (only the properties look at it)
          crashed   \* a walk over a list that has been moved: anything may follow

postVars == <<walk, posts, heard, old, owed, crashed>>
allVars  == <<vars, postVars>>

NoWalk == [client |-> "none", channel |-> <<>>, at |-> 1, list |-> <<>>]

\* dispatchMessage() is at a place of the list of a client: the one named "", or the peer.
Walks == [client : {"none", "unnamed", "named"}, channel : Seq(Channels),
          at : Nat \ {0}, list : Seq(Channels)]

PostTypeOK ==
  /\ TypeOK
  /\ walk \in [Ends -> Walks]
  /\ posts \in Seq(Ends \X Channels)
  /\ heard \in [Ends -> Seq(Channels)]
  /\ old \subseteq {"named", "unnamed"}
  /\ owed \in [Ends -> SUBSET Channels]
  /\ crashed \in BOOLEAN

PostInit ==
  /\ Init
  /\ walk = [e \in Ends |-> NoWalk]
  /\ posts = <<>> /\ heard = [e \in Ends |-> <<>>]
  /\ old = {}
  /\ owed = [e \in Ends |-> {}]
  /\ crashed = FALSE

-----------------------------------------------------------------------------
(* Where a message goes *)

State(e) == IF named[e] THEN "named" ELSE "unnamed"

\* A greeting whose name has been set may not have been handled to its end.
Greeting(e) == reply[e] = NoDraft /\ net[e] # <<>> /\ Head(net[e]).kind \in Greets

States(e) == {State(e)} \cup (IF Greeting(e) THEN {"named"} ELSE {})

\* Does the present connection have the client's name?
MayRoute(e, client) == status[e] = "CONNECTED" /\ client \in States(e)

\* Is it, besides, the only one that has ever had it?
Routes(e, client) ==
  /\ status[e] = "CONNECTED" /\ States(e) = {client}
  /\ e = Opener => client \notin old

\* send2Packet() finds the first connection with the client's name, or none.
SendMessage(e, client, c) ==
  \/ MayRoute(e, client) /\ Transmit(e, [kind |-> "Message", channels |-> <<c>>])
  \/ ~Routes(e, client) /\ net' = net

-----------------------------------------------------------------------------
(* publish() *)

\* The walk begins.
Publish(e, c) ==
  /\ walk[e] = NoWalk /\ Len(posts) < MaxPosts
  /\ walk' = [walk EXCEPT ![e] =
                [client |-> "unnamed", channel |-> <<c>>, at |-> 1, list |-> early[e]]]
  /\ posts' = Append(posts, <<e, c>>)
  /\ owed' = IF ~Handshake /\ Routes(e, "named") /\ Times(c, theirs[e]) > 0
             THEN [owed EXCEPT ![Other(e)] = @ \cup {c}] ELSE owed
  /\ UNCHANGED <<vars, heard, old, crashed>>

\* An entry of the list of the client the walk has come to.
Visit(e) ==
  LET w == walk[e] IN
  /\ w # NoWalk /\ w.at <= Len(w.list)
  /\ IF w.list[w.at] = w.channel[1] THEN SendMessage(e, w.client, w.list[w.at])
     ELSE net' = net
  /\ walk' = [walk EXCEPT ![e].at = @ + 1]
  /\ UNCHANGED <<subs, theirs, early, named, status, app, reply, breaks, apart>>
  /\ UNCHANGED <<posts, heard, old, owed, crashed>>

\* Faulty: entries are counted from 0.
NextClientFromZero(e) ==
  LET w == walk[e] IN
  /\ w # NoWalk /\ w.at > Len(w.list)
  /\ walk' = [walk EXCEPT ![e] =
       IF w.client = "named" THEN NoWalk
       ELSE [client |-> "named", channel |-> w.channel, at |-> 0, list |-> theirs[e]]]
  /\ UNCHANGED <<vars, posts, heard, old, owed, crashed>>

\* Faulty: only the first client.
NextClientNever(e) ==
  LET w == walk[e] IN
  /\ w # NoWalk /\ w.at > Len(w.list)
  /\ walk' = [walk EXCEPT ![e] = NoWalk]
  /\ UNCHANGED <<vars, posts, heard, old, owed, crashed>>

\* The next client, or the end of the walk.
NextClient(e) ==
  LET w == walk[e] IN
  /\ w # NoWalk /\ w.at > Len(w.list)
  /\ walk' = [walk EXCEPT ![e] =
       IF w.client = "named" THEN NoWalk
       ELSE [client |-> "named", channel |-> w.channel, at |-> 1, list |-> theirs[e]]]
  /\ UNCHANGED <<vars, posts, heard, old, owed, crashed>>

-----------------------------------------------------------------------------
(* The listening thread *)

\* handleMessage(): didReceiveMessage() notifies the subscribers of the channel.
HandleMessage(e) ==
  /\ reply[e] = NoDraft /\ net[e] # <<>> /\ Head(net[e]).kind = "Message"
  /\ heard' = [heard EXCEPT ![e] = @ \o Head(net[e]).channels]
  /\ owed' = [owed EXCEPT ![e] = @ \ {Head(net[e]).channels[1]}]
  /\ net' = [net EXCEPT ![e] = Tail(@)]
  /\ UNCHANGED <<subs, theirs, early, named, status, app, reply, breaks, apart>>
  /\ UNCHANGED <<walk, posts, old, crashed>>

\* The walk is in a list that the handler changes.
Walked(e, client) == walk[e].client = client

\* A vector whose memory holds a new, possibly shorter list.
Overwritten(list, new) == [i \in 1..Len(list) |-> IF i <= Len(new) THEN new[i] ELSE list[i]]

\* handleSubscribeRequest() appends: the list stays where it is, or moves.
HandleSubscribeRequestMeanwhile(e) ==
  /\ HandleSubscribeRequest(e)
  /\ crashed' \in IF Walked(e, State(e)) THEN BOOLEAN ELSE {FALSE}
  /\ UNCHANGED <<walk, posts, heard, old, owed>>

\* handleConnectAck() assigns a new list.
HandleGreetingMeanwhile(e) ==
  /\ HandleGreeting(e)
  /\ crashed' \in IF Walked(e, "named") THEN BOOLEAN ELSE {FALSE}
  /\ walk' = IF Walked(e, "named")
             THEN [walk EXCEPT ![e].list = Overwritten(@, theirs'[e])] ELSE walk
  /\ UNCHANGED <<posts, heard, old, owed>>

\* The opener's connection stays in devices under its name.
BreakMeanwhile ==
  /\ Break
  /\ old' \in {old \cup {state} : state \in States(Opener)}
  /\ owed' = [e \in Ends |-> {}]
  /\ UNCHANGED <<walk, posts, heard, crashed>>

-----------------------------------------------------------------------------
PostNext ==
  /\ ~crashed
  /\ \/ Establish /\ UNCHANGED postVars
     \/ BreakMeanwhile
     \/ \E e \in Ends :
          \/ \E c \in Channels : SubscribeRequest(e, c) /\ UNCHANGED postVars
          \/ \E c \in Topics : Publish(e, c)
          \/ (SendSubscribeRequest(e) \/ Compose(e) \/ SendGreeting(e)) /\ UNCHANGED postVars
          \/ HandleGreetingMeanwhile(e) \/ HandleSubscribeRequestMeanwhile(e)
          \/ HandleMessage(e) \/ Visit(e) \/ NextClient(e)

PostSpec == PostInit /\ [][PostNext]_allVars

\* A connection is made again, and no thread stops.
PostFairSpec ==
  /\ PostSpec
  /\ WF_allVars(~crashed /\ Establish /\ UNCHANGED postVars)
  /\ \A e \in Ends :
       /\ WF_allVars(~crashed /\ SendSubscribeRequest(e) /\ UNCHANGED postVars)
       /\ WF_allVars(~crashed /\ (Compose(e) \/ SendGreeting(e)) /\ UNCHANGED postVars)
       /\ WF_allVars(~crashed /\ (HandleGreetingMeanwhile(e)
                                  \/ HandleSubscribeRequestMeanwhile(e) \/ HandleMessage(e)))
       /\ WF_allVars(~crashed /\ (Visit(e) \/ NextClient(e)))

-----------------------------------------------------------------------------
(* Properties *)

(***************************************************************************)
(* Subscribers are given only what has been published on their channel,    *)
(* and no message more than twice for each subscription, whatever happens  *)
(* to the lists while they are walked and however often the connection is  *)
(* made (client_dispatcher.cpp:27-35, 139-164).                            *)
(***************************************************************************)
HeardEnough ==
  \A e \in Ends, c \in Channels :
    Times(c, heard[e]) <= 2 * Times(c, subs[e]) * Times(<<Other(e), c>>, posts)

(***************************************************************************)
(* What is published on a channel the peer is known to want, outside of a  *)
(* handshake and over the connection its name leads to, gets to the peer's *)
(* subscribers, unless that connection breaks                              *)
(* (client_dispatcher.cpp:27-35, 177-190, usbhub.cpp:81-87, 157-164).      *)
(***************************************************************************)
PublishedIsHeard ==
  \A e \in Ends, c \in Channels : c \in owed[e] ~> c \notin owed[e] \/ crashed

(***************************************************************************)
(* The handshake ends, and publish() returns, also when the connection     *)
(* breaks in the middle of them and with two threads sending               *)
(* (client_dispatcher.cpp:27-35, 146-159, 214-240).                        *)
(***************************************************************************)
ComesToRest == []<>(crashed \/ (Quiet /\ \A e \in Ends : walk[e] = NoWalk))
=============================================================================
