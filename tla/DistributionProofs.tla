-------------------------- MODULE DistributionProofs --------------------------
(***************************************************************************)
(* Two applications that tell each other their subscriptions and send each *)
(* other messages, for any channels and any number of calls and of         *)
(* connections that break: the types of the state, what an end may know of *)
(* the other's subscriptions and what it must know, and how often a        *)
(* message may be handed to a subscriber.                                  *)
(***************************************************************************)
EXTENDS Distribution, FunctionTheorems, FiniteSetTheorems, SequenceTheorems, TLAPS

Asking(c) == [kind |-> "SubscribeRequest", channels |-> <<c>>]
Saying(c) == [kind |-> "Message", channels |-> <<c>>]

(***************************************************************************)
(* What the types leave open: a thread that has no greeting to send has no *)
(* list; requests and messages are of one channel; so is a walk.           *)
(***************************************************************************)
Drafted == \A e \in Ends : reply[e].kind = "none" => reply[e] = NoDraft

Asked == \A e \in Ends : app[e] = Idle \/ \E c \in Channels : app[e] = Asking(c)

Single(packet) ==
  packet.kind \in Greets \/ \E c \in Channels : packet \in {Asking(c), Saying(c)}

Carried == \A e \in Ends : \A i \in 1..Len(net[e]) : Single(net[e][i])

Walking ==
  \A e \in Ends :
    walk[e] = NoWalk \/ /\ walk[e].client \in {"unnamed", "named"}
                        /\ \E c \in Channels : walk[e].channel = <<c>>

Shaped == Drafted /\ Asked /\ Carried /\ Walking

\* The requests for a channel that are not in the list the other end has of the client.
Unsettled(e, c) ==
  Times(c, early[Other(e)]) + Times(Asking(c), net[Other(e)])
    + (IF app[e] = Asking(c) THEN 1 ELSE 0)

Positions(x, s) == {i \in 1..Len(s) : s[i] = x}

Surplus(x, s, t) == Cardinality(Positions(x, s) \ Positions(x, t))

Begins(s, t) == Len(s) <= Len(t) /\ \A i \in 1..Len(s) : s[i] = t[i]

(***************************************************************************)
(* A list that is sent is a beginning of the subscriptions; and what the   *)
(* other end knows apart from such a beginning it knows from requests, of  *)
(* which each subscription has made one.                                   *)
(***************************************************************************)
ListsSent ==
  \A e \in Ends :
    /\ Begins(reply[e].channels, subs[e])
    /\ \A i \in 1..Len(net[Other(e)]) :
         net[Other(e)][i].kind \in Greets => Begins(net[Other(e)][i].channels, subs[e])

RequestsCount ==
  \A e \in Ends, c \in Channels :
    Surplus(c, theirs[Other(e)], subs[e]) + Unsettled(e, c) <= Times(c, subs[e])

(***************************************************************************)
(* The places of a walk that may still be found to hold the channel.  The  *)
(* other end's list may be overwritten, by a beginning of its              *)
(* subscriptions.                                                          *)
(***************************************************************************)
Ahead(e, c) ==
  {p \in walk[e].at..Len(walk[e].list) :
     \/ walk[e].list[p] = c
     \/ walk[e].client = "named" /\ p \in Positions(c, subs[Other(e)])}

Given(e, c)  == Times(c, heard[e]) + Times(Saying(c), net[e])
Posted(e, c) == Times(<<Other(e), c>>, posts)

(***************************************************************************)
(* What has been given to an end and what a walk of the other may still    *)
(* give it.  A walk over the early list uses up that list's share of its   *)
(* message; the rest of the share is left to the walk over the other list. *)
(***************************************************************************)
Share(e, c) == 2 * Times(c, subs[e]) * Posted(e, c)

Ration(e, c) ==
  LET f == Other(e) IN
  /\ walk[f].channel # <<c>> => Given(e, c) <= Share(e, c)
  /\ walk[f].channel = <<c>> =>
       /\ Posted(e, c) >= 1
       /\ walk[f].client = "unnamed" =>
            Given(e, c) + Cardinality(Ahead(f, c)) + 2 * Times(c, subs[e])
              <= Share(e, c) + Times(c, early[f])
       /\ walk[f].client = "named" =>
            Given(e, c) + Cardinality(Ahead(f, c)) <= Share(e, c)

Rationed == \A e \in Ends, c \in Channels : Ration(e, c)

(***************************************************************************)
(* The handshake.                                                          *)
(***************************************************************************)
NoGreeting(s) == \A i \in 1..Len(s) : s[i].kind \notin Greets

OneGreeting(s, kind) ==
  \E i \in 1..Len(s) :
    s[i].kind = kind /\ \A j \in 1..Len(s) : s[j].kind \in Greets => j = i

Closed ==
  /\ \A e \in Ends : status[e] = status[Opener]
  /\ status[Opener] = "down" => \A e \in Ends : ~named[e] /\ net[e] = <<>>

\* What the opener's thread and the other's are about to send, and which of them have
\* heard the other's name.
Phase(opener, other, known) ==
  LET p == Other(Opener) IN
  /\ reply[Opener].kind = opener /\ reply[p].kind = other
  /\ \A e \in Ends : named[e] <=> e \in known

Stages ==
  LET o == Opener
      p == Other(Opener)
  IN
  status[o] = "CONNECTED" =>
    \/ /\ Phase("Connect", "none", {})
       /\ NoGreeting(net[o]) /\ NoGreeting(net[p])
    \/ /\ Phase("none", "none", {})
       /\ NoGreeting(net[o]) /\ OneGreeting(net[p], "Connect")
    \/ /\ Phase("none", "ConnectAck", {p})
       /\ NoGreeting(net[o]) /\ NoGreeting(net[p])
    \/ /\ Phase("none", "none", {p})
       /\ OneGreeting(net[o], "ConnectAck") /\ NoGreeting(net[p])
    \/ /\ Phase("none", "none", {o, p})
       /\ NoGreeting(net[o]) /\ NoGreeting(net[p])

Holds(s, x) == \E i \in 1..Len(s) : s[i] = x

(***************************************************************************)
(* A subscription that was made apart from a handshake is in every list on *)
(* its way, and is known, or asked for, as soon as the peer has its name.  *)
(***************************************************************************)
Told ==
  \A e \in Ends : \A c \in apart[e] :
    LET f == Other(e) IN
    /\ Holds(subs[e], c)
    /\ status[e] = "CONNECTED" =>
         /\ reply[e].copied => Holds(reply[e].channels, c)
         /\ \A i \in 1..Len(net[f]) :
              net[f][i].kind \in Greets => Holds(net[f][i].channels, c)
         /\ named[f] => \/ Holds(theirs[f], c)
                        \/ app[e] = Asking(c)
                        \/ Holds(net[f], Asking(c))

-----------------------------------------------------------------------------
(* Two ends, and counting in sequences *)

LEMMA TwoEnds ==
  ASSUME NEW e \in Ends
  PROVE  /\ Other(e) \in Ends /\ Other(e) # e /\ Other(Other(e)) = e
         /\ \A f \in Ends : f = e \/ f = Other(e)
<1>1. IsFiniteSet(Ends \ {e}) /\ Cardinality(Ends \ {e}) = 1
  BY EndAssumption, FS_RemoveElement
<1>2. PICK f : Ends \ {e} = {f}
  BY <1>1, FS_Singleton
<1>3. f \in Ends /\ f # e
  BY <1>2
<1>4. Ends = {e, f}
  BY <1>2
<1>5. Other(e) = f /\ Other(f) = e
  BY <1>3, <1>4 DEF Other
<1>. QED  BY <1>3, <1>4, <1>5

LEMMA PositionsFinite ==
  ASSUME NEW T, NEW s \in Seq(T), NEW x
  PROVE  /\ IsFiniteSet(Positions(x, s)) /\ Positions(x, s) \subseteq Nat
         /\ Times(x, s) = Cardinality(Positions(x, s)) /\ Times(x, s) \in Nat
<1>1. IsFiniteSet(1..Len(s))
  BY FS_Interval
<1>2. Positions(x, s) \in SUBSET (1..Len(s))
  BY DEF Positions
<1>3. IsFiniteSet(Positions(x, s))
  BY <1>1, <1>2, FS_Subset
<1>. QED  BY <1>2, <1>3, FS_CardinalityType DEF Times, Positions

LEMMA TimesEmpty ==
  ASSUME NEW x
  PROVE  Times(x, <<>>) = 0 /\ Positions(x, <<>>) = {}
<1>1. {i \in 1..Len(<<>>) : <<>>[i] = x} = {}
  OBVIOUS
<1>. QED  BY <1>1, FS_EmptySet DEF Times, Positions

LEMMA PositionsAppend ==
  ASSUME NEW T, NEW s \in Seq(T), NEW y \in T, NEW x
  PROVE  Positions(x, Append(s, y)) =
           IF y = x THEN Positions(x, s) \cup {Len(s) + 1} ELSE Positions(x, s)
<1>1. /\ Len(Append(s, y)) = Len(s) + 1 /\ Len(s) \in Nat
      /\ Append(s, y)[Len(s) + 1] = y
      /\ \A i \in 1..Len(s) : Append(s, y)[i] = s[i]
  OBVIOUS
<1>2. 1..(Len(s) + 1) = 1..Len(s) \cup {Len(s) + 1}
  BY <1>1
<1>. QED  BY <1>1, <1>2 DEF Positions

LEMMA TimesAppend ==
  ASSUME NEW T, NEW s \in Seq(T), NEW y \in T, NEW x
  PROVE  Times(x, Append(s, y)) = Times(x, s) + (IF y = x THEN 1 ELSE 0)
<1>1. Append(s, y) \in Seq(T) /\ Len(s) \in Nat
  OBVIOUS
<1>2. Len(s) + 1 \notin Positions(x, s)
  BY <1>1 DEF Positions
<1>3. /\ IsFiniteSet(Positions(x, s)) /\ Times(x, s) \in Nat
      /\ Times(x, s) = Cardinality(Positions(x, s))
      /\ Times(x, Append(s, y)) = Cardinality(Positions(x, Append(s, y)))
  BY <1>1, PositionsFinite
<1>4. CASE y = x
  <2>1. Positions(x, Append(s, y)) = Positions(x, s) \cup {Len(s) + 1}
    BY <1>4, PositionsAppend
  <2>2. Cardinality(Positions(x, s) \cup {Len(s) + 1}) = Cardinality(Positions(x, s)) + 1
    BY <1>2, <1>3, FS_AddElement
  <2>. QED  BY <1>3, <1>4, <2>1, <2>2
<1>5. CASE y # x
  <2>1. Positions(x, Append(s, y)) = Positions(x, s)
    BY <1>5, PositionsAppend
  <2>. QED  BY <1>3, <1>5, <2>1
<1>. QED  BY <1>4, <1>5

LEMMA TimesTail ==
  ASSUME NEW T, NEW s \in Seq(T), s # <<>>, NEW x
  PROVE  Times(x, s) = Times(x, Tail(s)) + (IF Head(s) = x THEN 1 ELSE 0)
<1>1. /\ Tail(s) \in Seq(T) /\ Len(s) \in Nat \ {0} /\ Len(Tail(s)) = Len(s) - 1
      /\ Head(s) = s[1] /\ \A i \in 1..Len(Tail(s)) : Tail(s)[i] = s[i + 1]
  OBVIOUS
<1> DEFINE rest == Positions(x, s) \ {1}
           after == Positions(x, Tail(s))
           f == [i \in after |-> i + 1]
<1>2. IsFiniteSet(Positions(x, s)) /\ Times(x, s) = Cardinality(Positions(x, s))
  BY PositionsFinite
<1>3. IsFiniteSet(after) /\ Times(x, Tail(s)) = Cardinality(after)
  BY <1>1, PositionsFinite
<1>4. f \in Bijection(after, rest)
  <2>1. \A i \in after : i \in Nat /\ i + 1 \in rest
    BY <1>1 DEF Positions
  <2>2. f \in Injection(after, rest)
    BY <2>1, Fun_IsInj
  <2>3. \A j \in rest : j - 1 \in after /\ f[j - 1] = j
    BY <1>1 DEF Positions
  <2>4. f \in Surjection(after, rest)
    BY <2>1, <2>3 DEF Surjection
  <2>. QED  BY <2>2, <2>4 DEF Bijection
<1>5. Cardinality(rest) = Cardinality(after)
  BY <1>3, <1>4, FS_Bijection DEF ExistsBijection
<1>6. Cardinality(rest) = IF 1 \in Positions(x, s) THEN Times(x, s) - 1 ELSE Times(x, s)
  BY <1>2, FS_RemoveElement
<1>7. 1 \in Positions(x, s) <=> Head(s) = x
  BY <1>1 DEF Positions
<1>8. Times(x, s) \in Nat /\ Times(x, Tail(s)) \in Nat
  BY <1>1, PositionsFinite
<1>. QED  BY <1>3, <1>5, <1>6, <1>7, <1>8

-----------------------------------------------------------------------------
(* Types *)

Replies == [kind : Greets \cup {"none"}, channels : Seq(Channels), copied : BOOLEAN]

LEMMA DraftType ==
  ASSUME NEW kind \in Greets \cup {"none"}
  PROVE  /\ Draft(kind) \in Replies /\ ~Draft(kind).copied
         /\ Draft(kind).kind = kind /\ Draft(kind).channels = <<>>
BY DEF Draft, Replies

LEMMA NoDraftType == NoDraft \in Replies /\ ~NoDraft.copied /\ NoDraft.kind = "none"
BY DraftType DEF NoDraft

Types == PostTypeOK /\ Shaped

LEMMA PacketTypes ==
  ASSUME NEW c \in Channels
  PROVE  /\ Asking(c) \in Packets /\ Single(Asking(c)) /\ Asking(c) # Idle
         /\ Saying(c) \in Packets /\ Single(Saying(c))
         /\ Asking(c).kind \notin Greets /\ Saying(c).kind \notin Greets
         /\ Asking(c).channels = <<c>> /\ Saying(c).channels = <<c>>
         /\ \A d : Asking(c) # Saying(d) /\ (Asking(c) = Asking(d) => c = d)
                   /\ (Saying(c) = Saying(d) => c = d) /\ Saying(c) # Asking(d)
<1>1. <<c>> \in Seq(Channels)
  OBVIOUS
<1>2. \A d : <<c>> = <<d>> => c = d
  OBVIOUS
<1>. QED
  BY <1>1, <1>2 DEF Asking, Saying, Packets, Kinds, Greets, Single, Idle

LEMMA HeadPacket ==
  ASSUME Types, NEW e \in Ends, net[e] # <<>>
  PROVE  /\ net[e] \in Seq(Packets) /\ Tail(net[e]) \in Seq(Packets)
         /\ Head(net[e]) \in Packets /\ Single(Head(net[e]))
         /\ Head(net[e]) = net[e][1]
         /\ Len(net[e]) \in Nat \ {0} /\ Len(Tail(net[e])) = Len(net[e]) - 1
         /\ \A i \in 1..Len(Tail(net[e])) : Tail(net[e])[i] = net[e][i + 1]
<1>1. net[e] \in Seq(Packets)
  BY DEF Types, PostTypeOK, TypeOK
<1>2. /\ Tail(net[e]) \in Seq(Packets) /\ Head(net[e]) = net[e][1]
      /\ Head(net[e]) \in Packets
      /\ Len(net[e]) \in Nat \ {0} /\ Len(Tail(net[e])) = Len(net[e]) - 1
      /\ \A i \in 1..Len(Tail(net[e])) : Tail(net[e])[i] = net[e][i + 1]
  BY <1>1
<1>3. Single(net[e][1])
  BY <1>2 DEF Types, Shaped, Carried
<1>. QED  BY <1>1, <1>2, <1>3

LEMMA HeadTaken ==
  ASSUME Types, NEW e \in Ends, net[e] # <<>>, net' = [net EXCEPT ![e] = Tail(@)]
  PROVE  /\ net'[e] = Tail(net[e]) /\ \A f \in Ends \ {e} : net'[f] = net[f]
         /\ net' \in [Ends -> Seq(Packets)] /\ Carried'
<1>1. /\ Tail(net[e]) \in Seq(Packets)
      /\ Len(net[e]) \in Nat \ {0} /\ Len(Tail(net[e])) = Len(net[e]) - 1
      /\ \A i \in 1..Len(Tail(net[e])) : Tail(net[e])[i] = net[e][i + 1]
  BY HeadPacket
<1>2. /\ net'[e] = Tail(net[e]) /\ \A f \in Ends \ {e} : net'[f] = net[f]
      /\ net' \in [Ends -> Seq(Packets)]
  BY <1>1 DEF Types, PostTypeOK, TypeOK
<1>3. ASSUME NEW f \in Ends, NEW i \in 1..Len(net'[f])
      PROVE  Single(net'[f][i])
  <2>1. CASE f = e
    <3>1. i + 1 \in 1..Len(net[e]) /\ net'[f][i] = net[e][i + 1]
      BY <1>1, <1>2, <2>1
    <3>. QED  BY <3>1 DEF Types, Shaped, Carried
  <2>2. CASE f # e
    BY <1>2, <2>2 DEF Types, Shaped, Carried
  <2>. QED  BY <2>1, <2>2
<1>. QED  BY <1>2, <1>3 DEF Carried

LEMMA PacketSent ==
  ASSUME Types, NEW e \in Ends, NEW packet \in Packets, Single(packet),
         Transmit(e, packet)
  PROVE  /\ net'[e] = net[e]
         /\ net'[Other(e)] = IF status[e] = "CONNECTED" THEN Append(net[Other(e)], packet)
                             ELSE net[Other(e)]
         /\ net' \in [Ends -> Seq(Packets)] /\ Carried'
<1>1. CASE status[e] = "CONNECTED"
  <2> DEFINE f == Other(e)
  <2>1. f \in Ends /\ f # e
    BY TwoEnds
  <2> HIDE DEF f
  <2>2. net' = [net EXCEPT ![f] = Append(@, packet)]
    BY <1>1 DEF Transmit, f
  <2>3. net[f] \in Seq(Packets)
    BY <2>1 DEF Types, PostTypeOK, TypeOK
  <2>4. /\ net'[e] = net[e] /\ net'[f] = Append(net[f], packet)
        /\ net' \in [Ends -> Seq(Packets)]
        /\ \A g \in Ends : g # f => net'[g] = net[g]
    BY <2>1, <2>2, <2>3 DEF Types, PostTypeOK, TypeOK
  <2>5. \A i \in 1..Len(net'[f]) :
          net'[f][i] = packet \/ (i \in 1..Len(net[f]) /\ net'[f][i] = net[f][i])
    BY <2>3, <2>4
  <2>6. Carried'
    BY <2>1, <2>4, <2>5 DEF Carried, Types, Shaped
  <2>. QED  BY <1>1, <2>4, <2>6 DEF f
<1>2. CASE status[e] # "CONNECTED"
  <2>1. net' = net
    BY <1>2 DEF Transmit
  <2>. QED  BY <1>2, <2>1 DEF Types, PostTypeOK, TypeOK, Shaped, Carried
<1>. QED  BY <1>1, <1>2

LEMMA EstablishType == ASSUME Types, Establish, UNCHANGED postVars PROVE Types'
<1>1. reply' \in [Ends -> Replies] /\ reply' = [reply EXCEPT ![Opener] = Draft("Connect")]
  BY DraftType DEF Types, PostTypeOK, TypeOK, Establish, Greets, Replies
<1>2. status' \in [Ends -> {"down", "CONNECTED"}]
  BY DEF Establish
<1>3. Drafted'
  BY <1>1, DraftType DEF Types, PostTypeOK, TypeOK, Shaped, Drafted, Greets
<1>4. PostTypeOK'
  BY <1>1, <1>2 DEF Types, PostTypeOK, TypeOK, Establish, postVars, Replies
<1>. QED
  BY <1>3, <1>4 DEF Types, Shaped, Asked, Carried, Walking, Establish, postVars

LEMMA BreakType == ASSUME Types, BreakMeanwhile PROVE Types'
<1>1. PostTypeOK'
  <2>1. /\ status' \in [Ends -> {"down", "CONNECTED"}] /\ named' \in [Ends -> BOOLEAN]
        /\ net' \in [Ends -> Seq(Packets)] /\ owed' \in [Ends -> SUBSET Channels]
    BY DEF BreakMeanwhile, Break
  <2>2. breaks' \in 0..MaxBreaks
    BY BoundAssumption DEF BreakMeanwhile, Break, Types, PostTypeOK, TypeOK
  <2>3. old' \subseteq {"named", "unnamed"}
    BY DEF BreakMeanwhile, State, States, Types, PostTypeOK
  <2>. QED  BY <2>1, <2>2, <2>3 DEF Types, PostTypeOK, TypeOK, BreakMeanwhile, Break
<1>2. Carried'
  BY DEF Carried, BreakMeanwhile, Break
<1>. QED
  BY <1>1, <1>2 DEF Types, Shaped, Drafted, Asked, Walking, BreakMeanwhile, Break

LEMMA SubscribeType ==
  ASSUME Types, NEW e \in Ends, NEW c \in Channels, SubscribeRequest(e, c),
         UNCHANGED postVars
  PROVE  Types'
<1>1. subs' \in [Ends -> Seq(Channels)]
  BY DEF SubscribeRequest, Types, PostTypeOK, TypeOK
<1>2. app' = [app EXCEPT ![e] = Asking(c)]
  BY DEF SubscribeRequest, Asking
<1>3. app' \in [Ends -> Packets \cup {Idle}]
  BY <1>2, PacketTypes DEF Types, PostTypeOK, TypeOK
<1>4. Asked'
  BY <1>2 DEF Asked, Types, PostTypeOK, TypeOK, Shaped
<1>5. apart' \in [Ends -> SUBSET Channels]
  BY DEF SubscribeRequest, Types, PostTypeOK, TypeOK
<1>6. PostTypeOK'
  BY <1>1, <1>3, <1>5 DEF SubscribeRequest, Types, PostTypeOK, TypeOK, postVars
<1>. QED
  BY <1>4, <1>6 DEF Types, Shaped, Drafted, Carried, Walking, SubscribeRequest, postVars

LEMMA SendType ==
  ASSUME Types, NEW e \in Ends, SendSubscribeRequest(e), UNCHANGED postVars
  PROVE  Types'
<1>1. app[e] \in Packets /\ Single(app[e])
  BY PacketTypes DEF Types, Shaped, Asked, SendSubscribeRequest, Single
<1>2. net' \in [Ends -> Seq(Packets)] /\ Carried'
  BY <1>1, PacketSent DEF SendSubscribeRequest
<1>3. app' \in [Ends -> Packets \cup {Idle}] /\ Asked'
  BY DEF SendSubscribeRequest, Types, PostTypeOK, TypeOK, Shaped, Asked
<1>4. PostTypeOK'
  BY <1>2, <1>3 DEF SendSubscribeRequest, Types, PostTypeOK, TypeOK, postVars
<1>. QED
  BY <1>2, <1>3, <1>4 DEF Types, Shaped, Drafted, Walking, SendSubscribeRequest, postVars

LEMMA ComposeType ==
  ASSUME Types, NEW e \in Ends, Compose(e), UNCHANGED postVars
  PROVE  Types'
<1>1. reply[e].kind \in Greets
  BY DEF Compose, Types, PostTypeOK, TypeOK, Shaped, Drafted
<1>2. /\ reply' = [reply EXCEPT ![e] = [@ EXCEPT !.channels = subs[e], !.copied = TRUE]]
      /\ UNCHANGED <<subs, theirs, early, named, status, app, net, breaks, apart>>
  BY DEF Compose
<1> DEFINE r == [reply[e] EXCEPT !.channels = subs[e], !.copied = TRUE]
<1>3. r \in Replies /\ r.kind = reply[e].kind
  BY DEF Types, PostTypeOK, TypeOK, Replies
<1> HIDE DEF r
<1>4. reply' \in [Ends -> Replies] /\ Drafted'
  <2>1. reply' = [reply EXCEPT ![e] = r] /\ reply \in [Ends -> Replies]
    BY <1>2 DEF r, Types, PostTypeOK, TypeOK, Replies
  <2>2. reply'[e] = r /\ \A f \in Ends \ {e} : reply'[f] = reply[f]
    BY <2>1
  <2>3. reply' \in [Ends -> Replies]
    BY <1>3, <2>1
  <2>. QED  BY <1>1, <1>3, <2>2, <2>3 DEF Types, Shaped, Drafted, Greets
<1>5. PostTypeOK'
  BY <1>2, <1>4 DEF Types, PostTypeOK, TypeOK, postVars, Replies
<1>. QED
  BY <1>2, <1>4, <1>5 DEF Types, Shaped, Asked, Carried, Walking, postVars

LEMMA GreetingPacket ==
  ASSUME Types, NEW e \in Ends, SendGreeting(e)
  PROVE  LET p == [kind |-> reply[e].kind, channels |-> reply[e].channels]
         IN  p \in Packets /\ Single(p) /\ p.kind \in Greets /\ reply[e].kind \in Greets
<1>1. reply[e].kind \in Greets
  BY NoDraftType DEF SendGreeting, Types, PostTypeOK, TypeOK, Shaped, Drafted
<1>. QED  BY <1>1 DEF Types, PostTypeOK, TypeOK, Packets, Kinds, Single

LEMMA SendGreetingType ==
  ASSUME Types, NEW e \in Ends, SendGreeting(e), UNCHANGED postVars
  PROVE  Types'
<1>1. net' \in [Ends -> Seq(Packets)] /\ Carried'
  BY GreetingPacket, PacketSent DEF SendGreeting
<1>2. reply' \in [Ends -> Replies] /\ Drafted'
  BY NoDraftType DEF SendGreeting, Types, PostTypeOK, TypeOK, Shaped, Drafted, Replies
<1>3. PostTypeOK'
  BY <1>1, <1>2 DEF SendGreeting, Types, PostTypeOK, TypeOK, postVars, Replies
<1>. QED
  BY <1>1, <1>2, <1>3 DEF Types, Shaped, Asked, Walking, SendGreeting, postVars

LEMMA GreetingType ==
  ASSUME Types, NEW e \in Ends, HandleGreetingMeanwhile(e)
  PROVE  Types'
<1> DEFINE list == Head(net[e]).channels
<1>1. /\ reply[e] = NoDraft /\ net[e] # <<>> /\ Head(net[e]).kind \in Greets
      /\ theirs' = [theirs EXCEPT ![e] = list]
      /\ named' = [named EXCEPT ![e] = TRUE]
      /\ net' = [net EXCEPT ![e] = Tail(@)]
      /\ UNCHANGED <<subs, early, status, app, breaks, apart, posts, heard, old, owed>>
  BY DEF HandleGreetingMeanwhile, HandleGreeting
<1>2. list \in Seq(Channels)
  BY <1>1, HeadPacket DEF Packets
<1> HIDE DEF list
<1>3. net' \in [Ends -> Seq(Packets)] /\ Carried'
  BY <1>1, HeadTaken
<1>4. theirs' \in [Ends -> Seq(Channels)] /\ named' \in [Ends -> BOOLEAN]
  BY <1>1, <1>2 DEF Types, PostTypeOK, TypeOK
<1>5. reply' \in [Ends -> Replies] /\ Drafted'
  <2>1. PICK d \in {Draft("ConnectAck"), NoDraft} : reply' = [reply EXCEPT ![e] = d]
    BY DEF HandleGreetingMeanwhile, HandleGreeting
  <2>2. d \in Replies /\ (d.kind = "none" => d = NoDraft)
    BY <2>1, DraftType, NoDraftType DEF Greets
  <2>. QED  BY <2>1, <2>2 DEF Types, PostTypeOK, TypeOK, Shaped, Drafted, Replies
<1>6. crashed' \in BOOLEAN
  BY DEF HandleGreetingMeanwhile
<1>7. walk' \in [Ends -> Walks] /\ Walking'
  <2>1. CASE Walked(e, "named")
    <3> DEFINE over == Overwritten(walk[e].list, theirs'[e])
               w == [walk[e] EXCEPT !.list = over]
    <3>1. walk' = [walk EXCEPT ![e] = w]
      BY <2>1 DEF HandleGreetingMeanwhile
    <3>2. walk[e] \in Walks /\ theirs'[e] \in Seq(Channels)
      BY <1>4 DEF Types, PostTypeOK
    <3>3. over \in Seq(Channels)
      BY <3>2 DEF Overwritten, Walks
    <3> HIDE DEF over
    <3>4. /\ w \in Walks /\ w.client = walk[e].client /\ w.channel = walk[e].channel
          /\ walk[e].client = "named" /\ walk[e] # NoWalk
      BY <2>1, <3>2, <3>3 DEF Walks, Walked, NoWalk
    <3> HIDE DEF w
    <3>. QED  BY <3>1, <3>4 DEF Types, PostTypeOK, Shaped, Walking
  <2>2. CASE walk' = walk
    BY <2>2 DEF Types, PostTypeOK, Shaped, Walking
  <2>. QED  BY <2>1, <2>2 DEF HandleGreetingMeanwhile
<1>8. PostTypeOK'
  BY <1>1, <1>3, <1>4, <1>5, <1>6, <1>7 DEF Types, PostTypeOK, TypeOK, Replies
<1>. QED  BY <1>1, <1>3, <1>5, <1>7, <1>8 DEF Types, Shaped, Asked

\* The head is a request if it is a SubscribeRequest packet, and a message otherwise.
LEMMA HeadKind ==
  ASSUME Types, NEW e \in Ends, net[e] # <<>>
  PROVE  /\ Head(net[e]).kind = "SubscribeRequest" =>
              \E c \in Channels : Head(net[e]) = Asking(c)
         /\ Head(net[e]).kind = "Message" => \E c \in Channels : Head(net[e]) = Saying(c)
<1>1. Single(Head(net[e]))
  BY HeadPacket
<1>. QED  BY <1>1 DEF Single, Greets, Asking, Saying

LEMMA RequestEffect ==
  ASSUME Types, NEW e \in Ends, HandleSubscribeRequest(e)
  PROVE  /\ reply[e] = NoDraft /\ net[e] # <<>> /\ net' = [net EXCEPT ![e] = Tail(@)]
         /\ UNCHANGED <<subs, named, status, app, reply, breaks, apart>>
         /\ {theirs', early'} \subseteq [Ends -> Seq(Channels)]
         /\ \E c \in Channels :
              /\ Head(net[e]) = Asking(c)
              /\ theirs' = IF named[e] THEN [theirs EXCEPT ![e] = Append(@, c)] ELSE theirs
              /\ early' = IF named[e] THEN early ELSE [early EXCEPT ![e] = Append(@, c)]
<1>1. /\ reply[e] = NoDraft /\ net[e] # <<>> /\ Head(net[e]).kind = "SubscribeRequest"
      /\ net' = [net EXCEPT ![e] = Tail(@)]
      /\ UNCHANGED <<subs, named, status, app, reply, breaks, apart>>
  BY DEF HandleSubscribeRequest
<1>2. PICK c \in Channels : Head(net[e]) = Asking(c)
  BY <1>1, HeadKind
<1>3. Head(net[e]).channels = <<c>>
  BY <1>2 DEF Asking
<1>4. \A s \in Seq(Channels) : s \o <<c>> = Append(s, c)
  OBVIOUS
<1>5. theirs[e] \in Seq(Channels) /\ early[e] \in Seq(Channels)
  BY DEF Types, PostTypeOK, TypeOK
<1>6. /\ theirs' = IF named[e] THEN [theirs EXCEPT ![e] = Append(@, c)] ELSE theirs
      /\ early' = IF named[e] THEN early ELSE [early EXCEPT ![e] = Append(@, c)]
  BY <1>3, <1>4, <1>5 DEF HandleSubscribeRequest
<1>7. {theirs', early'} \subseteq [Ends -> Seq(Channels)]
  BY <1>6, <1>5 DEF Types, PostTypeOK, TypeOK
<1>. QED  BY <1>1, <1>2, <1>6, <1>7

LEMMA RequestType ==
  ASSUME Types, NEW e \in Ends, HandleSubscribeRequestMeanwhile(e)
  PROVE  Types'
<1>1. /\ net' \in [Ends -> Seq(Packets)] /\ Carried'
      /\ {theirs', early'} \subseteq [Ends -> Seq(Channels)]
      /\ UNCHANGED <<subs, named, status, app, reply, breaks, apart>>
  BY RequestEffect, HeadTaken DEF HandleSubscribeRequestMeanwhile
<1>2. UNCHANGED <<walk, posts, heard, old, owed>> /\ crashed' \in BOOLEAN
  BY DEF HandleSubscribeRequestMeanwhile
<1>3. PostTypeOK'
  BY <1>1, <1>2 DEF Types, PostTypeOK, TypeOK
<1>. QED  BY <1>1, <1>2, <1>3 DEF Types, Shaped, Drafted, Asked, Walking

LEMMA PublishType ==
  ASSUME Types, NEW e \in Ends, NEW c \in Topics, Publish(e, c)
  PROVE  Types'
<1> DEFINE w == [client |-> "unnamed", channel |-> <<c>>, at |-> 1, list |-> early[e]]
<1>1. c \in Channels /\ Other(e) \in Ends
  BY PostAssumption, TwoEnds
<1>2. w \in Walks /\ w.client = "unnamed" /\ w.channel = <<c>>
  BY <1>1 DEF Walks, Types, PostTypeOK, TypeOK
<1>3. /\ walk' = [walk EXCEPT ![e] = w] /\ posts' = Append(posts, <<e, c>>)
      /\ UNCHANGED <<vars, heard, old, crashed>>
  BY DEF Publish
<1> HIDE DEF w
<1>4. walk' \in [Ends -> Walks] /\ Walking'
  BY <1>1, <1>2, <1>3 DEF Types, PostTypeOK, Shaped, Walking
<1>5. posts' \in Seq(Ends \X Channels)
  BY <1>1, <1>3 DEF Types, PostTypeOK
<1>6. owed' \in [Ends -> SUBSET Channels]
  BY <1>1 DEF Publish, Types, PostTypeOK
<1>7. PostTypeOK'
  BY <1>3, <1>4, <1>5, <1>6 DEF Types, PostTypeOK, TypeOK, vars
<1>. QED  BY <1>3, <1>4, <1>7 DEF Types, Shaped, Drafted, Asked, Carried, vars

\* A visit sends a message of the walk's channel, or nothing.
LEMMA VisitEffect ==
  ASSUME Types, NEW e \in Ends, Visit(e)
  PROVE  /\ walk[e] \in Walks /\ walk[e].client \in {"unnamed", "named"}
         /\ walk[e].at \in 1..Len(walk[e].list)
         /\ walk' = [walk EXCEPT ![e].at = @ + 1]
         /\ \E c \in Channels :
              /\ walk[e].channel = <<c>>
              /\ \/ walk[e].list[walk[e].at] = c /\ Transmit(e, Saying(c))
                 \/ net' = net
         /\ UNCHANGED <<subs, theirs, early, named, status, app, reply, breaks, apart,
                        posts, heard, old, owed, crashed>>
<1>1. /\ walk[e] # NoWalk /\ walk[e].at <= Len(walk[e].list)
      /\ walk' = [walk EXCEPT ![e].at = @ + 1]
      /\ UNCHANGED <<subs, theirs, early, named, status, app, reply, breaks, apart,
                     posts, heard, old, owed, crashed>>
      /\ \/ /\ walk[e].list[walk[e].at] = walk[e].channel[1]
            /\ SendMessage(e, walk[e].client, walk[e].list[walk[e].at])
         \/ net' = net
  BY DEF Visit
<1>2. walk[e] \in Walks
  BY DEF Types, PostTypeOK
<1>3. walk[e].at \in 1..Len(walk[e].list)
  BY <1>1, <1>2 DEF Walks
<1>4. PICK c \in Channels : walk[e].channel = <<c>>
  BY <1>1 DEF Types, Shaped, Walking
<1>5. walk[e].client \in {"unnamed", "named"}
  BY <1>1 DEF Types, Shaped, Walking
<1>6. ASSUME SendMessage(e, walk[e].client, c)
      PROVE  Transmit(e, Saying(c)) \/ net' = net
  BY <1>6 DEF SendMessage, Saying
<1>. QED  BY <1>1, <1>2, <1>3, <1>4, <1>5, <1>6

LEMMA VisitType ==
  ASSUME Types, NEW e \in Ends, Visit(e)
  PROVE  Types'
<1>1. net' \in [Ends -> Seq(Packets)] /\ Carried'
  <2>1. ASSUME NEW c \in Channels, Transmit(e, Saying(c))
        PROVE  net' \in [Ends -> Seq(Packets)] /\ Carried'
    BY <2>1, PacketTypes, PacketSent
  <2>2. CASE net' = net
    BY <2>2 DEF Types, PostTypeOK, TypeOK, Shaped, Carried
  <2>3. \/ \E c \in Channels : Transmit(e, Saying(c))
        \/ net' = net
    BY VisitEffect
  <2>. QED  BY <2>1, <2>2, <2>3
<1> DEFINE w == [walk[e] EXCEPT !.at = @ + 1]
<1>2. /\ w \in Walks /\ w.client = walk[e].client /\ w.channel = walk[e].channel
      /\ w.client \in {"unnamed", "named"} /\ \E c \in Channels : w.channel = <<c>>
  BY VisitEffect DEF Walks
<1>3. walk' = [walk EXCEPT ![e] = w]
  BY VisitEffect
<1> HIDE DEF w
<1>4. walk' \in [Ends -> Walks] /\ Walking'
  BY <1>2, <1>3 DEF Types, PostTypeOK, Shaped, Walking
<1>5. UNCHANGED <<subs, theirs, early, named, status, app, reply, breaks, apart,
                  posts, heard, old, owed, crashed>>
  BY VisitEffect
<1>6. PostTypeOK'
  BY <1>1, <1>4, <1>5 DEF Types, PostTypeOK, TypeOK
<1>. QED  BY <1>1, <1>4, <1>5, <1>6 DEF Types, Shaped, Drafted, Asked

LEMMA NextClientType ==
  ASSUME Types, NEW e \in Ends, NextClient(e)
  PROVE  Types'
<1> DEFINE w == [client |-> "named", channel |-> walk[e].channel, at |-> 1,
                 list |-> theirs[e]]
<1>1. walk[e] # NoWalk /\ UNCHANGED <<vars, posts, heard, old, owed, crashed>>
  BY DEF NextClient
<1>2. \/ walk' = [walk EXCEPT ![e] = NoWalk]
      \/ walk' = [walk EXCEPT ![e] = w]
  BY DEF NextClient
<1>3. NoWalk \in Walks
  BY DEF NoWalk, Walks
<1>4. /\ w \in Walks /\ w.client = "named"
      /\ \E c \in Channels : w.channel = <<c>>
  BY <1>1 DEF Walks, Types, PostTypeOK, TypeOK, Shaped, Walking
<1> HIDE DEF w
<1>5. walk' \in [Ends -> Walks] /\ Walking'
  BY <1>2, <1>3, <1>4 DEF Types, PostTypeOK, Shaped, Walking
<1>6. PostTypeOK'
  BY <1>1, <1>5 DEF Types, PostTypeOK, TypeOK, vars
<1>. QED  BY <1>1, <1>5, <1>6 DEF Types, Shaped, Drafted, Asked, Carried, vars

LEMMA MessageEffect ==
  ASSUME Types, NEW e \in Ends, HandleMessage(e)
  PROVE  /\ reply[e] = NoDraft /\ net[e] # <<>> /\ net' = [net EXCEPT ![e] = Tail(@)]
         /\ UNCHANGED <<subs, theirs, early, named, status, app, reply, breaks, apart,
                        walk, posts, old, crashed>>
         /\ \E c \in Channels :
              Head(net[e]) = Saying(c) /\ heard' = [heard EXCEPT ![e] = Append(@, c)]
<1>1. PICK c \in Channels : Head(net[e]) = Saying(c)
  BY HeadKind DEF HandleMessage
<1>2. Head(net[e]).channels = <<c>>
  BY <1>1 DEF Saying
<1>3. heard[e] \o <<c>> = Append(heard[e], c)
  BY DEF Types, PostTypeOK
<1>. QED  BY <1>1, <1>2, <1>3 DEF HandleMessage

LEMMA MessageType ==
  ASSUME Types, NEW e \in Ends, HandleMessage(e)
  PROVE  Types'
<1>1. net' \in [Ends -> Seq(Packets)] /\ Carried'
  BY MessageEffect, HeadTaken
<1>2. heard' \in [Ends -> Seq(Channels)]
  <2>1. PICK c \in Channels : heard' = [heard EXCEPT ![e] = Append(@, c)]
    BY MessageEffect
  <2>. QED  BY <2>1 DEF Types, PostTypeOK
<1>3. owed' \in [Ends -> SUBSET Channels]
  BY DEF HandleMessage, Types, PostTypeOK
<1>4. UNCHANGED <<subs, theirs, early, named, status, app, reply, breaks, apart,
                  walk, posts, old, crashed>>
  BY MessageEffect
<1>5. PostTypeOK'
  BY <1>1, <1>2, <1>3, <1>4 DEF Types, PostTypeOK, TypeOK
<1>. QED  BY <1>1, <1>4, <1>5 DEF Types, Shaped, Drafted, Asked, Walking

LEMMA TypesKept == Types /\ [PostNext]_allVars => Types'
<1> SUFFICES ASSUME Types, [PostNext]_allVars PROVE Types'
  OBVIOUS
<1>1. ASSUME NEW e \in Ends,
             (SendSubscribeRequest(e) \/ Compose(e) \/ SendGreeting(e)) /\ UNCHANGED postVars
      PROVE  Types'
  BY <1>1, SendType, ComposeType, SendGreetingType
<1>2. ASSUME NEW e \in Ends,
             \/ HandleGreetingMeanwhile(e) \/ HandleSubscribeRequestMeanwhile(e)
             \/ HandleMessage(e) \/ Visit(e) \/ NextClient(e)
      PROVE  Types'
  BY <1>2, GreetingType, RequestType, MessageType, VisitType, NextClientType
<1>3. CASE UNCHANGED allVars
  BY <1>3 DEF allVars, vars, postVars, Types, PostTypeOK, TypeOK, Shaped, Drafted, Asked,
     Carried, Walking
<1>. QED
  BY <1>1, <1>2, <1>3, EstablishType, BreakType, SubscribeType, PublishType DEF PostNext

LEMMA TypesStart == PostInit => Types
<1> SUFFICES ASSUME PostInit PROVE Types
  OBVIOUS
<1>1. NoWalk \in Walks
  BY DEF NoWalk, Walks
<1>2. TypeOK
  <2>1. breaks \in 0..MaxBreaks /\ <<>> \in Seq(Channels) /\ <<>> \in Seq(Packets)
    BY BoundAssumption DEF PostInit, Init
  <2>. QED  BY <2>1, NoDraftType DEF PostInit, Init, TypeOK, Replies
<1>3. PostTypeOK
  <2>1. walk \in [Ends -> Walks] /\ heard \in [Ends -> Seq(Channels)]
    BY <1>1 DEF PostInit
  <2>2. posts \in Seq(Ends \X Channels) /\ old \subseteq {"named", "unnamed"}
    BY DEF PostInit
  <2>3. owed \in [Ends -> SUBSET Channels] /\ crashed \in BOOLEAN
    BY DEF PostInit
  <2>. QED  BY <1>2, <2>1, <2>2, <2>3 DEF PostTypeOK
<1>. QED
  BY <1>3 DEF PostInit, Init, Types, Shaped, Drafted, Asked, Carried, Walking

LEMMA TypeInduction == PostSpec => []Types
BY TypesStart, TypesKept, PTL DEF PostSpec

(***************************************************************************)
(* The state of two applications keeps its types: a packet has a kind that *)
(* both ends handle, and a walk never reads past the list it began with,   *)
(* which what handleConnectAck() writes over it does not shorten           *)
(* (client_dispatcher.cpp:27-35, 151-164).                                 *)
(***************************************************************************)
THEOREM PostTypeCorrect == PostSpec => []PostTypeOK
BY TypeInduction, PTL DEF Types

-----------------------------------------------------------------------------
(* What a step does to the lists and the packets *)

SubsGrow ==
  \A e \in Ends : subs'[e] = subs[e] \/ \E c \in Channels : subs'[e] = Append(subs[e], c)

RepliesMove ==
  \A e \in Ends :
    \/ reply'[e] = reply[e]
    \/ reply'[e].channels = <<>> /\ ~reply'[e].copied
    \/ reply'[e].channels = subs[e] /\ reply[e].kind \in Greets /\ UNCHANGED <<subs, apart>>

\* Only a greeting that has been composed is new among the greetings on their way.
PacketsMove ==
  \A f \in Ends : \A i \in 1..Len(net'[f]) :
    \/ Holds(net[f], net'[f][i])
    \/ net'[f][i].kind \notin Greets
    \/ /\ reply[Other(f)].copied /\ status[Other(f)] = "CONNECTED"
       /\ net'[f][i].channels = reply[Other(f)].channels

Moves == SubsGrow /\ RepliesMove /\ PacketsMove

LEMMA SamePackets ==
  ASSUME Types, NEW f \in Ends, net'[f] = net[f]
  PROVE  \A i \in 1..Len(net'[f]) : Holds(net[f], net'[f][i])
BY DEF Holds

LEMMA TakenPackets ==
  ASSUME Types, NEW e \in Ends, net[e] # <<>>, net' = [net EXCEPT ![e] = Tail(@)]
  PROVE  \A f \in Ends : \A i \in 1..Len(net'[f]) : Holds(net[f], net'[f][i])
<1> SUFFICES ASSUME NEW f \in Ends, NEW i \in 1..Len(net'[f])
             PROVE  Holds(net[f], net'[f][i])
  OBVIOUS
<1>1. CASE f = e
  <2>1. net'[e] = Tail(net[e])
    BY HeadTaken
  <2>2. /\ Len(net[e]) \in Nat /\ Len(Tail(net[e])) = Len(net[e]) - 1
        /\ \A j \in 1..Len(Tail(net[e])) : Tail(net[e])[j] = net[e][j + 1]
    BY HeadPacket
  <2>3. i \in 1..Len(Tail(net[e])) /\ net'[f][i] = Tail(net[e])[i]
    BY <1>1, <2>1
  <2>4. i + 1 \in 1..Len(net[e]) /\ net'[f][i] = net[e][i + 1]
    BY <2>2, <2>3
  <2>. QED  BY <1>1, <2>4 DEF Holds
<1>2. CASE f # e
  BY <1>2, HeadTaken, SamePackets
<1>. QED  BY <1>1, <1>2

LEMMA SentPackets ==
  ASSUME Types, NEW e \in Ends, NEW packet \in Packets, Single(packet),
         Transmit(e, packet)
  PROVE  \A f \in Ends : \A i \in 1..Len(net'[f]) :
           \/ Holds(net[f], net'[f][i])
           \/ net'[f][i] = packet /\ f = Other(e) /\ status[e] = "CONNECTED"
<1> SUFFICES ASSUME NEW f \in Ends, NEW i \in 1..Len(net'[f])
             PROVE  \/ Holds(net[f], net'[f][i])
                    \/ net'[f][i] = packet /\ f = Other(e) /\ status[e] = "CONNECTED"
  OBVIOUS
<1>1. CASE f = Other(e) /\ status[e] = "CONNECTED"
  <2>1. net'[f] = Append(net[f], packet)
    BY <1>1, PacketSent
  <2>2. net[f] \in Seq(Packets)
    BY DEF Types, PostTypeOK, TypeOK
  <2>3. net'[f][i] = packet \/ (i \in 1..Len(net[f]) /\ net'[f][i] = net[f][i])
    BY <2>1, <2>2
  <2>. QED  BY <1>1, <2>3 DEF Holds
<1>2. CASE ~(f = Other(e) /\ status[e] = "CONNECTED")
  <2>1. net'[f] = net[f]
    BY <1>2, PacketSent, TwoEnds
  <2>. QED  BY <2>1, SamePackets
<1>. QED  BY <1>1, <1>2

LEMMA MovesStep == Types /\ [PostNext]_allVars => Moves
<1> SUFFICES ASSUME Types, [PostNext]_allVars PROVE Moves
  OBVIOUS
<1>1. ASSUME UNCHANGED <<subs, reply, net>>
      PROVE  Moves
  BY <1>1 DEF Moves, SubsGrow, RepliesMove, PacketsMove, Holds
<1>2. ASSUME UNCHANGED <<subs, reply>>,
             \A f \in Ends : \A i \in 1..Len(net'[f]) :
               Holds(net[f], net'[f][i]) \/ net'[f][i].kind \notin Greets
      PROVE  Moves
  BY <1>2 DEF Moves, SubsGrow, RepliesMove, PacketsMove
<1>3. CASE Establish
  <2>1. reply' = [reply EXCEPT ![Opener] = Draft("Connect")] /\ UNCHANGED <<subs, net>>
    BY <1>3 DEF Establish
  <2>2. RepliesMove
    BY <2>1, DraftType DEF RepliesMove, Types, PostTypeOK, TypeOK, Greets
  <2>. QED  BY <2>1, <2>2 DEF Moves, SubsGrow, PacketsMove, Holds
<1>4. CASE Break
  <2>1. \A f \in Ends : net'[f] = <<>>
    BY <1>4 DEF Break
  <2>2. UNCHANGED <<subs, reply>>
    BY <1>4 DEF Break
  <2>. QED  BY <1>2, <2>1, <2>2
<1>5. ASSUME NEW e \in Ends, NEW c \in Channels, SubscribeRequest(e, c)
      PROVE  Moves
  <2>1. subs' = [subs EXCEPT ![e] = Append(@, c)] /\ UNCHANGED <<reply, net>>
    BY <1>5 DEF SubscribeRequest
  <2>2. SubsGrow
    BY <2>1 DEF SubsGrow, Types, PostTypeOK, TypeOK
  <2>. QED  BY <2>1, <2>2 DEF Moves, RepliesMove, PacketsMove, Holds
<1>6. ASSUME NEW e \in Ends, SendSubscribeRequest(e)
      PROVE  Moves
  <2>1. PICK c \in Channels : app[e] = Asking(c)
    BY <1>6 DEF SendSubscribeRequest, Types, Shaped, Asked
  <2>2. Transmit(e, Asking(c)) /\ UNCHANGED <<subs, reply>>
    BY <1>6, <2>1 DEF SendSubscribeRequest
  <2>. QED  BY <1>2, <2>2, PacketTypes, SentPackets
<1>7. ASSUME NEW e \in Ends, Compose(e)
      PROVE  Moves
  <2>1. /\ reply' = [reply EXCEPT ![e].channels = subs[e], ![e].copied = TRUE]
        /\ UNCHANGED <<subs, net, apart>>
    BY <1>7 DEF Compose
  <2>2. reply'[e].channels = subs[e] /\ \A f \in Ends \ {e} : reply'[f] = reply[f]
    BY <2>1 DEF Types, PostTypeOK, TypeOK
  <2>3. reply[e].kind \in Greets
    BY <1>7 DEF Compose, Types, PostTypeOK, TypeOK, Shaped, Drafted
  <2>. QED  BY <2>1, <2>2, <2>3 DEF Moves, SubsGrow, RepliesMove, PacketsMove, Holds
<1>8. ASSUME NEW e \in Ends, SendGreeting(e)
      PROVE  Moves
  <2> DEFINE packet == [kind |-> reply[e].kind, channels |-> reply[e].channels]
  <2>1. /\ reply[e].copied /\ Transmit(e, packet) /\ UNCHANGED subs
        /\ reply' = [reply EXCEPT ![e] = NoDraft]
    BY <1>8 DEF SendGreeting
  <2>2. packet \in Packets /\ Single(packet) /\ packet.channels = reply[e].channels
    BY <1>8, GreetingPacket
  <2> HIDE DEF packet
  <2>3. \A f \in Ends : \A i \in 1..Len(net'[f]) :
          \/ Holds(net[f], net'[f][i])
          \/ net'[f][i] = packet /\ f = Other(e) /\ status[e] = "CONNECTED"
    BY <2>1, <2>2, SentPackets
  <2>4. PacketsMove
    BY <2>1, <2>2, <2>3, TwoEnds DEF PacketsMove
  <2>5. RepliesMove
    BY <2>1, NoDraftType DEF RepliesMove, Types, PostTypeOK, TypeOK, NoDraft, Draft
  <2>. QED  BY <2>1, <2>4, <2>5 DEF Moves, SubsGrow
<1>9. ASSUME NEW e \in Ends, HandleGreeting(e)
      PROVE  Moves
  <2>1. /\ net[e] # <<>> /\ net' = [net EXCEPT ![e] = Tail(@)] /\ UNCHANGED subs
        /\ \E d \in {Draft("ConnectAck"), NoDraft} : reply' = [reply EXCEPT ![e] = d]
    BY <1>9 DEF HandleGreeting
  <2>2. RepliesMove
    BY <2>1, DraftType, NoDraftType
       DEF RepliesMove, Types, PostTypeOK, TypeOK, Greets, NoDraft
  <2>. QED  BY <2>1, <2>2, TakenPackets DEF Moves, SubsGrow, PacketsMove
<1>10. ASSUME NEW e \in Ends, HandleSubscribeRequest(e)
       PROVE  Moves
  BY <1>2, <1>10, RequestEffect, TakenPackets
<1>11. ASSUME NEW e \in Ends, HandleMessage(e)
       PROVE  Moves
  BY <1>2, <1>11, MessageEffect, TakenPackets
<1>12. ASSUME NEW e \in Ends, Visit(e)
       PROVE  Moves
  <2>1. UNCHANGED <<subs, reply>>
    BY <1>12, VisitEffect
  <2>2. \/ \E c \in Channels : Transmit(e, Saying(c))
        \/ net' = net
    BY <1>12, VisitEffect
  <2>. QED  BY <1>1, <1>2, <2>1, <2>2, PacketTypes, SentPackets
<1>13. ASSUME UNCHANGED vars
       PROVE  Moves
  BY <1>1, <1>13 DEF vars
<1>. QED
  BY <1>3, <1>4, <1>5, <1>6, <1>7, <1>8, <1>9, <1>10, <1>11, <1>12, <1>13
     DEF PostNext, BreakMeanwhile, HandleGreetingMeanwhile,
         HandleSubscribeRequestMeanwhile, Publish, NextClient, allVars

-----------------------------------------------------------------------------
(* The lists that are sent *)

LEMMA BeginsAppend ==
  ASSUME NEW s \in Seq(Channels), NEW t \in Seq(Channels), NEW c \in Channels,
         Begins(s, t)
  PROVE  Begins(s, Append(t, c))
BY DEF Begins

LEMMA ListsKept == Types /\ Types' /\ ListsSent /\ [PostNext]_allVars => ListsSent'
<1> SUFFICES ASSUME Types, Types', ListsSent, [PostNext]_allVars,
                    NEW e \in Ends
             PROVE  LET f == Other(e) IN
                    /\ Begins(reply'[e].channels, subs'[e])
                    /\ \A i \in 1..Len(net'[f]) :
                         net'[f][i].kind \in Greets
                           => Begins(net'[f][i].channels, subs'[e])
  BY DEF ListsSent
<1> DEFINE f == Other(e)
<1>1. f \in Ends /\ Other(f) = e
  BY TwoEnds
<1> HIDE DEF f
<1>2. Moves
  BY MovesStep
<1>3. /\ subs[e] \in Seq(Channels)
      /\ \A s \in Seq(Channels) : Begins(s, subs[e]) => Begins(s, subs'[e])
  <2>1. subs[e] \in Seq(Channels)
    BY DEF Types, PostTypeOK, TypeOK
  <2>2. subs'[e] = subs[e] \/ \E c \in Channels : subs'[e] = Append(subs[e], c)
    BY <1>2 DEF Moves, SubsGrow
  <2>. QED  BY <2>1, <2>2, BeginsAppend
<1>4. \A r \in Replies : r.channels \in Seq(Channels)
  BY DEF Replies
<1>5. reply[e] \in Replies /\ Begins(reply[e].channels, subs[e])
  BY DEF Types, PostTypeOK, TypeOK, Replies, ListsSent
<1>6. Begins(reply[e].channels, subs'[e])
  BY <1>3, <1>4, <1>5
<1>7. Begins(<<>>, subs'[e]) /\ Begins(subs[e], subs'[e])
  BY <1>3 DEF Begins
<1>8. Begins(reply'[e].channels, subs'[e])
  BY <1>2, <1>6, <1>7 DEF Moves, RepliesMove
<1>9. ASSUME NEW i \in 1..Len(net'[f]), net'[f][i].kind \in Greets
      PROVE  Begins(net'[f][i].channels, subs'[e])
  <2>1. CASE Holds(net[f], net'[f][i])
    <3>1. PICK j \in 1..Len(net[f]) : net[f][j] = net'[f][i]
      BY <2>1 DEF Holds
    <3>2. net[f][j] \in Packets
      <4>1. net[f] \in Seq(Packets)
        BY <1>1 DEF Types, PostTypeOK, TypeOK
      <4>. QED  BY <4>1
    <3>3. Begins(net[f][j].channels, subs[e]) /\ net[f][j].channels \in Seq(Channels)
      BY <1>9, <3>1, <3>2 DEF ListsSent, f, Packets
    <3>. QED  BY <1>3, <3>1, <3>3
  <2>2. CASE net'[f][i].channels = reply[e].channels
    BY <1>6, <2>2
  <2>. QED  BY <1>1, <1>2, <1>9, <2>1, <2>2 DEF Moves, PacketsMove
<1>. QED  BY <1>8, <1>9 DEF f

-----------------------------------------------------------------------------
(* What an end knows of the other's subscriptions *)

LEMMA SurplusType ==
  ASSUME NEW s \in Seq(Channels), NEW t \in Seq(Channels), NEW x
  PROVE  /\ IsFiniteSet(Positions(x, s) \ Positions(x, t)) /\ Surplus(x, s, t) \in Nat
         /\ Times(x, s) <= Surplus(x, s, t) + Times(x, t)
<1> DEFINE P == Positions(x, s)
           Q == Positions(x, t)
<1>1. IsFiniteSet(P) /\ IsFiniteSet(Q)
  BY PositionsFinite
<1>2. IsFiniteSet(P \ Q) /\ Cardinality(P \ Q) = Cardinality(P) - Cardinality(P \cap Q)
  BY <1>1, FS_Difference
<1>3. Cardinality(P \cap Q) <= Cardinality(Q) /\ IsFiniteSet(P \cap Q)
  BY <1>1, FS_Intersection
<1>4. {Cardinality(P), Cardinality(Q), Cardinality(P \ Q), Cardinality(P \cap Q)} \subseteq Nat
  BY <1>1, <1>2, <1>3, FS_CardinalityType
<1>5. Times(x, s) = Cardinality(P) /\ Times(x, t) = Cardinality(Q)
  BY PositionsFinite
<1>. QED  BY <1>2, <1>3, <1>4, <1>5 DEF Surplus

LEMMA SurplusBegins ==
  ASSUME NEW s \in Seq(Channels), NEW t \in Seq(Channels), NEW x, Begins(s, t)
  PROVE  Surplus(x, s, t) = 0
<1>1. Positions(x, s) \ Positions(x, t) = {}
  BY DEF Begins, Positions
<1>. QED  BY <1>1, FS_EmptySet DEF Surplus

LEMMA SurplusGrows ==
  ASSUME NEW s \in Seq(Channels), NEW t \in Seq(Channels), NEW y \in Channels, NEW x
  PROVE  Surplus(x, Append(s, y), t) <= Surplus(x, s, t) + (IF y = x THEN 1 ELSE 0)
<1> DEFINE P == Positions(x, s) \ Positions(x, t)
<1>1. IsFiniteSet(P) /\ Cardinality(P) = Surplus(x, s, t) /\ Surplus(x, s, t) \in Nat
  BY SurplusType DEF Surplus
<1> HIDE DEF P
<1>2. CASE y = x
  <2> DEFINE n == Len(s) + 1
  <2>1. (Positions(x, Append(s, y)) \ Positions(x, t)) \in SUBSET (P \cup {n})
    BY <1>2, PositionsAppend DEF P
  <2> HIDE DEF n
  <2>2. IsFiniteSet(P \cup {n}) /\ Cardinality(P \cup {n}) <= Cardinality(P) + 1
    <3>1. /\ IsFiniteSet(P \cup {n})
          /\ Cardinality(P \cup {n}) = IF n \in P THEN Cardinality(P) ELSE Cardinality(P) + 1
      BY <1>1, FS_AddElement
    <3>. QED  BY <1>1, <3>1
  <2>3. Surplus(x, Append(s, y), t) <= Cardinality(P \cup {n})
    BY <2>1, <2>2, FS_Subset DEF Surplus
  <2>4. Surplus(x, Append(s, y), t) \in Nat /\ Cardinality(P \cup {n}) \in Nat
    <3>1. Append(s, y) \in Seq(Channels)
      OBVIOUS
    <3>. QED  BY <3>1, <2>2, SurplusType, FS_CardinalityType
  <2>. QED  BY <1>1, <1>2, <2>2, <2>3, <2>4
<1>3. CASE y # x
  <2>1. Positions(x, Append(s, y)) = Positions(x, s)
    BY <1>3, PositionsAppend
  <2>. QED  BY <1>1, <1>3, <2>1 DEF Surplus
<1>. QED  BY <1>2, <1>3

LEMMA SurplusShrinks ==
  ASSUME NEW s \in Seq(Channels), NEW t \in Seq(Channels), NEW y \in Channels, NEW x
  PROVE  Surplus(x, s, Append(t, y)) <= Surplus(x, s, t)
<1>1. Positions(x, t) \subseteq Positions(x, Append(t, y))
  BY PositionsAppend
<1>2. (Positions(x, s) \ Positions(x, Append(t, y)))
         \in SUBSET (Positions(x, s) \ Positions(x, t))
  BY <1>1
<1>. QED  BY <1>2, SurplusType, FS_Subset DEF Surplus

\* The numbers of the invariants, of an end that is heard and a channel.
LEMMA Numbers ==
  ASSUME Types, NEW e \in Ends, NEW c
  PROVE  /\ {subs[e], theirs[Other(e)], early[Other(e)], heard[e]} \subseteq Seq(Channels)
         /\ {net[e], net[Other(e)]} \subseteq Seq(Packets)
         /\ Times(c, subs[e]) \in Nat /\ Times(c, theirs[Other(e)]) \in Nat
         /\ Times(c, early[Other(e)]) \in Nat /\ Times(Asking(c), net[Other(e)]) \in Nat
         /\ Surplus(c, theirs[Other(e)], subs[e]) \in Nat
<1>1. Other(e) \in Ends
  BY TwoEnds
<1>2. /\ {subs[e], theirs[Other(e)], early[Other(e)], heard[e]} \subseteq Seq(Channels)
      /\ {net[e], net[Other(e)]} \subseteq Seq(Packets)
  BY <1>1 DEF Types, PostTypeOK, TypeOK
<1>. QED  BY <1>2, PositionsFinite, SurplusType

LEMMA SentTimes ==
  ASSUME Types, NEW e \in Ends, NEW packet \in Packets, Single(packet),
         Transmit(e, packet), NEW x
  PROVE  /\ Times(x, net'[e]) = Times(x, net[e])
         /\ Times(x, net'[Other(e)]) <= Times(x, net[Other(e)]) + (IF packet = x THEN 1 ELSE 0)
<1>1. net[Other(e)] \in Seq(Packets)
  BY TwoEnds DEF Types, PostTypeOK, TypeOK
<1>2. Times(x, net[Other(e)]) \in Nat
  BY <1>1, PositionsFinite
<1>3. CASE status[e] = "CONNECTED"
  BY <1>1, <1>2, <1>3, PacketSent, TimesAppend
<1>4. CASE status[e] # "CONNECTED"
  BY <1>2, <1>4, PacketSent
<1>5. net'[e] = net[e]
  BY PacketSent
<1>. QED  BY <1>3, <1>4, <1>5

LEMMA TakenTimes ==
  ASSUME Types, NEW e \in Ends, net[e] # <<>>, net' = [net EXCEPT ![e] = Tail(@)], NEW x
  PROVE  /\ Times(x, net[e]) = Times(x, net'[e]) + (IF Head(net[e]) = x THEN 1 ELSE 0)
         /\ Times(x, net'[Other(e)]) = Times(x, net[Other(e)])
         /\ Times(x, net'[e]) \in Nat
<1>1. net[e] \in Seq(Packets) /\ Tail(net[e]) \in Seq(Packets)
  BY HeadPacket
<1>2. net'[e] = Tail(net[e]) /\ net'[Other(e)] = net[Other(e)]
  BY HeadTaken, TwoEnds
<1>3. Times(x, net[e]) = Times(x, Tail(net[e])) + (IF Head(net[e]) = x THEN 1 ELSE 0)
  BY <1>1, TimesTail
<1>. QED  BY <1>1, <1>2, <1>3, PositionsFinite

LEMMA CountStep ==
  Types /\ Types' /\ ListsSent /\ RequestsCount /\ [PostNext]_allVars => RequestsCount'
<1> SUFFICES ASSUME Types, Types', ListsSent, RequestsCount, [PostNext]_allVars,
                    NEW e \in Ends, NEW c \in Channels
             PROVE  Surplus(c, theirs'[Other(e)], subs'[e]) + Unsettled(e, c)'
                      <= Times(c, subs'[e])
  BY DEF RequestsCount, Unsettled
<1> DEFINE f == Other(e)
           Waits(request) == IF request = Asking(c) THEN 1 ELSE 0
           Goal == Surplus(c, theirs'[f], subs'[e]) + Times(c, early'[f])
                     + Times(Asking(c), net'[f]) + Waits(app'[e]) <= Times(c, subs'[e])
<1>1. /\ f \in Ends /\ f # e /\ Other(f) = e /\ f = Other(e)
      /\ \A g \in Ends : g = e \/ g = f
  BY TwoEnds
<1>2. /\ {subs[e], theirs[f], early[f]} \subseteq Seq(Channels)
      /\ {net[e], net[f]} \subseteq Seq(Packets)
      /\ Times(c, subs[e]) \in Nat /\ Times(c, early[f]) \in Nat
      /\ Times(Asking(c), net[f]) \in Nat /\ Surplus(c, theirs[f], subs[e]) \in Nat
  BY Numbers
<1>3. /\ Times(c, subs'[e]) \in Nat /\ Times(c, early'[f]) \in Nat
      /\ Times(Asking(c), net'[f]) \in Nat /\ Surplus(c, theirs'[f], subs'[e]) \in Nat
  <2>1. /\ {subs'[e], theirs'[f], early'[f]} \subseteq Seq(Channels)
        /\ net'[f] \in Seq(Packets)
    BY <1>1 DEF Types, PostTypeOK, TypeOK
  <2>. QED  BY <2>1, PositionsFinite, SurplusType
<1>4. Surplus(c, theirs[f], subs[e]) + Times(c, early[f]) + Times(Asking(c), net[f])
         + Waits(app[e]) <= Times(c, subs[e])
  BY <1>2 DEF RequestsCount, Unsettled
<1>5. Waits(app[e]) \in {0, 1} /\ Waits(app'[e]) \in {0, 1}
  OBVIOUS
<1>6. Goal => Surplus(c, theirs'[Other(e)], subs'[e]) + Unsettled(e, c)' <= Times(c, subs'[e])
  BY <1>3 DEF Unsettled
<1> HIDE DEF f
<1>7. ASSUME Surplus(c, theirs'[f], subs[e]) + Times(c, early'[f]) + Times(Asking(c), net'[f])
               <= Surplus(c, theirs[f], subs[e]) + Times(c, early[f]) + Times(Asking(c), net[f]),
             UNCHANGED <<subs, app>>
      PROVE  Goal
  <2>1. subs'[e] = subs[e] /\ app'[e] = app[e]
    BY <1>7
  <2> HIDE DEF Waits
  <2>. QED  BY <1>2, <1>3, <1>4, <1>5, <1>7, <2>1
<1>8. ASSUME UNCHANGED <<subs, theirs, early, app>>,
             Times(Asking(c), net'[f]) <= Times(Asking(c), net[f])
      PROVE  Goal
  <2>1. theirs'[f] = theirs[f] /\ early'[f] = early[f]
    BY <1>8
  <2> HIDE DEF Goal
  <2>. QED  BY <1>2, <1>3, <1>7, <1>8, <2>1
<1> HIDE DEF Goal
<1>9. ASSUME Break
       PROVE  Goal
  <2>1. net'[f] = <<>>
    BY <1>1, <1>9 DEF Break
  <2>2. Times(Asking(c), net'[f]) = 0
    BY <2>1, TimesEmpty
  <2>3. UNCHANGED <<subs, theirs, early, app>>
    BY <1>9 DEF Break
  <2>4. Times(Asking(c), net'[f]) <= Times(Asking(c), net[f])
    BY <1>2, <2>2
  <2>. QED  BY <1>8, <2>3, <2>4
<1>10. ASSUME NEW g \in Ends, NEW d \in Channels, SubscribeRequest(g, d)
      PROVE  Goal
  <2> USE DEF Goal
  <2>1. /\ app[g] = Idle /\ app' = [app EXCEPT ![g] = Asking(d)]
        /\ subs' = [subs EXCEPT ![g] = Append(@, d)]
        /\ UNCHANGED <<theirs, early, net>>
    BY <1>10 DEF SubscribeRequest, Asking
  <2>2. CASE g = e
    <3>1. /\ subs'[e] = Append(subs[e], d) /\ app'[e] = Asking(d)
          /\ app[e] # Asking(c)
      BY <2>1, <2>2, PacketTypes DEF Types, PostTypeOK, TypeOK
    <3>2. Times(c, subs'[e]) = Times(c, subs[e]) + (IF d = c THEN 1 ELSE 0)
      BY <1>2, <3>1, TimesAppend
    <3>3. Surplus(c, theirs'[f], subs'[e]) <= Surplus(c, theirs[f], subs[e]) + 0
      BY <1>2, <2>1, <3>1, SurplusShrinks
    <3>4. app'[e] = Asking(c) => d = c
      BY <3>1, PacketTypes
    <3>. QED  BY <1>2, <2>1, <3>1, <3>2, <3>3, <3>4, <1>3, <1>4, <1>5, SMTT(20)
  <2>3. CASE g = f
    <3>1. subs'[e] = subs[e] /\ app'[e] = app[e]
      BY <1>1, <2>1, <2>3 DEF Types, PostTypeOK, TypeOK
    <3>. QED  BY <1>2, <2>1, <3>1, <1>3, <1>4, <1>5
  <2>. QED  BY <1>1, <2>2, <2>3
<1>11. ASSUME NEW g \in Ends, SendSubscribeRequest(g)
      PROVE  Goal
  <2> USE DEF Goal
  <2>1. PICK d \in Channels : app[g] = Asking(d)
    BY <1>11 DEF SendSubscribeRequest, Types, Shaped, Asked
  <2>2. /\ Transmit(g, Asking(d)) /\ UNCHANGED <<subs, theirs, early>>
        /\ app' = [app EXCEPT ![g] = Idle]
    BY <1>11, <2>1 DEF SendSubscribeRequest
  <2>3. /\ Times(Asking(c), net'[g]) = Times(Asking(c), net[g])
        /\ Times(Asking(c), net'[Other(g)])
             <= Times(Asking(c), net[Other(g)]) + (IF Asking(d) = Asking(c) THEN 1 ELSE 0)
    BY <2>2, PacketTypes, SentTimes
  <2>4. CASE g = e
    <3>1. app'[e] = Idle /\ Idle # Asking(c) /\ (app[e] = Asking(c) <=> Asking(d) = Asking(c))
      BY <2>1, <2>2, <2>4, PacketTypes DEF Types, PostTypeOK, TypeOK
    <3> DEFINE z == IF Asking(d) = Asking(c) THEN 1 ELSE 0
    <3>2. z \in Nat /\ z <= 1 /\ (app[e] # Asking(c) => z = 0) /\ app'[e] # Asking(c)
      BY <3>1
    <3>3. Times(Asking(c), net'[f]) <= Times(Asking(c), net[f]) + z
      BY <2>3, <2>4 DEF f
    <3> HIDE DEF z
    <3>4. Times(Asking(c), net'[f]) \in Nat
      <4>1. net'[f] \in Seq(Packets)
        BY <1>1 DEF Types, PostTypeOK, TypeOK
      <4>. QED  BY <4>1, PositionsFinite
    <3>. QED  BY <1>2, <2>2, <3>1, <3>2, <3>3, <3>4, <1>3, <1>4, <1>5
  <2>5. CASE g = f
    <3>1. app'[e] = app[e]
      BY <1>1, <2>2, <2>5 DEF Types, PostTypeOK, TypeOK
    <3>. QED  BY <1>2, <2>2, <2>3, <2>5, <3>1, <1>3, <1>4, <1>5
  <2>. QED  BY <1>1, <2>4, <2>5
<1>12. ASSUME NEW g \in Ends, NEW packet \in Packets, Single(packet), Transmit(g, packet),
             packet # Asking(c), UNCHANGED <<subs, theirs, early, app>>
      PROVE  Goal
  <2>1. /\ Times(Asking(c), net'[g]) = Times(Asking(c), net[g])
        /\ Times(Asking(c), net'[Other(g)]) <= Times(Asking(c), net[Other(g)]) + 0
    BY <1>12, SentTimes
  <2>2. Times(Asking(c), net'[f]) <= Times(Asking(c), net[f])
    BY <1>1, <1>2, <2>1
  <2>. QED  BY <1>8, <1>12, <2>2
<1>13. ASSUME NEW g \in Ends, SendGreeting(g)
      PROVE  Goal
  <2> DEFINE packet == [kind |-> reply[g].kind, channels |-> reply[g].channels]
  <2>1. packet \in Packets /\ Single(packet) /\ packet # Asking(c)
    BY <1>13, GreetingPacket, PacketTypes
  <2>2. Transmit(g, packet) /\ UNCHANGED <<subs, theirs, early, app>>
    BY <1>13 DEF SendGreeting
  <2>. QED  BY <1>12, <2>1, <2>2
<1>14. ASSUME NEW g \in Ends, HandleGreeting(g)
       PROVE  Goal
  <2>1. /\ net[g] # <<>> /\ net' = [net EXCEPT ![g] = Tail(@)]
        /\ Head(net[g]).kind \in Greets
        /\ theirs' = [theirs EXCEPT ![g] = Head(net[g]).channels]
        /\ UNCHANGED <<subs, early, app>>
    BY <1>14 DEF HandleGreeting
  <2>2. Head(net[g]) # Asking(c)
    BY <2>1, PacketTypes
  <2>3. Times(Asking(c), net'[f]) = Times(Asking(c), net[f])
    <3>1. /\ Times(Asking(c), net[g]) = Times(Asking(c), net'[g])
                 + (IF Head(net[g]) = Asking(c) THEN 1 ELSE 0)
          /\ Times(Asking(c), net'[Other(g)]) = Times(Asking(c), net[Other(g)])
          /\ Times(Asking(c), net'[g]) \in Nat
      BY <2>1, TakenTimes
    <3>2. Times(Asking(c), net[g]) = Times(Asking(c), net'[g])
      BY <2>2, <3>1
    <3>. QED  BY <1>1, <3>1, <3>2
  <2>4. Surplus(c, theirs'[f], subs[e]) <= Surplus(c, theirs[f], subs[e]) + 0
    <3>1. CASE g = f
      <4>1. theirs'[f] = Head(net[f]).channels
        BY <1>1, <2>1, <3>1 DEF Types, PostTypeOK, TypeOK
      <4>2. /\ Head(net[f]) \in Packets /\ Head(net[f]) = net[f][1]
            /\ 1 \in 1..Len(net[f])
        BY <1>1, <2>1, <3>1, HeadPacket
      <4>3. Begins(Head(net[f]).channels, subs[e])
        BY <2>1, <3>1, <4>2 DEF ListsSent, f
      <4>4. Head(net[f]).channels \in Seq(Channels)
        BY <4>2 DEF Packets
      <4>5. Surplus(c, theirs'[f], subs[e]) = 0
        BY <1>2, <4>1, <4>3, <4>4, SurplusBegins
      <4>. QED  BY <1>2, <4>5
    <3>2. CASE g = e
      <4>1. theirs'[f] = theirs[f]
        BY <1>1, <2>1, <3>2 DEF Types, PostTypeOK, TypeOK
      <4>. QED  BY <1>2, <4>1
    <3>. QED  BY <1>1, <3>1, <3>2
  <2>5. early'[f] = early[f]
    BY <2>1
  <2>. QED  BY <1>2, <1>3, <1>7, <2>1, <2>3, <2>4, <2>5
<1>15. ASSUME NEW g \in Ends, HandleSubscribeRequest(g)
       PROVE  Goal
  <2>1. PICK d \in Channels :
          /\ Head(net[g]) = Asking(d)
          /\ theirs' = IF named[g] THEN [theirs EXCEPT ![g] = Append(@, d)] ELSE theirs
          /\ early' = IF named[g] THEN early ELSE [early EXCEPT ![g] = Append(@, d)]
    BY <1>15, RequestEffect
  <2>2. /\ net[g] # <<>> /\ net' = [net EXCEPT ![g] = Tail(@)] /\ UNCHANGED <<subs, app>>
    BY <1>15, RequestEffect
  <2>3. /\ Times(Asking(c), net[g]) = Times(Asking(c), net'[g])
               + (IF Head(net[g]) = Asking(c) THEN 1 ELSE 0)
        /\ Times(Asking(c), net'[Other(g)]) = Times(Asking(c), net[Other(g)])
        /\ Times(Asking(c), net'[g]) \in Nat
    BY <2>2, TakenTimes
  <2>4. CASE g = f
    <3> DEFINE n == IF d = c THEN 1 ELSE 0
    <3>1. Times(Asking(c), net'[f]) + n <= Times(Asking(c), net[f]) /\ n \in {0, 1}
      BY <2>1, <2>3, <2>4
    <3>2. CASE named[f]
      <4>1. theirs'[f] = Append(theirs[f], d) /\ early' = early
        BY <1>1, <2>1, <2>4, <3>2 DEF Types, PostTypeOK, TypeOK
      <4>2. Surplus(c, theirs'[f], subs[e]) <= Surplus(c, theirs[f], subs[e]) + n
        BY <1>2, <4>1, SurplusGrows
      <4> HIDE DEF n
      <4>. QED  BY <1>2, <1>3, <1>7, <2>2, <3>1, <4>1, <4>2
    <3>3. CASE ~named[f]
      <4>1. early'[f] = Append(early[f], d) /\ theirs' = theirs
        BY <1>1, <2>1, <2>4, <3>3 DEF Types, PostTypeOK, TypeOK
      <4>2. Times(c, early'[f]) <= Times(c, early[f]) + n
        BY <1>2, <4>1, TimesAppend
      <4> HIDE DEF n
      <4>. QED  BY <1>2, <1>3, <1>7, <2>2, <3>1, <4>1, <4>2
    <3>. QED  BY <3>2, <3>3
  <2>5. CASE g = e
    <3>1. theirs'[f] = theirs[f] /\ early'[f] = early[f]
      BY <1>1, <2>1, <2>5 DEF Types, PostTypeOK, TypeOK
    <3>. QED  BY <1>2, <1>7, <2>2, <2>3, <2>5, <3>1 DEF f
  <2>. QED  BY <1>1, <2>4, <2>5
<1>16. ASSUME NEW g \in Ends, HandleMessage(g)
       PROVE  Goal
  <2>1. /\ net[g] # <<>> /\ net' = [net EXCEPT ![g] = Tail(@)]
        /\ UNCHANGED <<subs, theirs, early, app>>
    BY <1>16, MessageEffect
  <2>2. /\ Times(Asking(c), net[g]) = Times(Asking(c), net'[g])
               + (IF Head(net[g]) = Asking(c) THEN 1 ELSE 0)
        /\ Times(Asking(c), net'[Other(g)]) = Times(Asking(c), net[Other(g)])
        /\ Times(Asking(c), net'[g]) \in Nat
    BY <2>1, TakenTimes
  <2>. QED  BY <1>1, <1>2, <1>8, <2>1, <2>2
<1>17. ASSUME NEW g \in Ends, Visit(g)
       PROVE  Goal
  <2>1. UNCHANGED <<subs, theirs, early, app>>
    BY <1>17, VisitEffect
  <2>2. \/ \E d \in Channels : Transmit(g, Saying(d))
        \/ net' = net
    BY <1>17, VisitEffect
  <2>. QED  BY <1>2, <1>8, <1>12, <2>1, <2>2, PacketTypes
<1>18. ASSUME UNCHANGED <<subs, theirs, early, app, net>>
       PROVE  Goal
  BY <1>2, <1>8, <1>18
<1>19. ASSUME NEW g \in Ends, Compose(g) \/ NextClient(g) \/ \E d \in Topics : Publish(g, d)
       PROVE  Goal
  BY <1>18, <1>19 DEF Compose, NextClient, Publish, vars
<1>20. ASSUME Establish
       PROVE  Goal
  BY <1>18, <1>20 DEF Establish
<1>21. ASSUME UNCHANGED allVars
       PROVE  Goal
  BY <1>18, <1>21 DEF allVars, vars
<1>22. Goal
  BY <1>21, <1>9, <1>10, <1>11, <1>13, <1>14, <1>15, <1>16, <1>17, <1>19, <1>20
     DEF PostNext, BreakMeanwhile, HandleGreetingMeanwhile,
         HandleSubscribeRequestMeanwhile
<1>. QED  BY <1>6, <1>22 DEF Goal

LEMMA CountInduction == PostSpec => [](Types /\ ListsSent /\ RequestsCount)
<1>1. PostInit => ListsSent /\ RequestsCount
  <2> SUFFICES ASSUME PostInit, NEW e \in Ends
               PROVE  /\ Begins(reply[e].channels, subs[e])
                      /\ net[Other(e)] = <<>>
                      /\ \A c : Surplus(c, theirs[Other(e)], subs[e]) + Unsettled(e, c)
                                  <= Times(c, subs[e])
    BY DEF ListsSent, RequestsCount
  <2>1. /\ subs[e] = <<>> /\ theirs[Other(e)] = <<>> /\ early[Other(e)] = <<>>
        /\ net[Other(e)] = <<>> /\ app[e] = Idle /\ reply[e].channels = <<>>
    BY TwoEnds, NoDraftType DEF PostInit, Init, NoDraft, Draft
  <2>2. Begins(reply[e].channels, subs[e])
    BY <2>1 DEF Begins
  <2>3. \A c : Times(c, subs[e]) = 0 /\ Surplus(c, theirs[Other(e)], subs[e]) = 0
    <3>1. <<>> \in Seq(Channels) /\ Begins(<<>>, <<>>)
      BY DEF Begins
    <3>. QED  BY <2>1, <3>1, TimesEmpty, SurplusBegins
  <2>4. \A c : Unsettled(e, c) = 0
    BY <2>1, TimesEmpty DEF Unsettled, Idle, Asking
  <2>. QED  BY <2>1, <2>2, <2>3, <2>4
<1>2. Types /\ Types' /\ (ListsSent /\ RequestsCount) /\ [PostNext]_allVars
        => (ListsSent /\ RequestsCount)'
  BY ListsKept, CountStep
<1>. QED  BY <1>1, <1>2, TypesStart, TypesKept, PTL DEF PostSpec

(***************************************************************************)
(* Nobody is sent messages of a channel he has not subscribed to, and none *)
(* more than twice for each subscription, however many subscriptions,      *)
(* handshakes and broken connections there are                             *)
(* (client_dispatcher.cpp:27-40, 151-164).                                 *)
(***************************************************************************)
THEOREM ListedAtMostTwice == PostSpec => []NoSurplus
<1>1. Types /\ RequestsCount => NoSurplus
  <2> SUFFICES ASSUME Types, RequestsCount, NEW e \in Ends, NEW c \in Channels
               PROVE  Times(c, theirs[Other(e)]) + Times(c, early[Other(e)])
                        <= 2 * Times(c, subs[e])
    BY DEF NoSurplus
  <2>1. /\ {subs[e], theirs[Other(e)]} \subseteq Seq(Channels)
        /\ Times(c, subs[e]) \in Nat /\ Times(c, theirs[Other(e)]) \in Nat
        /\ Times(c, early[Other(e)]) \in Nat /\ Times(Asking(c), net[Other(e)]) \in Nat
        /\ Surplus(c, theirs[Other(e)], subs[e]) \in Nat
    BY Numbers
  <2>2. Times(c, theirs[Other(e)])
          <= Surplus(c, theirs[Other(e)], subs[e]) + Times(c, subs[e])
    BY <2>1, SurplusType
  <2>3. Surplus(c, theirs[Other(e)], subs[e]) + Unsettled(e, c) <= Times(c, subs[e])
    BY DEF RequestsCount
  <2>4. Times(c, early[Other(e)]) <= Unsettled(e, c) /\ Unsettled(e, c) \in Nat
    BY <2>1 DEF Unsettled
  <2>. QED  BY <2>1, <2>2, <2>3, <2>4
<1>. QED  BY <1>1, CountInduction, PTL

-----------------------------------------------------------------------------
(* How often a message is given to a subscriber *)

LEMMA AheadType ==
  ASSUME Types, NEW e \in Ends, NEW c
  PROVE  IsFiniteSet(Ahead(e, c)) /\ Cardinality(Ahead(e, c)) \in Nat
<1>1. walk[e].at \in Int /\ Len(walk[e].list) \in Int
  BY DEF Types, PostTypeOK, Walks
<1>2. IsFiniteSet(walk[e].at..Len(walk[e].list))
  BY <1>1, FS_Interval
<1>3. Ahead(e, c) \in SUBSET (walk[e].at..Len(walk[e].list))
  BY DEF Ahead
<1>4. IsFiniteSet(Ahead(e, c))
  BY <1>2, <1>3, FS_Subset
<1>. QED  BY <1>4, FS_CardinalityType

LEMMA SharesAdd ==
  ASSUME NEW s \in Nat, NEW p \in Nat
  PROVE  /\ 2 * s * p \in Nat
         /\ 2 * (s + 1) * p = 2 * s * p + 2 * p
         /\ 2 * s * (p + 1) = 2 * s * p + 2 * s
OBVIOUS

LEMMA RationNumbers ==
  ASSUME Types, NEW e \in Ends, NEW c \in Channels
  PROVE  /\ Times(c, heard[e]) \in Nat /\ Times(Saying(c), net[e]) \in Nat
         /\ Given(e, c) \in Nat /\ Posted(e, c) \in Nat /\ Share(e, c) \in Nat
         /\ Times(c, subs[e]) \in Nat /\ Times(c, early[Other(e)]) \in Nat
         /\ Cardinality(Ahead(Other(e), c)) \in Nat /\ IsFiniteSet(Ahead(Other(e), c))
<1>1. /\ heard[e] \in Seq(Channels) /\ net[e] \in Seq(Packets)
      /\ posts \in Seq(Ends \X Channels)
  BY DEF Types, PostTypeOK, TypeOK
<1>2. /\ Times(c, heard[e]) \in Nat /\ Times(Saying(c), net[e]) \in Nat
      /\ Posted(e, c) \in Nat
  BY <1>1, PositionsFinite DEF Posted
<1>3. Times(c, subs[e]) \in Nat /\ Times(c, early[Other(e)]) \in Nat
  BY Numbers
<1>4. Given(e, c) \in Nat
  BY <1>2 DEF Given
<1>5. Share(e, c) \in Nat
  BY <1>2, <1>3, SharesAdd DEF Share
<1>. QED  BY <1>2, <1>3, <1>4, <1>5, AheadType, TwoEnds

LEMMA RationNumbersNext ==
  ASSUME Types', NEW e \in Ends, NEW c \in Channels
  PROVE  /\ Times(c, heard'[e]) \in Nat /\ Times(Saying(c), net'[e]) \in Nat
         /\ Given(e, c)' \in Nat /\ Posted(e, c)' \in Nat /\ Share(e, c)' \in Nat
         /\ Times(c, subs'[e]) \in Nat /\ Times(c, early'[Other(e)]) \in Nat
         /\ Cardinality(Ahead(Other(e), c)') \in Nat
<1>1. /\ heard'[e] \in Seq(Channels) /\ net'[e] \in Seq(Packets) /\ subs'[e] \in Seq(Channels)
      /\ early'[Other(e)] \in Seq(Channels) /\ posts' \in Seq(Ends \X Channels)
      /\ walk'[Other(e)] \in Walks
  BY TwoEnds DEF Types, PostTypeOK, TypeOK
<1>2. /\ Times(c, heard'[e]) \in Nat /\ Times(Saying(c), net'[e]) \in Nat
      /\ Times(<<Other(e), c>>, posts') \in Nat
      /\ Times(c, subs'[e]) \in Nat /\ Times(c, early'[Other(e)]) \in Nat
  BY <1>1, PositionsFinite
<1>3. Posted(e, c)' \in Nat
  BY <1>2 DEF Posted
<1>4. Given(e, c)' \in Nat
  BY <1>2 DEF Given
<1>5. Share(e, c)' \in Nat
  <2>1. 2 * Times(c, subs'[e]) * Posted(e, c)' \in Nat
    BY <1>2, <1>3, SharesAdd
  <2>. QED  BY <2>1 DEF Share
<1>6. Cardinality(Ahead(Other(e), c)') \in Nat
  <2> DEFINE w == walk'[Other(e)]
  <2>1. w.at \in Int /\ Len(w.list) \in Int
    BY <1>1 DEF Walks
  <2>2. IsFiniteSet(w.at..Len(w.list))
    BY <2>1, FS_Interval
  <2>3. Ahead(Other(e), c)' \in SUBSET (w.at..Len(w.list))
    BY DEF Ahead
  <2>. QED  BY <2>2, <2>3, FS_Subset, FS_CardinalityType
<1>. QED  BY <1>2, <1>3, <1>4, <1>5, <1>6

\* The step gives the end nothing and has to do with no walk that would.
LEMMA RationStays ==
  ASSUME Types, Types', NEW e \in Ends, NEW c \in Channels, Ration(e, c),
         Given(e, c)' <= Given(e, c), Posted(e, c)' = Posted(e, c),
         subs'[e] = subs[e], walk'[Other(e)] = walk[Other(e)],
         Times(c, early'[Other(e)]) >= Times(c, early[Other(e)])
  PROVE  Ration(e, c)'
<1> DEFINE f == Other(e)
<1>1. Other(f) = e
  BY TwoEnds
<1>2. Ahead(f, c)' = Ahead(f, c)
  BY <1>1 DEF Ahead
<1>3. Share(e, c)' = Share(e, c)
  BY DEF Share
<1> HIDE DEF f
<1>4. /\ Given(e, c) \in Nat /\ Posted(e, c) \in Nat /\ Share(e, c) \in Nat
      /\ Times(c, subs[e]) \in Nat /\ Times(c, early[f]) \in Nat
      /\ Cardinality(Ahead(f, c)) \in Nat
  BY RationNumbers DEF f
<1>5. Given(e, c)' \in Nat /\ Times(c, early'[f]) \in Nat
  BY RationNumbersNext DEF f
<1>. QED  BY <1>2, <1>3, <1>4, <1>5 DEF Ration, f

\* What is sent may be given to the other end.
LEMMA GivenSent ==
  ASSUME Types, Types', NEW e \in Ends, NEW c \in Channels, NEW g \in Ends,
         NEW packet \in Packets, Single(packet), Transmit(g, packet), heard' = heard
  PROVE  /\ Given(e, c)' <= Given(e, c) + (IF packet = Saying(c) THEN 1 ELSE 0)
         /\ packet # Saying(c) \/ g = e => Given(e, c)' <= Given(e, c)
<1>1. /\ Times(Saying(c), net'[g]) = Times(Saying(c), net[g])
      /\ Times(Saying(c), net'[Other(g)])
           <= Times(Saying(c), net[Other(g)]) + (IF packet = Saying(c) THEN 1 ELSE 0)
  BY SentTimes
<1>2. e = g \/ e = Other(g)
  BY TwoEnds
<1>3. /\ Times(Saying(c), net[e]) \in Nat /\ Times(Saying(c), net'[e]) \in Nat
      /\ Times(c, heard[e]) \in Nat
  BY RationNumbers, RationNumbersNext
<1>4. /\ Times(Saying(c), net'[e])
           <= Times(Saying(c), net[e]) + (IF packet = Saying(c) THEN 1 ELSE 0)
      /\ packet # Saying(c) \/ g = e => Times(Saying(c), net'[e]) <= Times(Saying(c), net[e])
  BY <1>1, <1>2, <1>3
<1>. QED  BY <1>3, <1>4 DEF Given

\* What is taken from the head, other than a message, is not given to anybody.
LEMMA GivenTaken ==
  ASSUME Types, Types', NEW e \in Ends, NEW c \in Channels, NEW g \in Ends,
         net[g] # <<>>, net' = [net EXCEPT ![g] = Tail(@)], heard' = heard
  PROVE  Given(e, c)' <= Given(e, c)
<1>1. /\ Times(Saying(c), net[g]) = Times(Saying(c), net'[g])
             + (IF Head(net[g]) = Saying(c) THEN 1 ELSE 0)
      /\ Times(Saying(c), net'[Other(g)]) = Times(Saying(c), net[Other(g)])
      /\ Times(Saying(c), net'[g]) \in Nat
  BY TakenTimes
<1>2. e = g \/ e = Other(g)
  BY TwoEnds
<1>3. /\ Times(Saying(c), net[e]) \in Nat /\ Times(Saying(c), net'[e]) \in Nat
      /\ Times(c, heard[e]) \in Nat
  BY RationNumbers, RationNumbersNext
<1>4. Times(Saying(c), net'[e]) <= Times(Saying(c), net[e])
  BY <1>1, <1>2, <1>3
<1>. QED  BY <1>3, <1>4 DEF Given

LEMMA SubscribeRation ==
  ASSUME Types, Types', NEW e \in Ends, NEW c \in Channels, Ration(e, c),
         NEW g \in Ends, NEW d \in Channels, SubscribeRequest(g, d), UNCHANGED postVars
  PROVE  Ration(e, c)'
<1> DEFINE f == Other(e)
<1>1. /\ f \in Ends /\ Other(f) = e /\ f # e /\ (g = e \/ g = f)
  BY TwoEnds
<1>2. /\ subs' = [subs EXCEPT ![g] = Append(@, d)] /\ UNCHANGED <<theirs, early, net>>
      /\ UNCHANGED <<walk, posts, heard>>
  BY DEF SubscribeRequest, postVars
<1>3. Given(e, c)' = Given(e, c) /\ Posted(e, c)' = Posted(e, c)
  BY <1>2 DEF Given, Posted
<1>4. /\ Given(e, c) \in Nat /\ Posted(e, c) \in Nat /\ Share(e, c) \in Nat
      /\ Times(c, subs[e]) \in Nat /\ Times(c, early[f]) \in Nat
      /\ Cardinality(Ahead(f, c)) \in Nat /\ IsFiniteSet(Ahead(f, c))
  BY RationNumbers
<1>5. CASE g = f
  <2>1. subs'[e] = subs[e]
    BY <1>1, <1>2, <1>5 DEF Types, PostTypeOK, TypeOK
  <2>. QED  BY <1>2, <1>3, <1>4, <2>1, RationStays
<1>6. CASE g = e
  <2>1. subs'[e] = Append(subs[e], d) /\ subs[e] \in Seq(Channels)
    BY <1>2, <1>6 DEF Types, PostTypeOK, TypeOK
  <2> DEFINE n == IF d = c THEN 1 ELSE 0
             k == Len(subs[e]) + 1
  <2>2. Times(c, subs'[e]) = Times(c, subs[e]) + n /\ n \in Nat
    BY <2>1, TimesAppend
  <2>3. Share(e, c)' = Share(e, c) + (IF d = c THEN 2 * Posted(e, c) ELSE 0)
    <3>1. CASE d = c
      BY <1>3, <1>4, <2>2, <3>1, SharesAdd DEF Share
    <3>2. CASE d # c
      BY <1>3, <1>4, <2>2, <3>2 DEF Share
    <3>. QED  BY <3>1, <3>2
  <2>4. Cardinality(Ahead(f, c)') <= Cardinality(Ahead(f, c)) + n
    <3>1. Cardinality(Ahead(f, c)') \in Nat
      BY RationNumbersNext
    <3>2. CASE d = c
      <4>1. Positions(c, subs'[e]) = Positions(c, subs[e]) \cup {k}
        BY <2>1, <3>2, PositionsAppend
      <4>2. Ahead(f, c)' \in SUBSET (Ahead(f, c) \cup {k})
        BY <1>1, <1>2, <4>1 DEF Ahead
      <4>3. /\ IsFiniteSet(Ahead(f, c) \cup {k})
            /\ Cardinality(Ahead(f, c) \cup {k})
                 = IF k \in Ahead(f, c) THEN Cardinality(Ahead(f, c))
                   ELSE Cardinality(Ahead(f, c)) + 1
        BY <1>4, FS_AddElement
      <4>4. Cardinality(Ahead(f, c)') <= Cardinality(Ahead(f, c) \cup {k})
        BY <4>2, <4>3, FS_Subset
      <4> HIDE DEF k, f
      <4>. QED  BY <1>4, <3>1, <3>2, <4>3, <4>4
    <3>3. CASE d # c
      <4>1. Positions(c, subs'[e]) = Positions(c, subs[e])
        BY <2>1, <3>3, PositionsAppend
      <4>2. Ahead(f, c)' = Ahead(f, c)
        BY <1>1, <1>2, <4>1 DEF Ahead
      <4>. QED  BY <1>4, <3>3, <4>2
    <3>. QED  BY <3>2, <3>3
  <2>5. Cardinality(Ahead(f, c)') \in Nat /\ walk'[f] = walk[f] /\ early'[f] = early[f]
    BY <1>2, RationNumbersNext
  <2>6. Ration(e, c)
    OBVIOUS
  <2>7. walk[f].client = "unnamed" => Ahead(f, c)' = Ahead(f, c)
    BY <1>2 DEF Ahead
  <2> HIDE DEF f
  <2>8. CASE d = c
    <3>1. /\ Times(c, subs'[e]) = Times(c, subs[e]) + 1
          /\ Share(e, c)' = Share(e, c) + 2 * Posted(e, c)
          /\ Cardinality(Ahead(f, c)') <= Cardinality(Ahead(f, c)) + 1
      BY <2>2, <2>3, <2>4, <2>8
    <3>. QED  BY <1>3, <1>4, <2>5, <2>6, <2>7, <3>1 DEF Ration, f
  <2>9. CASE d # c
    BY <1>3, <1>4, <2>2, <2>3, <2>4, <2>5, <2>6, <2>9 DEF Ration, f
  <2>. QED  BY <2>8, <2>9
<1>. QED  BY <1>1, <1>5, <1>6

\* A beginning of the other end's subscriptions is written over the list that is walked.
LEMMA GreetingRation ==
  ASSUME Types, Types', NEW e \in Ends, NEW c \in Channels, Ration(e, c), ListsSent,
         NEW g \in Ends, HandleGreetingMeanwhile(g)
  PROVE  Ration(e, c)'
<1> DEFINE f == Other(e)
           list == Head(net[g]).channels
<1>1. /\ f \in Ends /\ Other(f) = e /\ f # e /\ (g = e \/ g = f)
  BY TwoEnds
<1>2. /\ net[g] # <<>> /\ net' = [net EXCEPT ![g] = Tail(@)]
      /\ Head(net[g]).kind \in Greets /\ theirs' = [theirs EXCEPT ![g] = list]
      /\ UNCHANGED <<subs, early, posts, heard>>
      /\ walk' = IF walk[g].client = "named"
                 THEN [walk EXCEPT ![g].list = Overwritten(@, theirs'[g])] ELSE walk
  BY DEF HandleGreetingMeanwhile, HandleGreeting, Walked
<1>3. Given(e, c)' <= Given(e, c)
  BY <1>2, GivenTaken
<1>4. Posted(e, c)' = Posted(e, c) /\ Share(e, c)' = Share(e, c)
  BY <1>2 DEF Posted, Share
<1>5. /\ Given(e, c) \in Nat /\ Posted(e, c) \in Nat /\ Share(e, c) \in Nat
      /\ Times(c, subs[e]) \in Nat /\ Times(c, early[f]) \in Nat
      /\ Cardinality(Ahead(f, c)) \in Nat /\ IsFiniteSet(Ahead(f, c))
  BY RationNumbers
<1>6. CASE walk'[f] = walk[f]
  BY <1>2, <1>3, <1>4, <1>5, <1>6, RationStays
<1>7. CASE g = f /\ walk[f].client = "named"
  <2>1. walk[f] \in Walks /\ theirs[f] \in Seq(Channels)
    BY <1>1 DEF Types, PostTypeOK, TypeOK
  <2>2. theirs'[f] = list
    BY <1>1, <1>2, <1>7 DEF Types, PostTypeOK, TypeOK
  <2>3. Head(net[f]) = net[f][1] /\ 1 \in 1..Len(net[f]) /\ Head(net[f]) \in Packets
    BY <1>1, <1>2, <1>7, HeadPacket
  <2>4. Begins(list, subs[e]) /\ list \in Seq(Channels)
    BY <1>2, <1>7, <2>3 DEF ListsSent, Packets
  <2> DEFINE over == Overwritten(walk[f].list, list)
  <2>5. /\ walk'[f].list = over /\ walk'[f].client = "named"
        /\ walk'[f].at = walk[f].at /\ walk'[f].channel = walk[f].channel
    BY <1>1, <1>2, <1>7, <2>1, <2>2 DEF Walks, Types, PostTypeOK
  <2>6. /\ Len(over) = Len(walk[f].list)
        /\ \A p \in 1..Len(walk[f].list) :
             over[p] = walk[f].list[p] \/ (p <= Len(list) /\ over[p] = list[p])
    BY <2>1, <2>4 DEF Overwritten, Walks
  <2>7. walk[f].at \in Nat \ {0} /\ Len(walk[f].list) \in Nat /\ Len(list) \in Nat
    BY <2>1, <2>4 DEF Walks
  <2> HIDE DEF over, list
  <2>8. \A p \in 1..Len(walk[f].list) : over[p] = c =>
          walk[f].list[p] = c \/ p \in Positions(c, subs[e])
    BY <2>4, <2>6, <2>7 DEF Begins, Positions
  <2>9. Ahead(f, c)' \in SUBSET Ahead(f, c)
    BY <1>1, <1>2, <1>7, <2>5, <2>6, <2>7, <2>8 DEF Ahead
  <2>10. Cardinality(Ahead(f, c)') <= Cardinality(Ahead(f, c))
    BY <1>5, <2>9, FS_Subset
  <2>11. Given(e, c)' \in Nat /\ Cardinality(Ahead(f, c)') \in Nat
    BY RationNumbersNext
  <2> HIDE DEF f
  <2>. QED  BY <1>2, <1>3, <1>4, <1>5, <1>7, <2>5, <2>10, <2>11 DEF Ration, f
<1>8. walk'[f] = walk[f] \/ (g = f /\ walk[f].client = "named")
  BY <1>1, <1>2 DEF Types, PostTypeOK
<1>. QED  BY <1>6, <1>7, <1>8

LEMMA PublishRation ==
  ASSUME Types, Types', NEW e \in Ends, NEW c \in Channels, Ration(e, c),
         NEW g \in Ends, NEW d \in Topics, Publish(g, d)
  PROVE  Ration(e, c)'
<1> DEFINE f == Other(e)
           w == [client |-> "unnamed", channel |-> <<d>>, at |-> 1, list |-> early[g]]
<1>1. /\ f \in Ends /\ Other(f) = e /\ f # e /\ (g = e \/ g = f) /\ d \in Channels
  BY TwoEnds, PostAssumption
<1>2. /\ walk[g] = NoWalk /\ walk' = [walk EXCEPT ![g] = w]
      /\ posts' = Append(posts, <<g, d>>)
      /\ UNCHANGED <<subs, theirs, early, net, heard>>
  BY DEF Publish, vars
<1>3. Given(e, c)' = Given(e, c)
  BY <1>2 DEF Given
<1>4. /\ Given(e, c) \in Nat /\ Posted(e, c) \in Nat /\ Share(e, c) \in Nat
      /\ Times(c, subs[e]) \in Nat /\ Times(c, early[f]) \in Nat
  BY RationNumbers
<1>5. Posted(e, c)' = Posted(e, c) + (IF <<g, d>> = <<f, c>> THEN 1 ELSE 0)
  <2>1. posts \in Seq(Ends \X Channels) /\ <<g, d>> \in Ends \X Channels
    BY <1>1 DEF Types, PostTypeOK
  <2>2. Times(<<f, c>>, posts')
          = Times(<<f, c>>, posts) + (IF <<g, d>> = <<f, c>> THEN 1 ELSE 0)
    BY <1>2, <2>1, TimesAppend
  <2>. QED  BY <2>2 DEF Posted
<1>6. CASE g = e
  <2>1. walk'[f] = walk[f]
    BY <1>1, <1>2, <1>6 DEF Types, PostTypeOK
  <2>2. Posted(e, c)' = Posted(e, c)
    BY <1>1, <1>4, <1>5, <1>6
  <2>. QED  BY <1>2, <1>3, <1>4, <2>1, <2>2, RationStays
<1>7. CASE g = f
  <2>1. walk'[f] = w
    BY <1>1, <1>2, <1>7 DEF Types, PostTypeOK
  <2>2. walk[f].channel # <<c>>
    BY <1>2, <1>7 DEF NoWalk
  <2>3. Given(e, c) <= Share(e, c)
    BY <2>2 DEF Ration
  <2>4. CASE d = c
    <3>1. Posted(e, c)' = Posted(e, c) + 1
      BY <1>5, <1>7, <2>4
    <3>2. Share(e, c)' = Share(e, c) + 2 * Times(c, subs[e])
      BY <1>2, <1>4, <3>1, SharesAdd DEF Share
    <3>3. walk'[f].at = 1 /\ walk'[f].list = early[f] /\ walk'[f].client = "unnamed"
      BY <1>7, <2>1
    <3>4. Ahead(f, c)' = Positions(c, early[f])
      BY <3>3 DEF Ahead, Positions
    <3>5. Cardinality(Ahead(f, c)') = Times(c, early[f])
      BY <3>4 DEF Times, Positions
    <3>6. early'[f] = early[f] /\ subs'[e] = subs[e]
      BY <1>2
    <3> HIDE DEF f, w
    <3>. QED  BY <1>3, <1>4, <2>3, <3>1, <3>2, <3>3, <3>5, <3>6 DEF Ration, f
  <2>5. CASE d # c
    <3>1. Posted(e, c)' = Posted(e, c)
      BY <1>4, <1>5, <2>5
    <3>2. Share(e, c)' = Share(e, c)
      BY <1>2, <3>1 DEF Share
    <3>3. walk'[f].channel # <<c>>
      BY <2>1, <2>5
    <3>. QED  BY <1>3, <2>3, <3>2, <3>3 DEF Ration
  <2>. QED  BY <2>4, <2>5
<1>. QED  BY <1>1, <1>6, <1>7

\* An entry that is found to hold the channel is ahead no longer.
LEMMA VisitRation ==
  ASSUME Types, Types', NEW e \in Ends, NEW c \in Channels, Ration(e, c),
         NEW g \in Ends, Visit(g)
  PROVE  Ration(e, c)'
<1> DEFINE f == Other(e)
<1>1. /\ f \in Ends /\ Other(f) = e /\ f # e /\ (g = e \/ g = f)
  BY TwoEnds
<1>2. PICK d \in Channels :
        /\ walk[g].channel = <<d>>
        /\ \/ walk[g].list[walk[g].at] = d /\ Transmit(g, Saying(d))
           \/ net' = net
  BY VisitEffect
<1>3. /\ walk[g] \in Walks /\ walk[g].client \in {"unnamed", "named"}
      /\ walk[g].at \in 1..Len(walk[g].list)
      /\ walk' = [walk EXCEPT ![g].at = @ + 1]
      /\ UNCHANGED <<subs, theirs, early, posts, heard>>
  BY VisitEffect
<1>4. Posted(e, c)' = Posted(e, c) /\ Share(e, c)' = Share(e, c)
  BY <1>3 DEF Posted, Share
<1>5. /\ Given(e, c) \in Nat /\ Posted(e, c) \in Nat /\ Share(e, c) \in Nat
      /\ Times(c, subs[e]) \in Nat /\ Times(c, early[f]) \in Nat
      /\ Cardinality(Ahead(f, c)) \in Nat /\ IsFiniteSet(Ahead(f, c))
  BY RationNumbers
<1>6. /\ Given(e, c)' \in Nat /\ Cardinality(Ahead(f, c)') \in Nat
  BY RationNumbersNext
<1>7. net' = net => Given(e, c)' = Given(e, c)
  BY <1>3 DEF Given
<1>8. /\ Transmit(g, Saying(d)) => Given(e, c)' <= Given(e, c) + 1
      /\ Transmit(g, Saying(d)) /\ (d # c \/ g = e) => Given(e, c)' <= Given(e, c)
  <2> SUFFICES ASSUME Transmit(g, Saying(d))
               PROVE  /\ Given(e, c)' <= Given(e, c) + 1
                      /\ d # c \/ g = e => Given(e, c)' <= Given(e, c)
    OBVIOUS
  <2>1. /\ Saying(d) \in Packets /\ Single(Saying(d))
        /\ (Saying(d) = Saying(c) => d = c)
    BY PacketTypes
  <2>2. /\ Given(e, c)' <= Given(e, c) + (IF Saying(d) = Saying(c) THEN 1 ELSE 0)
        /\ Saying(d) # Saying(c) \/ g = e => Given(e, c)' <= Given(e, c)
    BY <1>3, <2>1, GivenSent
  <2>. QED  BY <1>5, <1>6, <2>1, <2>2
<1>9. CASE g = e
  <2>1. walk'[f] = walk[f]
    BY <1>1, <1>3, <1>9 DEF Types, PostTypeOK
  <2>2. Given(e, c)' <= Given(e, c)
    BY <1>2, <1>5, <1>7, <1>8, <1>9
  <2>. QED  BY <1>3, <1>4, <1>5, <2>1, <2>2, RationStays
<1>10. CASE g = f
  <2>1. /\ walk'[f].at = walk[f].at + 1 /\ walk'[f].client = walk[f].client
        /\ walk'[f].channel = walk[f].channel /\ walk'[f].list = walk[f].list
    BY <1>1, <1>3, <1>10 DEF Types, PostTypeOK, Walks
  <2>2. walk[f].at \in Nat /\ Len(walk[f].list) \in Nat
    BY <1>3, <1>10 DEF Walks
  <2>3. CASE d # c
    <3>1. walk[f].channel # <<c>> /\ walk'[f].channel # <<c>>
      BY <1>2, <1>10, <2>1, <2>3
    <3>2. Given(e, c)' <= Given(e, c)
      BY <1>2, <1>5, <1>7, <1>8, <2>3
    <3>. QED  BY <1>4, <1>5, <1>6, <3>1, <3>2 DEF Ration
  <2>4. CASE d = c
    <3>1. Ahead(f, c)' \in SUBSET (Ahead(f, c) \ {walk[f].at})
      BY <1>3, <2>1, <2>2 DEF Ahead
    <3>2. /\ IsFiniteSet(Ahead(f, c) \ {walk[f].at})
          /\ Cardinality(Ahead(f, c) \ {walk[f].at}) =
               IF walk[f].at \in Ahead(f, c) THEN Cardinality(Ahead(f, c)) - 1
               ELSE Cardinality(Ahead(f, c))
      BY <1>5, FS_RemoveElement
    <3>3. Cardinality(Ahead(f, c)') <= Cardinality(Ahead(f, c) \ {walk[f].at})
      BY <3>1, <3>2, FS_Subset
    <3>4. walk[f].list[walk[f].at] = c => walk[f].at \in Ahead(f, c)
      BY <1>3, <1>10, <2>2 DEF Ahead
    <3> HIDE DEF f
    <3>5. Given(e, c)' + Cardinality(Ahead(f, c)') <= Given(e, c) + Cardinality(Ahead(f, c))
      <4>1. CASE net' = net
        BY <1>5, <1>6, <1>7, <3>2, <3>3, <4>1
      <4>2. CASE walk[f].list[walk[f].at] = c /\ Transmit(g, Saying(d))
        BY <1>5, <1>6, <1>8, <3>2, <3>3, <3>4, <4>2
      <4>. QED  BY <1>2, <1>10, <2>4, <4>1, <4>2
    <3>6. walk[f].channel = <<c>> /\ walk'[f].channel = <<c>>
      BY <1>2, <1>10, <2>1, <2>4
    <3>7. early'[f] = early[f] /\ subs'[e] = subs[e]
      BY <1>3
    <3>. QED  BY <1>4, <1>5, <1>6, <2>1, <3>5, <3>6, <3>7 DEF Ration, f
  <2>. QED  BY <2>3, <2>4
<1>. QED  BY <1>1, <1>9, <1>10

\* The share that the early list has left is enough for the other.
LEMMA NextClientRation ==
  ASSUME Types, Types', NEW e \in Ends, NEW c \in Channels, Ration(e, c),
         RequestsCount, NEW g \in Ends, NextClient(g)
  PROVE  Ration(e, c)'
<1> DEFINE f == Other(e)
<1>1. /\ f \in Ends /\ Other(f) = e /\ f # e /\ (g = e \/ g = f)
  BY TwoEnds
<1>2. /\ walk[g] # NoWalk /\ walk[g].at > Len(walk[g].list)
      /\ UNCHANGED <<subs, theirs, early, net, posts, heard>>
      /\ walk' = [walk EXCEPT ![g] =
                    IF walk[g].client = "named" THEN NoWalk
                    ELSE [client |-> "named", channel |-> walk[g].channel, at |-> 1,
                          list |-> theirs[g]]]
  BY DEF NextClient, vars
<1>3. /\ Given(e, c)' = Given(e, c) /\ Posted(e, c)' = Posted(e, c)
      /\ Share(e, c)' = Share(e, c)
  BY <1>2 DEF Given, Posted, Share
<1>4. /\ Given(e, c) \in Nat /\ Posted(e, c) \in Nat /\ Share(e, c) \in Nat
      /\ Times(c, subs[e]) \in Nat /\ Times(c, early[f]) \in Nat
      /\ Cardinality(Ahead(f, c)) \in Nat
  BY RationNumbers
<1>5. CASE g = e
  <2>1. walk'[f] = walk[f]
    BY <1>1, <1>2, <1>5 DEF Types, PostTypeOK
  <2>. QED  BY <1>2, <1>3, <1>4, <2>1, RationStays
<1>6. CASE g = f /\ walk[f].channel # <<c>>
  <2>1. walk'[f].channel \in {<<>>, walk[f].channel}
    BY <1>1, <1>2, <1>6 DEF Types, PostTypeOK, NoWalk
  <2>2. walk'[f].channel # <<c>>
    BY <1>6, <2>1
  <2>. QED  BY <1>3, <1>6, <2>2 DEF Ration
<1>7. CASE g = f /\ walk[f].channel = <<c>> /\ walk[f].client = "named"
  <2>1. walk'[f] = NoWalk
    BY <1>1, <1>2, <1>7 DEF Types, PostTypeOK
  <2>2. walk'[f].channel # <<c>>
    BY <2>1 DEF NoWalk
  <2>3. Given(e, c) + Cardinality(Ahead(f, c)) <= Share(e, c)
    BY <1>7 DEF Ration
  <2>4. Given(e, c) <= Share(e, c)
    BY <1>4, <2>3
  <2>. QED  BY <1>3, <2>2, <2>4 DEF Ration
<1>8. CASE g = f /\ walk[f].channel = <<c>> /\ walk[f].client # "named"
  <2>1. walk[f].client = "unnamed" /\ walk[f] \in Walks
    BY <1>1, <1>2, <1>8 DEF Types, PostTypeOK, Shaped, Walking
  <2>2. /\ walk'[f].client = "named" /\ walk'[f].at = 1 /\ walk'[f].list = theirs[f]
        /\ walk'[f].channel = <<c>>
    BY <1>1, <1>2, <1>8 DEF Types, PostTypeOK
  <2>3. /\ Given(e, c) + Cardinality(Ahead(f, c)) + 2 * Times(c, subs[e])
             <= Share(e, c) + Times(c, early[f])
        /\ Posted(e, c) >= 1
    BY <1>8, <2>1 DEF Ration
  <2>4. /\ Surplus(c, theirs[f], subs[e]) + Unsettled(e, c) <= Times(c, subs[e])
        /\ Times(c, early[f]) <= Unsettled(e, c) /\ Unsettled(e, c) \in Nat
        /\ Surplus(c, theirs[f], subs[e]) \in Nat
    BY Numbers DEF RequestsCount, Unsettled
  <2> DEFINE P == Positions(c, theirs[f]) \ Positions(c, subs[e])
             Q == Positions(c, subs[e])
  <2>5. Ahead(f, c)' \in SUBSET (P \cup Q)
    BY <1>1, <1>2, <2>2 DEF Ahead, Positions
  <2>6. /\ IsFiniteSet(P) /\ Cardinality(P) = Surplus(c, theirs[f], subs[e])
        /\ IsFiniteSet(Q) /\ Cardinality(Q) = Times(c, subs[e])
    BY Numbers, SurplusType, PositionsFinite DEF Surplus
  <2> HIDE DEF P, Q
  <2>7. /\ IsFiniteSet(P \cup Q)
        /\ Cardinality(P \cup Q) = Cardinality(P) + Cardinality(Q) - Cardinality(P \cap Q)
        /\ Cardinality(P \cap Q) \in Nat /\ Cardinality(P \cup Q) \in Nat
    BY <2>6, FS_Union, FS_Intersection, FS_CardinalityType
  <2>8. Cardinality(Ahead(f, c)') <= Cardinality(P \cup Q)
    BY <2>5, <2>7, FS_Subset
  <2>9. Cardinality(Ahead(f, c)') \in Nat
    BY RationNumbersNext
  <2> HIDE DEF f
  <2>10. Given(e, c) + Cardinality(Ahead(f, c)') <= Share(e, c)
    BY <1>4, <2>3, <2>4, <2>6, <2>7, <2>8, <2>9
  <2>. QED  BY <1>3, <2>2, <2>3, <2>10 DEF Ration, f
<1>. QED  BY <1>1, <1>5, <1>6, <1>7, <1>8

LEMMA MessageRation ==
  ASSUME Types, Types', NEW e \in Ends, NEW c \in Channels, Ration(e, c),
         NEW g \in Ends, HandleMessage(g)
  PROVE  Ration(e, c)'
<1>1. /\ Other(e) \in Ends /\ Other(e) # e /\ (g = e \/ g = Other(e))
      /\ Other(Other(e)) = e
  BY TwoEnds
<1>2. PICK d \in Channels :
        Head(net[g]) = Saying(d) /\ heard' = [heard EXCEPT ![g] = Append(@, d)]
  BY MessageEffect
<1>3. /\ net[g] # <<>> /\ net' = [net EXCEPT ![g] = Tail(@)]
      /\ UNCHANGED <<subs, early, walk, posts>>
  BY MessageEffect
<1>4. /\ Times(Saying(c), net[g]) = Times(Saying(c), net'[g])
             + (IF Head(net[g]) = Saying(c) THEN 1 ELSE 0)
      /\ Times(Saying(c), net'[Other(g)]) = Times(Saying(c), net[Other(g)])
  BY <1>3, TakenTimes
<1>5. /\ Times(c, heard[e]) \in Nat /\ Times(Saying(c), net[e]) \in Nat
      /\ Times(c, early[Other(e)]) \in Nat
  BY RationNumbers
<1>6. Times(c, heard'[e]) \in Nat /\ Times(Saying(c), net'[e]) \in Nat
  BY RationNumbersNext
<1>7. Given(e, c)' <= Given(e, c)
  <2>1. CASE g = e
    <3>1. heard'[e] = Append(heard[e], d) /\ heard[e] \in Seq(Channels)
      BY <1>2, <2>1 DEF Types, PostTypeOK
    <3>2. Times(c, heard'[e]) = Times(c, heard[e]) + (IF d = c THEN 1 ELSE 0)
      BY <3>1, TimesAppend
    <3>3. d = c => Head(net[g]) = Saying(c)
      BY <1>2
    <3>4. Times(c, heard'[e]) + Times(Saying(c), net'[e])
            <= Times(c, heard[e]) + Times(Saying(c), net[e])
      BY <1>4, <1>5, <1>6, <2>1, <3>2, <3>3
    <3>. QED  BY <3>4 DEF Given
  <2>2. CASE g = Other(e)
    <3>1. heard'[e] = heard[e]
      BY <1>1, <1>2, <2>2 DEF Types, PostTypeOK
    <3>2. Times(Saying(c), net'[e]) = Times(Saying(c), net[e])
      BY <1>1, <1>4, <2>2
    <3>. QED  BY <1>5, <3>1, <3>2 DEF Given
  <2>. QED  BY <1>1, <2>1, <2>2
<1>8. Posted(e, c)' = Posted(e, c)
  BY <1>3 DEF Posted
<1>. QED  BY <1>3, <1>5, <1>7, <1>8, RationStays

LEMMA RationStep ==
  Types /\ Types' /\ ListsSent /\ RequestsCount /\ Rationed /\ [PostNext]_allVars => Rationed'
<1> SUFFICES ASSUME Types, Types', ListsSent, RequestsCount, Rationed, [PostNext]_allVars,
                    NEW e \in Ends, NEW c \in Channels
             PROVE  Ration(e, c)'
  BY DEF Rationed
<1>1. Ration(e, c)
  BY DEF Rationed
<1>2. Times(c, early[Other(e)]) \in Nat /\ Given(e, c) \in Nat
  BY RationNumbers
<1>3. ASSUME Given(e, c)' <= Given(e, c), UNCHANGED <<subs, early, walk, posts>>
      PROVE  Ration(e, c)'
  <2>1. Posted(e, c)' = Posted(e, c)
    BY <1>3 DEF Posted
  <2>. QED  BY <1>1, <1>2, <1>3, <2>1, RationStays
<1>4. ASSUME UNCHANGED <<subs, early, walk, posts, heard, net>>
      PROVE  Ration(e, c)'
  BY <1>2, <1>3, <1>4 DEF Given
<1>5. ASSUME BreakMeanwhile
      PROVE  Ration(e, c)'
  <2>1. /\ UNCHANGED <<subs, early, walk, posts, heard>>
        /\ net'[e] = <<>>
    BY <1>5 DEF BreakMeanwhile, Break
  <2>2. Times(Saying(c), net'[e]) = 0
    BY <2>1, TimesEmpty
  <2>3. Times(c, heard[e]) \in Nat /\ Times(Saying(c), net[e]) \in Nat
    BY RationNumbers
  <2>4. Given(e, c)' <= Given(e, c)
    BY <2>1, <2>2, <2>3 DEF Given
  <2>. QED  BY <1>3, <2>1, <2>4
<1>6. ASSUME NEW g \in Ends, NEW packet \in Packets, Single(packet), Transmit(g, packet),
             packet # Saying(c), UNCHANGED <<subs, early, walk, posts, heard>>
      PROVE  Ration(e, c)'
  <2>1. Given(e, c)' <= Given(e, c)
    BY <1>6, GivenSent
  <2>. QED  BY <1>3, <1>6, <2>1
<1>7. ASSUME NEW g \in Ends, SendSubscribeRequest(g), UNCHANGED postVars
      PROVE  Ration(e, c)'
  <2>1. PICK d \in Channels : app[g] = Asking(d)
    BY <1>7 DEF SendSubscribeRequest, Types, Shaped, Asked
  <2>2. Transmit(g, Asking(d)) /\ UNCHANGED <<subs, early, walk, posts, heard>>
    BY <1>7, <2>1 DEF SendSubscribeRequest, postVars
  <2>. QED  BY <1>6, <2>2, PacketTypes
<1>8. ASSUME NEW g \in Ends, SendGreeting(g), UNCHANGED postVars
      PROVE  Ration(e, c)'
  <2> DEFINE packet == [kind |-> reply[g].kind, channels |-> reply[g].channels]
  <2>1. packet \in Packets /\ Single(packet) /\ packet # Saying(c)
    BY <1>8, GreetingPacket, PacketTypes
  <2>2. Transmit(g, packet) /\ UNCHANGED <<subs, early, walk, posts, heard>>
    BY <1>8 DEF SendGreeting, postVars
  <2>. QED  BY <1>6, <2>1, <2>2
<1>9. ASSUME NEW g \in Ends, HandleSubscribeRequestMeanwhile(g)
      PROVE  Ration(e, c)'
  <2>1. PICK d \in Channels :
          early' = IF named[g] THEN early ELSE [early EXCEPT ![g] = Append(@, d)]
    BY <1>9, RequestEffect DEF HandleSubscribeRequestMeanwhile
  <2>2. /\ net[g] # <<>> /\ net' = [net EXCEPT ![g] = Tail(@)]
        /\ UNCHANGED <<subs, walk, posts, heard>>
    BY <1>9, RequestEffect DEF HandleSubscribeRequestMeanwhile
  <2>3. Given(e, c)' <= Given(e, c)
    BY <2>2, GivenTaken
  <2>4. Posted(e, c)' = Posted(e, c)
    BY <2>2 DEF Posted
  <2>5. early[Other(e)] \in Seq(Channels)
    BY Numbers
  <2>6. early'[Other(e)] = early[Other(e)] \/ early'[Other(e)] = Append(early[Other(e)], d)
    BY <2>1, TwoEnds DEF Types, PostTypeOK, TypeOK
  <2>7. Times(c, early'[Other(e)]) >= Times(c, early[Other(e)])
    <3>1. Times(c, Append(early[Other(e)], d))
            = Times(c, early[Other(e)]) + (IF d = c THEN 1 ELSE 0)
      BY <2>5, TimesAppend
    <3>2. /\ Times(c, Append(early[Other(e)], d)) >= Times(c, early[Other(e)])
          /\ Times(c, early[Other(e)]) >= Times(c, early[Other(e)])
      BY <1>2, <3>1
    <3>. QED  BY <2>6, <3>2
  <2>. QED  BY <1>1, <2>2, <2>3, <2>4, <2>7, RationStays
<1>10. ASSUME NEW g \in Ends, Compose(g), UNCHANGED postVars
       PROVE  Ration(e, c)'
  BY <1>4, <1>10 DEF Compose, postVars
<1>11. ASSUME Establish, UNCHANGED postVars
       PROVE  Ration(e, c)'
  BY <1>4, <1>11 DEF Establish, postVars
<1>12. ASSUME UNCHANGED allVars
       PROVE  Ration(e, c)'
  BY <1>4, <1>12 DEF allVars, vars, postVars
<1>13. ASSUME NEW g \in Ends, NEW d \in Channels, SubscribeRequest(g, d), UNCHANGED postVars
       PROVE  Ration(e, c)'
  BY <1>1, <1>13, SubscribeRation
<1>14. ASSUME NEW g \in Ends,
              \/ HandleGreetingMeanwhile(g) \/ HandleMessage(g) \/ Visit(g) \/ NextClient(g)
              \/ \E d \in Topics : Publish(g, d)
       PROVE  Ration(e, c)'
  BY <1>1, <1>14, GreetingRation, MessageRation, VisitRation, NextClientRation,
     PublishRation
<1>. QED
  BY <1>5, <1>7, <1>8, <1>9, <1>10, <1>11, <1>12, <1>13, <1>14 DEF PostNext

LEMMA RationInduction == PostSpec => [](Types /\ RequestsCount /\ Rationed)
<1>1. PostInit => Rationed
  <2> SUFFICES ASSUME PostInit, NEW e \in Ends, NEW c \in Channels
               PROVE  Ration(e, c)
    BY DEF Rationed
  <2>1. walk[Other(e)].channel # <<c>>
    BY TwoEnds DEF PostInit, NoWalk
  <2>2. Given(e, c) = 0
    BY TimesEmpty DEF PostInit, Init, Given
  <2>3. Share(e, c) \in Nat
    BY TypesStart, RationNumbers
  <2>. QED  BY <2>1, <2>2, <2>3 DEF Ration
<1>. QED
  BY <1>1, TypesStart, TypesKept, RationStep, CountInduction, PTL DEF PostSpec

(***************************************************************************)
(* Subscribers are given only what has been published on their channel,    *)
(* and no message more than twice for each subscription, for any number of *)
(* calls of publish() and subscribe() and of broken connections, and       *)
(* whatever is written over a list that is walked                          *)
(* (client_dispatcher.cpp:27-35, 139-164).                                 *)
(***************************************************************************)
THEOREM HeardAtMostTwice == PostSpec => []HeardEnough
<1>1. Types /\ RequestsCount /\ Rationed => HeardEnough
  <2> SUFFICES ASSUME Types, RequestsCount, Rationed, NEW e \in Ends, NEW c \in Channels
               PROVE  Times(c, heard[e]) <= Share(e, c)
    BY DEF HeardEnough, Share, Posted
  <2> DEFINE f == Other(e)
  <2>1. /\ Times(c, heard[e]) \in Nat /\ Times(Saying(c), net[e]) \in Nat
        /\ Given(e, c) \in Nat /\ Posted(e, c) \in Nat /\ Share(e, c) \in Nat
        /\ Times(c, subs[e]) \in Nat /\ Times(c, early[f]) \in Nat
        /\ Cardinality(Ahead(f, c)) \in Nat
    BY RationNumbers
  <2>2. Times(c, heard[e]) <= Given(e, c)
    BY <2>1 DEF Given
  <2>3. Times(c, early[f]) <= Times(c, subs[e])
    <3>1. /\ Surplus(c, theirs[f], subs[e]) + Unsettled(e, c) <= Times(c, subs[e])
          /\ Times(c, early[f]) <= Unsettled(e, c) /\ Unsettled(e, c) \in Nat
          /\ Surplus(c, theirs[f], subs[e]) \in Nat
      BY Numbers DEF RequestsCount, Unsettled
    <3>. QED  BY <2>1, <3>1
  <2>4. walk[f].channel = <<c>> => walk[f].client \in {"unnamed", "named"}
    BY TwoEnds DEF Types, Shaped, Walking, NoWalk
  <2>5. Ration(e, c)
    BY DEF Rationed
  <2> HIDE DEF f
  <2>. QED  BY <2>1, <2>2, <2>3, <2>4, <2>5 DEF Ration, f
<1>. QED  BY <1>1, RationInduction, PTL

-----------------------------------------------------------------------------
(* The handshake *)

LEMMA GreetingAppended ==
  ASSUME NEW s \in Seq(Packets), NEW packet \in Packets
  PROVE  /\ packet.kind \notin Greets =>
              /\ NoGreeting(s) => NoGreeting(Append(s, packet))
              /\ \A k : OneGreeting(s, k) => OneGreeting(Append(s, packet), k)
         /\ packet.kind \in Greets /\ NoGreeting(s)
              => OneGreeting(Append(s, packet), packet.kind)
<1> DEFINE t == Append(s, packet)
<1>1. /\ Len(s) \in Nat /\ Len(t) = Len(s) + 1 /\ t[Len(s) + 1] = packet
      /\ \A i \in 1..Len(s) : t[i] = s[i]
  OBVIOUS
<1>2. 1..Len(t) = 1..Len(s) \cup {Len(s) + 1} /\ Len(s) + 1 \notin 1..Len(s)
  BY <1>1
<1> HIDE DEF t
<1>3. packet.kind \notin Greets /\ NoGreeting(s) => NoGreeting(t)
  BY <1>1, <1>2 DEF NoGreeting
<1>4. ASSUME packet.kind \notin Greets, NEW k, OneGreeting(s, k)
      PROVE  OneGreeting(t, k)
  BY <1>1, <1>2, <1>4 DEF OneGreeting
<1>5. packet.kind \in Greets /\ NoGreeting(s) => OneGreeting(t, packet.kind)
  BY <1>1, <1>2 DEF OneGreeting, NoGreeting
<1>. QED  BY <1>3, <1>4, <1>5 DEF t

LEMMA GreetingTaken ==
  ASSUME NEW s \in Seq(Packets), s # <<>>
  PROVE  /\ NoGreeting(s) => Head(s).kind \notin Greets /\ NoGreeting(Tail(s))
         /\ Head(s).kind \notin Greets =>
              \A k \in Greets : OneGreeting(s, k) => OneGreeting(Tail(s), k)
         /\ Head(s).kind \in Greets =>
              \A k : OneGreeting(s, k) => Head(s).kind = k /\ NoGreeting(Tail(s))
<1> DEFINE t == Tail(s)
<1>1. /\ Len(s) \in Nat \ {0} /\ Len(t) = Len(s) - 1 /\ Head(s) = s[1]
      /\ \A i \in 1..Len(t) : t[i] = s[i + 1]
  OBVIOUS
<1> HIDE DEF t
<1>2. /\ 1 \in 1..Len(s) /\ \A i \in 1..Len(t) : i + 1 \in 1..Len(s) /\ i + 1 # 1
      /\ \A i \in 1..Len(s) : i = 1 \/ (i - 1 \in 1..Len(t) /\ t[i - 1] = s[i])
  BY <1>1
<1>3. NoGreeting(s) => Head(s).kind \notin Greets /\ NoGreeting(t)
  BY <1>1, <1>2 DEF NoGreeting
<1>4. ASSUME Head(s).kind \notin Greets, NEW k \in Greets, OneGreeting(s, k)
      PROVE  OneGreeting(t, k)
  <2>1. PICK i \in 1..Len(s) :
          s[i].kind = k /\ \A j \in 1..Len(s) : s[j].kind \in Greets => j = i
    BY <1>4 DEF OneGreeting
  <2>2. i - 1 \in 1..Len(t) /\ t[i - 1].kind = k
    BY <1>1, <1>2, <1>4, <2>1
  <2>3. \A j \in 1..Len(t) : t[j].kind \in Greets => j = i - 1
    BY <1>1, <1>2, <2>1
  <2>. QED  BY <2>2, <2>3 DEF OneGreeting
<1>5. ASSUME Head(s).kind \in Greets, NEW k, OneGreeting(s, k)
      PROVE  Head(s).kind = k /\ NoGreeting(t)
  BY <1>1, <1>2, <1>5 DEF OneGreeting, NoGreeting
<1>. QED  BY <1>3, <1>4, <1>5 DEF t

\* The greetings on their way to each end are the same.
GreetingsStay ==
  \A e \in Ends :
    /\ NoGreeting(net[e]) => NoGreeting(net'[e])
    /\ \A k \in Greets : OneGreeting(net[e], k) => OneGreeting(net'[e], k)

LEMMA StageStays ==
  ASSUME Types, Stages, UNCHANGED <<named, status>>,
         \A e \in Ends : reply'[e].kind = reply[e].kind, GreetingsStay
  PROVE  Stages'
<1>1. Opener \in Ends /\ Other(Opener) \in Ends
  BY EndAssumption, TwoEnds
<1>2. \A a, b, s : Phase(a, b, s) => Phase(a, b, s)'
  BY <1>1 DEF Phase
<1>3. "Connect" \in Greets /\ "ConnectAck" \in Greets
  BY DEF Greets
<1>. QED  BY <1>1, <1>2, <1>3 DEF Stages, GreetingsStay

LEMMA SentStays ==
  ASSUME Types, NEW e \in Ends, NEW packet \in Packets, Single(packet),
         Transmit(e, packet), packet.kind \notin Greets
  PROVE  GreetingsStay
<1> SUFFICES ASSUME NEW f \in Ends
             PROVE  /\ NoGreeting(net[f]) => NoGreeting(net'[f])
                    /\ \A k : OneGreeting(net[f], k) => OneGreeting(net'[f], k)
  BY DEF GreetingsStay
<1>1. net[f] \in Seq(Packets)
  BY DEF Types, PostTypeOK, TypeOK
<1>2. /\ net'[e] = net[e] /\ (f = e \/ f = Other(e))
      /\ \/ net'[Other(e)] = net[Other(e)]
         \/ net'[Other(e)] = Append(net[Other(e)], packet)
  BY TwoEnds, PacketSent
<1>3. net'[f] = net[f] \/ net'[f] = Append(net[f], packet)
  BY <1>2
<1>. QED  BY <1>1, <1>3, GreetingAppended

LEMMA TakenStays ==
  ASSUME Types, NEW e \in Ends, net[e] # <<>>, net' = [net EXCEPT ![e] = Tail(@)],
         Head(net[e]).kind \notin Greets
  PROVE  GreetingsStay
<1> SUFFICES ASSUME NEW f \in Ends
             PROVE  /\ NoGreeting(net[f]) => NoGreeting(net'[f])
                    /\ \A k \in Greets : OneGreeting(net[f], k) => OneGreeting(net'[f], k)
  BY DEF GreetingsStay
<1>1. net[e] \in Seq(Packets)
  BY HeadPacket
<1>2. net'[f] = net[f] \/ (f = e /\ net'[f] = Tail(net[e]))
  BY HeadTaken
<1>. QED  BY <1>1, <1>2, GreetingTaken

LEMMA ClosedStep == Types /\ Closed /\ [PostNext]_allVars => Closed'
<1> SUFFICES ASSUME Types, Closed, [PostNext]_allVars PROVE Closed'
  OBVIOUS
<1>1. Opener \in Ends
  BY EndAssumption
<1>2. ASSUME UNCHANGED <<status, named, net>>
      PROVE  Closed'
  BY <1>2 DEF Closed
<1>3. ASSUME NEW e \in Ends, NEW packet, Transmit(e, packet), UNCHANGED <<status, named>>
      PROVE  Closed'
  BY <1>1, <1>3 DEF Closed, Transmit
<1>4. ASSUME NEW e \in Ends, net[e] # <<>>, net' = [net EXCEPT ![e] = Tail(@)],
             UNCHANGED status
      PROVE  Closed'
  BY <1>1, <1>4 DEF Closed
<1>5. ASSUME Establish
      PROVE  Closed'
  BY <1>1, <1>5 DEF Closed, Establish
<1>6. ASSUME Break
      PROVE  Closed'
  BY <1>1, <1>6 DEF Closed, Break
<1>7. ASSUME NEW e \in Ends, SendSubscribeRequest(e) \/ SendGreeting(e)
      PROVE  Closed'
  BY <1>3, <1>7 DEF SendSubscribeRequest, SendGreeting
<1>8. ASSUME NEW e \in Ends, HandleGreeting(e) \/ HandleSubscribeRequest(e) \/ HandleMessage(e)
      PROVE  Closed'
  BY <1>4, <1>8 DEF HandleGreeting, HandleSubscribeRequest, HandleMessage
<1>9. ASSUME NEW e \in Ends, Visit(e)
      PROVE  Closed'
  BY <1>2, <1>3, <1>9, VisitEffect
<1>10. ASSUME NEW e \in Ends,
              \/ Compose(e) \/ NextClient(e) \/ \E c \in Channels : SubscribeRequest(e, c)
              \/ \E c \in Topics : Publish(e, c)
       PROVE  Closed'
  BY <1>2, <1>10 DEF Compose, NextClient, SubscribeRequest, Publish, vars
<1>11. ASSUME UNCHANGED allVars
       PROVE  Closed'
  BY <1>2, <1>11 DEF allVars, vars
<1>. QED
  BY <1>5, <1>6, <1>7, <1>8, <1>9, <1>10, <1>11
     DEF PostNext, BreakMeanwhile, HandleGreetingMeanwhile, HandleSubscribeRequestMeanwhile

LEMMA GreetingSentStage ==
  ASSUME Types, Closed, Stages, NEW e \in Ends, SendGreeting(e)
  PROVE  Stages'
<1> DEFINE o == Opener
           p == Other(Opener)
           packet == [kind |-> reply[e].kind, channels |-> reply[e].channels]
<1> SUFFICES ASSUME status[o] = "CONNECTED", UNCHANGED <<status, named>> PROVE Stages'
  BY DEF Stages, SendGreeting
<1>1. o \in Ends /\ p \in Ends /\ p # o /\ Other(p) = o /\ (e = o \/ e = p)
  BY EndAssumption, TwoEnds
<1>2. /\ packet \in Packets /\ Single(packet) /\ packet.kind \in Greets
      /\ packet.kind = reply[e].kind
  BY GreetingPacket
<1>3. Transmit(e, packet) /\ reply' = [reply EXCEPT ![e] = NoDraft]
  BY DEF SendGreeting
<1>4. reply'[e].kind = "none" /\ \A f \in Ends : f # e => reply'[f] = reply[f]
  BY <1>3, NoDraftType DEF Types, PostTypeOK, TypeOK
<1>5. net[o] \in Seq(Packets) /\ net[p] \in Seq(Packets)
  BY <1>1 DEF Types, PostTypeOK, TypeOK
<1> HIDE DEF packet
<1>6. /\ net'[e] = net[e]
      /\ status[e] = "CONNECTED" => net'[Other(e)] = Append(net[Other(e)], packet)
  BY <1>2, <1>3, PacketSent
<1>7. "none" \notin Greets
  BY DEF Greets
<1> HIDE DEF o, p
<1>8. CASE Phase("Connect", "none", {}) /\ NoGreeting(net[o]) /\ NoGreeting(net[p])
  <2>1. reply[o].kind = "Connect" /\ reply[p].kind = "none" /\ \A f \in Ends : ~named[f]
    BY <1>8 DEF Phase, o, p
  <2>2. e = o /\ packet.kind = "Connect"
    BY <1>1, <1>2, <1>7, <2>1
  <2>3. OneGreeting(net'[p], "Connect")
    BY <1>1, <1>2, <1>5, <1>6, <1>8, <2>2, GreetingAppended DEF o, p
  <2>4. Phase("none", "none", {})'
    BY <1>1, <1>4, <2>1, <2>2 DEF Phase, o, p
  <2>. QED  BY <1>6, <1>8, <2>2, <2>3, <2>4 DEF Stages, o, p
<1>9. CASE Phase("none", "ConnectAck", {p}) /\ NoGreeting(net[o]) /\ NoGreeting(net[p])
  <2>1. /\ reply[o].kind = "none" /\ reply[p].kind = "ConnectAck"
        /\ \A f \in Ends : named[f] <=> f \in {p}
    BY <1>9 DEF Phase, o, p
  <2>2. e = p /\ packet.kind = "ConnectAck"
    BY <1>1, <1>2, <1>7, <2>1
  <2>3. OneGreeting(net'[o], "ConnectAck")
    <3>1. status[p] = "CONNECTED"
      BY <1>1 DEF Closed, o
    <3>. QED  BY <1>1, <1>2, <1>5, <1>6, <1>9, <2>2, <3>1, GreetingAppended
  <2>4. Phase("none", "none", {p})'
    BY <1>1, <1>4, <2>1, <2>2 DEF Phase, o, p
  <2>. QED  BY <1>6, <1>9, <2>2, <2>3, <2>4 DEF Stages, o, p
<1>10. ASSUME NEW s, Phase("none", "none", s)
       PROVE  FALSE
  BY <1>1, <1>2, <1>7, <1>10 DEF Phase, o, p
<1>. QED  BY <1>8, <1>9, <1>10 DEF Stages, o, p

LEMMA GreetingHeardStage ==
  ASSUME Types, Stages, NEW e \in Ends, HandleGreeting(e)
  PROVE  Stages'
<1> DEFINE o == Opener
           p == Other(Opener)
<1> SUFFICES ASSUME status[o] = "CONNECTED", UNCHANGED status PROVE Stages'
  BY DEF Stages, HandleGreeting
<1>1. o \in Ends /\ p \in Ends /\ p # o /\ (e = o \/ e = p)
  BY EndAssumption, TwoEnds
<1>2. /\ reply[e] = NoDraft /\ net[e] # <<>> /\ Head(net[e]).kind \in Greets
      /\ named' = [named EXCEPT ![e] = TRUE] /\ net' = [net EXCEPT ![e] = Tail(@)]
      /\ reply' = [reply EXCEPT ![e] =
                     IF Head(net[e]).kind = "Connect" THEN Draft("ConnectAck") ELSE NoDraft]
  BY DEF HandleGreeting
<1>3. /\ reply'[e].kind = IF Head(net[e]).kind = "Connect" THEN "ConnectAck" ELSE "none"
      /\ \A f \in Ends : f # e => reply'[f] = reply[f]
      /\ named'[e] /\ \A f \in Ends : f # e => named'[f] = named[f]
  BY <1>2, NoDraftType, DraftType DEF Types, PostTypeOK, TypeOK, Draft
<1>4. net'[e] = Tail(net[e]) /\ \A f \in Ends : f # e => net'[f] = net[f]
  BY <1>2, HeadTaken
<1>5. net[e] \in Seq(Packets)
  BY <1>2, HeadPacket
<1>6. ~NoGreeting(net[e])
  BY <1>2, <1>5, GreetingTaken
<1>7. reply[e].kind = "none"
  BY <1>2, NoDraftType
<1> HIDE DEF o, p
<1>8. CASE Phase("none", "none", {}) /\ NoGreeting(net[o]) /\ OneGreeting(net[p], "Connect")
  <2>1. e = p
    BY <1>1, <1>6, <1>8
  <2>2. Head(net[p]).kind = "Connect" /\ NoGreeting(net'[p])
    BY <1>2, <1>4, <1>5, <1>8, <2>1, GreetingTaken
  <2>3. Phase("none", "ConnectAck", {p})'
    BY <1>1, <1>3, <1>8, <2>1, <2>2 DEF Phase, o, p
  <2>. QED  BY <1>1, <1>4, <1>8, <2>1, <2>2, <2>3 DEF Stages, o, p
<1>9. CASE Phase("none", "none", {p}) /\ OneGreeting(net[o], "ConnectAck") /\ NoGreeting(net[p])
  <2>1. e = o
    BY <1>1, <1>6, <1>9
  <2>2. Head(net[o]).kind = "ConnectAck" /\ NoGreeting(net'[o])
    BY <1>2, <1>4, <1>5, <1>9, <2>1, GreetingTaken
  <2>3. Phase("none", "none", {o, p})'
    BY <1>1, <1>3, <1>9, <2>1, <2>2 DEF Phase, o, p
  <2>. QED  BY <1>1, <1>4, <1>9, <2>1, <2>2, <2>3 DEF Stages, o, p
<1>10. NoGreeting(net[o]) /\ NoGreeting(net[p]) => FALSE
  BY <1>1, <1>6
<1>. QED  BY <1>8, <1>9, <1>10 DEF Stages, o, p

LEMMA StageStep == Types /\ Closed /\ Stages /\ [PostNext]_allVars => Stages'
<1> SUFFICES ASSUME Types, Closed, Stages, [PostNext]_allVars PROVE Stages'
  OBVIOUS
<1>1. Opener \in Ends /\ Other(Opener) \in Ends /\ Other(Opener) # Opener
  BY EndAssumption, TwoEnds
<1>2. ASSUME UNCHANGED <<named, status, net>>, \A e \in Ends : reply'[e].kind = reply[e].kind
      PROVE  Stages'
  BY <1>2, StageStays DEF GreetingsStay
<1>3. ASSUME NEW e \in Ends, NEW packet \in Packets, Single(packet),
             packet.kind \notin Greets, Transmit(e, packet),
             UNCHANGED <<named, status, reply>>
      PROVE  Stages'
  BY <1>3, SentStays, StageStays
<1>4. ASSUME NEW e \in Ends, net[e] # <<>>, net' = [net EXCEPT ![e] = Tail(@)],
             Head(net[e]).kind \notin Greets, UNCHANGED <<named, status, reply>>
      PROVE  Stages'
  BY <1>4, TakenStays, StageStays
<1>5. CASE Establish
  <2>1. \A e \in Ends : ~named'[e] /\ net'[e] = <<>>
    BY <1>1, <1>5 DEF Establish, Closed
  <2>2. reply' = [reply EXCEPT ![Opener] = Draft("Connect")] /\ reply[Other(Opener)] = NoDraft
    BY <1>1, <1>5 DEF Establish
  <2>3. reply'[Opener].kind = "Connect" /\ reply'[Other(Opener)].kind = "none"
    BY <1>1, <2>2, NoDraftType DEF Types, PostTypeOK, TypeOK, Draft
  <2>4. Phase("Connect", "none", {})'
    BY <2>1, <2>3 DEF Phase
  <2>5. NoGreeting(net[Opener])' /\ NoGreeting(net[Other(Opener)])'
    BY <1>1, <2>1 DEF NoGreeting
  <2>. QED  BY <2>4, <2>5 DEF Stages
<1>6. CASE Break
  BY <1>1, <1>6 DEF Break, Stages
<1>7. ASSUME NEW e \in Ends, SendSubscribeRequest(e)
      PROVE  Stages'
  <2>1. PICK c \in Channels : app[e] = Asking(c)
    BY <1>7 DEF SendSubscribeRequest, Types, Shaped, Asked
  <2>2. Transmit(e, Asking(c)) /\ UNCHANGED <<named, status, reply>>
    BY <1>7, <2>1 DEF SendSubscribeRequest
  <2>3. Asking(c).kind \notin Greets
    BY DEF Asking, Greets
  <2>. QED  BY <1>3, <2>2, <2>3, PacketTypes
<1>8. ASSUME NEW e \in Ends, Compose(e)
      PROVE  Stages'
  <2>1. \A f \in Ends : reply'[f].kind = reply[f].kind
    BY <1>8 DEF Compose, Types, PostTypeOK, TypeOK
  <2>. QED  BY <1>2, <1>8, <2>1 DEF Compose
<1>9. ASSUME NEW e \in Ends, HandleSubscribeRequest(e)
      PROVE  Stages'
  BY <1>4, <1>9 DEF HandleSubscribeRequest, Greets
<1>10. ASSUME NEW e \in Ends, HandleMessage(e)
       PROVE  Stages'
  BY <1>4, <1>10 DEF HandleMessage, Greets
<1>11. ASSUME NEW e \in Ends, Visit(e)
       PROVE  Stages'
  <2>1. UNCHANGED <<named, status, reply>>
    BY <1>11, VisitEffect
  <2>2. \/ \E c \in Channels : Transmit(e, Saying(c))
        \/ net' = net
    BY <1>11, VisitEffect
  <2>3. \A c : Saying(c).kind \notin Greets
    BY DEF Saying, Greets
  <2>. QED  BY <1>2, <1>3, <2>1, <2>2, <2>3, PacketTypes
<1>12. ASSUME NEW e \in Ends,
              \/ NextClient(e) \/ \E c \in Channels : SubscribeRequest(e, c)
              \/ \E c \in Topics : Publish(e, c)
       PROVE  Stages'
  BY <1>2, <1>12 DEF NextClient, SubscribeRequest, Publish, vars
<1>13. ASSUME UNCHANGED allVars
       PROVE  Stages'
  BY <1>2, <1>13 DEF allVars, vars
<1>. QED
  BY <1>5, <1>6, <1>7, <1>8, <1>9, <1>10, <1>11, <1>12, <1>13, GreetingSentStage,
     GreetingHeardStage
     DEF PostNext, BreakMeanwhile, HandleGreetingMeanwhile, HandleSubscribeRequestMeanwhile

-----------------------------------------------------------------------------
(* What the other end knows *)

\* The channel is in the other end's list, or its request is made or on its way.
Knows(e, c) ==
  \/ Holds(theirs[Other(e)], c)
  \/ app[e] = Asking(c)
  \/ Holds(net[Other(e)], Asking(c))

LEMMA HoldsAppend ==
  ASSUME NEW T, NEW s \in Seq(T), NEW y \in T
  PROVE  Holds(Append(s, y), y) /\ \A x : Holds(s, x) => Holds(Append(s, y), x)
<1>1. /\ Len(s) \in Nat /\ Len(Append(s, y)) = Len(s) + 1 /\ Append(s, y)[Len(s) + 1] = y
      /\ \A i \in 1..Len(s) : Append(s, y)[i] = s[i]
  OBVIOUS
<1>2. Len(s) + 1 \in 1..Len(Append(s, y)) /\ \A i \in 1..Len(s) : i \in 1..Len(Append(s, y))
  BY <1>1
<1>. QED  BY <1>1, <1>2 DEF Holds

LEMMA HoldsTail ==
  ASSUME NEW T, NEW s \in Seq(T), s # <<>>, NEW x, Holds(s, x)
  PROVE  Head(s) = x \/ Holds(Tail(s), x)
<1>1. PICK i \in 1..Len(s) : s[i] = x
  BY DEF Holds
<1>2. i # 1 => i - 1 \in 1..Len(Tail(s)) /\ Tail(s)[i - 1] = x
  BY <1>1
<1>3. i = 1 => Head(s) = x
  BY <1>1
<1>. QED  BY <1>2, <1>3 DEF Holds

LEMMA SentKnown ==
  ASSUME Types, NEW e \in Ends, NEW c \in Channels, Knows(e, c),
         NEW g \in Ends, NEW packet \in Packets, Single(packet), Transmit(g, packet),
         UNCHANGED theirs, app'[e] = app[e]
  PROVE  Knows(e, c)'
<1> DEFINE f == Other(e)
<1>1. f \in Ends /\ net[f] \in Seq(Packets)
  BY TwoEnds DEF Types, PostTypeOK, TypeOK
<1>2. /\ net'[g] = net[g] /\ (f = g \/ f = Other(g))
      /\ \/ net'[Other(g)] = net[Other(g)]
         \/ net'[Other(g)] = Append(net[Other(g)], packet)
  BY <1>1, TwoEnds, PacketSent
<1>3. net'[f] = net[f] \/ net'[f] = Append(net[f], packet)
  BY <1>2
<1>4. \A x : Holds(net[f], x) => Holds(Append(net[f], packet), x)
  BY <1>1, HoldsAppend
<1>5. Holds(net[f], Asking(c)) => Holds(net'[f], Asking(c))
  BY <1>3, <1>4
<1>. QED  BY <1>5 DEF Knows

LEMMA TakenKnown ==
  ASSUME Types, NEW e \in Ends, NEW c \in Channels, Knows(e, c),
         NEW g \in Ends, net[g] # <<>>, net' = [net EXCEPT ![g] = Tail(@)],
         Head(net[g]) # Asking(c), UNCHANGED <<theirs, app>>
  PROVE  Knows(e, c)'
<1> DEFINE f == Other(e)
<1>1. f \in Ends /\ net[f] \in Seq(Packets)
  BY TwoEnds DEF Types, PostTypeOK, TypeOK
<1>2. net'[f] = net[f] \/ (f = g /\ net'[f] = Tail(net[f]))
  BY <1>1, HeadTaken
<1>3. Holds(net[f], Asking(c)) => Holds(net'[f], Asking(c))
  BY <1>1, <1>2, HoldsTail
<1>. QED  BY <1>3 DEF Knows

LEMMA RequestKnown ==
  ASSUME Types, NEW e \in Ends, NEW c \in Channels, Knows(e, c), named[Other(e)],
         NEW g \in Ends, HandleSubscribeRequest(g)
  PROVE  Knows(e, c)'
<1> DEFINE f == Other(e)
<1>1. f \in Ends /\ net[f] \in Seq(Packets) /\ theirs[f] \in Seq(Channels)
  BY TwoEnds DEF Types, PostTypeOK, TypeOK
<1>2. PICK d \in Channels :
        /\ Head(net[g]) = Asking(d)
        /\ theirs' = IF named[g] THEN [theirs EXCEPT ![g] = Append(@, d)] ELSE theirs
  BY RequestEffect
<1>3. net[g] # <<>> /\ net' = [net EXCEPT ![g] = Tail(@)] /\ UNCHANGED app
  BY RequestEffect
<1>4. CASE f = g
  <2>1. theirs'[f] = Append(theirs[f], d) /\ net'[f] = Tail(net[f])
    BY <1>1, <1>2, <1>3, <1>4, HeadTaken DEF Types, PostTypeOK, TypeOK
  <2>2. Holds(theirs[f], c) => Holds(theirs'[f], c)
    BY <1>1, <2>1, HoldsAppend
  <2>3. d = c => Holds(theirs'[f], c)
    BY <1>1, <2>1, HoldsAppend
  <2>4. Holds(net[f], Asking(c)) => Asking(d) = Asking(c) \/ Holds(net'[f], Asking(c))
    BY <1>1, <1>2, <1>3, <1>4, <2>1, HoldsTail
  <2>5. Asking(d) = Asking(c) => d = c
    BY DEF Asking
  <2>. QED  BY <1>3, <2>2, <2>3, <2>4, <2>5 DEF Knows
<1>5. CASE f # g
  <2>1. theirs'[f] = theirs[f] /\ net'[f] = net[f]
    BY <1>1, <1>2, <1>3, <1>5, HeadTaken DEF Types, PostTypeOK, TypeOK
  <2>. QED  BY <1>3, <2>1 DEF Knows
<1>. QED  BY <1>4, <1>5

\* Once the other end has the client's name, what it knows stays known.
LEMMA KnownStep ==
  ASSUME Types, NEW e \in Ends, NEW c \in Channels, Knows(e, c), named[Other(e)],
         status[e] = "CONNECTED", status'[e] = "CONNECTED", [PostNext]_allVars,
         \A i \in 1..Len(net[Other(e)]) :
           net[Other(e)][i].kind \in Greets => Holds(net[Other(e)][i].channels, c)
  PROVE  Knows(e, c)'
<1> DEFINE f == Other(e)
<1>1. f \in Ends /\ f # e /\ Other(f) = e
  BY TwoEnds
<1>2. ASSUME UNCHANGED <<theirs, app, net>>
      PROVE  Knows(e, c)'
  BY <1>2 DEF Knows
<1>3. ~Establish /\ ~Break
  BY <1>1 DEF Establish, Break, Types, PostTypeOK, TypeOK
<1>4. ASSUME NEW g \in Ends, NEW d \in Channels, SubscribeRequest(g, d)
      PROVE  Knows(e, c)'
  <2>1. /\ UNCHANGED <<theirs, net>> /\ app[g] = Idle
        /\ \A h \in Ends : h # g => app'[h] = app[h]
    BY <1>4 DEF SubscribeRequest, Types, PostTypeOK, TypeOK
  <2>2. Idle # Asking(c)
    BY DEF Idle, Asking
  <2>. QED  BY <2>1, <2>2 DEF Knows
<1>5. ASSUME NEW g \in Ends, SendSubscribeRequest(g)
      PROVE  Knows(e, c)'
  <2>1. PICK d \in Channels : app[g] = Asking(d)
    BY <1>5 DEF SendSubscribeRequest, Types, Shaped, Asked
  <2>2. /\ Transmit(g, Asking(d)) /\ UNCHANGED theirs
        /\ \A h \in Ends : h # g => app'[h] = app[h]
    BY <1>5, <2>1 DEF SendSubscribeRequest, Types, PostTypeOK, TypeOK
  <2>3. CASE g = e
    <3>1. net'[f] = Append(net[f], Asking(d)) /\ net[f] \in Seq(Packets)
      BY <1>1, <2>2, <2>3, PacketTypes, PacketSent DEF Types, PostTypeOK, TypeOK
    <3>2. Holds(net'[f], Asking(d)) /\ \A x : Holds(net[f], x) => Holds(net'[f], x)
      BY <3>1, PacketTypes, HoldsAppend
    <3>. QED  BY <2>1, <2>2, <2>3, <3>2 DEF Knows
  <2>4. CASE g # e
    BY <2>2, <2>4, PacketTypes, SentKnown
  <2>. QED  BY <2>3, <2>4
<1>6. ASSUME NEW g \in Ends, Compose(g) \/ NextClient(g) \/ \E d \in Topics : Publish(g, d)
      PROVE  Knows(e, c)'
  BY <1>2, <1>6 DEF Compose, NextClient, Publish, vars
<1>7. ASSUME NEW g \in Ends, SendGreeting(g)
      PROVE  Knows(e, c)'
  <2> DEFINE packet == [kind |-> reply[g].kind, channels |-> reply[g].channels]
  <2>1. packet \in Packets /\ Single(packet)
    BY <1>7, GreetingPacket
  <2>2. Transmit(g, packet) /\ UNCHANGED <<theirs, app>>
    BY <1>7 DEF SendGreeting
  <2>. QED  BY <2>1, <2>2, SentKnown
<1>8. ASSUME NEW g \in Ends, HandleGreeting(g)
      PROVE  Knows(e, c)'
  <2>1. /\ net[g] # <<>> /\ Head(net[g]).kind \in Greets
        /\ theirs' = [theirs EXCEPT ![g] = Head(net[g]).channels]
        /\ net' = [net EXCEPT ![g] = Tail(@)] /\ UNCHANGED app
    BY <1>8 DEF HandleGreeting
  <2>2. CASE g = f
    <3>1. Head(net[f]) = net[f][1] /\ 1 \in 1..Len(net[f])
      BY <1>1, <2>1, <2>2, HeadPacket
    <3>2. theirs'[f] = Head(net[f]).channels
      BY <1>1, <2>1, <2>2 DEF Types, PostTypeOK, TypeOK
    <3>. QED  BY <2>1, <2>2, <3>1, <3>2 DEF Knows
  <2>3. CASE g # f
    <3>1. theirs'[f] = theirs[f] /\ net'[f] = net[f]
      BY <1>1, <2>1, <2>3, HeadTaken DEF Types, PostTypeOK, TypeOK
    <3>. QED  BY <2>1, <3>1 DEF Knows
  <2>. QED  BY <2>2, <2>3
<1>9. ASSUME NEW g \in Ends, HandleSubscribeRequest(g)
      PROVE  Knows(e, c)'
  BY <1>9, RequestKnown
<1>10. ASSUME NEW g \in Ends, HandleMessage(g)
       PROVE  Knows(e, c)'
  <2>1. /\ net[g] # <<>> /\ net' = [net EXCEPT ![g] = Tail(@)]
        /\ Head(net[g]) # Asking(c) /\ UNCHANGED <<theirs, app>>
    BY <1>10 DEF HandleMessage, Asking
  <2>. QED  BY <2>1, TakenKnown
<1>11. ASSUME NEW g \in Ends, Visit(g)
       PROVE  Knows(e, c)'
  <2>1. UNCHANGED <<theirs, app>>
    BY <1>11, VisitEffect
  <2>2. \/ \E d \in Channels : Transmit(g, Saying(d))
        \/ net' = net
    BY <1>11, VisitEffect
  <2>. QED  BY <1>2, <2>1, <2>2, PacketTypes, SentKnown
<1>12. ASSUME UNCHANGED allVars
       PROVE  Knows(e, c)'
  BY <1>2, <1>12 DEF allVars, vars
<1>. QED
  BY <1>3, <1>4, <1>5, <1>6, <1>7, <1>8, <1>9, <1>10, <1>11, <1>12
     DEF PostNext, BreakMeanwhile, HandleGreetingMeanwhile, HandleSubscribeRequestMeanwhile

-----------------------------------------------------------------------------
(* Subscriptions made apart from a handshake *)

\* What Told says of one of them.
ToldOf(e, c) ==
  LET f == Other(e) IN
  /\ Holds(subs[e], c)
  /\ status[e] = "CONNECTED" =>
       /\ reply[e].copied => Holds(reply[e].channels, c)
       /\ \A i \in 1..Len(net[f]) :
            net[f][i].kind \in Greets => Holds(net[f][i].channels, c)
       /\ named[f] => Knows(e, c)

\* Outside of a handshake there is no list on its way.
LEMMA NewTold ==
  ASSUME Types, Closed, Stages, NEW e \in Ends, NEW c \in Channels,
         SubscribeRequest(e, c), ~Handshake
  PROVE  ToldOf(e, c)'
<1> DEFINE f == Other(e)
<1>1. f \in Ends /\ Opener \in Ends /\ Other(Opener) \in Ends /\ (f = Opener \/ f = Other(Opener))
  BY EndAssumption, TwoEnds
<1>2. /\ subs' = [subs EXCEPT ![e] = Append(@, c)] /\ app' = [app EXCEPT ![e] = Asking(c)]
      /\ UNCHANGED <<theirs, named, status, reply, net>>
  BY DEF SubscribeRequest, Asking
<1>3. subs'[e] = Append(subs[e], c) /\ app'[e] = Asking(c) /\ subs[e] \in Seq(Channels)
  BY <1>2 DEF Types, PostTypeOK, TypeOK
<1>4. Holds(subs'[e], c)
  BY <1>3, HoldsAppend
<1>5. Knows(e, c)'
  BY <1>3 DEF Knows
<1>6. ASSUME status[e] = "CONNECTED"
      PROVE  ~reply[e].copied /\ NoGreeting(net[f])
  <2>1. \A g \in Ends : status[g] = "CONNECTED" /\ named[g] /\ reply[g] = NoDraft
    BY <1>1, <1>6 DEF Closed, Handshake
  <2>2. NoGreeting(net[Opener]) /\ NoGreeting(net[Other(Opener)])
    <3>1. \A a, b, s : Phase(a, b, s) => s = s \cup Ends
      BY <2>1 DEF Phase
    <3>2. Opener \notin {} /\ Opener \notin {Other(Opener)}
      BY <1>1, TwoEnds
    <3>3. \A a, b : ~Phase(a, b, {}) /\ ~Phase(a, b, {Other(Opener)})
      BY <1>1, <3>1, <3>2
    <3>. QED  BY <1>1, <2>1, <3>3 DEF Stages
  <2>. QED  BY <1>1, <2>1, <2>2, NoDraftType
<1>. QED  BY <1>2, <1>4, <1>5, <1>6 DEF ToldOf, NoGreeting

LEMMA OldTold ==
  ASSUME Types, Closed, NEW e \in Ends, NEW c \in Channels, ToldOf(e, c), Moves,
         [PostNext]_allVars
  PROVE  ToldOf(e, c)'
<1> DEFINE f == Other(e)
<1>1. f \in Ends /\ f # e /\ Other(f) = e /\ \A g \in Ends : g = e \/ g = f
  BY TwoEnds
<1>2. Holds(subs'[e], c)
  <2>1. subs[e] \in Seq(Channels)
    BY DEF Types, PostTypeOK, TypeOK
  <2>2. \A d \in Channels : Holds(Append(subs[e], d), c)
    BY <2>1, HoldsAppend DEF ToldOf
  <2>. QED  BY <2>2 DEF Moves, SubsGrow, ToldOf
<1>3. CASE status'[e] # "CONNECTED"
  BY <1>2, <1>3 DEF ToldOf
<1>4. CASE status'[e] = "CONNECTED" /\ status[e] # "CONNECTED"
  <2>1. Establish
    BY <1>4, VisitEffect, RequestEffect
       DEF PostNext, BreakMeanwhile, Break, SubscribeRequest, SendSubscribeRequest, Compose,
           SendGreeting, HandleGreetingMeanwhile, HandleGreeting,
           HandleSubscribeRequestMeanwhile, HandleMessage, Publish, NextClient, allVars, vars
  <2>2. /\ \A g \in Ends : ~named[g] /\ net[g] = <<>> /\ reply[g] = NoDraft
        /\ reply' = [reply EXCEPT ![Opener] = Draft("Connect")] /\ UNCHANGED <<named, net>>
    BY <2>1, EndAssumption DEF Establish, Closed
  <2>3. ~reply'[e].copied
    BY <2>2, NoDraftType, EndAssumption DEF Draft, Types, PostTypeOK, TypeOK
  <2>. QED  BY <1>1, <1>2, <2>2, <2>3 DEF ToldOf
<1>5. CASE status'[e] = "CONNECTED" /\ status[e] = "CONNECTED"
  <2>1. reply'[e].copied => Holds(reply'[e].channels, c)
    BY <1>5 DEF Moves, RepliesMove, ToldOf
  <2>2. ASSUME NEW i \in 1..Len(net'[f]), net'[f][i].kind \in Greets
        PROVE  Holds(net'[f][i].channels, c)
    <3>1. \/ Holds(net[f], net'[f][i])
          \/ reply[e].copied /\ net'[f][i].channels = reply[e].channels
      BY <1>1, <2>2 DEF Moves, PacketsMove
    <3>2. \A x : Holds(net[f], x) /\ x.kind \in Greets => Holds(x.channels, c)
      BY <1>5 DEF ToldOf, Holds
    <3>. QED  BY <1>5, <2>2, <3>1, <3>2 DEF ToldOf
  <2>3. ASSUME named'[f]
        PROVE  Knows(e, c)'
    <3>1. CASE named[f]
      BY <1>1, <1>5, <3>1, KnownStep DEF ToldOf
    <3>2. CASE ~named[f]
      <4>1. HandleGreeting(f)
        <5>1. \E g \in Ends : HandleGreeting(g)
          BY <1>5, <2>3, <3>2, VisitEffect, RequestEffect, <1>1
             DEF PostNext, Establish, BreakMeanwhile, Break, SubscribeRequest,
                 SendSubscribeRequest, Compose, SendGreeting, HandleGreetingMeanwhile,
                 HandleSubscribeRequestMeanwhile, HandleMessage, Publish, NextClient, allVars,
                 vars
        <5>2. ~HandleGreeting(e)
          BY <1>1, <2>3, <3>2 DEF HandleGreeting, Types, PostTypeOK, TypeOK
        <5>. QED  BY <1>1, <5>1, <5>2
      <4>2. /\ net[f] # <<>> /\ Head(net[f]).kind \in Greets
            /\ theirs' = [theirs EXCEPT ![f] = Head(net[f]).channels]
        BY <4>1 DEF HandleGreeting
      <4>3. Head(net[f]) = net[f][1] /\ 1 \in 1..Len(net[f])
        BY <1>1, <4>2, HeadPacket
      <4>4. theirs'[f] = Head(net[f]).channels
        BY <1>1, <4>2 DEF Types, PostTypeOK, TypeOK
      <4>. QED  BY <1>5, <4>2, <4>3, <4>4 DEF Knows, ToldOf
    <3>. QED  BY <3>1, <3>2
  <2>. QED  BY <1>2, <2>1, <2>2, <2>3 DEF ToldOf
<1>. QED  BY <1>3, <1>4, <1>5

LEMMA ToldStep == Types /\ Closed /\ Stages /\ Told /\ [PostNext]_allVars => Told'
<1> SUFFICES ASSUME Types, Closed, Stages, Told, [PostNext]_allVars,
                    NEW e \in Ends, NEW c \in apart'[e]
             PROVE  ToldOf(e, c)'
  BY DEF Told, ToldOf, Knows
<1>1. apart[e] \subseteq Channels
  BY DEF Types, PostTypeOK, TypeOK
<1>2. \/ c \in apart[e]
      \/ c \in Channels /\ SubscribeRequest(e, c) /\ ~Handshake
  <2>1. ASSUME NEW g \in Ends, NEW d \in Channels, SubscribeRequest(g, d)
        PROVE  c \in apart[e] \/ (g = e /\ d = c /\ ~Handshake)
    BY <2>1 DEF SubscribeRequest, Types, PostTypeOK, TypeOK
  <2>2. CASE UNCHANGED apart
    BY <2>2
  <2>. QED
    BY <2>1, <2>2, VisitEffect, RequestEffect
       DEF PostNext, Establish, BreakMeanwhile, Break, SendSubscribeRequest, Compose,
           SendGreeting, HandleGreetingMeanwhile, HandleGreeting,
           HandleSubscribeRequestMeanwhile, HandleMessage, Publish, NextClient, allVars, vars
<1>3. CASE c \in apart[e]
  <2>1. ToldOf(e, c)
    BY <1>3 DEF Told, ToldOf, Knows
  <2>. QED  BY <1>1, <1>3, <2>1, MovesStep, OldTold
<1>4. CASE c \in Channels /\ SubscribeRequest(e, c) /\ ~Handshake
  BY <1>4, NewTold
<1>. QED  BY <1>2, <1>3, <1>4

(***************************************************************************)
(* When everything has been sent and handled, each end knows what the      *)
(* other has subscribed to apart from the handshakes, however often the    *)
(* connection has broken in the middle of one, and although the lists of   *)
(* Connect and ConnectAck replace what requests have added                 *)
(* (client_dispatcher.cpp:37-40, 151-164).                                 *)
(***************************************************************************)
THEOREM KnownWhenQuiet == PostSpec => []ApartKnown
<1>1. PostInit => Closed /\ Stages /\ Told
  BY EndAssumption DEF PostInit, Init, Closed, Stages, Told
<1>2. Types /\ Closed /\ Stages /\ Told => ApartKnown
  <2> SUFFICES ASSUME Types, Closed, Stages, Told, Quiet, NEW e \in Ends,
                      NEW c \in apart[e]
               PROVE  Times(c, theirs[Other(e)]) > 0
    BY DEF ApartKnown
  <2> DEFINE f == Other(e)
             o == Opener
             p == Other(Opener)
  <2>1. f \in Ends /\ o \in Ends /\ p \in Ends /\ \A g \in Ends : g = o \/ g = p
    BY EndAssumption, TwoEnds
  <2>2. /\ status[o] = "CONNECTED" /\ net[o] = <<>> /\ net[p] = <<>>
        /\ reply[o].kind = "none" /\ reply[p].kind = "none"
    BY <2>1, NoDraftType DEF Quiet
  <2>3. \A k : ~OneGreeting(<<>>, k)
    BY DEF OneGreeting
  <2>4. Phase("none", "none", {o, p})
    BY <2>2, <2>3 DEF Stages, Phase
  <2>5. named[f]
    BY <2>1, <2>4 DEF Phase
  <2>6. Holds(theirs[f], c)
    <3>1. app[e] # Asking(c) /\ ~Holds(net[f], Asking(c)) /\ status[e] = "CONNECTED"
      BY <2>1 DEF Quiet, Idle, Asking, Holds
    <3>. QED  BY <2>5, <3>1 DEF Told
  <2>7. theirs[f] \in Seq(Channels)
    BY <2>1 DEF Types, PostTypeOK, TypeOK
  <2>8. Positions(c, theirs[f]) # {} /\ IsFiniteSet(Positions(c, theirs[f]))
    BY <2>6, <2>7, PositionsFinite DEF Holds, Positions
  <2>. QED  BY <2>7, <2>8, PositionsFinite, FS_EmptySet
<1>. QED  BY <1>1, <1>2, TypesStart, TypesKept, ClosedStep, StageStep, ToldStep, PTL DEF PostSpec

-----------------------------------------------------------------------------
(* After the handshake *)

(***************************************************************************)
(* Outside of a handshake no list is replaced: what an end knows of the    *)
(* other's subscriptions is only added to, and no list is overwritten      *)
(* while publish() walks over it (client_dispatcher.cpp:27-35, 146-164).   *)
(***************************************************************************)
ListsGrow ==
  [][~Handshake =>
       \A e \in Ends :
         /\ Begins(theirs[e], theirs'[e])
         /\ walk'[e].client = walk[e].client => walk'[e].list = walk[e].list]_allVars

\* Once both ends have the other's name and nothing to answer, no greeting is left.
LEMMA NoneLeft ==
  ASSUME Types, Closed, Stages, ~Handshake, NEW e \in Ends
  PROVE  NoGreeting(net[e])
<1> DEFINE o == Opener
           p == Other(Opener)
<1>1. o \in Ends /\ p \in Ends /\ \A g \in Ends : g = o \/ g = p
  BY EndAssumption, TwoEnds
<1>2. CASE status[o] = "CONNECTED"
  <2>1. \A g \in Ends : status[g] = "CONNECTED" /\ named[g] /\ reply[g] = NoDraft
    BY <1>2 DEF Closed, Handshake
  <2>2. /\ reply[o].kind = "none" /\ reply[p].kind = "none"
        /\ named[o] /\ named[p]
    BY <1>1, <2>1, NoDraftType
  <2>3. Phase("none", "none", {o, p}) /\ NoGreeting(net[o]) /\ NoGreeting(net[p])
    BY <1>1, <1>2, <2>2, TwoEnds DEF Stages, Phase
  <2>. QED  BY <1>1, <2>3
<1>3. CASE status[o] # "CONNECTED"
  <2>1. status[o] = "down"
    BY <1>1, <1>3 DEF Types, PostTypeOK, TypeOK
  <2>. QED  BY <2>1 DEF Closed, NoGreeting
<1>. QED  BY <1>2, <1>3

LEMMA GreetingIsThere ==
  ASSUME Types, NEW e \in Ends, HandleGreeting(e)
  PROVE  ~NoGreeting(net[e])
<1>1. net[e] \in Seq(Packets) /\ net[e] # <<>> /\ Head(net[e]).kind \in Greets
  BY DEF HandleGreeting, Types, PostTypeOK, TypeOK
<1>2. 1 \in 1..Len(net[e]) /\ net[e][1] = Head(net[e])
  BY <1>1
<1>. QED  BY <1>1, <1>2 DEF NoGreeting

\* Only requests change what is known, and only greetings what is walked over.
LEMMA GrowStep ==
  ASSUME Types, Closed, Stages, [PostNext]_allVars, ~Handshake, NEW e \in Ends
  PROVE  /\ Begins(theirs[e], theirs'[e])
         /\ walk'[e].client = walk[e].client => walk'[e].list = walk[e].list
<1>1. \A s \in Seq(Channels) : Begins(s, s) /\ \A c \in Channels : Begins(s, Append(s, c))
  BY DEF Begins
<1>2. /\ theirs \in [Ends -> Seq(Channels)] /\ theirs[e] \in Seq(Channels)
      /\ walk \in [Ends -> Walks]
  BY DEF Types, PostTypeOK, TypeOK
<1>3. ASSUME NEW f \in Ends, HandleGreetingMeanwhile(f)
      PROVE  FALSE
  BY <1>3, NoneLeft, GreetingIsThere DEF HandleGreetingMeanwhile
<1>4. ASSUME NEW f \in Ends, HandleSubscribeRequestMeanwhile(f)
      PROVE  /\ Begins(theirs[e], theirs'[e])
             /\ walk'[e].client = walk[e].client => walk'[e].list = walk[e].list
  <2>1. walk' = walk /\ HandleSubscribeRequest(f)
    BY <1>4 DEF HandleSubscribeRequestMeanwhile
  <2>2. theirs'[e] = theirs[e] \/ \E c \in Channels : theirs'[e] = Append(theirs[e], c)
    BY <1>2, <2>1, RequestEffect
  <2>. QED  BY <1>1, <1>2, <2>1, <2>2
<1>5. ASSUME NEW f \in Ends, Visit(f) \/ NextClient(f) \/ \E c \in Topics : Publish(f, c)
      PROVE  /\ theirs' = theirs
             /\ walk'[e].client = walk[e].client => walk'[e].list = walk[e].list
  <2>1. theirs' = theirs
    BY <1>5 DEF Visit, NextClient, Publish, vars
  <2>2. CASE Visit(f)
    <3>1. walk' = [walk EXCEPT ![f].at = @ + 1]
      BY <2>2 DEF Visit
    <3>2. walk'[e].list = walk[e].list
      BY <1>2, <3>1 DEF Walks
    <3>. QED  BY <2>1, <3>2
  <2>3. CASE NextClient(f)
    <3>1. /\ walk[f] # NoWalk
          /\ walk' = [walk EXCEPT ![f] =
               IF walk[f].client = "named" THEN NoWalk
               ELSE [client |-> "named", channel |-> walk[f].channel, at |-> 1,
                     list |-> theirs[f]]]
      BY <2>3 DEF NextClient
    <3>2. walk'[e] = walk[e] \/ walk'[e].client # walk[e].client
      BY <1>2, <3>1 DEF NoWalk
    <3>. QED  BY <2>1, <3>2
  <2>4. CASE \E c \in Topics : Publish(f, c)
    <3>1. walk'[e] = walk[e] \/ walk'[e].client # walk[e].client
      BY <1>2, <2>4 DEF Publish, NoWalk
    <3>. QED  BY <2>1, <3>1
  <2>. QED  BY <1>5, <2>2, <2>3, <2>4
<1>6. CASE UNCHANGED <<theirs, walk>>
  BY <1>1, <1>2, <1>6
<1>7. ASSUME NEW f \in Ends, HandleMessage(f)
      PROVE  UNCHANGED <<theirs, walk>>
  BY <1>7 DEF HandleMessage
<1>. QED
  BY <1>1, <1>2, <1>3, <1>4, <1>5, <1>6, <1>7
     DEF PostNext, Establish, BreakMeanwhile, Break, SubscribeRequest, SendSubscribeRequest,
         Compose, SendGreeting, postVars, allVars, vars

(***************************************************************************)
(* Outside of a handshake no list is replaced, however often the           *)
(* connection has broken in the middle of one: what an end knows of the    *)
(* other's subscriptions is only added to, and no list is overwritten      *)
(* while publish() walks over it (client_dispatcher.cpp:27-35, 146-164).   *)
(***************************************************************************)
THEOREM KnownIsKept == PostSpec => ListsGrow
<1>1. PostInit => Closed /\ Stages
  BY EndAssumption DEF PostInit, Init, Closed, Stages
<1>2. Types /\ Closed /\ Stages /\ [PostNext]_allVars
        => [~Handshake =>
              \A e \in Ends :
                /\ Begins(theirs[e], theirs'[e])
                /\ walk'[e].client = walk[e].client => walk'[e].list = walk[e].list]_allVars
  BY GrowStep
<1>. QED  BY <1>1, <1>2, TypeInduction, ClosedStep, StageStep, PTL DEF PostSpec, ListsGrow
=============================================================================
