--------------------------- MODULE DeviceLinkProofs ---------------------------
(***************************************************************************)
(* For any devices, any names and any order of the threads' steps: the     *)
(* types of the connections' state; that a connection's status is          *)
(* CONNECTED only if usbmuxd has opened its tunnel or a thread is closing  *)
(* it; that a listening thread says Connect once, after the tunnel; that   *)
(* each device has one session and that what is IDLE is closed, but for    *)
(* the connections these two properties exempt.  That what is sent to a    *)
(* name reaches its client is proved of distinct names.                    *)
(***************************************************************************)
EXTENDS DeviceLink, WellFoundedInduction, TLAPS

Opened == {"open", "greeted"}
Early  == Opening \cup {"request"}

\* Nothing has been asked of usbmuxd before RequestTunnel.
Unasked ==
  \A d \in Devices :
    /\ conn[d].status = "none" => tunnel[d] = "none"
    /\ thread["hub"].on = d /\ thread["hub"].at \in Early =>
         conn[d].status # "none" /\ tunnel[d] = "none"

\* A packet is on its way only after usbmuxd has been asked, the answer "OK" only
\* after it has opened the tunnel.
Granted ==
  \A d \in Devices :
    /\ conn[d].inbox # <<>> => tunnel[d] # "none"
    /\ \A i \in 1..Len(conn[d].inbox) : conn[d].inbox[i] = "OK" => tunnel[d] \in Opened

\* The types of what the code keeps, and of who holds a mutex and what has happened.
Types ==
  /\ phone \in [Devices -> {"away", "plugged", "unplugged", "reported"}]
  /\ tunnel \in [Devices -> {"none", "asked", "refused", "open", "greeted"}]
  /\ conn \in [Devices -> Connections]
  /\ thread \in [Threads -> Places]
  /\ out \in [Senders -> [kind : Kinds, to : Devices] \cup {Nothing}]
  /\ sent \subseteq Devices
  /\ clients \subseteq Names \cup {NoName}
  /\ crashed \in BOOLEAN

HistoryTypes ==
  /\ holds \subseteq {s \in Senders : out[s] # Nothing}
  /\ told \in [Devices -> Nat]
  /\ overtaken \subseteq Devices

Inv == Types /\ Unasked /\ Granted /\ ConfirmedOrClosing

USE DEF Opened, Opening, Early, Threads, Creating, Closing, Packets

-----------------------------------------------------------------------------
(* getDeviceIDForClientID() *)

\* A set of ids that is not empty has a least one.
LEMMA LeastId ==
  ASSUME NEW S \in SUBSET Nat, S # {}
  PROVE  \E m \in S : \A n \in S : m <= n
<1>1. IsWellFoundedOn(OpToRel(<, Nat), Nat)
  BY NatLessThanWellFounded
<1>2. PICK m \in S : \A n \in S : ~(<<n, m>> \in OpToRel(<, Nat))
  BY <1>1, WFMin
<1>3. \A n \in S : ~(n < m)
  BY <1>2 DEF OpToRel
<1>. QED  BY <1>3

\* It returns the id of an attached device or -1.
LEMMA RouteEntry ==
  ASSUME NEW n
  PROVE  Route(n) \in Entries \cup {-1}
<1> DEFINE named == {d \in Entries : conn[d].name = n}
<1>1. named \subseteq Entries /\ named \subseteq Nat
  BY DeviceAssumption DEF Entries
<1>2. CASE named = {}
  BY <1>2 DEF Route
<1>3. CASE named # {}
  <2>1. \E d \in named : \A e \in named : d <= e
    BY <1>1, <1>3, LeastId
  <2>. QED  BY <1>1, <1>3, <2>1 DEF Route
<1>. QED  BY <1>2, <1>3

LEMMA RouteType ==
  ASSUME NEW n
  PROVE  Route(n) \in Devices \cup {-1}
BY RouteEntry DEF Entries

-----------------------------------------------------------------------------
(* usbmuxd and the phones *)

(* Connections is closed under the changes the steps make; a change of  *)
(* another field leaves status and inbox alone.                         *)

LEMMA SetStatus ==
  ASSUME Types, NEW d \in Devices, NEW s \in Statuses,
         conn' = [conn EXCEPT ![d].status = s]
  PROVE  /\ conn' \in [Devices -> Connections]
         /\ \A e \in Devices : conn'[e].inbox = conn[e].inbox
         /\ \A e \in Devices \ {d} : conn'[e].status = conn[e].status
         /\ conn'[d].status = s
<1>1. conn \in [Devices -> Connections] /\ conn[d] \in Connections
  BY DEF Types
<1>. QED  BY <1>1 DEF Connections

LEMMA SetSock ==
  ASSUME Types, NEW d \in Devices,
         NEW s \in {"none", "open", "shut", "closed"},
         conn' = [conn EXCEPT ![d].sock = s]
  PROVE  /\ conn' \in [Devices -> Connections]
         /\ \A e \in Devices : conn'[e].inbox = conn[e].inbox /\ conn'[e].status = conn[e].status
<1>1. conn \in [Devices -> Connections] /\ conn[d] \in Connections
  BY DEF Types
<1>. QED  BY <1>1 DEF Connections

LEMMA SetListener ==
  ASSUME Types, NEW d \in Devices,
         NEW s \in {"none", "receiving", "connected", "ended", "joined", "lost"},
         conn' = [conn EXCEPT ![d].listener = s]
  PROVE  /\ conn' \in [Devices -> Connections]
         /\ \A e \in Devices : conn'[e].inbox = conn[e].inbox /\ conn'[e].status = conn[e].status
<1>1. conn \in [Devices -> Connections] /\ conn[d] \in Connections
  BY DEF Types
<1>. QED  BY <1>1 DEF Connections

LEMMA SetWired ==
  ASSUME Types, NEW d \in Devices, NEW w \in 0..2,
         conn' = [conn EXCEPT ![d].wired = w]
  PROVE  /\ conn' \in [Devices -> Connections]
         /\ \A e \in Devices : conn'[e].inbox = conn[e].inbox /\ conn'[e].status = conn[e].status
<1>1. conn \in [Devices -> Connections] /\ conn[d] \in Connections
  BY DEF Types
<1>. QED  BY <1>1 DEF Connections

LEMMA TailType ==
  ASSUME NEW c \in Connections, c.inbox # <<>>
  PROVE  Tail(c.inbox) \in Seq(Packets)
<1>1. c.inbox \in Seq(Packets)
  BY DEF Connections
<1>. QED  BY <1>1

LEMMA AppendKeeps ==
  ASSUME NEW d \in Devices, NEW packet \in Packets, NEW c \in [Devices -> Connections]
  PROVE  [c EXCEPT ![d].inbox = Append(@, packet)] \in [Devices -> Connections]
<1>1. c[d].inbox \in Seq(Packets)
  BY DEF Connections
<1>2. Append(c[d].inbox, packet) \in Seq(Packets)
  BY <1>1
<1>. QED  BY <1>2 DEF Connections

LEMMA PhoneStep ==
  ASSUME Inv, NEW d \in Devices, Plug(d) \/ Unplug(d)
  PROVE  Inv'
<1>1. UNCHANGED <<tunnel, conn, thread, out, sent, clients, crashed>>
  BY DEF Plug, Unplug
<1>2. Types'
  BY <1>1 DEF Inv, Types, Plug, Unplug
<1>3. Unasked' /\ Granted' /\ ConfirmedOrClosing'
  BY <1>1 DEF Inv, Unasked, Granted, ConfirmedOrClosing, ClosingNow
<1>. QED  BY <1>2, <1>3 DEF Inv

LEMMA AnswerStep ==
  ASSUME Inv, NEW d \in Devices, Answer(d)
  PROVE  Inv'
<1>1. Types'
  <2>1. PICK packet \in Packets : conn' = [conn EXCEPT ![d].inbox = Append(@, packet)]
    BY DEF Answer
  <2>2. conn' \in [Devices -> Connections]
    BY <2>1, AppendKeeps DEF Inv, Types
  <2>. QED  BY <2>2 DEF Inv, Types, Answer
<1>2. Unasked'
  BY DEF Inv, Types, Unasked, Answer
<1>3. Granted'
  BY DEF Inv, Types, Granted, Answer
<1>4. ConfirmedOrClosing'
  BY DEF Inv, Types, ConfirmedOrClosing, ClosingNow, Answer
<1>. QED  BY <1>1, <1>2, <1>3, <1>4 DEF Inv

LEMMA GreetStep ==
  ASSUME Inv, NEW d \in Devices, Greet(d)
  PROVE  Inv'
<1>1. Types'
  <2>1. PICK packet \in Packets : conn' = [conn EXCEPT ![d].inbox = Append(@, packet)]
    BY DEF Greet
  <2>2. conn' \in [Devices -> Connections]
    BY <2>1, AppendKeeps DEF Inv, Types
  <2>. QED  BY <2>2 DEF Inv, Types, Greet
<1>2. Unasked'
  BY DEF Inv, Types, Unasked, Greet
<1>3. Granted'
  BY DEF Inv, Types, Granted, Greet
<1>4. ConfirmedOrClosing'
  BY DEF Inv, Types, ConfirmedOrClosing, ClosingNow, Greet
<1>. QED  BY <1>1, <1>2, <1>3, <1>4 DEF Inv

LEMMA HurryStep ==
  ASSUME Inv, NEW d \in Devices, Hurry(d)
  PROVE  Inv'
<1>1. conn' = [conn EXCEPT ![d].inbox = Append(@, "Request")]
  BY DEF Hurry
<1>2. Types'
  <2>1. conn' \in [Devices -> Connections]
    BY <1>1, AppendKeeps DEF Inv, Types
  <2>. QED  BY <2>1 DEF Inv, Types, Hurry
<1>3. Unasked'
  BY DEF Inv, Types, Unasked, Hurry
<1>4. Granted'
  BY DEF Inv, Types, Granted, Hurry
<1>5. ConfirmedOrClosing'
  BY DEF Inv, Types, ConfirmedOrClosing, ClosingNow, Hurry
<1>. QED  BY <1>2, <1>3, <1>4, <1>5 DEF Inv

-----------------------------------------------------------------------------
(* The hub's listening thread: USBHub::createDevice() *)

LEMMA CreateDeviceStep ==
  ASSUME Inv, NEW d \in Devices, CreateDevice(d)
  PROVE  Inv'
<1>1. /\ thread["hub"].at = "wait" /\ conn[d].status = "none"
      /\ conn' = [conn EXCEPT ![d].status = "IDLE"]
      /\ thread' = [thread EXCEPT !["hub"] = [at |-> "start", on |-> d]]
      /\ UNCHANGED <<phone, tunnel, out, sent, clients, crashed>>
  BY DEF CreateDevice, Entries
<1>2. thread' \in [Threads -> Places]
  BY <1>1 DEF Inv, Types, Places
<1>3. /\ conn' \in [Devices -> Connections]
      /\ \A e \in Devices : conn'[e].inbox = conn[e].inbox
      /\ \A e \in Devices \ {d} : conn'[e].status = conn[e].status
      /\ conn'[d].status = "IDLE"
  BY <1>1, SetStatus DEF Inv, Statuses
<1>4. Types'
  BY <1>1, <1>2, <1>3 DEF Inv, Types
<1>5. Unasked' /\ Granted'
  BY <1>1, <1>3 DEF Inv, Types, Places, Unasked, Granted
<1>6. ConfirmedOrClosing'
  BY <1>1, <1>3 DEF Inv, Types, Places, ConfirmedOrClosing, ClosingNow
<1>. QED  BY <1>4, <1>5, <1>6 DEF Inv

LEMMA StartConnectionStep ==
  ASSUME Inv, NEW d \in Devices, StartConnection(d)
  PROVE  Inv'
<1>1. /\ thread["hub"] = [at |-> "start", on |-> d]
      /\ conn' = [conn EXCEPT ![d].status = "WANTING_CONNECTION"]
      /\ thread' = [thread EXCEPT !["hub"].at = "connect"]
      /\ UNCHANGED <<phone, tunnel, out, sent, clients, crashed>>
  BY DEF StartConnection, Goto
<1>2. thread' \in [Threads -> Places]
  BY <1>1 DEF Inv, Types, Places
<1>3. /\ conn' \in [Devices -> Connections]
      /\ \A e \in Devices : conn'[e].inbox = conn[e].inbox
      /\ \A e \in Devices \ {d} : conn'[e].status = conn[e].status
      /\ conn'[d].status = "WANTING_CONNECTION"
  BY <1>1, SetStatus DEF Inv, Statuses
<1>4. Types'
  BY <1>1, <1>2, <1>3 DEF Inv, Types
<1>5. Unasked' /\ Granted'
  BY <1>1, <1>3 DEF Inv, Types, Places, Unasked, Granted
<1>6. ConfirmedOrClosing'
  BY <1>1, <1>3 DEF Inv, Types, Places, ConfirmedOrClosing, ClosingNow
<1>. QED  BY <1>4, <1>5, <1>6 DEF Inv

LEMMA ConnectStep ==
  ASSUME Inv, NEW d \in Devices, Connect(d)
  PROVE  Inv'
<1>1. PICK place \in {"open", "wire1"} :
        /\ thread["hub"] = [at |-> "connect", on |-> d]
        /\ thread' = [thread EXCEPT !["hub"].at = place]
        /\ UNCHANGED <<phone, tunnel, conn, out, sent, clients, crashed>>
  BY DEF Connect, Goto
<1>2. thread' \in [Threads -> Places]
  BY <1>1 DEF Inv, Types, Places
<1>3. Types'
  BY <1>1, <1>2 DEF Inv, Types
<1>4. /\ thread'["hub"] = [at |-> place, on |-> d]
      /\ \A t \in Threads \ {"hub"} : thread'[t] = thread[t]
  BY <1>1 DEF Inv, Types, Places
<1>5. Unasked'
  BY <1>1, <1>4 DEF Inv, Unasked
<1>6. Granted'
  BY <1>1 DEF Inv, Granted
<1>7. ConfirmedOrClosing'
  <2>1. \A e \in Devices : ClosingNow(e) => ClosingNow(e)'
    BY <1>1, <1>4 DEF ClosingNow
  <2>. QED  BY <1>1, <2>1 DEF Inv, ConfirmedOrClosing
<1>. QED  BY <1>3, <1>5, <1>6, <1>7 DEF Inv

LEMMA OpenStep ==
  ASSUME Inv, NEW d \in Devices, Open(d) \/ StartListening(d)
  PROVE  Inv'
<1>1. PICK place \in {"listen", "request"} :
        /\ thread["hub"].at \in {"open", "listen"} /\ thread["hub"].on = d
        /\ thread' = [thread EXCEPT !["hub"].at = place]
        /\ UNCHANGED <<phone, tunnel, out, sent, clients, crashed>>
  BY DEF Open, StartListening, Goto
<1>2. thread' \in [Threads -> Places]
  BY <1>1 DEF Inv, Types, Places
<1>3. /\ conn' \in [Devices -> Connections]
      /\ \A e \in Devices : conn'[e].inbox = conn[e].inbox /\ conn'[e].status = conn[e].status
  BY SetSock, SetListener DEF Open, StartListening, Inv
<1>4. Types'
  BY <1>1, <1>2, <1>3 DEF Inv, Types
<1>5. /\ thread'["hub"].at = place /\ thread'["hub"].on = d
      /\ \A t \in Threads \ {"hub"} : thread'[t] = thread[t]
  BY <1>1 DEF Inv, Types, Places
<1>6. Unasked'
  BY <1>1, <1>3, <1>5 DEF Inv, Unasked
<1>7. Granted'
  BY <1>1, <1>3 DEF Inv, Granted
<1>8. ConfirmedOrClosing'
  <2>1. \A e \in Devices : ClosingNow(e) => ClosingNow(e)'
    BY <1>1, <1>5 DEF ClosingNow
  <2>. QED  BY <1>1, <1>3, <2>1 DEF Inv, ConfirmedOrClosing
<1>. QED  BY <1>4, <1>6, <1>7, <1>8 DEF Inv

LEMMA RequestTunnelStep ==
  ASSUME Inv, NEW d \in Devices, RequestTunnel(d)
  PROVE  Inv'
<1>1. /\ thread["hub"] = [at |-> "request", on |-> d]
      /\ thread' = [thread EXCEPT !["hub"].at = "mark"]
      /\ tunnel' = [tunnel EXCEPT ![d] = "asked"] \/ tunnel' = tunnel
      /\ crashed' \in BOOLEAN
      /\ UNCHANGED <<phone, conn, out, sent, clients>>
  BY DEF RequestTunnel, Signal, Goto
<1>2. thread' \in [Threads -> Places]
  BY <1>1 DEF Inv, Types, Places
<1>3. tunnel[d] = "none" /\ conn[d].status # "none"
  BY <1>1 DEF Inv, Unasked
<1>4. Types'
  <2>1. tunnel' \in [Devices -> {"none", "asked", "refused", "open", "greeted"}]
    BY <1>1 DEF Inv, Types
  <2>. QED  BY <1>1, <1>2, <2>1 DEF Inv, Types
<1>5. Unasked' /\ Granted'
  BY <1>1, <1>3 DEF Inv, Types, Places, Unasked, Granted
<1>6. ConfirmedOrClosing'
  BY <1>1, <1>3 DEF Inv, Types, Places, ConfirmedOrClosing, ClosingNow
<1>. QED  BY <1>4, <1>5, <1>6 DEF Inv

LEMMA MarkStep ==
  ASSUME Inv, NEW d \in Devices, Mark(d)
  PROVE  Inv'
<1>1. /\ thread["hub"] = [at |-> "mark", on |-> d]
      /\ conn' = [conn EXCEPT ![d].status = "CONNECTING"]
      /\ thread' = [thread EXCEPT !["hub"].at = "wire1"]
      /\ UNCHANGED <<phone, tunnel, out, sent, clients, crashed>>
  BY DEF Mark, Goto
<1>2. thread' \in [Threads -> Places]
  BY <1>1 DEF Inv, Types, Places
<1>3. /\ conn' \in [Devices -> Connections]
      /\ \A e \in Devices : conn'[e].inbox = conn[e].inbox
      /\ \A e \in Devices \ {d} : conn'[e].status = conn[e].status
      /\ conn'[d].status = "CONNECTING"
  BY <1>1, SetStatus DEF Inv, Statuses
<1>4. Types'
  BY <1>1, <1>2, <1>3 DEF Inv, Types
<1>5. Unasked' /\ Granted'
  BY <1>1, <1>3 DEF Inv, Types, Places, Unasked, Granted
<1>6. ConfirmedOrClosing'
  BY <1>1, <1>3 DEF Inv, Types, Places, ConfirmedOrClosing, ClosingNow
<1>. QED  BY <1>4, <1>5, <1>6 DEF Inv

LEMMA WireStep ==
  ASSUME Inv, NEW d \in Devices, Wire(d)
  PROVE  Inv'
<1>1. PICK n \in {1, 2}, place \in {"wire2", "announce"} :
      /\ thread["hub"].at \in {"wire1", "wire2"}
      /\ conn' = [conn EXCEPT ![d].wired = n]
      /\ thread' = [thread EXCEPT !["hub"].at = place]
      /\ UNCHANGED <<phone, tunnel, out, sent, clients, crashed>>
  BY DEF Wire, Goto
<1>2. thread' \in [Threads -> Places]
  BY <1>1, SMTT(20) DEF Inv, Types, Places
<1>3. /\ conn' \in [Devices -> Connections]
      /\ \A e \in Devices : conn'[e].inbox = conn[e].inbox /\ conn'[e].status = conn[e].status
  <2>1. n \in 0..2
    OBVIOUS
  <2>. QED  BY <1>1, <2>1, SetWired DEF Inv
<1>4. Types'
  BY <1>1, <1>2, <1>3 DEF Inv, Types
<1>5. Unasked' /\ Granted'
  BY <1>1, <1>3 DEF Inv, Types, Places, Unasked, Granted
<1>6. ConfirmedOrClosing'
  BY <1>1, <1>3 DEF Inv, Types, Places, ConfirmedOrClosing, ClosingNow
<1>. QED  BY <1>4, <1>5, <1>6 DEF Inv

LEMMA AnnounceStep ==
  ASSUME Inv, NEW d \in Devices, Announce(d)
  PROVE  Inv'
<1>1. /\ thread["hub"].at = "announce"
      /\ thread' = [thread EXCEPT !["hub"] = [at |-> "wait", on |-> -1]]
      /\ UNCHANGED <<phone, tunnel, conn, out, sent, clients, crashed>>
  BY DEF Announce
<1>2. thread' \in [Threads -> Places]
  BY <1>1 DEF Inv, Types, Places
<1>4. Types'
  BY <1>1, <1>2 DEF Inv, Types
<1>5. Unasked' /\ Granted'
  BY <1>1 DEF Inv, Types, Places, Unasked, Granted
<1>6. ConfirmedOrClosing'
  BY <1>1 DEF Inv, Types, Places, ConfirmedOrClosing, ClosingNow
<1>. QED  BY <1>4, <1>5, <1>6 DEF Inv

-----------------------------------------------------------------------------
(* Connection::disconnect() *)

LEMMA DisconnectTestStep ==
  ASSUME Inv, NEW t \in Threads, NEW d \in Devices, DisconnectTest(t, d)
  PROVE  Inv'
<1>1. PICK place \in {"abort", "idle"} :
      /\ thread[t] = [at |-> "test", on |-> d]
      /\ thread' = [thread EXCEPT ![t].at = place]
      /\ UNCHANGED <<phone, tunnel, conn, out, sent, clients, crashed>>
  BY DEF DisconnectTest, Goto
<1>2. thread' \in [Threads -> Places]
  BY <1>1 DEF Inv, Types, Places
<1>4. Types'
  BY <1>1, <1>2 DEF Inv, Types
<1>5. Unasked' /\ Granted'
  BY <1>1 DEF Inv, Types, Places, Unasked, Granted
<1>6. ConfirmedOrClosing'
  BY <1>1 DEF Inv, Types, Places, ConfirmedOrClosing, ClosingNow
<1>. QED  BY <1>4, <1>5, <1>6 DEF Inv

LEMMA DisconnectAbortStep ==
  ASSUME Inv, NEW t \in Threads, NEW d \in Devices, DisconnectAbort(t, d)
  PROVE  Inv'
<1>1. /\ thread[t] = [at |-> "abort", on |-> d]
      /\ conn' = [conn EXCEPT ![d].status = "CONNECTED"]
      /\ thread' = [thread EXCEPT ![t].at = "shutdown"]
      /\ UNCHANGED <<phone, tunnel, out, sent, clients, crashed>>
  BY DEF DisconnectAbort, Goto
<1>2. thread' \in [Threads -> Places]
  BY <1>1 DEF Inv, Types, Places
<1>3. /\ conn' \in [Devices -> Connections]
      /\ \A e \in Devices : conn'[e].inbox = conn[e].inbox
      /\ \A e \in Devices \ {d} : conn'[e].status = conn[e].status
      /\ conn'[d].status = "CONNECTED"
  BY <1>1, SetStatus DEF Inv, Statuses
<1>4. Types'
  BY <1>1, <1>2, <1>3 DEF Inv, Types
<1>5. Unasked' /\ Granted'
  BY <1>1, <1>3 DEF Inv, Types, Places, Unasked, Granted
<1>6. ConfirmedOrClosing'
  BY <1>1, <1>3 DEF Inv, Types, Places, ConfirmedOrClosing, ClosingNow
<1>. QED  BY <1>4, <1>5, <1>6 DEF Inv

LEMMA DisconnectShutdownStep ==
  ASSUME Inv, NEW t \in Threads, NEW d \in Devices, DisconnectShutdown(t, d)
  PROVE  Inv'
<1>1. PICK place \in {"join", "idle"} :
      /\ thread[t] = [at |-> "shutdown", on |-> d]
      /\ thread' = [thread EXCEPT ![t].at = place]
      /\ crashed' \in BOOLEAN
      /\ UNCHANGED <<phone, tunnel, out, sent, clients>>
  BY DEF DisconnectShutdown, Stray, Goto
<1>2. thread' \in [Threads -> Places]
  BY <1>1 DEF Inv, Types, Places
<1>3. /\ conn' \in [Devices -> Connections]
      /\ \A e \in Devices : conn'[e].inbox = conn[e].inbox /\ conn'[e].status = conn[e].status
  <2>1. conn' \in {conn, [conn EXCEPT ![d].sock = "shut"]}
    BY DEF DisconnectShutdown
  <2>. QED  BY <2>1, SetSock DEF Inv, Types
<1>4. Types'
  BY <1>1, <1>2, <1>3 DEF Inv, Types
<1>5. Unasked' /\ Granted'
  <2>1. Unasked'
    BY <1>1, <1>3 DEF Inv, Types, Places, Unasked
  <2>2. Granted'
    BY <1>1, <1>3 DEF Inv, Granted
  <2>. QED  BY <2>1, <2>2
<1>6. ConfirmedOrClosing'
  BY <1>1, <1>3 DEF Inv, Types, Places, ConfirmedOrClosing, ClosingNow
<1>. QED  BY <1>4, <1>5, <1>6 DEF Inv

LEMMA DisconnectJoinStep ==
  ASSUME Inv, NEW t \in Threads, NEW d \in Devices, DisconnectJoin(t, d)
  PROVE  Inv'
<1>1. PICK l \in {"none", "joined"} :
      /\ thread[t] = [at |-> "join", on |-> d]
      /\ conn' = [conn EXCEPT ![d].listener = l]
      /\ thread' = [thread EXCEPT ![t].at = "close"]
      /\ crashed' \in BOOLEAN
      /\ UNCHANGED <<phone, tunnel, out, sent, clients>>
  BY DEF DisconnectJoin, Goto
<1>2. thread' \in [Threads -> Places]
  BY <1>1 DEF Inv, Types, Places
<1>3. /\ conn' \in [Devices -> Connections]
      /\ \A e \in Devices : conn'[e].inbox = conn[e].inbox /\ conn'[e].status = conn[e].status
  BY <1>1, SetListener DEF Inv, Types
<1>4. Types'
  BY <1>1, <1>2, <1>3 DEF Inv, Types
<1>5. Unasked' /\ Granted'
  BY <1>1, <1>3 DEF Inv, Types, Places, Unasked, Granted
<1>6. ConfirmedOrClosing'
  BY <1>1, <1>3 DEF Inv, Types, Places, ConfirmedOrClosing, ClosingNow
<1>. QED  BY <1>4, <1>5, <1>6 DEF Inv

LEMMA DisconnectCloseStep ==
  ASSUME Inv, NEW t \in Threads, NEW d \in Devices, DisconnectClose(t, d)
  PROVE  Inv'
<1>1. /\ thread[t] = [at |-> "close", on |-> d]
      /\ conn' = [conn EXCEPT ![d].sock = "closed"]
      /\ thread' = [thread EXCEPT ![t].at = "idle"]
      /\ crashed' \in BOOLEAN
      /\ UNCHANGED <<phone, tunnel, out, sent, clients>>
  BY DEF DisconnectClose, Stray, Goto
<1>2. thread' \in [Threads -> Places]
  BY <1>1 DEF Inv, Types, Places
<1>3. /\ conn' \in [Devices -> Connections]
      /\ \A e \in Devices : conn'[e].inbox = conn[e].inbox /\ conn'[e].status = conn[e].status
  BY <1>1, SetSock DEF Inv, Types
<1>4. Types'
  BY <1>1, <1>2, <1>3 DEF Inv, Types
<1>5. Unasked' /\ Granted'
  BY <1>1, <1>3 DEF Inv, Types, Places, Unasked, Granted
<1>6. ConfirmedOrClosing'
  BY <1>1, <1>3 DEF Inv, Types, Places, ConfirmedOrClosing, ClosingNow
<1>. QED  BY <1>4, <1>5, <1>6 DEF Inv

LEMMA DisconnectIdleStep ==
  ASSUME Inv, NEW t \in Threads, NEW d \in Devices, DisconnectIdle(t, d)
  PROVE  Inv'
<1>1. PICK place \in Places :
      /\ place.at \in {"wait", "next"}
      /\ thread[t] = [at |-> "idle", on |-> d]
      /\ conn' = [conn EXCEPT ![d].status = "IDLE"]
      /\ thread' = [thread EXCEPT ![t] = place]
      /\ UNCHANGED <<phone, tunnel, out, sent, clients, crashed>>
  <2>1. CASE t = "stop"
    BY <2>1 DEF DisconnectIdle, Leave, Inv, Types, Places
  <2>2. CASE t # "stop"
    BY <2>2 DEF DisconnectIdle, Leave, Inv, Types, Places
  <2>. QED  BY <2>1, <2>2
<1>2. thread' \in [Threads -> Places]
  BY <1>1 DEF Inv, Types, Places
<1>3. /\ conn' \in [Devices -> Connections]
      /\ \A e \in Devices : conn'[e].inbox = conn[e].inbox
      /\ \A e \in Devices \ {d} : conn'[e].status = conn[e].status
      /\ conn'[d].status = "IDLE"
  BY <1>1, SetStatus DEF Inv, Statuses
<1>4. Types'
  BY <1>1, <1>2, <1>3 DEF Inv, Types
<1>5. Unasked' /\ Granted'
  BY <1>1, <1>3 DEF Inv, Types, Places, Unasked, Granted
<1>6. ConfirmedOrClosing'
  BY <1>1, <1>3 DEF Inv, Types, Places, ConfirmedOrClosing, ClosingNow
<1>. QED  BY <1>4, <1>5, <1>6 DEF Inv

-----------------------------------------------------------------------------
(* Who calls disconnect() *)

\* A thread that is at none of these places goes on to another.
LEMMA CallStep ==
  ASSUME Inv, NEW t \in Threads, NEW place \in Places,
         thread[t].at \notin Closing, place.at \notin Early,
         thread' = [thread EXCEPT ![t] = place],
         phone' \in [Devices -> {"away", "plugged", "unplugged", "reported"}],
         UNCHANGED <<tunnel, conn, out, sent, clients, crashed>>
  PROVE  Inv'
<1>1. thread' \in [Threads -> Places]
  BY DEF Inv, Types
<1>2. Types'
  BY <1>1 DEF Inv, Types
<1>3. Unasked'
  BY DEF Inv, Types, Unasked
<1>4. Granted'
  BY DEF Inv, Granted
<1>5. ConfirmedOrClosing'
  <2>1. \A e \in Devices : ClosingNow(e) => ClosingNow(e)'
    BY DEF Inv, Types, ClosingNow
  <2>. QED  BY <2>1 DEF Inv, ConfirmedOrClosing
<1>. QED  BY <1>2, <1>3, <1>4, <1>5 DEF Inv

LEMMA RemoveDeviceStep ==
  ASSUME Inv, NEW d \in Devices, RemoveDevice(d)
  PROVE  Inv'
<1> DEFINE place == [at |-> "test", on |-> d]
<1>1. place \in Places /\ place.at = "test"
  BY DEF Places
<1>2. phone' \in [Devices -> {"away", "plugged", "unplugged", "reported"}]
  BY DEF RemoveDevice, Inv, Types
<1>3. /\ thread["hub"].at = "wait" /\ thread' = [thread EXCEPT !["hub"] = place]
      /\ UNCHANGED <<tunnel, conn, out, sent, clients, crashed>>
  BY DEF RemoveDevice
<1> HIDE DEF place
<1>. QED  BY <1>1, <1>2, <1>3, CallStep

LEMMA DisconnectClientStep ==
  ASSUME Inv, NEW n, DisconnectClient(n)
  PROVE  Inv'
<1> DEFINE place == [at |-> "test", on |-> Route(n)]
<1>1. place \in Places /\ place.at = "test"
  BY RouteType DEF Places
<1>2. phone' \in [Devices -> {"away", "plugged", "unplugged", "reported"}]
  BY DEF DisconnectClient, Inv, Types
<1>3. /\ thread["worker"].at = "wait" /\ thread' = [thread EXCEPT !["worker"] = place]
      /\ UNCHANGED <<tunnel, conn, out, sent, clients, crashed>>
  BY DEF DisconnectClient
<1> HIDE DEF place
<1>. QED  BY <1>1, <1>2, <1>3, CallStep

LEMMA StopStep ==
  ASSUME Inv, Stop
  PROVE  Inv'
<1> DEFINE place == [thread["stop"] EXCEPT !.at = "next"]
<1>1. place \in Places /\ place.at = "next"
  BY DEF Places, Inv, Types
<1>2. phone' \in [Devices -> {"away", "plugged", "unplugged", "reported"}]
  BY DEF Stop, Inv, Types
<1>3. /\ thread["stop"].at = "wait" /\ thread' = [thread EXCEPT !["stop"] = place]
      /\ UNCHANGED <<tunnel, conn, out, sent, clients, crashed>>
  BY DEF Stop, Goto
<1> HIDE DEF place
<1>. QED  BY <1>1, <1>2, <1>3, CallStep

LEMMA StopNextStep ==
  ASSUME Inv, StopNext
  PROVE  Inv'
<1> DEFINE left == {d \in Entries : d > thread["stop"].on}
           first == CHOOSE d \in left : \A e \in left : d <= e
           place == [at |-> "test", on |-> first]
<1>1. CASE left # {} /\ thread' = [thread EXCEPT !["stop"] = place]
  <2>1. left \subseteq Devices /\ left \subseteq Nat
    BY DeviceAssumption DEF Entries
  <2>2. \E d \in left : \A e \in left : d <= e
    BY <1>1, <2>1, LeastId
  <2>3. first \in Devices
    BY <2>1, <2>2
  <2>4. place \in Places /\ place.at = "test"
    BY <2>3 DEF Places
  <2>5. phone' \in [Devices -> {"away", "plugged", "unplugged", "reported"}]
    BY DEF StopNext, Inv, Types
  <2>6. thread["stop"].at = "next" /\ UNCHANGED <<tunnel, conn, out, sent, clients, crashed>>
    BY DEF StopNext
  <2> HIDE DEF place
  <2>. QED  BY <1>1, <2>4, <2>5, <2>6, CallStep
<1>2. CASE /\ thread["hub"].at = "wait"
           /\ thread' = [thread EXCEPT !["stop"].at = "ended", !["hub"].at = "ended"]
  <2>1. thread["stop"].at = "next" /\ UNCHANGED <<phone, tunnel, conn, out, sent, clients, crashed>>
    BY DEF StopNext
  <2>2. thread' \in [Threads -> Places]
    BY <1>2 DEF Inv, Types, Places
  <2>3. /\ thread'["hub"].at = "ended" /\ thread'["stop"].at = "ended"
        /\ thread'["worker"] = thread["worker"]
    BY <1>2 DEF Inv, Types, Places
  <2>4. Types'
    BY <2>1, <2>2 DEF Inv, Types
  <2>5. Unasked' /\ Granted'
    BY <2>1, <2>3 DEF Inv, Unasked, Granted
  <2>6. ConfirmedOrClosing'
    <3>1. \A e \in Devices : ClosingNow(e) => ClosingNow(e)'
      BY <1>2, <2>1, <2>3 DEF ClosingNow
    <3>. QED  BY <2>1, <3>1 DEF Inv, ConfirmedOrClosing
  <2>. QED  BY <2>4, <2>5, <2>6 DEF Inv
<1>. QED  BY <1>1, <1>2 DEF StopNext

-----------------------------------------------------------------------------
(* Sending *)

LEMMA BeginType ==
  ASSUME Types, NEW s \in Senders, NEW d \in Devices \cup {-1}, NEW kind \in Kinds,
         Begin(s, d, kind)
  PROVE  out' \in [Senders -> [kind : Kinds, to : Devices] \cup {Nothing}]
<1>1. CASE out' = out
  BY <1>1 DEF Types
<1>2. CASE d \in Devices /\ out' = [out EXCEPT ![s] = [kind |-> kind, to |-> d]]
  BY <1>2 DEF Types
<1>. QED  BY <1>1, <1>2 DEF Begin

\* A step that changes no connection, no tunnel and no thread's place.
LEMMA OtherStep ==
  ASSUME Inv, Types', UNCHANGED <<tunnel, conn, thread>>
  PROVE  Inv'
BY DEF Inv, Unasked, Granted, ConfirmedOrClosing, ClosingNow

LEMMA WriteStep ==
  ASSUME Inv, NEW s \in Senders, out[s] # Nothing, Lock(s) \/ Write(s)
  PROVE  Inv'
<1>1. CASE Lock(s)
  <2>1. UNCHANGED <<phone, tunnel, conn, thread, out, sent, clients, crashed>>
    BY <1>1 DEF Lock
  <2>2. Types'
    BY <2>1 DEF Inv, Types
  <2>. QED  BY <2>1, <2>2, OtherStep
<1>2. CASE Write(s)
  <2>1. out[s].to \in Devices
    BY DEF Inv, Types
  <2>2. sent' \subseteq Devices /\ crashed' \in BOOLEAN
    BY <1>2, <2>1 DEF Write, Signal, Inv, Types
  <2>3. out' \in [Senders -> [kind : Kinds, to : Devices] \cup {Nothing}]
    BY <1>2 DEF Inv, Types, Write
  <2>4. UNCHANGED <<phone, tunnel, conn, thread, clients>>
    BY <1>2 DEF Write
  <2>5. Types'
    BY <2>2, <2>3, <2>4 DEF Inv, Types
  <2>. QED  BY <2>4, <2>5, OtherStep
<1>. QED  BY <1>1, <1>2

LEMMA PublishStep ==
  ASSUME Inv, Send
  PROVE  Inv'
<1>1. PICK d \in {Route(n) : n \in clients} \cup Entries : Begin(Publisher, d, "data")
  BY DEF Send
<1>2. d \in Devices \cup {-1} /\ Publisher \in Senders /\ "data" \in Kinds
  BY RouteType DEF Entries, Senders, Kinds
<1>3. out' \in [Senders -> [kind : Kinds, to : Devices] \cup {Nothing}]
  BY <1>1, <1>2, BeginType DEF Inv
<1>4. UNCHANGED <<phone, tunnel, conn, thread, sent, clients, crashed>>
  BY DEF Send
<1>5. Types'
  BY <1>3, <1>4 DEF Inv, Types
<1>. QED  BY <1>4, <1>5, OtherStep

-----------------------------------------------------------------------------
(* A connection's listening thread: Connection::messageReceived() *)

\* The connection takes a packet and may become CONNECTED if the tunnel is open.
LEMMA Heard ==
  ASSUME Inv, NEW d \in Devices, NEW packet, Hears(d, packet),
         NEW r \in Connections, conn' = [conn EXCEPT ![d] = r],
         r.inbox = Tail(conn[d].inbox),
         r.status = conn[d].status \/ r.status = "WANTING_CONNECTION"
           \/ (r.status = "CONNECTED" /\ packet = "OK"),
         UNCHANGED <<tunnel, thread>>
  PROVE  /\ conn' \in [Devices -> Connections]
         /\ Unasked' /\ Granted' /\ ConfirmedOrClosing'
<1>1. conn \in [Devices -> Connections] /\ conn[d].inbox \in Seq(Packets)
  BY DEF Inv, Types, Connections
<1>2. conn[d].inbox # <<>> /\ conn[d].inbox[1] = packet
  BY <1>1 DEF Hears
<1>3. conn'[d] = r /\ \A e \in Devices \ {d} : conn'[e] = conn[e]
  BY <1>1
<1>4. tunnel[d] # "none" /\ (packet = "OK" => tunnel[d] \in Opened)
  BY <1>1, <1>2 DEF Inv, Granted
<1>5. \A i \in 1..Len(r.inbox) : i + 1 \in 1..Len(conn[d].inbox)
                               /\ r.inbox[i] = conn[d].inbox[i + 1]
  BY <1>1, <1>2
<1>6. Unasked'
  BY <1>3, <1>4 DEF Inv, Unasked
<1>7. Granted'
  <2> SUFFICES ASSUME NEW e \in Devices
               PROVE  /\ conn'[e].inbox # <<>> => tunnel[e] # "none"
                      /\ \A i \in 1..Len(conn'[e].inbox) :
                           conn'[e].inbox[i] = "OK" => tunnel[e] \in Opened
    BY DEF Granted
  <2>1. CASE e = d
    <3>1. ASSUME NEW i \in 1..Len(r.inbox), r.inbox[i] = "OK"
          PROVE  tunnel[d] \in Opened
      BY <1>5, <3>1 DEF Inv, Granted
    <3>. QED  BY <2>1, <1>3, <1>4, <3>1
  <2>2. CASE e # d
    BY <2>2, <1>3 DEF Inv, Granted
  <2>. QED  BY <2>1, <2>2
<1>8. ConfirmedOrClosing'
  BY <1>3, <1>4 DEF Inv, ConfirmedOrClosing, ClosingNow
<1>. QED  BY <1>1, <1>6, <1>7, <1>8

LEMMA HearOKStep ==
  ASSUME Inv, NEW d \in Devices, HearOK(d)
  PROVE  Inv'
<1> DEFINE r == [conn[d] EXCEPT !.status = "CONNECTED", !.listener = "connected",
                                !.inbox = Tail(@)]
<1>1. conn[d] \in Connections /\ conn[d].inbox # <<>>
  BY DEF HearOK, Hears, Inv, Types
<1>2. r \in Connections /\ r.inbox = Tail(conn[d].inbox) /\ r.status = "CONNECTED"
  BY <1>1, TailType DEF Connections, Statuses
<1>3. /\ Hears(d, "OK") /\ conn' = [conn EXCEPT ![d] = r]
      /\ UNCHANGED <<phone, tunnel, thread, out, sent, clients, crashed>>
  BY DEF HearOK
<1> HIDE DEF r
<1>4. conn' \in [Devices -> Connections] /\ Unasked' /\ Granted' /\ ConfirmedOrClosing'
  BY <1>2, <1>3, Heard
<1>5. Types'
  BY <1>3, <1>4 DEF Inv, Types
<1>. QED  BY <1>4, <1>5 DEF Inv

LEMMA HearRefusedStep ==
  ASSUME Inv, NEW d \in Devices, HearRefused(d)
  PROVE  Inv'
<1> DEFINE r == [conn[d] EXCEPT !.status = "WANTING_CONNECTION", !.inbox = Tail(@)]
<1>1. conn[d] \in Connections /\ conn[d].inbox # <<>>
  BY DEF HearRefused, Hears, Inv, Types
<1>2. /\ r \in Connections /\ r.inbox = Tail(conn[d].inbox)
      /\ r.status = "WANTING_CONNECTION"
  BY <1>1, TailType DEF Connections, Statuses
<1>3. /\ Hears(d, "Refused") /\ conn' = [conn EXCEPT ![d] = r]
      /\ UNCHANGED <<phone, tunnel, thread, out, sent, clients, crashed>>
  BY DEF HearRefused
<1> HIDE DEF r
<1>4. conn' \in [Devices -> Connections] /\ Unasked' /\ Granted' /\ ConfirmedOrClosing'
  BY <1>2, <1>3, Heard
<1>5. Types'
  BY <1>3, <1>4 DEF Inv, Types
<1>. QED  BY <1>4, <1>5 DEF Inv

LEMMA HearRequestStep ==
  ASSUME Inv, NEW d \in Devices, HearRequest(d)
  PROVE  Inv'
<1> DEFINE r == [conn[d] EXCEPT !.inbox = Tail(@)]
<1>1. conn[d] \in Connections /\ conn[d].inbox # <<>>
  BY DEF HearRequest, Hears, Inv, Types
<1>2. /\ r \in Connections /\ r.inbox = Tail(conn[d].inbox)
      /\ r.status = conn[d].status
  BY <1>1, TailType DEF Connections
<1>3. /\ Hears(d, "Request") /\ conn' = [conn EXCEPT ![d] = r]
      /\ UNCHANGED <<phone, tunnel, thread, out, sent, crashed>>
  BY DEF HearRequest
<1> HIDE DEF r
<1>4. conn' \in [Devices -> Connections] /\ Unasked' /\ Granted' /\ ConfirmedOrClosing'
  BY <1>2, <1>3, Heard
<1>5. clients' \subseteq Names \cup {NoName}
  BY <1>1 DEF HearRequest, Inv, Types, Connections
<1>6. Types'
  BY <1>3, <1>4, <1>5 DEF Inv, Types
<1>. QED  BY <1>4, <1>6 DEF Inv

LEMMA HearGreetingStep ==
  ASSUME Inv, NEW d \in Devices, HearConnect(d) \/ HearConnectAck(d)
  PROVE  Inv'
<1> DEFINE r == [conn[d] EXCEPT !.name = Peer[d], !.inbox = Tail(@)]
<1>1. conn[d] \in Connections /\ conn[d].inbox # <<>>
  BY DEF HearConnect, HearConnectAck, Hears, Inv, Types
<1>2. /\ r \in Connections /\ r.inbox = Tail(conn[d].inbox)
      /\ r.status = conn[d].status /\ r.name = Peer[d]
  BY <1>1, TailType DEF Connections, Names
<1>3. /\ Hears(d, "Connect") \/ Hears(d, "ConnectAck")
      /\ conn' = [conn EXCEPT ![d] = r]
      /\ UNCHANGED <<phone, tunnel, thread, sent, crashed>>
  BY DEF HearConnect, HearConnectAck
<1> HIDE DEF r
<1>4. conn' \in [Devices -> Connections] /\ Unasked' /\ Granted' /\ ConfirmedOrClosing'
  BY <1>2, <1>3, Heard
<1>5. clients' \subseteq Names \cup {NoName}
  BY DEF HearConnect, HearConnectAck, Know, Inv, Types, Names
<1>6. out' \in [Senders -> [kind : Kinds, to : Devices] \cup {Nothing}]
  <2> DEFINE named == {e \in Entries : conn'[e].name = Peer[d]}
             first == CHOOSE e \in named : \A f \in named : e <= f
  <2>1. CASE out' = out
    BY <2>1 DEF Inv, Types
  <2>2. CASE HearConnect(d) /\ Begin(d, first, "ConnectAck")
    <3>1. named \subseteq Devices /\ named \subseteq Nat
      BY DeviceAssumption DEF Entries
    <3>2. d \in named
      <4>1. tunnel[d] # "none"
        BY <1>1 DEF Inv, Granted
      <4>2. d \in Entries
        BY <4>1 DEF Inv, Unasked, Entries
      <4>. QED  BY <4>2, <1>2, <1>3 DEF Inv, Types
    <3>3. \E e \in named : \A f \in named : e <= f
      BY <3>1, <3>2, LeastId
    <3>4. first \in Devices
      BY <3>1, <3>3
    <3> HIDE DEF first
    <3>5. d \in Senders /\ "ConnectAck" \in Kinds
      BY DEF Senders, Kinds
    <3>. QED  BY <2>2, <3>4, <3>5, BeginType DEF Inv
  <2>. QED  BY <2>1, <2>2 DEF HearConnect, HearConnectAck
<1>7. Types'
  BY <1>3, <1>4, <1>5, <1>6 DEF Inv, Types
<1>. QED  BY <1>4, <1>7 DEF Inv

LEMMA ConnectedStep ==
  ASSUME Inv, NEW d \in Devices, Connected(d)
  PROVE  Inv'
<1>1. /\ conn' = [conn EXCEPT ![d].listener = "receiving"]
      /\ UNCHANGED <<phone, tunnel, thread, sent, clients>>
  BY DEF Connected
<1>2. /\ conn' \in [Devices -> Connections]
      /\ \A e \in Devices : conn'[e].inbox = conn[e].inbox /\ conn'[e].status = conn[e].status
  BY <1>1, SetListener DEF Inv
<1>3. /\ out' \in [Senders -> [kind : Kinds, to : Devices] \cup {Nothing}]
      /\ crashed' \in BOOLEAN
  <2>1. CASE UNCHANGED <<out, crashed>>
    BY <2>1 DEF Inv, Types
  <2>2. ASSUME NEW e \in Referred(d), Begin(d, e, "Connect"), crashed' = (e = -1)
        PROVE  <1>3!1
    <3>1. e \in Devices \cup {-1} /\ d \in Senders /\ "Connect" \in Kinds
      BY DEF Referred, Entries, Senders, Kinds
    <3>. QED  BY <2>2, <3>1, BeginType DEF Inv
  <2>. QED  BY <2>1, <2>2 DEF Connected
<1>4. Types'
  BY <1>1, <1>2, <1>3 DEF Inv, Types
<1>5. Unasked' /\ Granted' /\ ConfirmedOrClosing'
  BY <1>1, <1>2 DEF Inv, Unasked, Granted, ConfirmedOrClosing, ClosingNow
<1>. QED  BY <1>4, <1>5 DEF Inv

LEMMA HearEndStep ==
  ASSUME Inv, NEW d \in Devices, HearEnd(d) \/ HearBadDescriptor(d)
  PROVE  Inv'
<1>1. PICK l \in {"ended", "lost"} : conn' = [conn EXCEPT ![d].listener = l]
  BY DEF HearEnd, HearBadDescriptor
<1>2. crashed' \in BOOLEAN /\ UNCHANGED <<phone, tunnel, thread, out, sent, clients>>
  BY DEF HearEnd, HearBadDescriptor, Inv, Types
<1>3. /\ conn' \in [Devices -> Connections]
      /\ \A e \in Devices : conn'[e].inbox = conn[e].inbox /\ conn'[e].status = conn[e].status
  BY <1>1, SetListener DEF Inv
<1>4. Types'
  BY <1>2, <1>3 DEF Inv, Types
<1>5. Unasked' /\ Granted' /\ ConfirmedOrClosing'
  BY <1>2, <1>3 DEF Inv, Unasked, Granted, ConfirmedOrClosing, ClosingNow
<1>. QED  BY <1>4, <1>5 DEF Inv

-----------------------------------------------------------------------------
(* Who holds a mutex, and what has happened *)

LEMMA BeginKeepsHolders ==
  ASSUME HistoryTypes, NEW s, NEW d, NEW kind \in Kinds, Begin(s, d, kind),
         holds' = holds, out \in [Senders -> [kind : Kinds, to : Devices] \cup {Nothing}]
  PROVE  holds' \subseteq {r \in Senders : out'[r] # Nothing}
<1>1. kind # "nothing"
  BY DEF Kinds
<1>2. [kind |-> kind, to |-> d] # Nothing
  BY <1>1 DEF Nothing
<1>3. CASE out' = [out EXCEPT ![s] = [kind |-> kind, to |-> d]]
  BY <1>2, <1>3 DEF HistoryTypes
<1>. QED  BY <1>3 DEF Begin, HistoryTypes

LEMMA HistoryStep ==
  ASSUME Types, HistoryTypes, [Next]_vars
  PROVE  HistoryTypes'
<1> DEFINE Same == UNCHANGED <<holds, told, overtaken>>
<1>1. ASSUME Same, out' = out PROVE HistoryTypes'
  BY <1>1 DEF HistoryTypes
<1>2. ASSUME NEW d \in Devices,
             \/ Plug(d) \/ Unplug(d) \/ Answer(d) \/ Hurry(d) \/ Greet(d)
             \/ CreateDevice(d) \/ Create(d) \/ RemoveDevice(d)
      PROVE  HistoryTypes'
  BY <1>1, <1>2 DEF Plug, Unplug, Answer, Hurry, Greet, CreateDevice, Create, RemoveDevice,
     StartConnection, Connect, Open, StartListening, RequestTunnel, Mark, Wire, Announce
<1>3. ASSUME NEW d \in Devices, Listen(d) PROVE HistoryTypes'
  <2>1. CASE HearConnect(d)
    <3>1. "ConnectAck" \in Kinds /\ UNCHANGED <<holds, told, overtaken>>
      BY <2>1 DEF Kinds, HearConnect
    <3>2. CASE out' = out
      BY <1>1, <3>1, <3>2
    <3>3. CASE out' # out
      BY <2>1, <3>1, <3>3, BeginKeepsHolders DEF HearConnect, HistoryTypes, Types
    <3>. QED  BY <3>2, <3>3
  <2>2. CASE Connected(d)
    <3>1. UNCHANGED <<holds, overtaken>> /\ "Connect" \in Kinds
      BY <2>2 DEF Connected, Kinds
    <3>2. told' \in [Devices -> Nat]
      BY <2>2 DEF Connected, HistoryTypes
    <3>3. CASE out' = out
      BY <3>1, <3>2, <3>3 DEF HistoryTypes
    <3>4. CASE out' # out
      <4>1. PICK e : Begin(d, e, "Connect")
        BY <2>2, <3>4 DEF Connected
      <4>. QED  BY <3>1, <3>2, <4>1, BeginKeepsHolders DEF HistoryTypes, Types
    <3>. QED  BY <3>3, <3>4
  <2>3. CASE \/ HearOK(d) \/ HearRefused(d) \/ HearRequest(d) \/ HearConnectAck(d)
             \/ HearEnd(d) \/ HearBadDescriptor(d)
    BY <1>1, <2>3 DEF HearOK, HearRefused, HearRequest, HearConnectAck, HearEnd,
       HearBadDescriptor
  <2>. QED  BY <1>3, <2>1, <2>2, <2>3 DEF Listen
<1>4. ASSUME NEW s \in Senders, Lock(s) \/ Write(s) PROVE HistoryTypes'
  BY <1>4 DEF Lock, Write, Types, HistoryTypes
<1>5. ASSUME NEW t \in Threads, NEW d \in Devices, Disconnect(t, d) PROVE HistoryTypes'
  <2>1. UNCHANGED <<out, holds, told>> /\ overtaken' \subseteq overtaken \cup {d}
    BY <1>5 DEF Disconnect, DisconnectTest, DisconnectAbort, DisconnectShutdown,
       DisconnectJoin, DisconnectClose, DisconnectIdle
  <2>. QED  BY <2>1 DEF HistoryTypes
<1>6. CASE Send
  <2>1. PICK d : Begin(Publisher, d, "data")
    BY <1>6 DEF Send
  <2>2. UNCHANGED <<holds, told, overtaken>> /\ "data" \in Kinds
    BY <1>6 DEF Send, Kinds
  <2>. QED  BY <2>1, <2>2, BeginKeepsHolders DEF HistoryTypes, Types
<1>7. CASE Stop \/ StopNext \/ UNCHANGED vars \/ \E n \in Names \cup {NoName} : DisconnectClient(n)
  BY <1>1, <1>7 DEF Stop, StopNext, DisconnectClient, vars
<1>. QED  BY <1>2, <1>3, <1>4, <1>5, <1>6, <1>7 DEF Next

-----------------------------------------------------------------------------
(* Theorems *)

LEMMA Invariance == Spec => [](Inv /\ HistoryTypes)
<1>1. Init => Inv /\ HistoryTypes
  <2> SUFFICES ASSUME Init PROVE Inv /\ HistoryTypes
    OBVIOUS
  <2>1. Types /\ HistoryTypes
    <3>1. conn \in [Devices -> Connections]
      BY DEF Init, Connections, Statuses
    <3>2. thread \in [Threads -> Places]
      BY DEF Init, Places
    <3>3. out \in [Senders -> [kind : Kinds, to : Devices] \cup {Nothing}]
      BY DEF Init
    <3>. QED  BY <3>1, <3>2, <3>3 DEF Init, Types, HistoryTypes
  <2>2. Unasked /\ Granted /\ ConfirmedOrClosing
    BY DEF Init, Unasked, Granted, ConfirmedOrClosing
  <2>. QED  BY <2>1, <2>2 DEF Inv
<1>2. Inv /\ HistoryTypes /\ [Next]_vars => (Inv /\ HistoryTypes)'
  <2> SUFFICES ASSUME Inv, HistoryTypes, [Next]_vars PROVE Inv'
    BY HistoryStep DEF Inv
  <2>1. ASSUME NEW d \in Devices, Plug(d) \/ Unplug(d) \/ Answer(d) \/ Hurry(d) \/ Greet(d)
        PROVE  Inv'
    BY <2>1, PhoneStep, AnswerStep, HurryStep, GreetStep
  <2>2. ASSUME NEW d \in Devices, CreateDevice(d) \/ Create(d)
        PROVE  Inv'
    BY <2>2, CreateDeviceStep, StartConnectionStep, ConnectStep, OpenStep, RequestTunnelStep,
       MarkStep, WireStep, AnnounceStep DEF Create
  <2>3. ASSUME NEW d \in Devices, RemoveDevice(d) \/ Listen(d)
        PROVE  Inv'
    BY <2>3, RemoveDeviceStep, HearOKStep, ConnectedStep, HearRefusedStep, HearRequestStep,
       HearGreetingStep, HearEndStep DEF Listen
  <2>4. ASSUME NEW s \in Senders, Lock(s) \/ Write(s)
        PROVE  Inv'
    <3>1. out[s] # Nothing
      BY <2>4 DEF Lock, Write, HistoryTypes
    <3>. QED  BY <2>4, <3>1, WriteStep
  <2>5. ASSUME NEW t \in Threads, NEW d \in Devices, Disconnect(t, d)
        PROVE  Inv'
    BY <2>5, DisconnectTestStep, DisconnectAbortStep, DisconnectShutdownStep,
       DisconnectJoinStep, DisconnectCloseStep, DisconnectIdleStep DEF Disconnect
  <2>6. ASSUME NEW n, DisconnectClient(n)
        PROVE  Inv'
    BY <2>6, DisconnectClientStep
  <2>7. CASE Send \/ Stop \/ StopNext
    BY <2>7, PublishStep, StopStep, StopNextStep
  <2>8. CASE UNCHANGED vars
    <3>1. Types'
      BY <2>8 DEF Inv, Types, vars
    <3>. QED  BY <2>8, <3>1, OtherStep DEF vars
  <2>. QED  BY <2>1, <2>2, <2>3, <2>4, <2>5, <2>6, <2>7, <2>8 DEF Next
<1>. QED  BY <1>1, <1>2, PTL DEF Spec

(***************************************************************************)
(* The state of the hub and its connections keeps its types, whatever ids  *)
(* usbmuxd gives and however many devices there are; in particular         *)
(* getDeviceIDForClientID() always leads to a connection or to -1          *)
(* (usbhub.cpp:157-164).                                                   *)
(***************************************************************************)
THEOREM TypeCorrect == Spec => []TypeOK
<1>1. Inv /\ HistoryTypes => TypeOK
  BY DEF Inv, Types, HistoryTypes, TypeOK
<1>. QED  BY <1>1, Invariance, PTL

(***************************************************************************)
(* A connection is CONNECTED only with an open tunnel or while a thread is *)
(* closing it (connection.cpp:52, 83, 140).                                *)
(***************************************************************************)
THEOREM ConnectedMeansConfirmed == Spec => []ConfirmedOrClosing
<1>1. Inv => ConfirmedOrClosing
  BY DEF Inv
<1>. QED  BY <1>1, Invariance, PTL

-----------------------------------------------------------------------------
(* What the two sides of a connection know of each other *)

Greetings == {"Connect", "ConnectAck"}

\* A connection has its peer's name, and no other, once it has taken the peer's
\* greeting from its socket.
Introduced ==
  \A d \in Devices :
    /\ conn[d].name \in {NoName, Peer[d]}
    /\ conn[d].name # NoName => tunnel[d] = "greeted"
    /\ \A i \in 1..Len(conn[d].inbox) : conn[d].inbox[i] \in Greetings => tunnel[d] = "greeted"
    /\ tunnel[d] = "greeted" =>
         \/ conn[d].name = Peer[d]
         \/ \E i \in 1..Len(conn[d].inbox) : conn[d].inbox[i] \in Greetings

\* The steps that neither bring a packet nor take one, nor change a name.
Silent(d) ==
  \/ Plug(d) \/ Unplug(d) \/ CreateDevice(d) \/ StartConnection(d) \/ Connect(d)
  \/ Open(d) \/ StartListening(d) \/ Mark(d) \/ Wire(d) \/ Announce(d) \/ RemoveDevice(d)
  \/ Connected(d) \/ HearEnd(d) \/ HearBadDescriptor(d)

\* What a change of one field of a connection leaves alone.
LEMMA OnlyStatus ==
  ASSUME Types, NEW d \in Devices, NEW s, conn' = [conn EXCEPT ![d].status = s]
  PROVE  /\ conn'[d].status = s
         /\ \A e \in Devices \ {d} : conn'[e] = conn[e]
         /\ \A e \in Devices :
              /\ conn'[e].name = conn[e].name /\ conn'[e].inbox = conn[e].inbox
              /\ conn'[e].sock = conn[e].sock /\ conn'[e].listener = conn[e].listener
<1>1. conn \in [Devices -> Connections] /\ conn[d] \in Connections
  BY DEF Types
<1>. QED  BY <1>1 DEF Connections

LEMMA OnlySock ==
  ASSUME Types, NEW d \in Devices, NEW s, conn' = [conn EXCEPT ![d].sock = s]
  PROVE  /\ conn'[d].sock = s
         /\ \A e \in Devices \ {d} : conn'[e] = conn[e]
         /\ \A e \in Devices :
              /\ conn'[e].name = conn[e].name /\ conn'[e].inbox = conn[e].inbox
              /\ conn'[e].status = conn[e].status /\ conn'[e].listener = conn[e].listener
<1>1. conn \in [Devices -> Connections] /\ conn[d] \in Connections
  BY DEF Types
<1>. QED  BY <1>1 DEF Connections

LEMMA OnlyListener ==
  ASSUME Types, NEW d \in Devices, NEW s, conn' = [conn EXCEPT ![d].listener = s]
  PROVE  /\ conn'[d].listener = s
         /\ \A e \in Devices \ {d} : conn'[e] = conn[e]
         /\ \A e \in Devices :
              /\ conn'[e].name = conn[e].name /\ conn'[e].inbox = conn[e].inbox
              /\ conn'[e].status = conn[e].status /\ conn'[e].sock = conn[e].sock
<1>1. conn \in [Devices -> Connections] /\ conn[d] \in Connections
  BY DEF Types
<1>. QED  BY <1>1 DEF Connections

LEMMA OnlyWired ==
  ASSUME Types, NEW d \in Devices, NEW w, conn' = [conn EXCEPT ![d].wired = w]
  PROVE  \A e \in Devices :
           /\ conn'[e].name = conn[e].name /\ conn'[e].inbox = conn[e].inbox
           /\ conn'[e].status = conn[e].status
           /\ conn'[e].sock = conn[e].sock /\ conn'[e].listener = conn[e].listener
<1>1. conn \in [Devices -> Connections] /\ conn[d] \in Connections
  BY DEF Types
<1>. QED  BY <1>1 DEF Connections

LEMMA SilentKeeps ==
  ASSUME Types, NEW d \in Devices, Silent(d)
  PROVE  /\ tunnel' = tunnel
         /\ \A e \in Devices : conn'[e].name = conn[e].name /\ conn'[e].inbox = conn[e].inbox
<1>1. tunnel' = tunnel
  BY DEF Silent, Plug, Unplug, Announce, RemoveDevice, CreateDevice, StartConnection,
         Connect, Open, StartListening, Mark, Wire, Connected, HearEnd, HearBadDescriptor
<1>2. CASE conn' = conn
  BY <1>1, <1>2
<1>3. CASE \E s : conn' = [conn EXCEPT ![d].status = s]
  BY <1>1, <1>3, OnlyStatus
<1>4. CASE \E s : conn' = [conn EXCEPT ![d].sock = s]
  BY <1>1, <1>4, OnlySock
<1>5. CASE \E w : conn' = [conn EXCEPT ![d].wired = w]
  BY <1>1, <1>5, OnlyWired
<1>6. CASE \E s : conn' = [conn EXCEPT ![d].listener = s]
  BY <1>1, <1>6, OnlyListener
<1>7. CASE Plug(d) \/ Unplug(d) \/ Announce(d) \/ RemoveDevice(d) \/ Connect(d)
  BY <1>2, <1>7 DEF Plug, Unplug, Announce, RemoveDevice, Connect
<1>8. CASE CreateDevice(d) \/ StartConnection(d) \/ Mark(d)
  BY <1>3, <1>8 DEF CreateDevice, StartConnection, Mark
<1>9. CASE Open(d) \/ Wire(d)
  BY <1>4, <1>5, <1>9 DEF Open, Wire
<1>10. CASE StartListening(d) \/ Connected(d) \/ HearEnd(d) \/ HearBadDescriptor(d)
  BY <1>6, <1>10 DEF StartListening, Connected, HearEnd, HearBadDescriptor
<1>. QED  BY <1>7, <1>8, <1>9, <1>10 DEF Silent

LEMMA DisconnectKeeps ==
  ASSUME Types, NEW t \in Threads, NEW d \in Devices, Disconnect(t, d)
  PROVE  /\ UNCHANGED <<tunnel, out, told>>
         /\ \A e \in Devices : conn'[e].name = conn[e].name /\ conn'[e].inbox = conn[e].inbox
         /\ \A e \in Devices : conn'[e].listener \in {conn[e].listener, "joined"}
<1>1. UNCHANGED <<tunnel, out, told>>
  BY DEF Disconnect, DisconnectTest, DisconnectAbort, DisconnectShutdown, DisconnectJoin,
         DisconnectClose, DisconnectIdle
<1>2. CASE conn' = conn
  BY <1>1, <1>2
<1>3. CASE \E s : conn' = [conn EXCEPT ![d].status = s]
  BY <1>1, <1>3, OnlyStatus
<1>4. CASE \E s : conn' = [conn EXCEPT ![d].sock = s]
  BY <1>1, <1>4, OnlySock
<1>5. CASE \E l \in {conn[d].listener, "joined"} : conn' = [conn EXCEPT ![d].listener = l]
  BY <1>1, <1>5, OnlyListener
<1>6. CASE DisconnectJoin(t, d)
  BY <1>5, <1>6 DEF DisconnectJoin
<1>7. CASE Disconnect(t, d) /\ ~DisconnectJoin(t, d)
  BY <1>2, <1>3, <1>4, <1>7
  DEF Disconnect, DisconnectTest, DisconnectAbort, DisconnectShutdown, DisconnectClose,
      DisconnectIdle
<1>. QED  BY <1>6, <1>7

\* The connection has taken a packet and, if it was a greeting, its peer's name.
LEMMA HearIntroduces ==
  ASSUME Inv, Introduced, NEW d \in Devices, NEW packet, Hears(d, packet),
         NEW r, conn' = [conn EXCEPT ![d] = r], tunnel' = tunnel,
         r.inbox = Tail(conn[d].inbox),
         r.name = (IF packet \in Greetings THEN Peer[d] ELSE conn[d].name)
  PROVE  Introduced'
<1>1. conn \in [Devices -> Connections] /\ conn[d].inbox \in Seq(Packets)
  BY DEF Inv, Types, Connections
<1>2. conn[d].inbox # <<>> /\ conn[d].inbox[1] = packet
  BY <1>1 DEF Hears
<1>3. conn'[d] = r /\ \A e \in Devices \ {d} : conn'[e] = conn[e]
  BY <1>1
<1>4. Len(r.inbox) = Len(conn[d].inbox) - 1
  BY <1>1, <1>2
<1>5. \A i \in 1..Len(r.inbox) : i + 1 \in 1..Len(conn[d].inbox)
                               /\ r.inbox[i] = conn[d].inbox[i + 1]
  BY <1>1, <1>2
<1>6. packet \in Greetings => tunnel[d] = "greeted"
  BY <1>1, <1>2 DEF Introduced
<1>7. r.name \in {NoName, Peer[d]} /\ (r.name # NoName => tunnel[d] = "greeted")
  BY <1>6 DEF Introduced
<1>8. \A i \in 1..Len(r.inbox) : r.inbox[i] \in Greetings => tunnel[d] = "greeted"
  BY <1>5 DEF Introduced
<1>9. tunnel[d] = "greeted" =>
        r.name = Peer[d] \/ \E i \in 1..Len(r.inbox) : r.inbox[i] \in Greetings
  <2>1. ASSUME packet \notin Greetings, NEW i \in 1..Len(conn[d].inbox),
               conn[d].inbox[i] \in Greetings
        PROVE  \E j \in 1..Len(r.inbox) : r.inbox[j] \in Greetings
    <3>1. i # 1
      BY <1>2, <2>1
    <3>2. i - 1 \in 1..Len(r.inbox) /\ (i - 1) + 1 = i
      BY <1>1, <1>4, <3>1
    <3>. QED  BY <1>5, <2>1, <3>2
  <2>. QED  BY <2>1 DEF Introduced
<1>. QED  BY <1>3, <1>7, <1>8, <1>9 DEF Introduced

LEMMA HearingIntroduces ==
  ASSUME Inv, Introduced, NEW d \in Devices,
         \/ HearOK(d) \/ HearRefused(d) \/ HearRequest(d)
         \/ HearConnect(d) \/ HearConnectAck(d)
  PROVE  Introduced'
<1>1. conn \in [Devices -> Connections] /\ conn[d] \in Connections
  BY DEF Inv, Types
<1>2. CASE HearOK(d)
  <2> DEFINE r == [conn[d] EXCEPT !.status = "CONNECTED", !.listener = "connected",
                                  !.inbox = Tail(@)]
  <2>1. r.inbox = Tail(conn[d].inbox) /\ r.name = conn[d].name
    BY <1>1 DEF Connections
  <2>2. Hears(d, "OK") /\ conn' = [conn EXCEPT ![d] = r] /\ tunnel' = tunnel
    BY <1>2 DEF HearOK
  <2>3. "OK" \notin Greetings
    BY DEF Greetings
  <2> HIDE DEF r
  <2>. QED  BY <2>1, <2>2, <2>3, HearIntroduces
<1>3. CASE HearRefused(d)
  <2> DEFINE r == [conn[d] EXCEPT !.status = "WANTING_CONNECTION", !.inbox = Tail(@)]
  <2>1. r.inbox = Tail(conn[d].inbox) /\ r.name = conn[d].name
    BY <1>1 DEF Connections
  <2>2. Hears(d, "Refused") /\ conn' = [conn EXCEPT ![d] = r] /\ tunnel' = tunnel
    BY <1>3 DEF HearRefused
  <2>3. "Refused" \notin Greetings
    BY DEF Greetings
  <2> HIDE DEF r
  <2>. QED  BY <2>1, <2>2, <2>3, HearIntroduces
<1>4. CASE HearConnect(d) \/ HearConnectAck(d)
  <2> DEFINE r == [conn[d] EXCEPT !.name = Peer[d], !.inbox = Tail(@)]
  <2>1. r.inbox = Tail(conn[d].inbox) /\ r.name = Peer[d]
    BY <1>1 DEF Connections
  <2>2. PICK packet \in Greetings : Hears(d, packet)
    BY <1>4 DEF HearConnect, HearConnectAck, Greetings
  <2>3. conn' = [conn EXCEPT ![d] = r] /\ tunnel' = tunnel
    BY <1>4 DEF HearConnect, HearConnectAck
  <2> HIDE DEF r
  <2>. QED  BY <2>1, <2>2, <2>3, HearIntroduces
<1>5. CASE HearRequest(d)
  <2> DEFINE r == [conn[d] EXCEPT !.inbox = Tail(@)]
  <2>1. r.inbox = Tail(conn[d].inbox) /\ r.name = conn[d].name
    BY <1>1 DEF Connections
  <2>2. Hears(d, "Request") /\ conn' = [conn EXCEPT ![d] = r] /\ tunnel' = tunnel
    BY <1>5 DEF HearRequest
  <2>3. "Request" \notin Greetings
    BY DEF Greetings
  <2> HIDE DEF r
  <2>. QED  BY <2>1, <2>2, <2>3, HearIntroduces
<1>. QED  BY <1>2, <1>3, <1>4, <1>5

\* usbmuxd opens or refuses a tunnel, or the hub asks for one: no one is greeted.
LEMMA TunnelIntroduces ==
  ASSUME Inv, Introduced, NEW d \in Devices, Answer(d) \/ RequestTunnel(d)
  PROVE  Introduced'
<1>1. conn \in [Devices -> Connections] /\ tunnel \in [Devices -> {"none", "asked", "refused", "open", "greeted"}]
  BY DEF Inv, Types
<1>2. conn[d].inbox \in Seq(Packets)
  BY <1>1 DEF Connections
<1>3. CASE RequestTunnel(d)
  <2>1. tunnel[d] = "none"
    BY <1>3 DEF RequestTunnel, Inv, Unasked
  <2>2. tunnel'[d] # "greeted" /\ \A e \in Devices \ {d} : tunnel'[e] = tunnel[e]
    BY <1>1, <1>3, <2>1 DEF RequestTunnel
  <2>3. conn' = conn
    BY <1>3 DEF RequestTunnel
  <2>. QED  BY <2>1, <2>2, <2>3 DEF Introduced
<1>4. CASE Answer(d)
  <2>1. PICK packet \in {"OK", "Refused"} : conn' = [conn EXCEPT ![d].inbox = Append(@, packet)]
    BY <1>4 DEF Answer
  <2>2. tunnel[d] = "asked" /\ tunnel'[d] # "greeted"
        /\ \A e \in Devices \ {d} : tunnel'[e] = tunnel[e]
    BY <1>1, <1>4 DEF Answer
  <2>3. /\ conn'[d].name = conn[d].name /\ conn'[d].inbox = Append(conn[d].inbox, packet)
        /\ \A e \in Devices \ {d} : conn'[e] = conn[e]
    BY <1>1, <2>1 DEF Connections
  <2>4. \A i \in 1..Len(conn'[d].inbox) : conn'[d].inbox[i] \notin Greetings
    <3> SUFFICES ASSUME NEW i \in 1..Len(conn'[d].inbox)
                 PROVE  conn'[d].inbox[i] \notin Greetings
      OBVIOUS
    <3>1. CASE i \in 1..Len(conn[d].inbox)
      BY <1>2, <2>2, <2>3, <3>1 DEF Introduced
    <3>2. CASE i = Len(conn[d].inbox) + 1
      BY <1>2, <2>3, <3>2 DEF Greetings
    <3>. QED  BY <1>2, <2>3, <3>1, <3>2
  <2>. QED  BY <2>2, <2>3, <2>4 DEF Introduced
<1>. QED  BY <1>3, <1>4

LEMMA GreetIntroduces ==
  ASSUME Inv, Introduced, NEW d \in Devices, Greet(d)
  PROVE  Introduced'
<1>1. conn \in [Devices -> Connections] /\ tunnel \in [Devices -> {"none", "asked", "refused", "open", "greeted"}]
  BY DEF Inv, Types
<1>2. conn[d].inbox \in Seq(Packets)
  BY <1>1 DEF Connections
<1>3. PICK kind \in Greetings : conn' = [conn EXCEPT ![d].inbox = Append(@, kind)]
  BY DEF Greet, Greetings
<1>4. tunnel'[d] = "greeted" /\ \A e \in Devices \ {d} : tunnel'[e] = tunnel[e]
  BY <1>1 DEF Greet
<1>5. /\ conn'[d].name = conn[d].name /\ conn'[d].inbox = Append(conn[d].inbox, kind)
      /\ \A e \in Devices \ {d} : conn'[e] = conn[e]
  BY <1>1, <1>3 DEF Connections
<1>6. Len(conn'[d].inbox) \in 1..Len(conn'[d].inbox)
      /\ conn'[d].inbox[Len(conn'[d].inbox)] \in Greetings
  BY <1>2, <1>5
<1>. QED  BY <1>4, <1>5, <1>6 DEF Introduced

LEMMA HurryIntroduces ==
  ASSUME Inv, Introduced, NEW d \in Devices, Hurry(d)
  PROVE  Introduced'
<1>1. conn \in [Devices -> Connections] /\ conn[d].inbox \in Seq(Packets)
  BY DEF Inv, Types, Connections
<1>2. /\ conn'[d].name = conn[d].name /\ conn'[d].inbox = Append(conn[d].inbox, "Request")
      /\ \A e \in Devices \ {d} : conn'[e] = conn[e]
  BY <1>1 DEF Hurry, Connections
<1>3. tunnel' = tunnel /\ tunnel[d] = "open"
  BY DEF Hurry
<1>4. \A i \in 1..Len(conn'[d].inbox) : conn'[d].inbox[i] \notin Greetings
  <2> SUFFICES ASSUME NEW i \in 1..Len(conn'[d].inbox)
               PROVE  conn'[d].inbox[i] \notin Greetings
    OBVIOUS
  <2>1. CASE i \in 1..Len(conn[d].inbox)
    BY <1>1, <1>2, <1>3, <2>1 DEF Introduced
  <2>2. CASE i = Len(conn[d].inbox) + 1
    BY <1>1, <1>2, <2>2 DEF Greetings
  <2>. QED  BY <1>1, <1>2, <2>1, <2>2
<1>. QED  BY <1>2, <1>3, <1>4 DEF Introduced

LEMMA IntroducedInit ==
  ASSUME Init
  PROVE  Introduced
BY DEF Init, Introduced

\* The steps that change neither a tunnel nor a connection.
Apart ==
  \/ \E s \in Senders : Lock(s) \/ Write(s)
  \/ \E n : DisconnectClient(n)
  \/ Send \/ Stop \/ StopNext

LEMMA IntroducedStep ==
  ASSUME Inv, Introduced, [Next]_vars
  PROVE  Introduced'
<1> DEFINE Kept == /\ tunnel' = tunnel
                   /\ \A e \in Devices : conn'[e].name = conn[e].name /\ conn'[e].inbox = conn[e].inbox
<1>1. ASSUME Kept PROVE Introduced'
  BY <1>1 DEF Introduced
<1>2. Types
  BY DEF Inv
<1>3. ASSUME NEW d \in Devices, Silent(d) PROVE Introduced'
  BY <1>1, <1>2, <1>3, SilentKeeps
<1>4. ASSUME NEW t \in Threads, NEW d \in Devices, Disconnect(t, d) PROVE Introduced'
  BY <1>1, <1>2, <1>4, DisconnectKeeps
<1>5. CASE Apart \/ UNCHANGED vars
  BY <1>1, <1>5 DEF Apart, Lock, Write, DisconnectClient, Send, Stop, StopNext, vars
<1>6. ASSUME NEW d \in Devices,
             \/ Plug(d) \/ Unplug(d) \/ Answer(d) \/ Hurry(d) \/ Greet(d)
             \/ CreateDevice(d) \/ Create(d) \/ RemoveDevice(d) \/ Listen(d)
      PROVE  Introduced'
  BY <1>3, <1>6, TunnelIntroduces, HurryIntroduces, GreetIntroduces, HearingIntroduces
  DEF Create, Listen, Silent
<1>. QED  BY <1>4, <1>5, <1>6 DEF Next, Apart

LEMMA Introduction == Spec => []Introduced
<1>1. Init => Introduced
  BY IntroducedInit
<1>2. Inv /\ Introduced /\ [Next]_vars => Introduced'
  BY IntroducedStep
<1>. QED  BY <1>1, <1>2, Invariance, PTL DEF Spec

(***************************************************************************)
(* If no two devices bear the same name, what is sent to a client that is  *)
(* connected goes to a connection that is up (swiftrobotc.h:20,            *)
(* usbhub.cpp:157-164).                                                    *)
(***************************************************************************)
THEOREM NamesReachClients ==
  ASSUME \A d, e \in Devices : Peer[d] = Peer[e] => d = e
  PROVE  Spec => []ReachesClient
<1>1. ASSUME Types, Introduced, NEW d \in Devices, Live(d)
      PROVE  Route(Peer[d]) = d
  <2> DEFINE named == {e \in Entries : conn[e].name = Peer[d]}
  <2>1. conn[d].name = Peer[d]
    BY <1>1 DEF Live, Introduced
  <2>2. d \in named
    BY <1>1, <2>1 DEF Live, Entries
  <2>3. \A e \in named : e = d
    BY <1>1, NameAssumption DEF Introduced, Entries
  <2>4. named = {d} /\ d \in Nat
    BY <2>2, <2>3, DeviceAssumption
  <2>. QED  BY <2>4 DEF Route
<1>2. ASSUME Types, Introduced PROVE ReachesClient
  <2> SUFFICES ASSUME NEW d \in Devices, Live(d), Peer[d] \in clients
               PROVE  Route(Peer[d]) # -1 /\ conn[Route(Peer[d])].status = "CONNECTED"
    BY DEF ReachesClient
  <2>1. Route(Peer[d]) = d
    BY <1>1, <1>2
  <2>2. d # -1
    BY DeviceAssumption
  <2>. QED  BY <2>1, <2>2 DEF Live
<1>3. Inv => Types
  BY DEF Inv
<1>. QED  BY <1>2, <1>3, Invariance, Introduction, PTL

-----------------------------------------------------------------------------
(* What a listening thread says, and when *)

\* "OK" comes first, if it comes; Connect is then due or has been begun, and not two
\* of these at once.
Once ==
  \A d \in Devices :
    /\ tunnel[d] \in {"none", "asked"} => conn[d].inbox = <<>>
    /\ \A i \in 1..Len(conn[d].inbox) : conn[d].inbox[i] = "OK" =>
         i = 1 /\ conn[d].listener # "connected" /\ told[d] = 0 /\ out[d] = Nothing
    /\ conn[d].listener = "connected" =>
         tunnel[d] \in Opened /\ told[d] = 0 /\ out[d] = Nothing
    /\ told[d] <= 1
    /\ told[d] > 0 \/ out[d] # Nothing => tunnel[d] \in Opened
    /\ out[d].kind = "ConnectAck" => tunnel[d] = "greeted"

\* The steps that make no Connect due and say nothing for a device.
LEMMA StillOnce ==
  ASSUME Once, UNCHANGED <<tunnel, told>>,
         \A e \in Devices : conn'[e].inbox = conn[e].inbox,
         \A e \in Devices : conn'[e].listener = "connected" => conn[e].listener = "connected",
         \A e \in Devices : out'[e] \in {out[e], Nothing}
  PROVE  Once'
<1>1. Nothing.kind # "ConnectAck"
  BY DEF Nothing
<1> SUFFICES ASSUME NEW e \in Devices PROVE Once!(e)'
  BY DEF Once
<1>. QED  BY <1>1 DEF Once

LEMMA SilentOnce ==
  ASSUME Types, Once, NEW d \in Devices, Silent(d), ~Connected(d)
  PROVE  Once'
<1>1. UNCHANGED <<tunnel, out, told>>
  BY DEF Silent, Plug, Unplug, Announce, RemoveDevice, CreateDevice, StartConnection,
         Connect, Open, StartListening, Mark, Wire, HearEnd, HearBadDescriptor
<1>2. \A e \in Devices : conn'[e].inbox = conn[e].inbox
  BY SilentKeeps
<1>3. \A e \in Devices : conn'[e].listener = "connected" => conn[e].listener = "connected"
  <2>1. CASE conn' = conn
    BY <2>1
  <2>2. CASE \E s : conn' = [conn EXCEPT ![d].status = s]
    BY <2>2, OnlyStatus
  <2>3. CASE \E s : conn' = [conn EXCEPT ![d].sock = s]
    BY <2>3, OnlySock
  <2>4. CASE \E w : conn' = [conn EXCEPT ![d].wired = w]
    BY <2>4, OnlyWired
  <2>5. CASE \E s \in {"receiving", "ended", "lost"} : conn' = [conn EXCEPT ![d].listener = s]
    BY <2>5, OnlyListener
  <2>6. CASE Plug(d) \/ Unplug(d) \/ Announce(d) \/ RemoveDevice(d) \/ Connect(d)
    BY <2>1, <2>6 DEF Plug, Unplug, Announce, RemoveDevice, Connect
  <2>7. CASE CreateDevice(d) \/ StartConnection(d) \/ Mark(d)
    BY <2>2, <2>7 DEF CreateDevice, StartConnection, Mark
  <2>8. CASE Open(d) \/ Wire(d)
    BY <2>3, <2>4, <2>8 DEF Open, Wire
  <2>9. CASE StartListening(d) \/ HearEnd(d) \/ HearBadDescriptor(d)
    BY <2>5, <2>9 DEF StartListening, HearEnd, HearBadDescriptor
  <2>. QED  BY <2>6, <2>7, <2>8, <2>9 DEF Silent
<1>. QED  BY <1>1, <1>2, <1>3, StillOnce

\* connectedRoutine(), whatever device it sends to.
LEMMA ConnectedOnce ==
  ASSUME Types, HistoryTypes, Once, NEW d \in Devices, Connected(d)
  PROVE  Once'
<1>1. conn[d].listener = "connected" /\ tunnel[d] \in Opened /\ out[d] = Nothing
      /\ told[d] = 0
  BY DEF Connected, Once
<1>2. conn' = [conn EXCEPT ![d].listener = "receiving"] /\ tunnel' = tunnel
  BY DEF Connected
<1>3. /\ \A e \in Devices : conn'[e].inbox = conn[e].inbox
      /\ \A e \in Devices \ {d} : conn'[e] = conn[e]
      /\ conn'[d].listener = "receiving"
  BY <1>2, OnlyListener
<1>4. CASE out' = out
  <2>1. told' = told
    BY <1>4 DEF Connected
  <2>. QED  BY <1>2, <1>3, <1>4, <2>1, StillOnce
<1>5. CASE out' # out
  <2>1. PICK e : out' = [out EXCEPT ![d] = [kind |-> "Connect", to |-> e]]
    BY <1>5 DEF Connected, Begin
  <2>2. /\ out'[d].kind = "Connect" /\ \A s \in Senders \ {d} : out'[s] = out[s]
        /\ \A f \in Devices \ {d} : f \in Senders \ {d}
    BY <2>1 DEF Types, Senders
  <2>3. told' = [told EXCEPT ![d] = @ + 1]
    BY <1>5 DEF Connected
  <2>4. told'[d] = 1 /\ \A f \in Devices \ {d} : told'[f] = told[f]
    BY <1>1, <2>3 DEF HistoryTypes
  <2>5. \A i \in 1..Len(conn[d].inbox) : conn[d].inbox[i] # "OK"
    BY <1>1 DEF Once
  <2>. QED  BY <1>1, <1>2, <1>3, <2>2, <2>4, <2>5 DEF Once
<1>. QED  BY <1>4, <1>5

LEMMA TunnelOnce ==
  ASSUME Inv, HistoryTypes, Once, NEW d \in Devices,
         Answer(d) \/ Hurry(d) \/ Greet(d) \/ RequestTunnel(d)
  PROVE  Once'
<1>1. conn \in [Devices -> Connections] /\ tunnel \in [Devices -> {"none", "asked", "refused", "open", "greeted"}]
  BY DEF Inv, Types
<1>2. conn[d].inbox \in Seq(Packets) /\ told[d] \in Nat
  BY <1>1 DEF Connections, HistoryTypes
<1>3. UNCHANGED <<out, told>>
  BY DEF Answer, Hurry, Greet, RequestTunnel
<1>4. CASE RequestTunnel(d)
  <2>1. tunnel[d] = "none"
    BY <1>4 DEF RequestTunnel, Inv, Unasked
  <2>2. tunnel'[d] \in {"none", "asked"} /\ \A e \in Devices \ {d} : tunnel'[e] = tunnel[e]
    BY <1>1, <1>4, <2>1 DEF RequestTunnel
  <2>3. conn' = conn
    BY <1>4 DEF RequestTunnel
  <2>. QED  BY <1>3, <2>1, <2>2, <2>3 DEF Once
<1>5. CASE Answer(d) \/ Hurry(d) \/ Greet(d)
  <2>1. PICK packet \in Packets : /\ conn' = [conn EXCEPT ![d].inbox = Append(@, packet)]
                                  /\ packet = "OK" => Answer(d)
    BY <1>5 DEF Answer, Hurry, Greet
  <2>2. /\ conn'[d].inbox = Append(conn[d].inbox, packet)
        /\ conn'[d].listener = conn[d].listener
        /\ \A e \in Devices \ {d} : conn'[e] = conn[e]
    BY <1>1, <2>1 DEF Connections
  <2>3. /\ tunnel'[d] \in {"open", "refused", "greeted"}
        /\ tunnel[d] \in Opened => tunnel'[d] \in Opened
        /\ tunnel[d] = "greeted" => tunnel'[d] = "greeted"
        /\ \A e \in Devices \ {d} : tunnel'[e] = tunnel[e]
    BY <1>1, <1>5 DEF Answer, Hurry, Greet
  <2>4. ASSUME NEW i \in 1..Len(conn'[d].inbox), conn'[d].inbox[i] = "OK"
        PROVE  i = 1 /\ conn[d].listener # "connected" /\ told[d] = 0 /\ out[d] = Nothing
    <3>1. CASE Answer(d)
      <4>1. tunnel[d] = "asked"
        BY <3>1 DEF Answer
      <4>2. conn[d].inbox = <<>> /\ conn[d].listener # "connected"
            /\ ~(told[d] > 0) /\ out[d] = Nothing
        BY <4>1 DEF Once
      <4>3. i = 1
        BY <1>2, <2>2, <2>4, <4>2
      <4>. QED  BY <1>2, <4>2, <4>3
    <3>2. CASE ~Answer(d)
      <4>1. packet # "OK"
        BY <2>1, <3>2
      <4>2. i \in 1..Len(conn[d].inbox) /\ conn[d].inbox[i] = "OK"
        BY <1>2, <2>2, <2>4, <4>1
      <4>. QED  BY <4>2 DEF Once
    <3>. QED  BY <3>1, <3>2
  <2> SUFFICES ASSUME NEW e \in Devices PROVE Once!(e)'
    BY DEF Once
  <2>5. CASE e = d
    BY <1>3, <2>2, <2>3, <2>4, <2>5 DEF Once
  <2>6. CASE e # d
    BY <1>3, <2>2, <2>3, <2>6 DEF Once
  <2>. QED  BY <2>5, <2>6
<1>. QED  BY <1>4, <1>5

\* The connection has taken a packet: Connect is due if it was the answer "OK".
LEMMA HearOnce ==
  ASSUME Inv, Once, NEW d \in Devices, NEW packet, Hears(d, packet),
         NEW r, conn' = [conn EXCEPT ![d] = r], UNCHANGED <<tunnel, told>>,
         r.inbox = Tail(conn[d].inbox),
         r.listener = conn[d].listener \/ (packet = "OK" /\ r.listener = "connected"),
         \A s \in Senders \ {d} : out'[s] = out[s],
         \/ out'[d] = out[d]
         \/ out'[d].kind = "ConnectAck" /\ packet # "OK" /\ tunnel[d] = "greeted"
  PROVE  Once'
<1>1. conn \in [Devices -> Connections] /\ conn[d].inbox \in Seq(Packets)
  BY DEF Inv, Types, Connections
<1>2. /\ conn[d].inbox # <<>> /\ conn[d].inbox[1] = packet /\ 1 \in 1..Len(conn[d].inbox)
      /\ conn[d].listener = "receiving" /\ out[d] = Nothing
  BY <1>1 DEF Hears
<1>3. conn'[d] = r /\ \A e \in Devices \ {d} : conn'[e] = conn[e] /\ out'[e] = out[e]
  BY <1>1 DEF Senders
<1>4. \A i \in 1..Len(r.inbox) : r.inbox[i] # "OK"
  <2>1. \A i \in 1..Len(r.inbox) : i + 1 \in 1..Len(conn[d].inbox) /\ i + 1 # 1
                                 /\ r.inbox[i] = conn[d].inbox[i + 1]
    BY <1>1, <1>2
  <2>. QED  BY <2>1 DEF Once
<1>5. packet = "OK" => tunnel[d] \in Opened /\ told[d] = 0 /\ out[d] = Nothing
  BY <1>2 DEF Inv, Granted, Once
<1>6. tunnel[d] \notin {"none", "asked"}
  BY <1>2 DEF Once
<1>7. r.listener = "connected" => tunnel[d] \in Opened /\ told[d] = 0 /\ out'[d] = Nothing
  BY <1>2, <1>5
<1>8. out'[d] # Nothing => tunnel[d] \in Opened
  BY <1>2
<1>9. out'[d].kind = "ConnectAck" => tunnel[d] = "greeted"
  BY <1>2 DEF Nothing
<1> SUFFICES ASSUME NEW e \in Devices PROVE Once!(e)'
  BY DEF Once
<1>10. CASE e = d
  <2>1. told'[d] <= 1 /\ (told'[d] > 0 => tunnel'[d] \in Opened)
    BY DEF Once
  <2>2. \A i \in 1..Len(conn'[d].inbox) : conn'[d].inbox[i] # "OK"
    BY <1>3, <1>4
  <2>3. conn'[d].listener = "connected" =>
          tunnel'[d] \in Opened /\ told'[d] = 0 /\ out'[d] = Nothing
    BY <1>3, <1>7
  <2>. QED  BY <1>6, <1>8, <1>9, <1>10, <2>1, <2>2, <2>3
<1>11. CASE e # d
  BY <1>3, <1>11 DEF Once
<1>. QED  BY <1>10, <1>11

LEMMA HearingOnce ==
  ASSUME Inv, Once, NEW d \in Devices,
         HearOK(d) \/ HearRefused(d) \/ HearRequest(d) \/ HearConnectAck(d)
  PROVE  Once'
<1>1. conn \in [Devices -> Connections] /\ conn[d] \in Connections
  BY DEF Inv, Types
<1>2. UNCHANGED <<tunnel, out, told>>
  BY DEF HearOK, HearRefused, HearRequest, HearConnectAck
<1>3. CASE HearOK(d)
  <2> DEFINE r == [conn[d] EXCEPT !.status = "CONNECTED", !.listener = "connected",
                                  !.inbox = Tail(@)]
  <2>1. r.inbox = Tail(conn[d].inbox) /\ r.listener = "connected"
    BY <1>1 DEF Connections
  <2>2. Hears(d, "OK") /\ conn' = [conn EXCEPT ![d] = r]
    BY <1>3 DEF HearOK
  <2> HIDE DEF r
  <2>. QED  BY <1>2, <2>1, <2>2, HearOnce
<1>4. CASE HearRefused(d)
  <2> DEFINE r == [conn[d] EXCEPT !.status = "WANTING_CONNECTION", !.inbox = Tail(@)]
  <2>1. r.inbox = Tail(conn[d].inbox) /\ r.listener = conn[d].listener
    BY <1>1 DEF Connections
  <2>2. Hears(d, "Refused") /\ conn' = [conn EXCEPT ![d] = r]
    BY <1>4 DEF HearRefused
  <2> HIDE DEF r
  <2>. QED  BY <1>2, <2>1, <2>2, HearOnce
<1>5. CASE HearRequest(d)
  <2> DEFINE r == [conn[d] EXCEPT !.inbox = Tail(@)]
  <2>1. r.inbox = Tail(conn[d].inbox) /\ r.listener = conn[d].listener
    BY <1>1 DEF Connections
  <2>2. Hears(d, "Request") /\ conn' = [conn EXCEPT ![d] = r]
    BY <1>5 DEF HearRequest
  <2> HIDE DEF r
  <2>. QED  BY <1>2, <2>1, <2>2, HearOnce
<1>6. CASE HearConnectAck(d)
  <2> DEFINE r == [conn[d] EXCEPT !.name = Peer[d], !.inbox = Tail(@)]
  <2>1. r.inbox = Tail(conn[d].inbox) /\ r.listener = conn[d].listener
    BY <1>1 DEF Connections
  <2>2. Hears(d, "ConnectAck") /\ conn' = [conn EXCEPT ![d] = r]
    BY <1>6 DEF HearConnectAck
  <2> HIDE DEF r
  <2>. QED  BY <1>2, <2>1, <2>2, HearOnce
<1>. QED  BY <1>3, <1>4, <1>5, <1>6

\* handleConnect(): its peer has greeted, wherever the answer goes.
LEMMA HearConnectOnce ==
  ASSUME Inv, Once, Introduced, NEW d \in Devices, HearConnect(d)
  PROVE  Once'
<1> DEFINE r == [conn[d] EXCEPT !.name = Peer[d], !.inbox = Tail(@)]
<1>1. conn \in [Devices -> Connections] /\ conn[d] \in Connections
  BY DEF Inv, Types
<1>2. r.inbox = Tail(conn[d].inbox) /\ r.listener = conn[d].listener
  BY <1>1 DEF Connections
<1>3. Hears(d, "Connect") /\ conn' = [conn EXCEPT ![d] = r] /\ UNCHANGED <<tunnel, told>>
  BY DEF HearConnect
<1>4. tunnel[d] = "greeted"
  <2>1. conn[d].inbox \in Seq(Packets) /\ conn[d].inbox # <<>> /\ conn[d].inbox[1] = "Connect"
    BY <1>1, <1>3 DEF Hears, Connections
  <2>2. 1 \in 1..Len(conn[d].inbox)
    BY <2>1
  <2>. QED  BY <2>1, <2>2 DEF Introduced, Greetings
<1> HIDE DEF r
<1>5. \A s \in Senders \ {d} : out'[s] = out[s]
  BY DEF HearConnect, Begin, Inv, Types
<1>6. out'[d] = out[d] \/ out'[d].kind = "ConnectAck"
  BY DEF HearConnect, Begin, Inv, Types, Senders
<1>7. "Connect" # "OK" /\ UNCHANGED <<tunnel, told>>
  BY <1>3
<1>. QED  BY <1>2, <1>3, <1>4, <1>5, <1>6, <1>7, HearOnce

\* The steps of send(), and those of publish() and subscribe(), say nothing new.
LEMMA SendingOnce ==
  ASSUME Inv, Once, Send \/ \E s \in Senders : Lock(s) \/ Write(s)
  PROVE  Once'
<1>1. UNCHANGED <<tunnel, conn, told>>
  BY DEF Send, Lock, Write
<1>2. \A e \in Devices : out'[e] \in {out[e], Nothing}
  <2>1. out \in [Senders -> [kind : Kinds, to : Devices] \cup {Nothing}]
        /\ Publisher \notin Devices /\ Devices \subseteq Senders
    BY DeviceAssumption DEF Inv, Types, Senders
  <2>. QED  BY <2>1 DEF Send, Begin, Lock, Write
<1>. QED  BY <1>1, <1>2, StillOnce

LEMMA OnceStep ==
  ASSUME Inv, HistoryTypes, Once, Introduced, [Next]_vars
  PROVE  Once'
<1>1. Types
  BY DEF Inv
<1>2. ASSUME NEW d \in Devices, Silent(d) PROVE Once'
  BY <1>1, <1>2, SilentOnce, ConnectedOnce
<1>3. ASSUME NEW d \in Devices,
             \/ Plug(d) \/ Unplug(d) \/ Answer(d) \/ Hurry(d) \/ Greet(d)
             \/ CreateDevice(d) \/ Create(d) \/ RemoveDevice(d) \/ Listen(d)
      PROVE  Once'
  BY <1>2, <1>3, TunnelOnce, HearingOnce, HearConnectOnce DEF Create, Listen, Silent
<1>4. ASSUME NEW t \in Threads, NEW d \in Devices, Disconnect(t, d)
      PROVE  Once'
  <2>1. /\ UNCHANGED <<tunnel, out, told>>
        /\ \A e \in Devices : conn'[e].inbox = conn[e].inbox
        /\ \A e \in Devices : conn'[e].listener \in {conn[e].listener, "joined"}
    BY <1>1, <1>4, DisconnectKeeps
  <2>2. \A e \in Devices : conn'[e].listener = "connected" => conn[e].listener = "connected"
    BY <2>1
  <2>. QED  BY <2>1, <2>2, StillOnce
<1>5. CASE \/ \E n \in Names \cup {NoName} : DisconnectClient(n)
           \/ Stop \/ StopNext \/ UNCHANGED vars
  BY <1>5, StillOnce DEF DisconnectClient, Stop, StopNext, vars
<1>6. CASE Send \/ \E s \in Senders : Lock(s) \/ Write(s)
  BY <1>6, SendingOnce
<1>. QED  BY <1>3, <1>4, <1>5, <1>6 DEF Next

(***************************************************************************)
(* A listening thread says Connect at most once, and neither Connect nor   *)
(* ConnectAck before its own tunnel is open, ConnectAck only after its     *)
(* peer has greeted, whatever the hub's thread, the publisher's and those  *)
(* that close the connection do at the same time, and whatever device the  *)
(* argument of createDevice() that is gone leads to                        *)
(* (connection.cpp:139-147, usbhub.cpp:31, client_dispatcher.cpp:98-104).  *)
(***************************************************************************)
THEOREM TunnelBeforeConnect == Spec => []ConnectAfterTunnel
<1>1. Init => Once
  BY DEF Init, Once, Nothing, Senders
<1>2. Inv /\ HistoryTypes /\ Introduced /\ Once /\ [Next]_vars => Once'
  BY OnceStep
<1>3. Once => ConnectAfterTunnel
  BY DEF Once, ConnectAfterTunnel
<1>. QED  BY <1>1, <1>2, <1>3, Invariance, Introduction, PTL DEF Spec

-----------------------------------------------------------------------------
(* The session of a device *)

Reads(d) == conn[d].listener \in {"receiving", "connected"}

LEMMA OnlyAt ==
  ASSUME Types, NEW t \in Threads, NEW place, thread' = [thread EXCEPT ![t].at = place]
  PROVE  /\ thread'[t].at = place /\ thread'[t].on = thread[t].on
         /\ \A u \in Threads \ {t} : thread'[u] = thread[u]
<1>1. thread \in [Threads -> Places] /\ thread[t] \in Places
  BY DEF Types
<1>. QED  BY <1>1 DEF Places

\* Only a device that has an entry is disconnected.
Attached ==
  \A t \in Threads, d \in Devices :
    thread[t].at \in Closing /\ thread[t].on = d => conn[d].status # "none"

\* Where a thread is that has looked at the status it closes.
Ending == {"abort", "shutdown", "join", "close", "idle"}

Opens(d) == thread["hub"].on = d /\ thread["hub"].at \in Opening

\* A socket is there before the thread that reads from it, and until that has been
\* joined; createDevice() opens one for a device that has none and that nobody closes,
\* and a thread that joins or closes has seen the shutdown.
Sound(d) ==
  /\ conn[d].status = "none" => conn[d].sock = "none"
  /\ conn[d].sock = "none" => conn[d].listener = "none"
  /\ conn[d].listener = "none" => conn[d].sock \in {"none", "open"}
  /\ conn[d].listener = "none" /\ conn[d].sock = "open" =>
       thread["hub"].on = d /\ thread["hub"].at = "listen"
  /\ tunnel[d] # "none" => conn[d].listener # "none"
  /\ conn[d].sock = "closed" => conn[d].listener = "joined"
  /\ thread["hub"].on = d =>
       /\ thread["hub"].at \in {"start", "connect", "open"} => conn[d].sock = "none"
       /\ thread["hub"].at = "listen" => conn[d].sock = "open" /\ conn[d].listener = "none"
       /\ thread["hub"].at = "request" => conn[d].listener # "none"
  /\ \A t \in Threads : thread[t].on = d =>
       /\ thread[t].at \in Ending => ~Opens(d)
       /\ thread[t].at \in {"join", "close"} => conn[d].sock \in {"shut", "closed"}
       /\ thread[t].at = "close" => conn[d].listener = "joined"

InSession == \A d \in Devices \ overtaken : Sound(d)

SessionStep == [Session!Next]_(Session!vars)

\* What the session shows of a device.
Socket(d) == IF d \in overtaken THEN "lost"
             ELSE IF conn[d].sock = "open" /\ conn[d].listener = "none" THEN "fresh"
             ELSE conn[d].sock
Sockets == [d \in Devices |-> Socket(d)]
Readers == {d \in Devices \ overtaken : Reads(d)}
Grants  == {d \in Devices \ overtaken : tunnel[d] \in Opened}

\* Where a thread is about to open, to ask through or to close a socket.
Weighty == Early \cup Ending

\* A step of one device.
HereOnly(d) ==
  /\ \A e \in Devices \ {d} : conn'[e] = conn[e] /\ tunnel'[e] = tunnel[e]
  /\ \A t \in Threads :
       thread'[t] = thread[t] \/ thread'[t].on = d \/ thread'[t].at \notin Weighty
  /\ thread["hub"].at = "listen" => thread'["hub"] = thread["hub"] \/ thread["hub"].on = d

\* The steps that neither open nor close anything, but for what is lost.
Quiet ==
  /\ overtaken' = overtaken
  /\ \A e \in Devices \ overtaken :
       /\ conn'[e].sock = conn[e].sock
       /\ conn'[e].listener = conn[e].listener \/ (Reads(e) /\ Reads(e)')
       /\ conn'[e].status = "none" => conn[e].status = "none"
       /\ tunnel'[e] # "none" => tunnel[e] # "none" \/ conn[e].listener # "none"
       /\ tunnel'[e] \in Opened <=> tunnel[e] \in Opened
  /\ \A t \in Threads :
       \/ thread'[t] = thread[t]
       \/ thread'[t].on \in overtaken
       \/ thread'[t].at \notin Weighty
       \/ /\ thread'[t].on = thread[t].on
          /\ \/ thread[t].at = "start" /\ thread'[t].at = "connect"
             \/ thread[t].at = "connect" /\ thread'[t].at = "open"
             \/ /\ thread[t].at = "test" /\ thread'[t].at \in {"abort", "idle"}
                /\ ~Opens(thread[t].on)
             \/ thread[t].at = "abort" /\ thread'[t].at = "shutdown"
             \/ thread[t].at = "shutdown" /\ thread'[t].at = "idle"
  /\ thread["hub"].at = "listen" =>
       thread'["hub"] = thread["hub"] \/ thread["hub"].on \in overtaken

LEMMA QuietSession ==
  ASSUME InSession, Quiet
  PROVE  InSession' /\ SessionStep
<1>1. InSession'
  <2> SUFFICES ASSUME NEW d \in Devices \ overtaken
               PROVE  Sound(d)'
    BY DEF InSession, Quiet
  <2>1. Sound(d)
    BY DEF InSession
  <2>2. /\ conn'[d].sock = conn[d].sock
        /\ conn'[d].listener = conn[d].listener \/ (Reads(d) /\ Reads(d)')
        /\ conn'[d].status = "none" => conn[d].status = "none"
        /\ tunnel'[d] # "none" => tunnel[d] # "none" \/ conn[d].listener # "none"
    BY DEF Quiet
  <2>3. /\ conn'[d].status = "none" => conn'[d].sock = "none"
        /\ conn'[d].sock = "none" => conn'[d].listener = "none"
        /\ conn'[d].listener = "none" => conn'[d].sock \in {"none", "open"}
        /\ tunnel'[d] # "none" => conn'[d].listener # "none"
        /\ conn'[d].sock = "closed" => conn'[d].listener = "joined"
    BY <2>1, <2>2 DEF Sound, Reads
  <2>4. conn'[d].listener = "none" <=> conn[d].listener = "none"
    BY <2>2 DEF Reads
  <2>5. conn'[d].listener = "none" /\ conn'[d].sock = "open" =>
          thread'["hub"].on = d /\ thread'["hub"].at = "listen"
    BY <2>1, <2>2, <2>4 DEF Sound, Quiet
  <2>6. thread'["hub"].on = d =>
          /\ thread'["hub"].at \in {"start", "connect", "open"} => conn'[d].sock = "none"
          /\ thread'["hub"].at = "listen" => conn'[d].sock = "open" /\ conn'[d].listener = "none"
          /\ thread'["hub"].at = "request" => conn'[d].listener # "none"
    BY <2>1, <2>2, <2>4 DEF Sound, Quiet, Weighty
  <2>7. Opens(d)' => Opens(d)
    BY DEF Quiet, Weighty, Opens
  <2>8. ASSUME NEW t \in Threads, thread'[t].on = d
        PROVE  /\ thread'[t].at \in Ending => ~Opens(d)'
               /\ thread'[t].at \in {"join", "close"} => conn'[d].sock \in {"shut", "closed"}
               /\ thread'[t].at = "close" => conn'[d].listener = "joined"
    <3>1. thread'[t].at \in {"join", "close"} => thread'[t] = thread[t]
      BY <2>8 DEF Quiet, Weighty, Ending
    <3>2. thread'[t].at \in Ending => ~Opens(d)
      BY <2>1, <2>8 DEF Quiet, Weighty, Ending, Sound
    <3>. QED  BY <2>1, <2>2, <2>7, <2>8, <3>1, <3>2 DEF Sound, Reads
  <2>9. \A t \in Threads : thread'[t].on = d =>
          /\ thread'[t].at \in Ending => ~Opens(d)'
          /\ thread'[t].at \in {"join", "close"} => conn'[d].sock \in {"shut", "closed"}
          /\ thread'[t].at = "close" => conn'[d].listener = "joined"
    BY <2>8
  <2>. QED  BY <2>3, <2>5, <2>6, <2>9 DEF Sound
<1>2. UNCHANGED Session!vars
  <2>1. \A e \in Devices : Socket(e)' = Socket(e)
    BY DEF Quiet, Socket, Reads
  <2>2. Sockets' = Sockets
    BY <2>1 DEF Sockets
  <2>3. Readers' = Readers
    BY DEF Quiet, Readers, Reads
  <2>4. Grants' = Grants
    BY DEF Quiet, Grants
  <2>. QED  BY <2>2, <2>3, <2>4 DEF Session!vars, Sockets, Socket, Readers, Grants, Reads
<1>. QED  BY <1>1, <1>2 DEF SessionStep

\* What happens to a session that is lost shows nowhere.
LEMMA LostQuiet ==
  ASSUME NEW d \in Devices, d \in overtaken, overtaken' = overtaken, HereOnly(d)
  PROVE  Quiet
BY DEF HereOnly, Quiet

\* A step of one device keeps the others as they are.
LEMMA Elsewhere ==
  ASSUME InSession, NEW d \in Devices, HereOnly(d), overtaken \subseteq overtaken'
  PROVE  \A e \in Devices \ (overtaken' \cup {d}) : Sound(e)'
<1> SUFFICES ASSUME NEW e \in Devices \ (overtaken' \cup {d})
             PROVE  Sound(e)'
  OBVIOUS
<1>1. Sound(e) /\ conn'[e] = conn[e] /\ tunnel'[e] = tunnel[e]
  BY DEF InSession, HereOnly
<1>2. \A t \in Threads : thread'[t].on = e /\ thread'[t].at \in Weighty => thread'[t] = thread[t]
  BY DEF HereOnly
<1>3. thread["hub"].at = "listen" /\ thread["hub"].on = e => thread'["hub"] = thread["hub"]
  BY DEF HereOnly
<1>4. Opens(e)' => Opens(e)
  BY <1>2 DEF Opens, Weighty
<1>. QED  BY <1>1, <1>2, <1>3, <1>4 DEF Sound, Weighty, Ending

LEMMA SocketsBut ==
  ASSUME NEW d \in Devices, HereOnly(d), overtaken' = overtaken
  PROVE  /\ Sockets' = [Sockets EXCEPT ![d] = Socket(d)']
         /\ \A e \in Devices \ {d} : (e \in Readers' <=> e \in Readers) /\ (e \in Grants' <=> e \in Grants)
<1>1. \A e \in Devices \ {d} : Socket(e)' = Socket(e)
  BY DEF HereOnly, Socket
<1>2. Sockets' = [Sockets EXCEPT ![d] = Socket(d)']
  BY <1>1 DEF Sockets
<1>3. \A e \in Devices \ {d} : (e \in Readers' <=> e \in Readers) /\ (e \in Grants' <=> e \in Grants)
  BY DEF HereOnly, Readers, Grants, Reads
<1>. QED  BY <1>2, <1>3

LEMMA SoundHere ==
  ASSUME InSession, NEW d \in Devices, HereOnly(d), overtaken' = overtaken, Sound(d)'
  PROVE  InSession'
BY Elsewhere DEF InSession

\* The hub, usbmuxd, a connection's listening thread and a disconnect() have one device
\* in hand.
LEMMA Here ==
  ASSUME Types, NEW d \in Devices,
         \/ Answer(d) \/ Hurry(d) \/ Greet(d) \/ CreateDevice(d) \/ Create(d) \/ Listen(d)
         \/ \E t \in Threads : Disconnect(t, d)
  PROVE  HereOnly(d)
<1>1. conn \in [Devices -> Connections] /\ thread \in [Threads -> Places]
      /\ tunnel \in [Devices -> {"none", "asked", "refused", "open", "greeted"}]
  BY DEF Types
<1>2. CASE Answer(d) \/ Hurry(d) \/ Greet(d)
  BY <1>1, <1>2 DEF Answer, Hurry, Greet, HereOnly
<1>3. CASE Listen(d)
  BY <1>1, <1>3
  DEF Listen, HearOK, Connected, HearRefused, HearRequest, HearConnectAck, HearConnect,
      HearEnd, HearBadDescriptor, HereOnly
<1>4. CASE CreateDevice(d) \/ Create(d)
  <2>1. \A e \in Devices \ {d} : conn'[e] = conn[e] /\ tunnel'[e] = tunnel[e]
    BY <1>1, <1>4 DEF CreateDevice, Create, StartConnection, Connect, Open, StartListening,
       RequestTunnel, Mark, Wire, Announce
  <2>2. \A t \in Threads \ {"hub"} : thread'[t] = thread[t]
    BY <1>1, <1>4 DEF CreateDevice, Create, StartConnection, Connect, Open, StartListening,
       RequestTunnel, Mark, Wire, Announce, Goto
  <2>3. thread["hub"].at = "listen" => thread["hub"].on = d
    BY <1>4 DEF CreateDevice, Create, StartConnection, Connect, Open, StartListening,
       RequestTunnel, Mark, Wire, Announce
  <2>4. thread'["hub"].on = d \/ thread'["hub"].at = "wait"
    <3>1. CASE CreateDevice(d) \/ Announce(d)
      BY <1>1, <3>1 DEF CreateDevice, Announce
    <3>2. CASE Create(d) /\ ~Announce(d)
      BY <1>1, <3>2 DEF Create, StartConnection, Connect, Open, StartListening,
         RequestTunnel, Mark, Wire, Goto, Places
    <3>. QED  BY <1>4, <3>1, <3>2
  <2>. QED  BY <2>1, <2>2, <2>3, <2>4 DEF HereOnly, Weighty, Ending
<1>5. ASSUME NEW t \in Threads, Disconnect(t, d) PROVE HereOnly(d)
  <2>1. \A e \in Devices \ {d} : conn'[e] = conn[e] /\ tunnel'[e] = tunnel[e]
    BY <1>1, <1>5 DEF Disconnect, DisconnectTest, DisconnectAbort, DisconnectShutdown,
       DisconnectJoin, DisconnectClose, DisconnectIdle
  <2>2. \A u \in Threads \ {t} : thread'[u] = thread[u]
    BY <1>1, <1>5 DEF Disconnect, DisconnectTest, DisconnectAbort, DisconnectShutdown,
       DisconnectJoin, DisconnectClose, DisconnectIdle, Leave, Goto
  <2>3. thread[t].on = d
    <3>1. \E at : thread[t] = [at |-> at, on |-> d]
      BY <1>5, Zenon DEF Disconnect, DisconnectTest, DisconnectAbort, DisconnectShutdown,
         DisconnectJoin, DisconnectClose, DisconnectIdle
    <3>. QED  BY <3>1
  <2>4. thread'[t].on = d \/ thread'[t].at \in {"next", "wait"}
    <3>1. CASE DisconnectIdle(t, d)
      BY <1>1, <3>1 DEF DisconnectIdle, Leave, Places
    <3>2. CASE ~DisconnectIdle(t, d)
      <4>1. \E place : thread' = [thread EXCEPT ![t].at = place]
        BY <1>5, <3>2, Zenon DEF Disconnect, DisconnectTest, DisconnectAbort,
           DisconnectShutdown, DisconnectJoin, DisconnectClose, Goto
      <4>. QED  BY <2>3, <4>1, OnlyAt
    <3>. QED  BY <3>1, <3>2
  <2>. QED  BY <2>1, <2>2, <2>3, <2>4 DEF HereOnly, Weighty, Ending
<1>. QED  BY <1>2, <1>3, <1>4, <1>5

LEMMA CreateDeviceSession ==
  ASSUME Types, Attached, InSession, NEW d \in Devices \ overtaken, CreateDevice(d)
  PROVE  InSession' /\ SessionStep
<1>1. /\ conn[d].status = "none" /\ overtaken' = overtaken /\ tunnel' = tunnel
      /\ conn' = [conn EXCEPT ![d].status = "IDLE"]
  BY DEF CreateDevice, Entries
<1>2. /\ thread'["hub"] = [at |-> "start", on |-> d]
      /\ \A u \in Threads \ {"hub"} : thread'[u] = thread[u]
  BY DEF CreateDevice, Types
<1>3. /\ conn'[d].status = "IDLE"
      /\ \A e \in Devices : conn'[e].sock = conn[e].sock /\ conn'[e].listener = conn[e].listener
  BY <1>1, OnlyStatus
<1>4. Sound(d) /\ conn[d].sock = "none"
  BY <1>1 DEF InSession, Sound
<1>5. \A t \in Threads : thread'[t].on = d => thread'[t].at \notin Ending
  BY <1>1, <1>2 DEF Attached, Ending
<1>6. Sound(d)'
  BY <1>1, <1>2, <1>3, <1>4, <1>5 DEF Sound, Ending
<1>7. InSession'
  BY <1>1, <1>6, Here, SoundHere
<1>8. UNCHANGED Session!vars
  BY <1>1, <1>3 DEF Session!vars
<1>. QED  BY <1>7, <1>8 DEF SessionStep

\* A socket is opened only where there was none.
LEMMA OpenSession ==
  ASSUME Inv, InSession, NEW d \in Devices \ overtaken, Open(d)
  PROVE  InSession' /\ SessionStep
<1>1. /\ thread["hub"] = [at |-> "open", on |-> d] /\ UNCHANGED <<tunnel, overtaken>>
      /\ thread' = [thread EXCEPT !["hub"].at = "listen"]
      /\ conn' = [conn EXCEPT ![d].sock = "open"]
  BY DEF Open, Goto
<1>2. Types
  BY DEF Inv
<1>3. /\ thread'["hub"].at = "listen" /\ thread'["hub"].on = thread["hub"].on
      /\ \A u \in Threads \ {"hub"} : thread'[u] = thread[u]
  BY <1>1, <1>2, OnlyAt
<1>4. /\ conn'[d].sock = "open" /\ conn'[d].status = conn[d].status
      /\ conn'[d].listener = conn[d].listener
  BY <1>1, <1>2, OnlySock
<1>5. Sound(d) /\ conn[d].sock = "none" /\ conn[d].listener = "none" /\ Opens(d)
  BY <1>1 DEF InSession, Sound, Opens
<1>6. HereOnly(d)
  BY <1>2, Here DEF Create
<1>7. conn[d].status # "none"
  BY <1>1 DEF Inv, Unasked
<1>8. \A t \in Threads : thread'[t].on = d => thread'[t].at \notin Ending
  BY <1>3, <1>5 DEF Sound, Ending
<1>9. Sound(d)'
  BY <1>1, <1>3, <1>4, <1>5, <1>7, <1>8 DEF Sound, Ending
<1>10. InSession'
  BY <1>1, <1>6, <1>9, SoundHere
<1>11. Session!Open(d)
  <2>1. Socket(d) = "none" /\ Socket(d)' = "fresh"
    BY <1>1, <1>4, <1>5 DEF Socket
  <2>2. Sockets[d] = "none" /\ Sockets' = [Sockets EXCEPT ![d] = "fresh"]
    BY <1>1, <1>6, <2>1, SocketsBut DEF Sockets
  <2>3. Readers' = Readers /\ Grants' = Grants
    BY <1>1, <1>4, <1>6 DEF HereOnly, Readers, Grants, Reads
  <2>. QED  BY <2>2, <2>3 DEF Session!Open, Sockets, Socket, Readers, Grants, Reads
<1>. QED  BY <1>10, <1>11 DEF SessionStep, Session!Next

\* The thread reads from a socket that is there.
LEMMA StartListeningSession ==
  ASSUME Types, InSession, NEW d \in Devices \ overtaken, StartListening(d)
  PROVE  InSession' /\ SessionStep
<1>1. /\ thread["hub"] = [at |-> "listen", on |-> d] /\ UNCHANGED <<tunnel, overtaken>>
      /\ thread' = [thread EXCEPT !["hub"].at = "request"]
      /\ conn' = [conn EXCEPT ![d].listener = "receiving"]
  BY DEF StartListening, Goto
<1>2. /\ thread'["hub"].at = "request" /\ thread'["hub"].on = thread["hub"].on
      /\ \A u \in Threads \ {"hub"} : thread'[u] = thread[u]
  BY <1>1, OnlyAt
<1>3. /\ conn'[d].listener = "receiving" /\ conn'[d].status = conn[d].status
      /\ conn'[d].sock = conn[d].sock
  BY <1>1, OnlyListener
<1>4. Sound(d) /\ conn[d].sock = "open" /\ conn[d].listener = "none" /\ Opens(d)
  BY <1>1 DEF InSession, Sound, Opens
<1>5. HereOnly(d)
  BY Here DEF Create
<1>6. \A t \in Threads : thread'[t].on = d => thread'[t].at \notin Ending
  BY <1>2, <1>4 DEF Sound, Ending
<1>7. Sound(d)'
  BY <1>1, <1>2, <1>3, <1>4, <1>6 DEF Sound, Ending
<1>8. InSession'
  BY <1>1, <1>5, <1>7, SoundHere
<1>9. Session!StartReading(d)
  <2>1. Socket(d) = "fresh" /\ Socket(d)' = "open"
    BY <1>1, <1>3, <1>4 DEF Socket
  <2>2. Sockets[d] = "fresh" /\ Sockets' = [Sockets EXCEPT ![d] = "open"]
    BY <1>1, <1>5, <2>1, SocketsBut DEF Sockets
  <2>3. Readers' = Readers \cup {d} /\ Grants' = Grants
    BY <1>1, <1>3, <1>5 DEF HereOnly, Readers, Grants, Reads
  <2>. QED  BY <2>2, <2>3 DEF Session!StartReading, Sockets, Socket, Readers, Grants, Reads
<1>. QED  BY <1>8, <1>9 DEF SessionStep, Session!Next

\* usbmuxd answers to a socket from which a thread has begun to read.
LEMMA AnswerSession ==
  ASSUME Types, InSession, NEW d \in Devices \ overtaken, Answer(d)
  PROVE  InSession' /\ SessionStep
<1>1. conn \in [Devices -> Connections] /\ conn[d] \in Connections
  BY DEF Types
<1>2. PICK answer \in {"open", "refused"} :
        /\ tunnel[d] = "asked" /\ tunnel' = [tunnel EXCEPT ![d] = answer]
        /\ \E packet : conn' = [conn EXCEPT ![d].inbox = Append(@, packet)]
        /\ UNCHANGED <<thread, overtaken>>
  BY DEF Answer
<1>3. \A e \in Devices : /\ conn'[e].status = conn[e].status /\ conn'[e].sock = conn[e].sock
                         /\ conn'[e].listener = conn[e].listener
  BY <1>1, <1>2 DEF Connections
<1>4. tunnel'[d] = answer /\ \A e \in Devices \ {d} : tunnel'[e] = tunnel[e]
  BY <1>2 DEF Types
<1>5. Sound(d) /\ conn[d].listener # "none"
  BY <1>2 DEF InSession, Sound
<1>6. CASE answer = "open"
  <2>1. Sound(d)'
    BY <1>2, <1>3, <1>4, <1>5 DEF Sound, Opens
  <2>2. InSession'
    BY <1>2, <2>1, Here, SoundHere
  <2>3. conn[d].sock \in {"none", "open", "shut", "closed"}
    BY <1>1 DEF Connections
  <2>4. Socket(d) \in {"open", "shut", "closed"}
    BY <1>5, <2>3 DEF Sound, Socket
  <2>5. Sockets[d] \in {"open", "shut", "closed"}
    BY <2>4 DEF Sockets
  <2>6. Sockets' = Sockets /\ Readers' = Readers
    BY <1>2, <1>3 DEF Sockets, Socket, Readers, Reads
  <2>7. d \notin Grants /\ Grants' = Grants \cup {d}
    BY <1>2, <1>4, <1>6 DEF Grants
  <2>8. Session!Grant(d)
    BY <2>5, <2>6, <2>7 DEF Session!Grant, Sockets, Socket, Readers, Grants, Reads
  <2>. QED  BY <2>2, <2>8 DEF SessionStep, Session!Next
<1>7. CASE answer = "refused"
  <2>1. Quiet
    BY <1>2, <1>3, <1>4, <1>7 DEF Quiet
  <2>. QED  BY <2>1, QuietSession
<1>. QED  BY <1>6, <1>7

\* A thread whose session is not lost never reads from a closed descriptor.
LEMMA HearEndSession ==
  ASSUME Types, InSession, NEW d \in Devices \ overtaken, HearEnd(d) \/ HearBadDescriptor(d)
  PROVE  InSession' /\ SessionStep
<1>1. Sound(d) /\ HearEnd(d)
  BY DEF InSession, Sound, HearBadDescriptor
<1>2. /\ conn[d].listener = "receiving" /\ conn' = [conn EXCEPT ![d].listener = "ended"]
      /\ UNCHANGED <<tunnel, thread, overtaken>> /\ conn[d].sock \in {"open", "shut"}
  BY <1>1 DEF HearEnd
<1>3. /\ conn'[d].listener = "ended" /\ \A e \in Devices \ {d} : conn'[e] = conn[e]
      /\ conn'[d].status = conn[d].status /\ conn'[d].sock = conn[d].sock
  BY <1>2, OnlyListener
<1>4. HereOnly(d)
  BY <1>1, Here DEF Listen
<1>5. Sound(d)'
  BY <1>1, <1>2, <1>3 DEF Sound, Opens
<1>6. InSession'
  BY <1>2, <1>4, <1>5, SoundHere
<1>7. Session!StopReading(d)
  <2>1. Sockets' = Sockets /\ Grants' = Grants
    BY <1>2, <1>3 DEF Sockets, Socket, Grants
  <2>2. d \in Readers /\ Readers' = Readers \ {d}
    BY <1>2, <1>3 DEF Readers, Reads
  <2>. QED  BY <2>1, <2>2 DEF Session!StopReading, Sockets, Socket, Readers, Grants, Reads
<1>. QED  BY <1>6, <1>7 DEF SessionStep, Session!Next

\* disconnect() of a connection that the hub is still opening: its session is lost,
\* before anybody has read from its socket.
LEMMA TestSession ==
  ASSUME Inv, InSession, NEW t \in Threads, NEW d \in Devices \ overtaken, DisconnectTest(t, d)
  PROVE  InSession' /\ SessionStep
<1>1. Types
  BY DEF Inv
<1>2. PICK place \in {"idle", "abort"} :
        /\ thread[t] = [at |-> "test", on |-> d] /\ UNCHANGED <<conn, tunnel>>
        /\ thread' = [thread EXCEPT ![t].at = place]
        /\ overtaken' = IF Opens(d) THEN overtaken \cup {d} ELSE overtaken
  BY DEF DisconnectTest, Goto, Opens
<1>3. /\ thread'[t].at = place /\ thread'[t].on = thread[t].on
      /\ \A u \in Threads \ {t} : thread'[u] = thread[u]
  BY <1>1, <1>2, OnlyAt
<1>4. CASE ~Opens(d)
  <2>1. thread[t].at = "test" /\ thread[t].on = d
    BY <1>2
  <2>2. Quiet
    BY <1>2, <1>3, <1>4, <2>1 DEF Quiet
  <2>. QED  BY <2>2, QuietSession
<1>5. CASE Opens(d)
  <2>1. HereOnly(d)
    BY <1>1, Here DEF Disconnect
  <2>2. InSession'
    BY <1>2, <1>5, <2>1, Elsewhere DEF InSession
  <2>3. Sound(d) /\ conn[d].listener = "none" /\ conn[d].sock \in {"none", "open"}
    BY <1>5 DEF InSession, Sound, Opens
  <2>4. tunnel[d] = "none"
    BY <1>5 DEF Inv, Unasked, Opens
  <2>5. Socket(d) \in {"none", "fresh"} /\ Socket(d)' = "lost"
    BY <1>2, <1>5, <2>3 DEF Socket
  <2>6. \A e \in Devices \ {d} : Socket(e)' = Socket(e)
    BY <1>2, <1>5 DEF Socket
  <2>7. Sockets[d] \in {"none", "fresh"} /\ Sockets' = [Sockets EXCEPT ![d] = "lost"]
    BY <2>5, <2>6 DEF Sockets
  <2>8. Readers' = Readers /\ Grants' = Grants
    BY <1>2, <1>5, <2>3, <2>4 DEF Readers, Grants, Reads
  <2>9. Session!Lose(d)
    BY <2>7, <2>8 DEF Session!Lose, Sockets, Socket, Readers, Grants, Reads
  <2>. QED  BY <2>2, <2>9 DEF SessionStep, Session!Next
<1>. QED  BY <1>4, <1>5

LEMMA ShutdownSession ==
  ASSUME Types, InSession, NEW t \in Threads, NEW d \in Devices \ overtaken,
         DisconnectShutdown(t, d)
  PROVE  InSession' /\ SessionStep
<1>1. /\ thread[t] = [at |-> "shutdown", on |-> d] /\ UNCHANGED <<tunnel, overtaken>>
  BY DEF DisconnectShutdown
<1>2. Sound(d) /\ ~Opens(d)
  BY <1>1 DEF InSession, Sound, Ending
<1>3. CASE /\ conn[d].sock \in {"open", "shut"} /\ conn' = [conn EXCEPT ![d].sock = "shut"]
           /\ thread' = [thread EXCEPT ![t].at = "join"]
  <2>1. /\ thread'[t].at = "join" /\ thread'[t].on = thread[t].on
        /\ \A u \in Threads \ {t} : thread'[u] = thread[u]
    BY <1>3, OnlyAt
  <2>2. /\ conn'[d].sock = "shut" /\ \A e \in Devices \ {d} : conn'[e] = conn[e]
        /\ conn'[d].status = conn[d].status /\ conn'[d].listener = conn[d].listener
    BY <1>3, OnlySock
  <2>3. conn[d].listener # "none"
    BY <1>2, <1>3 DEF Sound, Opens
  <2>4. ~Opens(d)'
    BY <1>2, <2>1 DEF Opens
  <2>5. thread[t].on = d
    BY <1>1
  <2>6. Sound(d)'
    BY <1>1, <1>2, <1>3, <2>1, <2>2, <2>3, <2>4, <2>5 DEF Sound, Opens
  <2>7. HereOnly(d)
    BY Here DEF Disconnect
  <2>8. InSession'
    BY <1>1, <2>6, <2>7, SoundHere
  <2>9. Socket(d) \in {"open", "shut"} /\ Socket(d)' = "shut"
    BY <1>1, <1>3, <2>2, <2>3 DEF Socket
  <2>10. Sockets[d] \in {"open", "shut"} /\ Sockets' = [Sockets EXCEPT ![d] = "shut"]
    BY <1>1, <2>7, <2>9, SocketsBut DEF Sockets
  <2>11. Readers' = Readers /\ Grants' = Grants
    BY <1>1, <2>2 DEF Readers, Grants, Reads
  <2>12. CASE Sockets[d] = "open"
    <3>1. Session!Shutdown(d)
      BY <2>10, <2>11, <2>12 DEF Session!Shutdown, Sockets, Socket, Readers, Grants, Reads
    <3>. QED  BY <2>8, <3>1 DEF SessionStep, Session!Next
  <2>13. CASE Sockets[d] = "shut"
    <3>1. Sockets' = Sockets
      BY <2>10, <2>13 DEF Sockets
    <3>2. UNCHANGED Session!vars
      BY <2>11, <3>1 DEF Session!vars, Sockets, Socket, Readers, Grants, Reads
    <3>. QED  BY <2>8, <3>2 DEF SessionStep
  <2>. QED  BY <2>10, <2>12, <2>13
<1>4. CASE conn' = conn /\ thread' = [thread EXCEPT ![t].at = "idle"]
  <2>1. /\ thread'[t].at = "idle" /\ thread'[t].on = thread[t].on
        /\ \A u \in Threads \ {t} : thread'[u] = thread[u]
    BY <1>4, OnlyAt
  <2>2. thread[t].at = "shutdown"
    BY <1>1
  <2>3. t = "hub" => thread["hub"].at # "listen"
    BY <2>2
  <2>4. Quiet
    BY <1>1, <1>4, <2>1, <2>2, <2>3 DEF Quiet
  <2>. QED  BY <2>4, QuietSession
<1>. QED  BY <1>3, <1>4 DEF DisconnectShutdown, Goto

LEMMA JoinSession ==
  ASSUME Types, InSession, NEW t \in Threads, NEW d \in Devices \ overtaken,
         DisconnectJoin(t, d)
  PROVE  InSession' /\ SessionStep
<1>1. /\ thread[t].at = "join" /\ thread[t].on = d /\ UNCHANGED <<tunnel, overtaken>>
      /\ thread' = [thread EXCEPT ![t].at = "close"]
      /\ conn[d].listener \in {"none", "ended", "joined"}
      /\ conn' = [conn EXCEPT ![d].listener = IF @ = "none" THEN @ ELSE "joined"]
  BY DEF DisconnectJoin, Goto
<1>2. Sound(d) /\ ~Opens(d) /\ conn[d].sock \in {"shut", "closed"} /\ conn[d].listener # "none"
  BY <1>1 DEF InSession, Sound, Ending
<1>3. /\ thread'[t].at = "close" /\ thread'[t].on = thread[t].on
      /\ \A u \in Threads \ {t} : thread'[u] = thread[u]
  BY <1>1, OnlyAt
<1>4. conn' = [conn EXCEPT ![d].listener = "joined"]
  BY <1>1, <1>2
<1>5. /\ conn'[d].listener = "joined" /\ \A e \in Devices \ {d} : conn'[e] = conn[e]
      /\ conn'[d].status = conn[d].status /\ conn'[d].sock = conn[d].sock
  BY <1>4, OnlyListener
<1>6. ~Opens(d)'
  BY <1>2, <1>3 DEF Opens
<1>7. Sound(d)'
  BY <1>1, <1>2, <1>3, <1>5, <1>6 DEF Sound, Opens
<1>8. InSession'
  BY <1>1, <1>7, Here, SoundHere DEF Disconnect
<1>9. Sockets' = Sockets /\ Readers' = Readers /\ Grants' = Grants
  BY <1>1, <1>2, <1>5 DEF Sockets, Socket, Readers, Grants, Reads
<1>10. UNCHANGED Session!vars
  BY <1>9 DEF Session!vars, Sockets, Socket, Readers, Grants, Reads
<1>. QED  BY <1>8, <1>10 DEF SessionStep

LEMMA CloseSession ==
  ASSUME Types, InSession, NEW t \in Threads, NEW d \in Devices \ overtaken,
         DisconnectClose(t, d)
  PROVE  InSession' /\ SessionStep
<1>1. /\ thread[t].at = "close" /\ thread[t].on = d /\ UNCHANGED <<tunnel, overtaken>>
      /\ thread' = [thread EXCEPT ![t].at = "idle"]
      /\ conn' = [conn EXCEPT ![d].sock = "closed"]
  BY DEF DisconnectClose, Goto
<1>2. Sound(d) /\ ~Opens(d) /\ conn[d].sock \in {"shut", "closed"} /\ conn[d].listener = "joined"
  BY <1>1 DEF InSession, Sound, Ending
<1>3. /\ thread'[t].at = "idle" /\ thread'[t].on = thread[t].on
      /\ \A u \in Threads \ {t} : thread'[u] = thread[u]
  BY <1>1, OnlyAt
<1>4. /\ conn'[d].sock = "closed" /\ \A e \in Devices \ {d} : conn'[e] = conn[e]
      /\ conn'[d].status = conn[d].status /\ conn'[d].listener = conn[d].listener
  BY <1>1, OnlySock
<1>5. ~Opens(d)'
  BY <1>2, <1>3 DEF Opens
<1>6. Sound(d)'
  BY <1>1, <1>2, <1>3, <1>4, <1>5 DEF Sound, Opens
<1>7. HereOnly(d)
  BY Here DEF Disconnect
<1>8. InSession'
  BY <1>1, <1>6, <1>7, SoundHere
<1>9. Socket(d) \in {"shut", "closed"} /\ Socket(d)' = "closed"
  BY <1>1, <1>2, <1>4 DEF Socket
<1>10. Sockets[d] \in {"shut", "closed"} /\ Sockets' = [Sockets EXCEPT ![d] = "closed"]
  BY <1>1, <1>7, <1>9, SocketsBut DEF Sockets
<1>11. d \notin Readers /\ Readers' = Readers /\ Grants' = Grants
  BY <1>1, <1>2, <1>4 DEF Readers, Grants, Reads
<1>12. CASE Sockets[d] = "shut"
  <2>1. Session!Close(d)
    BY <1>10, <1>11, <1>12 DEF Session!Close, Sockets, Socket, Readers, Grants, Reads
  <2>. QED  BY <1>8, <2>1 DEF SessionStep, Session!Next
<1>13. CASE Sockets[d] = "closed"
  <2>1. Sockets' = Sockets
    BY <1>10, <1>13 DEF Sockets
  <2>2. UNCHANGED Session!vars
    BY <1>11, <2>1 DEF Session!vars, Sockets, Socket, Readers, Grants, Reads
  <2>. QED  BY <1>8, <2>2 DEF SessionStep
<1>. QED  BY <1>10, <1>12, <1>13

\* disconnect(), while another thread may be closing the same connection: the
\* second of them finds the socket as the first has left it.
LEMMA DisconnectSession ==
  ASSUME Inv, InSession, NEW t \in Threads, NEW d \in Devices \ overtaken, Disconnect(t, d)
  PROVE  InSession' /\ SessionStep
<1>1. Types /\ thread \in [Threads -> Places]
  BY DEF Inv, Types
<1>2. CASE DisconnectAbort(t, d)
  <2>1. /\ thread[t] = [at |-> "abort", on |-> d] /\ UNCHANGED <<tunnel, overtaken>>
        /\ thread' = [thread EXCEPT ![t].at = "shutdown"]
        /\ conn' = [conn EXCEPT ![d].status = "CONNECTED"]
    BY <1>2 DEF DisconnectAbort, Goto
  <2>2. /\ thread'[t].at = "shutdown" /\ thread'[t].on = thread[t].on
        /\ \A u \in Threads \ {t} : thread'[u] = thread[u]
    BY <1>1, <2>1, OnlyAt
  <2>3. /\ conn'[d].status = "CONNECTED" /\ \A e \in Devices \ {d} : conn'[e] = conn[e]
        /\ conn'[d].sock = conn[d].sock /\ conn'[d].listener = conn[d].listener
    BY <1>1, <2>1, OnlyStatus
  <2>4. thread[t].at = "abort"
    BY <2>1
  <2>5. Quiet
    BY <2>1, <2>2, <2>3, <2>4 DEF Quiet
  <2>. QED  BY <2>5, QuietSession
<1>3. CASE DisconnectIdle(t, d)
  <2>1. /\ conn' = [conn EXCEPT ![d].status = "IDLE"] /\ UNCHANGED <<tunnel, overtaken>>
        /\ thread[t] = [at |-> "idle", on |-> d]
    BY <1>3 DEF DisconnectIdle
  <2>2. thread'[t].at \in {"next", "wait"} /\ \A u \in Threads \ {t} : thread'[u] = thread[u]
    BY <1>1, <1>3 DEF DisconnectIdle, Leave, Places
  <2>3. /\ conn'[d].status = "IDLE" /\ \A e \in Devices \ {d} : conn'[e] = conn[e]
        /\ conn'[d].sock = conn[d].sock /\ conn'[d].listener = conn[d].listener
    BY <1>1, <2>1, OnlyStatus
  <2>4. t = "hub" => thread["hub"].at # "listen"
    BY <2>1
  <2>5. Quiet
    BY <2>1, <2>2, <2>3, <2>4 DEF Quiet, Weighty, Ending
  <2>. QED  BY <2>5, QuietSession
<1>. QED
  BY <1>1, <1>2, <1>3, TestSession, ShutdownSession, JoinSession, CloseSession DEF Disconnect

\* What the hub does besides creating an entry and opening its socket.
LEMMA CreateQuiet ==
  ASSUME Inv, InSession, NEW d \in Devices \ overtaken,
         \/ StartConnection(d) \/ Connect(d) \/ RequestTunnel(d) \/ Mark(d) \/ Wire(d)
         \/ Announce(d)
  PROVE  Quiet
<1>1. Types /\ thread \in [Threads -> Places] /\ conn \in [Devices -> Connections]
  BY DEF Inv, Types
<1>2. CASE StartConnection(d) \/ Mark(d)
  <2>1. PICK place \in {"connect", "wire1"}, status \in {"WANTING_CONNECTION", "CONNECTING"} :
          /\ thread' = [thread EXCEPT !["hub"].at = place]
          /\ conn' = [conn EXCEPT ![d].status = status] /\ UNCHANGED <<tunnel, overtaken>>
          /\ place = "connect" => thread["hub"] = [at |-> "start", on |-> d]
          /\ thread["hub"].at # "listen"
    BY <1>2 DEF StartConnection, Mark, Goto
  <2>2. /\ thread'["hub"].at = place /\ thread'["hub"].on = thread["hub"].on
        /\ \A u \in Threads \ {"hub"} : thread'[u] = thread[u]
    BY <1>1, <2>1, OnlyAt
  <2>3. /\ conn'[d].status = status /\ \A e \in Devices \ {d} : conn'[e] = conn[e]
        /\ conn'[d].sock = conn[d].sock /\ conn'[d].listener = conn[d].listener
    BY <1>1, <2>1, OnlyStatus
  <2>4. place = "connect" => thread["hub"].at = "start"
    BY <2>1
  <2>. QED  BY <2>1, <2>2, <2>3, <2>4 DEF Quiet, Weighty, Ending
<1>3. CASE RequestTunnel(d)
  <2>1. /\ thread["hub"] = [at |-> "request", on |-> d] /\ UNCHANGED <<conn, overtaken>>
        /\ thread' = [thread EXCEPT !["hub"].at = "mark"]
        /\ tunnel' = [tunnel EXCEPT ![d] = "asked"] \/ tunnel' = tunnel
    BY <1>3 DEF RequestTunnel, Goto
  <2>2. /\ thread'["hub"].at = "mark" /\ \A u \in Threads \ {"hub"} : thread'[u] = thread[u]
    BY <1>1, <2>1, OnlyAt
  <2>3. tunnel[d] = "none" /\ conn[d].listener # "none" /\ thread["hub"].at # "listen"
    BY <2>1 DEF Inv, Unasked, InSession, Sound
  <2>4. \A e \in Devices : /\ tunnel'[e] # "none" => tunnel[e] # "none" \/ conn[e].listener # "none"
                           /\ tunnel'[e] \in Opened <=> tunnel[e] \in Opened
    BY <2>1, <2>3 DEF Inv, Types
  <2>. QED  BY <2>1, <2>2, <2>3, <2>4 DEF Quiet, Weighty, Ending
<1>4. CASE Wire(d)
  <2>1. PICK w \in {1, 2}, place \in {"wire2", "announce"} :
          /\ thread' = [thread EXCEPT !["hub"].at = place] /\ thread["hub"].at # "listen"
          /\ conn' = [conn EXCEPT ![d].wired = w] /\ UNCHANGED <<tunnel, overtaken>>
    BY <1>4 DEF Wire, Goto
  <2>2. /\ thread'["hub"].at = place /\ \A u \in Threads \ {"hub"} : thread'[u] = thread[u]
    BY <1>1, <2>1, OnlyAt
  <2>3. \A e \in Devices : /\ conn'[e].status = conn[e].status /\ conn'[e].sock = conn[e].sock
                           /\ conn'[e].listener = conn[e].listener
    BY <1>1, <2>1, OnlyWired
  <2>. QED  BY <2>1, <2>2, <2>3 DEF Quiet, Weighty, Ending
<1>5. CASE Announce(d)
  <2>1. /\ thread'["hub"].at = "wait" /\ \A u \in Threads \ {"hub"} : thread'[u] = thread[u]
        /\ UNCHANGED <<tunnel, conn, overtaken>> /\ thread["hub"].at # "listen"
    BY <1>1, <1>5 DEF Announce
  <2>. QED  BY <2>1 DEF Quiet, Weighty, Ending
<1>6. CASE Connect(d)
  <2>1. PICK place \in {"open", "wire1"} :
          /\ thread["hub"] = [at |-> "connect", on |-> d]
          /\ thread' = [thread EXCEPT !["hub"].at = place]
          /\ UNCHANGED <<tunnel, conn, overtaken>>
    BY <1>6 DEF Connect, Goto
  <2>2. /\ thread'["hub"].at = place /\ thread'["hub"].on = thread["hub"].on
        /\ \A u \in Threads \ {"hub"} : thread'[u] = thread[u]
    BY <1>1, <2>1, OnlyAt
  <2>3. thread["hub"].at = "connect"
    BY <2>1
  <2>. QED  BY <2>1, <2>2, <2>3 DEF Quiet, Weighty, Ending
<1>. QED  BY <1>2, <1>3, <1>4, <1>5, <1>6

\* What a listening thread hears while its socket is there.
LEMMA HearQuiet ==
  ASSUME Types, NEW d \in Devices,
         \/ HearOK(d) \/ Connected(d) \/ HearRefused(d) \/ HearRequest(d)
         \/ HearConnectAck(d) \/ HearConnect(d)
  PROVE  Quiet
<1>1. conn \in [Devices -> Connections] /\ conn[d] \in Connections
  BY DEF Types
<1>2. UNCHANGED <<tunnel, thread, overtaken>> /\ Reads(d)
  BY DEF HearOK, Connected, HearRefused, HearRequest, HearConnectAck, HearConnect, Hears, Reads
<1>3. /\ \A e \in Devices \ {d} : conn'[e] = conn[e]
      /\ conn'[d].sock = conn[d].sock
      /\ conn'[d].listener \in {conn[d].listener, "receiving", "connected"}
      /\ conn'[d].status \in {conn[d].status, "CONNECTED", "WANTING_CONNECTION"}
  <2>1. CASE HearOK(d) \/ HearRefused(d)
    BY <1>1, <2>1 DEF HearOK, HearRefused, Connections
  <2>2. CASE HearConnectAck(d) \/ HearConnect(d) \/ HearRequest(d)
    BY <1>1, <2>2 DEF HearConnectAck, HearConnect, HearRequest, Connections
  <2>3. CASE Connected(d)
    BY <1>1, <2>3 DEF Connected, Connections
  <2>. QED  BY <2>1, <2>2, <2>3
<1>. QED  BY <1>2, <1>3 DEF Quiet, Reads

\* The phones, the sockets' other users, and the calls of disconnect() and stop().
Calling ==
  \/ \E n : DisconnectClient(n)
  \/ Stop \/ StopNext \/ Send \/ (\E s \in Senders : Lock(s) \/ Write(s)) \/ UNCHANGED vars

LEMMA CallQuiet ==
  ASSUME Types,
         \/ \E d \in Devices : Plug(d) \/ Unplug(d) \/ Hurry(d) \/ Greet(d) \/ RemoveDevice(d)
         \/ Calling
  PROVE  Quiet
<1>1. thread \in [Threads -> Places] /\ conn \in [Devices -> Connections]
  BY DEF Types
<1>2. ASSUME NEW d \in Devices, Hurry(d) \/ Greet(d) PROVE Quiet
  <2>1. \A e \in Devices : /\ conn'[e].status = conn[e].status /\ conn'[e].sock = conn[e].sock
                           /\ conn'[e].listener = conn[e].listener
    BY <1>1, <1>2 DEF Hurry, Greet, Connections
  <2>2. /\ UNCHANGED <<thread, overtaken>> /\ tunnel[d] = "open"
        /\ tunnel' \in {tunnel, [tunnel EXCEPT ![d] = "greeted"]}
    BY <1>2 DEF Hurry, Greet
  <2>3. \A e \in Devices : /\ tunnel'[e] # "none" => tunnel[e] # "none"
                           /\ tunnel'[e] \in Opened <=> tunnel[e] \in Opened
    BY <2>2 DEF Types
  <2>. QED  BY <2>1, <2>2, <2>3 DEF Quiet
<1>3. CASE \/ \E d \in Devices : Plug(d) \/ Unplug(d)
           \/ Send \/ (\E s \in Senders : Lock(s) \/ Write(s)) \/ UNCHANGED vars
  <2>1. UNCHANGED <<tunnel, conn, thread, overtaken>>
    BY <1>3 DEF Plug, Unplug, Send, Lock, Write, vars
  <2>. QED  BY <2>1 DEF Quiet
<1>4. CASE \/ \E d \in Devices : RemoveDevice(d)
           \/ (\E n : DisconnectClient(n)) \/ Stop \/ StopNext
  <2>1. UNCHANGED <<tunnel, conn, overtaken>>
    BY <1>4 DEF RemoveDevice, DisconnectClient, Stop, StopNext
  <2>2. \A t \in Threads : thread'[t] = thread[t] \/ thread'[t].at \in {"test", "next", "ended"}
    BY <1>1, <1>4 DEF RemoveDevice, DisconnectClient, Stop, StopNext, Goto, Places
  <2>3. thread["hub"].at = "listen" => thread'["hub"] = thread["hub"]
    BY <1>1, <1>4 DEF RemoveDevice, DisconnectClient, Stop, StopNext, Goto
  <2>. QED  BY <2>1, <2>2, <2>3 DEF Quiet, Weighty, Ending
<1>. QED  BY <1>2, <1>3, <1>4 DEF Calling

LEMMA NextSession ==
  ASSUME Inv, Attached, InSession, [Next]_vars
  PROVE  InSession' /\ SessionStep
<1>1. Types
  BY DEF Inv
<1>2. ASSUME NEW d \in Devices, Answer(d) \/ CreateDevice(d) \/ Create(d) \/ Listen(d)
      PROVE  InSession' /\ SessionStep
  <2>1. CASE d \in overtaken
    <3>1. overtaken' = overtaken
      BY <1>2 DEF Answer, CreateDevice, Create, Listen, StartConnection, Connect, Open,
         StartListening, RequestTunnel, Mark, Wire, Announce, HearOK, Connected, HearRefused,
         HearRequest, HearConnectAck, HearConnect, HearEnd, HearBadDescriptor
    <3>2. Quiet
      BY <1>1, <1>2, <2>1, <3>1, Here, LostQuiet
    <3>. QED  BY <3>2, QuietSession
  <2>2. CASE d \notin overtaken
    BY <1>1, <1>2, <2>2, AnswerSession, CreateDeviceSession, OpenSession,
       StartListeningSession, HearEndSession, CreateQuiet, HearQuiet, QuietSession
    DEF Create, Listen
  <2>. QED  BY <2>1, <2>2
<1>3. ASSUME NEW t \in Threads, NEW d \in Devices, Disconnect(t, d)
      PROVE  InSession' /\ SessionStep
  <2>1. CASE d \in overtaken
    <3>1. overtaken' = overtaken
      BY <1>3, <2>1 DEF Disconnect, DisconnectTest, DisconnectAbort, DisconnectShutdown,
         DisconnectJoin, DisconnectClose, DisconnectIdle
    <3>2. Quiet
      BY <1>1, <1>3, <2>1, <3>1, Here, LostQuiet
    <3>. QED  BY <3>2, QuietSession
  <2>2. CASE d \notin overtaken
    BY <1>3, <2>2, DisconnectSession
  <2>. QED  BY <2>1, <2>2
<1>4. CASE \/ \E d \in Devices : Plug(d) \/ Unplug(d) \/ Hurry(d) \/ Greet(d) \/ RemoveDevice(d)
           \/ Calling
  BY <1>1, <1>4, CallQuiet, QuietSession
<1>. QED  BY <1>2, <1>3, <1>4 DEF Next, Calling

-----------------------------------------------------------------------------
(* Whom disconnect() is called for *)

LEMMA AttachedStep ==
  ASSUME Inv, Attached, [Next]_vars
  PROVE  Attached'
<1>1. Types /\ thread \in [Threads -> Places] /\ conn \in [Devices -> Connections]
  BY DEF Inv, Types
<1>2. ASSUME \A e \in Devices : conn[e].status # "none" => conn'[e].status # "none",
             \A t \in Threads : \/ thread'[t] = thread[t] \/ thread'[t].at \notin Closing
                                \/ thread'[t].on = thread[t].on /\ thread[t].at \in Closing
                                \/ thread'[t].on \in Entries \cup {-1}
      PROVE  Attached'
  <2>1. -1 \notin Devices
    BY DeviceAssumption
  <2>. QED  BY <1>2, <2>1 DEF Attached, Entries
<1>3. ASSUME NEW d \in Devices, Answer(d) \/ Hurry(d) \/ Greet(d) \/ Listen(d) PROVE Attached'
  <2>1. \A e \in Devices : conn[e].status # "none" => conn'[e].status # "none"
    <3>1. CASE Answer(d) \/ Hurry(d) \/ Greet(d)
      BY <1>1, <3>1 DEF Answer, Hurry, Greet, Connections
    <3>2. CASE \/ HearOK(d) \/ HearRefused(d) \/ HearRequest(d) \/ HearConnectAck(d)
               \/ HearConnect(d)
      <4>1. conn[d] \in Connections
        BY <1>1
      <4>2. \A e \in Devices \ {d} : conn'[e] = conn[e]
        BY <1>1, <3>2 DEF HearOK, HearRefused, HearRequest, HearConnectAck, HearConnect
      <4>3. conn'[d].status \in {conn[d].status, "CONNECTED", "WANTING_CONNECTION"}
        <5>1. CASE HearOK(d) \/ HearRefused(d)
          BY <1>1, <4>1, <5>1 DEF HearOK, HearRefused, Connections
        <5>2. CASE HearRequest(d) \/ HearConnectAck(d) \/ HearConnect(d)
          BY <1>1, <4>1, <5>2 DEF HearRequest, HearConnectAck, HearConnect, Connections
        <5>. QED  BY <3>2, <5>1, <5>2
      <4>. QED  BY <4>2, <4>3
    <3>3. CASE Connected(d) \/ HearEnd(d) \/ HearBadDescriptor(d)
      BY <1>1, <3>3, OnlyListener DEF Connected, HearEnd, HearBadDescriptor
    <3>. QED  BY <1>3, <3>1, <3>2, <3>3 DEF Listen
  <2>2. thread' = thread
    BY <1>3 DEF Answer, Hurry, Greet, Listen, HearOK, Connected, HearRefused, HearRequest,
       HearConnectAck, HearConnect, HearEnd, HearBadDescriptor
  <2>. QED  BY <1>2, <2>1, <2>2
<1>4. ASSUME NEW d \in Devices, CreateDevice(d) \/ Create(d) PROVE Attached'
  <2>1. \A e \in Devices : conn[e].status # "none" => conn'[e].status # "none"
    <3>1. CASE CreateDevice(d) \/ StartConnection(d) \/ Mark(d)
      BY <1>1, <3>1 DEF CreateDevice, StartConnection, Mark, Connections
    <3>2. CASE Open(d) \/ StartListening(d) \/ Wire(d)
      BY <1>1, <3>2, OnlySock, OnlyListener, OnlyWired DEF Open, StartListening, Wire
    <3>3. CASE Connect(d) \/ RequestTunnel(d) \/ Announce(d)
      BY <3>3 DEF Connect, RequestTunnel, Announce
    <3>. QED  BY <1>4, <3>1, <3>2, <3>3 DEF Create
  <2>2. /\ \A t \in Threads \ {"hub"} : thread'[t] = thread[t]
        /\ thread'["hub"].at \notin Closing
    BY <1>1, <1>4 DEF CreateDevice, Create, StartConnection, Connect, Open, StartListening,
       RequestTunnel, Mark, Wire, Announce, Goto, Places
  <2>. QED  BY <1>2, <2>1, <2>2
<1>5. ASSUME NEW t \in Threads, NEW d \in Devices, Disconnect(t, d) PROVE Attached'
  <2>1. \A e \in Devices : conn[e].status # "none" => conn'[e].status # "none"
    <3>1. CASE DisconnectTest(t, d) \/ DisconnectAbort(t, d) \/ DisconnectIdle(t, d)
      BY <1>1, <3>1 DEF DisconnectTest, DisconnectAbort, DisconnectIdle, Connections
    <3>2. CASE DisconnectShutdown(t, d) \/ DisconnectJoin(t, d) \/ DisconnectClose(t, d)
      BY <1>1, <3>2, OnlySock, OnlyListener
      DEF DisconnectShutdown, DisconnectJoin, DisconnectClose
    <3>. QED  BY <1>5, <3>1, <3>2 DEF Disconnect
  <2>2. \A u \in Threads \ {t} : thread'[u] = thread[u]
    BY <1>1, <1>5 DEF Disconnect, DisconnectTest, DisconnectAbort, DisconnectShutdown,
       DisconnectJoin, DisconnectClose, DisconnectIdle, Leave, Goto
  <2>3. thread[t].at \in Closing
    <3>1. \E at \in Closing : thread[t] = [at |-> at, on |-> d]
      BY <1>5, Zenon DEF Disconnect, DisconnectTest, DisconnectAbort, DisconnectShutdown,
         DisconnectJoin, DisconnectClose, DisconnectIdle
    <3>. QED  BY <3>1
  <2>4. thread'[t].on = thread[t].on \/ thread'[t].at \notin Closing
    <3>1. CASE DisconnectIdle(t, d)
      BY <1>1, <3>1 DEF DisconnectIdle, Leave, Places
    <3>2. CASE ~DisconnectIdle(t, d)
      <4>1. \E place : thread' = [thread EXCEPT ![t].at = place]
        BY <1>5, <3>2, Zenon DEF Disconnect, DisconnectTest, DisconnectAbort,
           DisconnectShutdown, DisconnectJoin, DisconnectClose, Goto
      <4>. QED  BY <1>1, <4>1, OnlyAt
    <3>. QED  BY <3>1, <3>2
  <2>. QED  BY <1>2, <2>1, <2>2, <2>3, <2>4
<1>6. CASE \/ \E d \in Devices : Plug(d) \/ Unplug(d)
           \/ Send \/ (\E s \in Senders : Lock(s) \/ Write(s)) \/ UNCHANGED vars
  <2>1. UNCHANGED <<conn, thread>>
    BY <1>6 DEF Plug, Unplug, Send, Lock, Write, vars
  <2>. QED  BY <1>2, <2>1
<1>7. ASSUME NEW d \in Devices, RemoveDevice(d) PROVE Attached'
  <2>1. conn' = conn /\ d \in Entries
        /\ thread' = [thread EXCEPT !["hub"] = [at |-> "test", on |-> d]]
    BY <1>7 DEF RemoveDevice
  <2>2. thread'["hub"].on = d /\ \A u \in Threads \ {"hub"} : thread'[u] = thread[u]
    BY <1>1, <2>1
  <2>. QED  BY <1>2, <2>1, <2>2
<1>8. ASSUME NEW n, DisconnectClient(n) PROVE Attached'
  <2>1. Route(n) \in Entries \cup {-1}
    BY RouteEntry
  <2>2. conn' = conn /\ thread' = [thread EXCEPT !["worker"] = [at |-> "test", on |-> Route(n)]]
    BY <1>8 DEF DisconnectClient
  <2>3. thread'["worker"].on = Route(n) /\ \A u \in Threads \ {"worker"} : thread'[u] = thread[u]
    BY <1>1, <2>2
  <2>. QED  BY <1>2, <2>1, <2>2, <2>3
<1>9. CASE Stop
  <2>1. conn' = conn /\ thread'["stop"].at = "next"
        /\ \A u \in Threads \ {"stop"} : thread'[u] = thread[u]
    BY <1>1, <1>9 DEF Stop, Goto, Places
  <2>. QED  BY <1>2, <2>1
<1>10. CASE StopNext
  <2> DEFINE left == {d \in Entries : d > thread["stop"].on}
             first == CHOOSE d \in left : \A e \in left : d <= e
  <2>1. conn' = conn
    BY <1>10 DEF StopNext
  <2>2. CASE left # {} /\ thread' = [thread EXCEPT !["stop"] = [at |-> "test", on |-> first]]
    <3>1. left \subseteq Nat
      BY DeviceAssumption DEF Entries
    <3>2. \E d \in left : \A e \in left : d <= e
      BY <2>2, <3>1, LeastId
    <3>3. first \in Entries
      BY <3>2
    <3> HIDE DEF first
    <3>4. thread'["stop"].on = first /\ \A u \in Threads \ {"stop"} : thread'[u] = thread[u]
      BY <1>1, <2>2
    <3>. QED  BY <1>2, <2>1, <3>3, <3>4
  <2>3. CASE thread' = [thread EXCEPT !["stop"].at = "ended", !["hub"].at = "ended"]
    <3>1. /\ thread'["stop"].at = "ended" /\ thread'["hub"].at = "ended"
          /\ thread'["worker"] = thread["worker"]
      BY <1>1, <2>3 DEF Places
    <3>. QED  BY <1>2, <2>1, <3>1
  <2>. QED  BY <1>10, <2>2, <2>3 DEF StopNext
<1>. QED
  BY <1>3, <1>4, <1>5, <1>6, <1>7, <1>8, <1>9, <1>10 DEF Next

LEMMA SessionInit ==
  ASSUME Init
  PROVE  Attached /\ InSession /\ Session!Init
<1>1. Attached
  BY DEF Init, Attached
<1>2. InSession
  BY DEF Init, InSession, Sound, Ending, Opens
<1>3. Session!Init
  BY DEF Init, Session!Init
<1>. QED  BY <1>1, <1>2, <1>3

LEMMA Sessions == Spec => [](Attached /\ InSession)
<1>1. Init => Attached /\ InSession
  BY SessionInit
<1>2. Inv /\ (Attached /\ InSession) /\ [Next]_vars => (Attached /\ InSession)'
  BY NextSession, AttachedStep
<1>. QED  BY <1>1, <1>2, Invariance, PTL DEF Spec

(***************************************************************************)
(* In whatever order the hub, a timer, stop() and the listening threads    *)
(* take their steps, each device has one session: its socket is opened     *)
(* once, one thread reads from it from then on, a tunnel is granted only   *)
(* to a socket that is read from, and the descriptor is closed only after  *)
(* that thread has ended (connection.cpp:40-52, 81-93,                     *)
(* socket_client.cpp:91-111).  Only a disconnect() that meets the          *)
(* connection before startListening() loses it, and then before anything   *)
(* has been read.                                                          *)
(***************************************************************************)
THEOREM OneSession == Spec => KeepsSessions
<1>1. Init => Session!Init
  BY SessionInit
<1>2. Inv /\ (Attached /\ InSession) /\ [Next]_vars => [Session!Next]_(Session!vars)
  BY NextSession DEF SessionStep
<1>. QED  BY <1>1, <1>2, Invariance, Sessions, PTL DEF Spec, KeepsSessions, Session!Spec

-----------------------------------------------------------------------------
(* What disconnect() leaves behind *)

\* Nothing is left of a socket, or on Apple's systems the one whose peer has ended.
Tidy(d) ==
  conn[d].sock \in {"none", "closed"} \/ (Apple /\ Gone(d) /\ conn[d].sock = "open")

\* Another thread is at it.
Busy(d) ==
  \E t \in Threads :
    thread[t].on = d /\ thread[t].at \in {"abort", "shutdown", "join", "close"}

\* A connection that is IDLE, or about to be, is tidy or another thread is at it: a
\* thread that found the socket shut down goes on to close it.
Torn(d) ==
  /\ conn[d].status = "IDLE" => Tidy(d) \/ Busy(d)
  /\ \A t \in Threads : thread[t].on = d /\ thread[t].at = "idle" => Tidy(d) \/ Busy(d)
  /\ conn[d].sock = "shut" =>
       \E t \in Threads : thread[t].on = d /\ thread[t].at \in {"join", "close"}
  /\ Opens(d) /\ thread["hub"].at # "start" => conn[d].status # "IDLE"

TornDown == \A d \in Devices \ overtaken : Torn(d)

\* The places that Torn speaks of, and that a thread leaves or enters.
Tearing == Opening \cup Ending

\* The steps that leave a device as it is, but for a status that is not IDLE.
LEMMA KeptTorn ==
  ASSUME NEW d \in Devices, Torn(d),
         conn'[d].sock = conn[d].sock, Gone(d) => Gone(d)',
         conn'[d].status \in {conn[d].status, "CONNECTED", "WANTING_CONNECTION", "CONNECTING"},
         \A t \in Threads : \/ thread'[t] = thread[t]
                            \/ /\ thread[t].on = d => thread[t].at \notin Ending
                               /\ thread'[t].on = d => thread'[t].at \notin Ending,
         Opens(d)' /\ thread'["hub"].at # "start" => conn'[d].status # "IDLE"
  PROVE  Torn(d)'
<1>1. Tidy(d) => Tidy(d)'
  BY DEF Tidy
<1>2. Busy(d) => Busy(d)'
  BY DEF Busy, Ending
<1>3. conn'[d].status = "IDLE" => Tidy(d)' \/ Busy(d)'
  BY <1>1, <1>2 DEF Torn
<1>4. ASSUME NEW t \in Threads, thread'[t].on = d, thread'[t].at = "idle"
      PROVE  Tidy(d)' \/ Busy(d)'
  BY <1>1, <1>2, <1>4 DEF Torn, Ending
<1>5. conn'[d].sock = "shut" =>
        \E t \in Threads : thread'[t].on = d /\ thread'[t].at \in {"join", "close"}
  BY DEF Torn, Ending
<1>. QED  BY <1>3, <1>4, <1>5 DEF Torn

\* A step of one device and one thread leaves the others as they are.
LEMMA OthersTorn ==
  ASSUME TornDown, NEW d \in Devices, NEW t \in Threads,
         \A e \in Devices \ {d} : conn'[e] = conn[e] /\ (Gone(e) => Gone(e)'),
         \A u \in Threads \ {t} : thread'[u] = thread[u],
         thread[t].on = d \/ thread[t].at \notin Ending,
         thread'[t].on = d \/ thread'[t].at \notin Tearing,
         overtaken \subseteq overtaken'
  PROVE  \A e \in Devices \ (overtaken' \cup {d}) : Torn(e)'
<1> SUFFICES ASSUME NEW e \in Devices \ (overtaken' \cup {d})
             PROVE  Torn(e)'
  OBVIOUS
<1>1. Torn(e)
  BY DEF TornDown
<1>2. conn'[e].sock = conn[e].sock /\ conn'[e].status = conn[e].status
  OBVIOUS
<1>3. Opens(e)' /\ thread'["hub"].at # "start" => conn'[e].status # "IDLE"
  BY <1>1, <1>2 DEF Torn, Opens, Tearing
<1>. QED  BY <1>1, <1>2, <1>3, KeptTorn DEF Tearing

LEMMA CreateTorn ==
  ASSUME Inv, Attached, InSession, TornDown, NEW d \in Devices, CreateDevice(d) \/ Create(d)
  PROVE  TornDown'
<1>1. Types /\ thread \in [Threads -> Places] /\ conn \in [Devices -> Connections]
  BY DEF Inv, Types
<1>2. /\ UNCHANGED <<phone, overtaken>>
      /\ \A u \in Threads \ {"hub"} : thread'[u] = thread[u]
      /\ \A e \in Devices \ {d} : conn'[e] = conn[e]
  BY <1>1 DEF CreateDevice, Create, StartConnection, Connect, Open, StartListening,
     RequestTunnel, Mark, Wire, Announce, Goto
<1>3. thread["hub"].at \notin Ending
  BY DEF CreateDevice, Create, StartConnection, Connect, Open, StartListening,
     RequestTunnel, Mark, Wire, Announce, Ending
<1>4. thread'["hub"].on = d \/ thread'["hub"].at = "wait"
  <2>1. CASE CreateDevice(d) \/ Announce(d)
    BY <1>1, <2>1 DEF CreateDevice, Announce
  <2>2. CASE Create(d) /\ ~Announce(d)
    <3>1. \E place : thread' = [thread EXCEPT !["hub"].at = place]
      BY <2>2, Zenon DEF Create, StartConnection, Connect, Open, StartListening,
         RequestTunnel, Mark, Wire, Goto
    <3>2. thread["hub"].on = d
      BY <2>2 DEF Create, StartConnection, Connect, Open, StartListening, RequestTunnel,
         Mark, Wire
    <3>. QED  BY <1>1, <3>1, <3>2, OnlyAt
  <2>. QED  BY <2>1, <2>2
<1>5. \A e \in Devices \ (overtaken' \cup {d}) : Torn(e)'
  BY <1>2, <1>3, <1>4, OthersTorn DEF Gone, Tearing, Ending
<1>6. SUFFICES ASSUME d \notin overtaken
               PROVE  Torn(d)'
  BY <1>2, <1>5 DEF TornDown
<1>7. Torn(d) /\ Sound(d)
  BY <1>6 DEF TornDown, InSession
<1>8. CASE CreateDevice(d)
  <2>1. conn[d].status = "none" /\ conn' = [conn EXCEPT ![d].status = "IDLE"]
    BY <1>8 DEF CreateDevice, Entries
  <2>2. conn'[d].sock = "none"
    BY <1>1, <1>7, <2>1, OnlyStatus DEF Sound
  <2>3. thread'["hub"].at = "start"
    BY <1>1, <1>8 DEF CreateDevice
  <2>. QED  BY <2>2, <2>3 DEF Torn, Tidy
<1>9. CASE Open(d)
  <2>1. /\ thread["hub"] = [at |-> "open", on |-> d] /\ conn' = [conn EXCEPT ![d].sock = "open"]
        /\ thread' = [thread EXCEPT !["hub"].at = "listen"]
    BY <1>9 DEF Open, Goto
  <2>2. thread'["hub"].at = "listen"
    BY <1>1, <2>1, OnlyAt
  <2>3. conn'[d].sock = "open" /\ conn'[d].status = conn[d].status
    BY <1>1, <2>1, OnlySock
  <2>4. Opens(d) /\ thread["hub"].at # "start"
    BY <2>1 DEF Opens
  <2>5. conn[d].status # "IDLE"
    BY <1>7, <2>4 DEF Torn
  <2>6. \A t \in Threads : thread'[t].on = d => thread'[t].at # "idle"
    BY <1>2, <1>7, <2>2, <2>4 DEF Sound, Ending
  <2>. QED  BY <2>3, <2>5, <2>6 DEF Torn
<1>10. CASE StartConnection(d) \/ Connect(d)
  <2>1. PICK place \in {"connect", "open", "wire1"} :
          /\ thread' = [thread EXCEPT !["hub"].at = place]
          /\ \/ conn' = [conn EXCEPT ![d].status = "WANTING_CONNECTION"]
             \/ conn' = conn /\ thread["hub"] = [at |-> "connect", on |-> d]
    BY <1>10 DEF StartConnection, Connect, Goto
  <2>2. thread'["hub"].at = place
    BY <1>1, <2>1, OnlyAt
  <2>3. /\ conn'[d].sock = conn[d].sock
        /\ conn'[d].status \in {conn[d].status, "WANTING_CONNECTION"}
    BY <1>1, <2>1, OnlyStatus
  <2>4. conn'[d].status # "IDLE"
    <3>1. CASE conn' = [conn EXCEPT ![d].status = "WANTING_CONNECTION"]
      BY <1>1, <3>1, OnlyStatus
    <3>2. CASE conn' = conn /\ thread["hub"] = [at |-> "connect", on |-> d]
      BY <1>7, <3>2 DEF Torn, Opens
    <3>. QED  BY <2>1, <3>1, <3>2
  <2>. QED  BY <1>2, <1>3, <1>7, <2>2, <2>3, <2>4, KeptTorn DEF Gone, Ending
<1>11. CASE \/ StartListening(d) \/ RequestTunnel(d) \/ Mark(d) \/ Wire(d) \/ Announce(d)
  <2>1. /\ conn'[d].sock = conn[d].sock
        /\ conn'[d].status \in {conn[d].status, "CONNECTING"}
    BY <1>1, <1>11, OnlyStatus, OnlyListener, OnlyWired
    DEF StartListening, RequestTunnel, Mark, Wire, Announce
  <2>2. thread'["hub"].at \notin Tearing
    BY <1>1, <1>11 DEF StartListening, RequestTunnel, Mark, Wire, Announce, Goto, Places,
       Tearing, Ending
  <2>3. ~Opens(d)'
    BY <2>2 DEF Opens, Tearing
  <2>. QED  BY <1>2, <1>3, <1>7, <2>1, <2>2, <2>3, KeptTorn DEF Gone, Tearing
<1>. QED  BY <1>8, <1>9, <1>10, <1>11 DEF Create

LEMMA DisconnectTorn ==
  ASSUME Inv, InSession, TornDown, NEW t \in Threads, NEW d \in Devices, Disconnect(t, d)
  PROVE  TornDown'
<1>1. Types /\ thread \in [Threads -> Places] /\ conn \in [Devices -> Connections]
  BY DEF Inv, Types
<1>2. /\ UNCHANGED phone /\ overtaken \subseteq overtaken'
      /\ \A u \in Threads \ {t} : thread'[u] = thread[u]
      /\ \A e \in Devices \ {d} : conn'[e] = conn[e]
  BY <1>1 DEF Disconnect, DisconnectTest, DisconnectAbort, DisconnectShutdown,
     DisconnectJoin, DisconnectClose, DisconnectIdle, Leave, Goto
<1>3. thread[t].on = d
  <2>1. \E at : thread[t] = [at |-> at, on |-> d]
    BY Zenon DEF Disconnect, DisconnectTest, DisconnectAbort, DisconnectShutdown,
       DisconnectJoin, DisconnectClose, DisconnectIdle
  <2>. QED  BY <2>1
<1>4. ASSUME NEW place, thread' = [thread EXCEPT ![t].at = place]
      PROVE  thread'[t].at = place /\ thread'[t].on = d
  BY <1>1, <1>3, <1>4, OnlyAt
<1>5. thread'[t].on = d \/ thread'[t].at \in {"next", "wait"}
  <2>1. CASE DisconnectIdle(t, d)
    BY <1>1, <2>1 DEF DisconnectIdle, Leave, Places
  <2>2. CASE ~DisconnectIdle(t, d)
    <3>1. \E place : thread' = [thread EXCEPT ![t].at = place]
      BY <2>2, Zenon DEF Disconnect, DisconnectTest, DisconnectAbort, DisconnectShutdown,
         DisconnectJoin, DisconnectClose, Goto
    <3>. QED  BY <1>4, <3>1
  <2>. QED  BY <2>1, <2>2
<1>6. \A e \in Devices \ (overtaken' \cup {d}) : Torn(e)'
  BY <1>2, <1>3, <1>5, OthersTorn DEF Gone, Tearing, Ending
<1>7. SUFFICES ASSUME d \notin overtaken'
               PROVE  Torn(d)'
  BY <1>6 DEF TornDown
<1>8. Torn(d) /\ Sound(d)
  BY <1>2, <1>7 DEF TornDown, InSession
<1>9. thread[t].at \in Ending => ~Opens(d)
  BY <1>3, <1>8 DEF Sound
<1>10. CASE DisconnectTest(t, d)
  <2>1. ~Opens(d) /\ conn' = conn /\ thread[t].at = "test"
    BY <1>7, <1>10 DEF DisconnectTest, Opens
  <2>2. PICK place \in {"idle", "abort"} :
          /\ thread' = [thread EXCEPT ![t].at = place]
          /\ place = "idle" => conn[d].status = "IDLE"
    BY <1>10 DEF DisconnectTest, Goto
  <2>3. thread'[t].at = place /\ thread'[t].on = d
    BY <1>4, <2>2
  <2>4. Tidy(d) => Tidy(d)'
    BY <1>2, <2>1 DEF Tidy, Gone
  <2>5. Busy(d) => Busy(d)'
    BY <1>2, <2>1 DEF Busy
  <2>6. place = "abort" => Busy(d)'
    BY <2>3 DEF Busy
  <2>7. \A u \in Threads : thread'[u].on = d /\ thread'[u].at = "idle" => Tidy(d)' \/ Busy(d)'
    BY <1>2, <1>8, <2>2, <2>3, <2>4, <2>5 DEF Torn
  <2>8. conn'[d].sock = "shut" =>
          \E u \in Threads : thread'[u].on = d /\ thread'[u].at \in {"join", "close"}
    BY <1>2, <1>8, <2>1 DEF Torn
  <2>9. ~Opens(d)'
    BY <1>2, <2>1, <2>3 DEF Opens
  <2>. QED  BY <1>8, <2>1, <2>4, <2>5, <2>7, <2>8, <2>9 DEF Torn
<1>11. CASE DisconnectAbort(t, d)
  <2>1. /\ thread' = [thread EXCEPT ![t].at = "shutdown"] /\ thread[t].at = "abort"
        /\ conn' = [conn EXCEPT ![d].status = "CONNECTED"]
    BY <1>11 DEF DisconnectAbort, Goto
  <2>2. thread'[t].at = "shutdown" /\ thread'[t].on = d
    BY <1>4, <2>1
  <2>3. conn'[d].status = "CONNECTED" /\ conn'[d].sock = conn[d].sock
    BY <1>1, <2>1, OnlyStatus
  <2>4. Busy(d)'
    BY <2>2 DEF Busy
  <2>5. conn'[d].sock = "shut" =>
          \E u \in Threads : thread'[u].on = d /\ thread'[u].at \in {"join", "close"}
    BY <1>2, <1>8, <2>1, <2>3 DEF Torn
  <2>. QED  BY <2>3, <2>4, <2>5 DEF Torn
<1>12. CASE DisconnectShutdown(t, d)
  <2>1. ~Opens(d) /\ thread[t].at = "shutdown"
    BY <1>9, <1>12 DEF DisconnectShutdown, Ending
  <2>2. CASE thread' = [thread EXCEPT ![t].at = "join"]
    <3>1. thread'[t].at = "join" /\ thread'[t].on = d
      BY <1>4, <2>2
    <3>2. Busy(d)' /\ ~Opens(d)'
      BY <1>2, <2>1, <3>1 DEF Busy, Opens
    <3>. QED  BY <3>1, <3>2 DEF Torn
  <2>3. CASE thread' = [thread EXCEPT ![t].at = "idle"] /\ conn' = conn /\ MayFail(d)
    <3>1. thread'[t].at = "idle" /\ thread'[t].on = d
      BY <1>4, <2>3
    <3>2. conn[d].sock = "shut" =>
            \E u \in Threads : thread'[u].on = d /\ thread'[u].at \in {"join", "close"}
      BY <1>2, <1>8, <2>1 DEF Torn
    <3>3. conn[d].sock \in {"none", "open", "shut", "closed"}
      BY <1>1 DEF Connections
    <3>4. Tidy(d)' \/ conn[d].sock = "shut"
      BY <1>2, <2>3, <3>3 DEF MayFail, Tidy, Gone
    <3>5. conn[d].sock = "shut" => Busy(d)'
      BY <3>2 DEF Busy
    <3>6. ~Opens(d)'
      BY <1>2, <2>1, <3>1 DEF Opens
    <3>. QED  BY <2>3, <3>2, <3>4, <3>5, <3>6 DEF Torn
  <2>. QED  BY <1>12, <2>2, <2>3 DEF DisconnectShutdown, Goto
<1>13. CASE DisconnectJoin(t, d)
  <2>1. thread' = [thread EXCEPT ![t].at = "close"] /\ thread[t].at = "join"
    BY <1>13 DEF DisconnectJoin, Goto
  <2>2. thread'[t].at = "close" /\ thread'[t].on = d
    BY <1>4, <2>1
  <2>3. Busy(d)' /\ ~Opens(d)'
    BY <1>2, <1>9, <2>1, <2>2 DEF Busy, Opens, Ending
  <2>. QED  BY <2>2, <2>3 DEF Torn
<1>14. CASE DisconnectClose(t, d)
  <2>1. /\ thread' = [thread EXCEPT ![t].at = "idle"] /\ thread[t].at = "close"
        /\ conn' = [conn EXCEPT ![d].sock = "closed"]
    BY <1>14 DEF DisconnectClose, Goto
  <2>2. thread'[t].at = "idle" /\ conn'[d].sock = "closed"
    BY <1>1, <1>4, <2>1, OnlySock
  <2>3. Tidy(d)' /\ ~Opens(d)'
    BY <1>2, <1>9, <2>1, <2>2 DEF Tidy, Opens, Ending
  <2>. QED  BY <2>2, <2>3 DEF Torn
<1>15. CASE DisconnectIdle(t, d)
  <2>1. thread[t].at = "idle" /\ conn' = [conn EXCEPT ![d].status = "IDLE"]
    BY <1>15 DEF DisconnectIdle
  <2>2. thread'[t].at \in {"next", "wait"}
    BY <1>1, <1>15 DEF DisconnectIdle, Leave, Places
  <2>3. conn'[d].sock = conn[d].sock
    BY <1>1, <2>1, OnlyStatus
  <2>4. Tidy(d)' \/ Busy(d)'
    BY <1>2, <1>3, <1>8, <2>1, <2>3 DEF Torn, Tidy, Busy, Gone
  <2>5. ~Opens(d)'
    BY <1>2, <1>9, <2>1, <2>2 DEF Opens, Ending
  <2>6. conn'[d].sock = "shut" =>
          \E u \in Threads : thread'[u].on = d /\ thread'[u].at \in {"join", "close"}
    BY <1>2, <1>8, <2>1, <2>3 DEF Torn
  <2>. QED  BY <2>4, <2>5, <2>6 DEF Torn
<1>. QED  BY <1>10, <1>11, <1>12, <1>13, <1>14, <1>15 DEF Disconnect

LEMMA ListenTorn ==
  ASSUME Inv, TornDown, NEW d \in Devices, Answer(d) \/ Hurry(d) \/ Greet(d) \/ Listen(d)
  PROVE  TornDown'
<1>1. conn \in [Devices -> Connections] /\ conn[d] \in Connections
  BY DEF Inv, Types
<1>2. UNCHANGED <<phone, thread, overtaken>> /\ \A e \in Devices \ {d} : conn'[e] = conn[e]
  BY <1>1 DEF Answer, Hurry, Greet, Listen, HearOK, Connected, HearRefused, HearRequest,
     HearConnectAck, HearConnect, HearEnd, HearBadDescriptor
<1>3. /\ conn'[d].sock = conn[d].sock
      /\ conn'[d].status \in {conn[d].status, "CONNECTED", "WANTING_CONNECTION"}
  <2>1. CASE Answer(d) \/ Hurry(d) \/ Greet(d)
    BY <1>1, <2>1 DEF Answer, Hurry, Greet, Connections
  <2>2. CASE HearOK(d) \/ HearRefused(d)
    BY <1>1, <2>2 DEF HearOK, HearRefused, Connections
  <2>3. CASE HearRequest(d) \/ HearConnectAck(d) \/ HearConnect(d)
    BY <1>1, <2>3 DEF HearRequest, HearConnectAck, HearConnect, Connections
  <2>4. CASE Connected(d) \/ HearEnd(d) \/ HearBadDescriptor(d)
    BY <1>1, <2>4 DEF Connected, HearEnd, HearBadDescriptor, Connections
  <2>. QED  BY <2>1, <2>2, <2>3, <2>4 DEF Listen
<1> SUFFICES ASSUME NEW e \in Devices \ overtaken
             PROVE  Torn(e)'
  BY <1>2 DEF TornDown
<1>4. Torn(e)
  BY DEF TornDown
<1>5. /\ conn'[e].sock = conn[e].sock
      /\ conn'[e].status \in {conn[e].status, "CONNECTED", "WANTING_CONNECTION"}
  BY <1>2, <1>3
<1>6. Opens(e)' /\ thread'["hub"].at # "start" => conn'[e].status # "IDLE"
  BY <1>2, <1>4, <1>5 DEF Torn, Opens
<1>. QED  BY <1>2, <1>4, <1>5, <1>6, KeptTorn DEF Gone

\* The phones, and the calls of disconnect() and stop(), of a thread that closes nothing.
LEMMA CallTorn ==
  ASSUME Inv, TornDown,
         (\E d \in Devices : Plug(d) \/ Unplug(d) \/ RemoveDevice(d)) \/ Calling
  PROVE  TornDown'
<1>1. thread \in [Threads -> Places] /\ phone \in [Devices -> {"away", "plugged", "unplugged", "reported"}]
  BY DEF Inv, Types
<1>2. UNCHANGED <<conn, overtaken>>
  BY DEF Plug, Unplug, RemoveDevice, Calling, DisconnectClient, Stop, StopNext, Send, Lock,
     Write, vars
<1>3. \A e \in Devices : Gone(e) => Gone(e)'
  BY <1>1 DEF Plug, Unplug, RemoveDevice, Calling, DisconnectClient, Stop, StopNext, Send,
     Lock, Write, vars, Gone
<1>4. \A t \in Threads : \/ thread'[t] = thread[t]
                         \/ thread[t].at \notin Ending /\ thread'[t].at \notin Tearing
  BY <1>1 DEF Plug, Unplug, RemoveDevice, Calling, DisconnectClient, Stop, StopNext, Send,
     Lock, Write, vars, Goto, Places, Ending, Tearing
<1> SUFFICES ASSUME NEW e \in Devices \ overtaken
             PROVE  Torn(e)'
  BY <1>2 DEF TornDown
<1>5. Torn(e)
  BY DEF TornDown
<1>6. Opens(e)' /\ thread'["hub"].at # "start" => conn'[e].status # "IDLE"
  BY <1>2, <1>4, <1>5 DEF Torn, Opens, Tearing
<1>. QED  BY <1>2, <1>3, <1>4, <1>5, <1>6, KeptTorn DEF Tearing

LEMMA TornDownStep ==
  ASSUME Inv, Attached, InSession, TornDown, [Next]_vars
  PROVE  TornDown'
<1>1. ASSUME NEW d \in Devices,
             \/ Plug(d) \/ Unplug(d) \/ Answer(d) \/ Hurry(d) \/ Greet(d)
             \/ CreateDevice(d) \/ Create(d) \/ RemoveDevice(d) \/ Listen(d)
      PROVE  TornDown'
  BY <1>1, CreateTorn, ListenTorn, CallTorn
<1>2. ASSUME NEW t \in Threads, NEW d \in Devices, Disconnect(t, d)
      PROVE  TornDown'
  BY <1>2, DisconnectTorn
<1>3. CASE Calling
  BY <1>3, CallTorn
<1>. QED  BY <1>1, <1>2, <1>3 DEF Next, Calling

(***************************************************************************)
(* A connection that disconnect() has left IDLE has no socket and no       *)
(* thread, also when a keep-alive timer, stop() and a Detached message     *)
(* close it at the same time (connection.cpp:81-93, usbhub.cpp:45-57);     *)
(* unless it was disconnected before startListening() or, on Apple's       *)
(* systems, after its peer had ended (socket_client.cpp:93).               *)
(***************************************************************************)
THEOREM IdleIsClosed == Spec => []IdleMeansClosed
<1>1. Init => TornDown
  BY DEF Init, TornDown, Torn, Opens
<1>2. Inv /\ (Attached /\ InSession) /\ TornDown /\ [Next]_vars => TornDown'
  BY TornDownStep
<1>3. Inv /\ InSession /\ TornDown => IdleMeansClosed
  <2> SUFFICES ASSUME Inv, InSession, TornDown, NEW d \in Devices \ overtaken,
                      conn[d].status = "IDLE", ~ClosingNow(d)
               PROVE  \/ /\ conn[d].sock \in {"none", "closed"}
                         /\ conn[d].listener \in {"none", "joined"}
                      \/ Apple /\ Gone(d) /\ conn[d].sock = "open"
    BY DEF IdleMeansClosed
  <2>1. ~Busy(d)
    BY DEF Busy, ClosingNow
  <2>2. Tidy(d)
    BY <2>1 DEF TornDown, Torn
  <2>3. Sound(d)
    BY DEF InSession
  <2>. QED  BY <2>2, <2>3 DEF Tidy, Sound
<1>. QED  BY <1>1, <1>2, <1>3, Invariance, Sessions, PTL DEF Spec
=============================================================================
