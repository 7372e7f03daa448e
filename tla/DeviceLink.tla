------------------------------ MODULE DeviceLink ------------------------------
(***************************************************************************)
(* The USB hub and its connections (usbhub.cpp, connection.cpp): devices   *)
(* are attached and detached by usbmuxd, a connection asks usbmuxd for a   *)
(* tunnel to its device and, once it is there, the two sides exchange      *)
(* Connect and ConnectAck.                                                 *)
(*                                                                         *)
(* Four kinds of threads work on the same connections without a lock: the  *)
(* hub's listening thread ("hub"), one listening thread per device, a pool *)
(* worker that runs the keep-alive timers ("worker"), and the              *)
(* application's, which publishes (Publisher) and may stop the client      *)
(* ("stop").  The steps below are the writes and tests they can see of     *)
(* each other.                                                             *)
(***************************************************************************)
EXTENDS Integers, Sequences, FiniteSets

CONSTANTS Devices,    \* the ids usbmuxd gives; never given twice
          Peer,       \* the name by which the application on a device goes
          NoName,     \* a connection's name before it has heard its peer's
          Publisher,  \* the application thread that sends
          Apple,      \* is __APPLE__ defined?
          Refusing,   \* may usbmuxd refuse a tunnel?
          Hasty,      \* the devices whose peer may send a request before its Connect
          Publishing, \* does the application publish and subscribe?
          Stopping    \* may it call stop()?

ASSUME DeviceAssumption == Devices \subseteq Nat /\ Publisher \notin Devices
ASSUME NameAssumption   == \A d \in Devices : Peer[d] # NoName
ASSUME HastyAssumption  == Hasty \subseteq Devices
ASSUME SwitchAssumption == {Apple, Refusing, Publishing, Stopping} \subseteq BOOLEAN

VARIABLES phone,    \* "away", "plugged", "unplugged", "reported" (as unplugged)
          tunnel,   \* usbmuxd's side: "none", "asked", "refused", "open", "greeted"
          conn,     \* devices: the connection of each device that has been attached
          thread,   \* where the hub, the worker and stop() are, and with which device
          out,      \* the packet a listening thread or the publisher is about to send
          holds,    \* the senders that hold the send_mutex, and may be blocked in ::send
          sent,     \* the devices to whose socket a Connect has been written
          clients,  \* names in ClientDispatcher's clients
          crashed,  \* a signal or undefined behaviour has ended the process, or a closed
                    \* descriptor was used that may be another's by now
          told,     \* history: the Connects each listening thread has begun to send
          overtaken \* history: the connections disconnect() met before startListening()

vars == <<phone, tunnel, conn, thread, out, holds, sent, clients, crashed, told, overtaken>>

Names    == {Peer[d] : d \in Devices}
Threads  == {"hub", "worker", "stop"}
Senders  == Devices \cup {Publisher}
Statuses == {"none", "IDLE", "WANTING_CONNECTION", "CONNECTING", "CONNECTED"}
Kinds    == {"Connect", "ConnectAck", "data"}

Opening    == {"start", "connect", "open", "listen"}
Creating   == Opening \cup {"request", "mark", "wire1", "wire2", "announce"}
Closing    == {"test", "abort", "shutdown", "join", "close", "idle"}
Places     == [at : {"wait", "next", "ended"} \cup Creating \cup Closing, on : Devices \cup {-1}]
ClosingNow(d) == \E t \in Threads : thread[t].at \in Closing /\ thread[t].on = d

Nothing == [kind |-> "nothing", to |-> -1]

Packets     == {"OK", "Refused", "Request", "Connect", "ConnectAck"}
Connections ==
  [status : Statuses, name : Names \cup {NoName}, wired : 0..2,
   sock : {"none", "open", "shut", "closed"},
   listener : {"none", "receiving", "connected", "ended", "joined", "lost"},
   inbox : Seq(Packets)]

TypeOK ==
  /\ phone \in [Devices -> {"away", "plugged", "unplugged", "reported"}]
  /\ tunnel \in [Devices -> {"none", "asked", "refused", "open", "greeted"}]
  /\ conn \in [Devices -> Connections]
  /\ thread \in [Threads -> Places]
  /\ out \in [Senders -> [kind : Kinds, to : Devices] \cup {Nothing}]
  /\ holds \subseteq {s \in Senders : out[s] # Nothing}
  /\ sent \subseteq Devices
  /\ clients \subseteq Names \cup {NoName}
  /\ crashed \in BOOLEAN
  /\ told \in [Devices -> Nat]
  /\ overtaken \subseteq Devices

Init ==
  /\ phone = [d \in Devices |-> "away"] /\ tunnel = [d \in Devices |-> "none"]
  /\ conn = [d \in Devices |-> [status |-> "none", name |-> NoName, wired |-> 0,
                                sock |-> "none", listener |-> "none", inbox |-> <<>>]]
  /\ thread = [t \in Threads |-> [at |-> "wait", on |-> -1]]
  /\ out = [s \in Senders |-> Nothing]
  /\ holds = {}
  /\ sent = {}
  /\ clients = {}
  /\ crashed = FALSE
  /\ told = [d \in Devices |-> 0]
  /\ overtaken = {}

Entries == {d \in Devices : conn[d].status # "none"}

\* getDeviceIDForClientID(): the first entry of the map with that name, or -1.
Route(n) ==
  LET named == {d \in Entries : conn[d].name = n}
  IN  IF named = {} THEN -1 ELSE CHOOSE d \in named : \A e \in named : d <= e

Goto(t, place) == thread' = [thread EXCEPT ![t].at = place]

\* usbmuxd has ended its side of the connections to a device, or application, that is gone.
Gone(d) == phone[d] \in {"unplugged", "reported"}

\* Nobody is between the lock and the unlock of d's send_mutex in send().
MutexFree(d) == \A s \in holds : out[s].to # d

-----------------------------------------------------------------------------
(* usbmuxd and the phones *)

\* Devices with one name are one phone, plugged in again when its end is known.
Plug(d) ==
  /\ phone[d] = "away"
  /\ \A e \in Devices \ {d} : Peer[e] = Peer[d] => phone[e] \in {"away", "reported"}
  /\ phone' = [phone EXCEPT ![d] = "plugged"]
  /\ UNCHANGED <<tunnel, conn, thread, out, holds, sent, clients, crashed, told, overtaken>>

\* Or the application on it ends, which is reported as late as the phone is unplugged.
Unplug(d) ==
  /\ phone[d] = "plugged"
  /\ phone' = [phone EXCEPT ![d] = "unplugged"]
  /\ UNCHANGED <<tunnel, conn, thread, out, holds, sent, clients, crashed, told, overtaken>>

\* A device that is gone gets "bad device", which changes nothing.
Answer(d) ==
  /\ tunnel[d] = "asked"
  /\ \/ phone[d] = "plugged" /\ tunnel' = [tunnel EXCEPT ![d] = "open"]
     \/ Refusing /\ tunnel' = [tunnel EXCEPT ![d] = "refused"]
  /\ conn' = [conn EXCEPT ![d].inbox =
                Append(@, IF tunnel'[d] = "open" THEN "OK" ELSE "Refused")]
  /\ UNCHANGED <<phone, thread, out, holds, sent, clients, crashed, told, overtaken>>

\* A request the peer sends before its Connect, to whoever is connected.
Hurry(d) ==
  /\ d \in Hasty /\ tunnel[d] = "open" /\ phone[d] = "plugged" /\ conn[d].sock = "open"
  /\ NoName \notin clients /\ \A i \in DOMAIN conn[d].inbox : conn[d].inbox[i] # "Request"
  /\ conn' = [conn EXCEPT ![d].inbox = Append(@, "Request")]
  /\ UNCHANGED <<phone, tunnel, thread, out, holds, sent, clients, crashed, told, overtaken>>

\* The peer sends its Connect, or answers ours.
Greet(d) ==
  /\ tunnel[d] = "open" /\ phone[d] = "plugged"
  /\ tunnel' = [tunnel EXCEPT ![d] = "greeted"]
  /\ \E kind \in {"Connect"} \cup (IF d \in sent THEN {"ConnectAck"} ELSE {}) :
       conn' = [conn EXCEPT ![d].inbox = Append(@, kind)]
  /\ UNCHANGED <<phone, thread, out, holds, sent, clients, crashed, told, overtaken>>

-----------------------------------------------------------------------------
(* USBHub::createDevice(), on the hub's listening thread *)

CreateDevice(d) ==
  /\ thread["hub"].at = "wait"
  /\ phone[d] # "away" /\ d \notin Entries
  /\ conn' = [conn EXCEPT ![d].status = "IDLE"]
  /\ thread' = [thread EXCEPT !["hub"] = [at |-> "start", on |-> d]]
  /\ UNCHANGED <<phone, tunnel, out, holds, sent, clients, crashed, told, overtaken>>

StartConnection(d) ==
  /\ thread["hub"] = [at |-> "start", on |-> d]
  /\ conn' = [conn EXCEPT ![d].status = "WANTING_CONNECTION"]
  /\ Goto("hub", "connect")
  /\ UNCHANGED <<phone, tunnel, out, holds, sent, clients, crashed, told, overtaken>>

\* connect(): the test of the status.
Connect(d) ==
  /\ thread["hub"] = [at |-> "connect", on |-> d]
  /\ Goto("hub", IF conn[d].status = "WANTING_CONNECTION" THEN "open" ELSE "wire1")
  /\ UNCHANGED <<phone, tunnel, conn, out, holds, sent, clients, crashed, told, overtaken>>

\* client.close(), whose shutdown() of descriptor 0 fails, and client.open().
Open(d) ==
  /\ thread["hub"] = [at |-> "open", on |-> d]
  /\ conn' = [conn EXCEPT ![d].sock = "open"]
  /\ Goto("hub", "listen")
  /\ UNCHANGED <<phone, tunnel, out, holds, sent, clients, crashed, told, overtaken>>

StartListening(d) ==
  /\ thread["hub"] = [at |-> "listen", on |-> d]
  /\ conn' = [conn EXCEPT ![d].listener = "receiving"]
  /\ Goto("hub", "request")
  /\ UNCHANGED <<phone, tunnel, out, holds, sent, clients, crashed, told, overtaken>>

\* What a call with a closed descriptor does when it is another's by now is not followed.
Stray(d) == crashed' \in IF conn[d].sock = "closed" THEN BOOLEAN ELSE {FALSE}

\* A write to a socket that has been shut down, or whose peer has ended, raises SIGPIPE,
\* unless the platform has been told not to (socket_client.cpp:30-36).
Signal(d) ==
  crashed' \in IF \/ conn[d].sock = "closed"
                  \/ ~Apple /\ (conn[d].sock = "shut" \/ (conn[d].sock = "open" /\ Gone(d)))
               THEN BOOLEAN ELSE {FALSE}

\* That the request could not be sent goes unnoticed: sendPlist() has a size_t.
RequestTunnel(d) ==
  /\ thread["hub"] = [at |-> "request", on |-> d]
  /\ MutexFree(d)
  /\ tunnel' = IF conn[d].sock = "open" THEN [tunnel EXCEPT ![d] = "asked"] ELSE tunnel
  /\ Signal(d)
  /\ Goto("hub", "mark")
  /\ UNCHANGED <<phone, conn, out, holds, sent, clients, told, overtaken>>

\* Faulty: connected as soon as the tunnel has been asked for.
MarkConnected(d) ==
  /\ thread["hub"] = [at |-> "mark", on |-> d]
  /\ conn' = [conn EXCEPT ![d].status = "CONNECTED"]
  /\ Goto("hub", "wire1")
  /\ UNCHANGED <<phone, tunnel, out, holds, sent, clients, crashed, told, overtaken>>

\* status = CONNECTING, whatever the answer to the request has made of it.
Mark(d) ==
  /\ thread["hub"] = [at |-> "mark", on |-> d]
  /\ conn' = [conn EXCEPT ![d].status = "CONNECTING"]
  /\ Goto("hub", "wire1")
  /\ UNCHANGED <<phone, tunnel, out, holds, sent, clients, crashed, told, overtaken>>

\* setPacketReceivedCallback(), then setConnectionStatusCallback().
Wire(d) ==
  /\ thread["hub"].on = d
  /\ \/ /\ thread["hub"].at = "wire1"
        /\ conn' = [conn EXCEPT ![d].wired = 1]
        /\ Goto("hub", "wire2")
     \/ /\ thread["hub"].at = "wire2"
        /\ conn' = [conn EXCEPT ![d].wired = 2]
        /\ Goto("hub", "announce")
  /\ UNCHANGED <<phone, tunnel, out, holds, sent, clients, crashed, told, overtaken>>

\* ATTACHED is published, without a name; createDevice() returns.
Announce(d) ==
  /\ thread["hub"] = [at |-> "announce", on |-> d]
  /\ thread' = [thread EXCEPT !["hub"] = [at |-> "wait", on |-> -1]]
  /\ UNCHANGED <<phone, tunnel, conn, out, holds, sent, clients, crashed, told, overtaken>>

-----------------------------------------------------------------------------
(* Connection::send(): the test of the status, then the lock and the write. *)

\* Faulty: the id -1 is not tested.
BeginUnchecked(s, d, kind) ==
  out' = IF d = -1 \/ conn[d].status = "CONNECTED"
         THEN [out EXCEPT ![s] = [kind |-> kind, to |-> d]]
         ELSE out

Begin(s, d, kind) ==
  out' = IF d # -1 /\ conn[d].status = "CONNECTED"
         THEN [out EXCEPT ![s] = [kind |-> kind, to |-> d]]
         ELSE out

Lock(s) ==
  /\ out[s] # Nothing /\ s \notin holds
  /\ MutexFree(out[s].to)
  /\ holds' = holds \cup {s}
  /\ UNCHANGED <<phone, tunnel, conn, thread, out, sent, clients, crashed, told, overtaken>>

\* ::send returns at once when there is no peer to read; else it may take for ever.
Returns(s) == s \in holds /\ (conn[out[s].to].sock # "open" \/ Gone(out[s].to))

\* The calls of ::send, and the unlock.
Write(s) ==
  /\ s \in holds
  /\ LET d == out[s].to IN
       /\ sent' = IF out[s].kind = "Connect" /\ conn[d].sock = "open" /\ ~Gone(d)
                  THEN sent \cup {d} ELSE sent
       /\ Signal(d)
  /\ out' = [out EXCEPT ![s] = Nothing]
  /\ holds' = holds \ {s}
  /\ UNCHANGED <<phone, tunnel, conn, thread, clients, told, overtaken>>

\* publish() sends to a client by its name, subscribe() to every connection.
Send ==
  /\ Publishing /\ out[Publisher] = Nothing
  /\ \E d \in {Route(n) : n \in clients} \cup Entries : Begin(Publisher, d, "data")
  /\ UNCHANGED <<phone, tunnel, conn, thread, holds, sent, clients, crashed, told, overtaken>>

-----------------------------------------------------------------------------
(* A connection's listening thread: Connection::messageReceived() *)

Hears(d, packet) ==
  /\ conn[d].listener = "receiving" /\ out[d] = Nothing
  /\ conn[d].sock # "closed"
  /\ conn[d].inbox # <<>> /\ Head(conn[d].inbox) = packet

HearOK(d) ==
  /\ Hears(d, "OK")
  /\ conn' = [conn EXCEPT ![d].status = "CONNECTED", ![d].listener = "connected",
                          ![d].inbox = Tail(@)]
  /\ UNCHANGED <<phone, tunnel, thread, out, holds, sent, clients, crashed, told, overtaken>>

(***************************************************************************)
(* The device whose id the status callback finds: it refers to the         *)
(* argument of createDevice(), which is gone after the return.  What is    *)
(* there may be what was, the argument of a later call, or anything else:  *)
(* -1 stands for an id without a connection, whose use crashes.            *)
(***************************************************************************)
Referred(d) ==
  IF thread["hub"] = [at |-> "announce", on |-> d] THEN {d}
  ELSE Entries \cup {-1}

\* connectedRoutine(): sendConnectForUnkownUSBDevice(), if there is a callback.
Connected(d) ==
  /\ conn[d].listener = "connected"
  /\ conn' = [conn EXCEPT ![d].listener = "receiving"]
  /\ \/ conn[d].wired < 2 /\ UNCHANGED <<out, crashed, told>>
     \/ /\ conn[d].wired = 2
        /\ \E e \in Referred(d) : Begin(d, e, "Connect") /\ crashed' = (e = -1)
        /\ told' = IF out' = out THEN told ELSE [told EXCEPT ![d] = @ + 1]
  /\ UNCHANGED <<phone, tunnel, thread, holds, sent, clients, overtaken>>

\* Faulty: the case falls through to that of OK.
HearRefusedThrough(d) ==
  /\ Hears(d, "Refused")
  /\ conn' = [conn EXCEPT ![d].status = "CONNECTED", ![d].listener = "connected",
                          ![d].inbox = Tail(@)]
  /\ UNCHANGED <<phone, tunnel, thread, out, holds, sent, clients, crashed, told, overtaken>>

\* There is no new attempt: the thread that made one is commented out.
HearRefused(d) ==
  /\ Hears(d, "Refused")
  /\ conn' = [conn EXCEPT ![d].status = "WANTING_CONNECTION", ![d].inbox = Tail(@)]
  /\ UNCHANGED <<phone, tunnel, thread, out, holds, sent, clients, crashed, told, overtaken>>

\* handleSubscribeRequest(): stored for whatever name the connection has by now.
HearRequest(d) ==
  /\ Hears(d, "Request")
  /\ conn' = [conn EXCEPT ![d].inbox = Tail(@)]
  /\ clients' = IF conn[d].wired = 0 THEN clients ELSE clients \cup {conn[d].name}
  /\ UNCHANGED <<phone, tunnel, thread, out, holds, sent, crashed, told, overtaken>>

\* handleConnectAck(): the client is known.
Know(d) ==
  clients' = IF conn[d].wired = 0 THEN clients ELSE clients \cup {Peer[d]}

\* Faulty: only a Connect brings the name.
HearConnectAckNameless(d) ==
  /\ Hears(d, "ConnectAck")
  /\ conn' = [conn EXCEPT ![d].inbox = Tail(@)]
  /\ Know(d)
  /\ UNCHANGED <<phone, tunnel, thread, out, holds, sent, crashed, told, overtaken>>

HearConnectAck(d) ==
  /\ Hears(d, "ConnectAck")
  /\ conn' = [conn EXCEPT ![d].name = Peer[d], ![d].inbox = Tail(@)]
  /\ Know(d)
  /\ UNCHANGED <<phone, tunnel, thread, out, holds, sent, crashed, told, overtaken>>

\* handleConnect() answers, to the connection its name leads to.
HearConnect(d) ==
  /\ Hears(d, "Connect")
  /\ conn' = [conn EXCEPT ![d].name = Peer[d], ![d].inbox = Tail(@)]
  /\ Know(d)
  /\ IF conn[d].wired = 0 THEN UNCHANGED out
     ELSE LET named == {e \in Entries : conn'[e].name = Peer[d]}
          IN  Begin(d, CHOOSE e \in named : \A f \in named : e <= f, "ConnectAck")
  /\ UNCHANGED <<phone, tunnel, thread, holds, sent, crashed, told, overtaken>>

\* recv() returns 0: the socket has been shut down, or usbmuxd has closed it
\* because the device is gone.
HearEnd(d) ==
  /\ conn[d].listener = "receiving" /\ out[d] = Nothing
  /\ conn[d].sock = "shut" \/ (conn[d].sock = "open" /\ Gone(d) /\ conn[d].inbox = <<>>)
  /\ conn' = [conn EXCEPT ![d].listener = "ended"]
  /\ UNCHANGED <<phone, tunnel, thread, out, holds, sent, clients, crashed, told, overtaken>>

\* recv() fails with EBADF: recieveMessageSize() calls itself without end.
HearBadDescriptor(d) ==
  /\ conn[d].listener = "receiving" /\ out[d] = Nothing
  /\ conn[d].sock = "closed"
  /\ conn' = [conn EXCEPT ![d].listener = "lost"]
  /\ crashed' \in BOOLEAN
  /\ UNCHANGED <<phone, tunnel, thread, out, holds, sent, clients, told, overtaken>>

-----------------------------------------------------------------------------
(* Connection::disconnect() and who calls it *)

\* A Detached message: removeDevice().
RemoveDevice(d) ==
  /\ thread["hub"].at = "wait"
  /\ phone[d] = "unplugged" /\ d \in Entries
  /\ phone' = [phone EXCEPT ![d] = "reported"]
  /\ thread' = [thread EXCEPT !["hub"] = [at |-> "test", on |-> d]]
  /\ UNCHANGED <<tunnel, conn, out, holds, sent, clients, crashed, told, overtaken>>

\* A keep-alive timer finds a client timed out, or the one named "": USBHub::disconnect().
DisconnectClient(n) ==
  /\ thread["worker"].at = "wait"
  /\ n \in clients /\ Route(n) # -1
  /\ thread' = [thread EXCEPT !["worker"] = [at |-> "test", on |-> Route(n)]]
  /\ UNCHANGED <<phone, tunnel, conn, out, holds, sent, clients, crashed, told, overtaken>>

\* stop(): USBHub::close() disconnects the devices in the order of their ids,
\* then ends and joins the hub's listening thread.
Stop ==
  /\ Stopping /\ thread["stop"].at = "wait"
  /\ Goto("stop", "next")
  /\ UNCHANGED <<phone, tunnel, conn, out, holds, sent, clients, crashed, told, overtaken>>

StopNext ==
  LET left == {d \in Entries : d > thread["stop"].on} IN
  /\ thread["stop"].at = "next"
  /\ \/ /\ left # {}
        /\ thread' = [thread EXCEPT !["stop"] =
             [at |-> "test", on |-> CHOOSE d \in left : \A e \in left : d <= e]]
     \/ /\ left = {} /\ thread["hub"].at = "wait"
        /\ thread' = [thread EXCEPT !["stop"].at = "ended", !["hub"].at = "ended"]
  /\ UNCHANGED <<phone, tunnel, conn, out, holds, sent, clients, crashed, told, overtaken>>

DisconnectTest(t, d) ==
  /\ thread[t] = [at |-> "test", on |-> d]
  /\ Goto(t, IF conn[d].status = "IDLE" THEN "idle" ELSE "abort")
  /\ overtaken' = IF thread["hub"].at \in Opening /\ thread["hub"].on = d
                  THEN overtaken \cup {d} ELSE overtaken
  /\ UNCHANGED <<phone, tunnel, conn, out, holds, sent, clients, crashed, told>>

\* status = CONNECTED, "to abort reconnecting thread".
DisconnectAbort(t, d) ==
  /\ thread[t] = [at |-> "abort", on |-> d]
  /\ conn' = [conn EXCEPT ![d].status = "CONNECTED"]
  /\ Goto(t, "shutdown")
  /\ UNCHANGED <<phone, tunnel, out, holds, sent, clients, crashed, told, overtaken>>

\* Faulty: join without a shutdown.
NoShutdown(t, d) ==
  /\ thread[t] = [at |-> "shutdown", on |-> d]
  /\ Goto(t, "join")
  /\ UNCHANGED <<phone, tunnel, conn, out, holds, sent, clients, crashed, told, overtaken>>

\* Faulty: close() stops at the shutdown.
ShutdownOnly(t, d) ==
  /\ thread[t] = [at |-> "shutdown", on |-> d]
  /\ conn' = [conn EXCEPT ![d].sock = IF @ = "open" THEN "shut" ELSE @]
  /\ Goto(t, "idle")
  /\ UNCHANGED <<phone, tunnel, out, holds, sent, clients, crashed, told, overtaken>>

\* There is no socket, or another thread has closed it; on Apple's systems, too, when
\* the peer has ended (ENOTCONN) or another thread has shut the socket down.
MayFail(d) ==
  \/ conn[d].sock \in {"none", "closed"}
  \/ Apple /\ (Gone(d) \/ conn[d].sock = "shut")

\* SocketClient::close() locks send_mutex, and returns at once when shutdown() fails.
DisconnectShutdown(t, d) ==
  /\ thread[t] = [at |-> "shutdown", on |-> d]
  /\ MutexFree(d)
  /\ \/ /\ conn[d].sock \in {"open", "shut"}
        /\ conn' = [conn EXCEPT ![d].sock = "shut"]
        /\ Goto(t, "join")
     \/ /\ MayFail(d)
        /\ Goto(t, "idle")
        /\ UNCHANGED conn
  /\ Stray(d)
  /\ UNCHANGED <<phone, tunnel, out, holds, sent, clients, told, overtaken>>

\* Faulty: the thread is detached instead of joined.
DisconnectDetach(t, d) ==
  /\ thread[t] = [at |-> "join", on |-> d]
  /\ Goto(t, "close")
  /\ UNCHANGED <<phone, tunnel, conn, out, holds, sent, clients, crashed, told, overtaken>>

\* If there is a listening thread.  Two threads that join it are undefined behaviour.
DisconnectJoin(t, d) ==
  /\ thread[t] = [at |-> "join", on |-> d]
  /\ conn[d].listener \in {"none", "ended", "joined"}
  /\ conn' = [conn EXCEPT ![d].listener = IF @ = "none" THEN @ ELSE "joined"]
  /\ crashed' \in IF \E u \in Threads \ {t} : thread[u] = thread[t] THEN BOOLEAN ELSE {FALSE}
  /\ Goto(t, "close")
  /\ UNCHANGED <<phone, tunnel, out, holds, sent, clients, told, overtaken>>

DisconnectClose(t, d) ==
  /\ thread[t] = [at |-> "close", on |-> d]
  /\ MutexFree(d)
  /\ conn' = [conn EXCEPT ![d].sock = "closed"]
  /\ Stray(d)
  /\ Goto(t, "idle")
  /\ UNCHANGED <<phone, tunnel, out, holds, sent, clients, told, overtaken>>

Leave(t) ==
  thread' = IF t = "stop" THEN [thread EXCEPT ![t].at = "next"]
            ELSE [thread EXCEPT ![t] = [at |-> "wait", on |-> -1]]

\* The status callback, if any, is told DISCONNECTED, which ClientDispatcher
\* ignores; status = IDLE; the hub publishes DETACHED, without a name.
DisconnectIdle(t, d) ==
  /\ thread[t] = [at |-> "idle", on |-> d]
  /\ conn' = [conn EXCEPT ![d].status = "IDLE"]
  /\ Leave(t)
  /\ UNCHANGED <<phone, tunnel, out, holds, sent, clients, crashed, told, overtaken>>

-----------------------------------------------------------------------------
Create(d) == \/ StartConnection(d) \/ Connect(d) \/ Open(d) \/ StartListening(d)
             \/ RequestTunnel(d) \/ Mark(d) \/ Wire(d) \/ Announce(d)

Listen(d) == \/ HearOK(d) \/ Connected(d) \/ HearRefused(d) \/ HearRequest(d)
             \/ HearConnectAck(d) \/ HearConnect(d) \/ HearEnd(d) \/ HearBadDescriptor(d)

Disconnect(t, d) == \/ DisconnectTest(t, d) \/ DisconnectAbort(t, d)
                    \/ DisconnectShutdown(t, d) \/ DisconnectJoin(t, d)
                    \/ DisconnectClose(t, d) \/ DisconnectIdle(t, d)

Next ==
  /\ ~crashed
  /\ \/ \E d \in Devices :
          \/ Plug(d) \/ Unplug(d) \/ Answer(d) \/ Hurry(d) \/ Greet(d)
          \/ CreateDevice(d) \/ Create(d) \/ RemoveDevice(d) \/ Listen(d)
     \/ \E s \in Senders : Lock(s) \/ Write(s)
     \/ \E t \in Threads, d \in Devices : Disconnect(t, d)
     \/ \E n \in Names \cup {NoName} : DisconnectClient(n)
     \/ Send \/ Stop \/ StopNext

Spec == Init /\ [][Next]_vars

\* What each thread may do next.  A ::send to a peer that is there may take for ever.
SendStep(s)     == Lock(s) \/ (Returns(s) /\ Write(s))
DisconnectStep(t) == \E d \in Devices : Disconnect(t, d)
HubStep         == \/ \E d \in Devices : CreateDevice(d) \/ Create(d) \/ RemoveDevice(d)
                   \/ DisconnectStep("hub")

\* Every thread goes on when it can, and gets a mutex that is free again and again.
FairSpec ==
  /\ Spec
  /\ SF_vars(~crashed /\ HubStep)
  /\ SF_vars(~crashed /\ (StopNext \/ DisconnectStep("stop")))
  /\ SF_vars(~crashed /\ SendStep(Publisher))
  /\ \A d \in Devices : SF_vars(~crashed /\ (Listen(d) \/ SendStep(d)))

-----------------------------------------------------------------------------
(* Properties *)

(***************************************************************************)
(* status, which four kinds of threads write, is CONNECTED only if usbmuxd *)
(* has opened the tunnel or the connection is being closed                 *)
(* (connection.cpp:52, 83, 140).                                           *)
(***************************************************************************)
ConfirmedOrClosing ==
  \A d \in Devices :
    conn[d].status = "CONNECTED" => tunnel[d] \in {"open", "greeted"} \/ ClosingNow(d)

(***************************************************************************)
(* A connection that disconnect() has left IDLE has no socket and no       *)
(* thread, although a keep-alive timer and a Detached message may close it *)
(* at the same time (connection.cpp:81-93, usbhub.cpp:45-57).  Two kinds   *)
(* of connections are left with them: those a disconnect() met while       *)
(* createDevice() was still opening them, and on Apple's systems those     *)
(* whose peer had ended, where shutdown() fails (socket_client.cpp:93).    *)
(***************************************************************************)
IdleMeansClosed ==
  \A d \in Devices \ overtaken :
    conn[d].status = "IDLE" /\ ~ClosingNow(d) =>
      \/ /\ conn[d].sock \in {"none", "closed"}
         /\ conn[d].listener \in {"none", "joined"}
      \/ Apple /\ Gone(d) /\ conn[d].sock = "open"

(***************************************************************************)
(* Whatever order createDevice(), the listening thread and the threads     *)
(* that disconnect come in, each device has one session: a socket opened   *)
(* once, read by one thread, shut down, and closed only when that thread   *)
(* has ended (connection.cpp:40-52, 81-93, socket_client.cpp:91-111).  A   *)
(* session is lost, if at all, before anybody reads from its socket.       *)
(***************************************************************************)
Session == INSTANCE DeviceSession WITH
  socket  <- [d \in Devices |->
                IF d \in overtaken THEN "lost"
                ELSE IF conn[d].sock = "open" /\ conn[d].listener = "none" THEN "fresh"
                ELSE conn[d].sock],
  reading <- {d \in Devices \ overtaken : conn[d].listener \in {"receiving", "connected"}},
  granted <- {d \in Devices \ overtaken : tunnel[d] \in {"open", "greeted"}}

KeepsSessions == Session!Spec

(***************************************************************************)
(* A listening thread says Connect at most once, and only when the tunnel  *)
(* to its own device is there; ConnectAck only to answer                   *)
(* (connection.cpp:139-147, client_dispatcher.cpp:98-104, 146-149).  To    *)
(* whom its Connect goes is another question: usbhub.cpp:31 refers to an   *)
(* argument that is gone.                                                  *)
(***************************************************************************)
ConnectAfterTunnel ==
  \A d \in Devices :
    /\ told[d] <= 1
    /\ told[d] > 0 \/ out[d] # Nothing => tunnel[d] \in {"open", "greeted"}
    /\ out[d].kind = "ConnectAck" => tunnel[d] = "greeted"

\* A connection whose two sides have heard each other.
Live(d) ==
  /\ tunnel[d] = "greeted" /\ conn[d].inbox = <<>>
  /\ conn[d].status = "CONNECTED" /\ conn[d].sock = "open" /\ ~ClosingNow(d)

(***************************************************************************)
(* What is sent to a client that is connected goes to a connection that is *)
(* up: "publish evenets will be sent to device" (swiftrobotc.h:20).        *)
(***************************************************************************)
ReachesClient ==
  \A d \in Devices :
    Live(d) /\ Peer[d] \in clients =>
      Route(Peer[d]) # -1 /\ conn[Route(Peer[d])].status = "CONNECTED"

\* No ::send is blocked for ever with the send_mutex held.
SendsReturn == \A s \in Senders : []<>(s \notin holds)

\* Nobody waits for ever for a thread that reads from a closed descriptor.
NobodyLost ==
  []<>~(\E t \in Threads, d \in Devices :
          thread[t] = [at |-> "join", on |-> d] /\ conn[d].listener = "lost")

(***************************************************************************)
(* The hub's listening thread gets back to its socket, and stop() returns: *)
(* the threads they join end and the mutexes they wait for come free       *)
(* (socket_client.cpp:91-111, usbhub.cpp:19-24), unless a peer does not    *)
(* read: close() waits for the send_mutex of the send() it should end.     *)
(***************************************************************************)
JoinersReturn ==
  SendsReturn /\ NobodyLost =>
    \A t \in {"hub", "stop"} : []<>(crashed \/ thread[t].at \in {"wait", "ended"})

(***************************************************************************)
(* A connection request is "sent right after a connection is established"  *)
(* (swiftrobot_packet.h:106); here of a connection to whose device no      *)
(* ::send is blocked.                                                      *)
(***************************************************************************)
ConnectFollows ==
  SendsReturn =>
    \A d \in Devices :
      tunnel[d] = "open" ~>
        \/ crashed \/ phone[d] # "plugged" \/ conn[d].status = "IDLE"
        \/ d \in sent
=============================================================================
