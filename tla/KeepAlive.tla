------------------------------ MODULE KeepAlive ------------------------------
(***************************************************************************)
(* The keep-alive cycle of the client dispatcher (client_dispatcher.cpp).  *)
(* A timer comes back every Check units of time and a random offset; each  *)
(* client it finds timed out is sent a request, and a second timer looks   *)
(* Wait units later whether anything has been heard of the client since.   *)
(* If not, it is disconnected.                                             *)
(*                                                                         *)
(* Time passes in units.  The dispatch queue runs a timer at most Late     *)
(* units after its time, which supposes that the pool has a worker left.   *)
(* What a check and a disconnect() do takes no time, but for the wait for  *)
(* the send_mutex of a connection: a ::send that is blocked because the    *)
(* peer does not read holds it for as long as that lasts.                  *)
(*                                                                         *)
(* Connections are looked up by name: a client whose earlier connection is *)
(* still in devices may not be reached, and a packet that comes before its *)
(* sender's name makes a client named "", whose connection is any that has *)
(* no name yet.  That client is not kept, nor when it is timed out: its    *)
(* second timers are taken to come at any time.                            *)
(*                                                                         *)
(* keepAliveCheckRunning is left out: start() sets it and nothing resets   *)
(* it, because stopKeepAliveCheckCycle() has no caller.                    *)
(***************************************************************************)
EXTENDS Integers, FiniteSets

CONSTANTS Clients,
          Check,      \* KEEP_ALIVE_CHECK_TIMER
          MaxOffset,  \* the largest offset, below KEEP_ALIVE_TIMER_RANDOM_OFFSET_MAX
          Wait,       \* KEEP_ALIVE_WAITING_TIME
          Timeout,    \* KEEP_ALIVE_TIMEOUT
          Late,       \* how late a timer may run
          Cycles      \* bound: the calls of start(), each of which starts a cycle

ASSUME TimeAssumption ==
  /\ {Check, Wait, Timeout} \subseteq Nat \ {0}
  /\ {MaxOffset, Late} \subseteq Nat

VARIABLES link,      \* each client's connection: "none" yet, "new" and without a name,
                     \* "up", "astray" behind an earlier one of its name, "down"
          old,       \* the clients with earlier connections in devices
          naming,    \* listening threads between the name and the time of the client
          choked,    \* the clients to whose connection a ::send is blocked
          age,       \* time since lastKeepAliveResponse of each client, or Unheard
          waited,    \* history: the part of it in which nothing was held up
          asked,     \* time since the oldest request it has not answered, up to Wait,
                     \* or NoRequest
          next,      \* the time until the next check of each cycle that runs
          checking,  \* the cycles whose check is under way
          todo,      \* the clients these checks have still to come to
          asking,    \* checks that have found a client timed out
          reached,   \* those of them that have found its connection, which is there yet
          looks,     \* second timers: whose client, set by which cycle, time left
          deciding,  \* workers between isTimedOut() and disconnect()
          closing    \* the clients whose connection disconnect() has found

timers      == <<next, checking, todo, asking, looks, deciding>>
connections == <<link, old, naming, choked, reached, closing>>
vars        == <<connections, age, waited, asked, timers>>

NoRequest == -1
Unheard   == -1
Open      == {"new", "up", "astray"}

\* A client that is silent for longer must have been disconnected.
Limit == Timeout + Check + MaxOffset + Wait + 2 * Late

TypeOK ==
  /\ link \in [Clients -> {"none", "down"} \cup Open]
  /\ {old, naming, choked, closing} \subseteq SUBSET Clients
  /\ age \in [Clients -> Unheard..(Timeout + 1)]
  /\ waited \in [Clients -> Unheard..(Limit + 1)]
  /\ asked \in [Clients -> NoRequest..Wait]
  /\ DOMAIN next \subseteq Cycles
  /\ next \in [DOMAIN next -> (-Late)..(Check + MaxOffset)]
  /\ checking \subseteq DOMAIN next
  /\ {todo, asking, deciding} \subseteq SUBSET (Clients \X Cycles)
  /\ reached \subseteq asking
  /\ looks \subseteq [client : Clients, cycle : Cycles, left : (-Late)..Wait]

\* Faulty: the offset alone.
DelayOffset == 0..MaxOffset

\* Faulty: the modulus is applied to the sum, which may then be larger.
DelayWide == Check..(Check + MaxOffset + 1)

\* The delays startKeepAliveCheckCycle() may choose.
Delay == Check..(Check + MaxOffset)

\* start() has been called; nobody has connected yet.
Init ==
  /\ link = [c \in Clients |-> "none"]
  /\ age = [c \in Clients |-> Unheard] /\ waited = age
  /\ asked = [c \in Clients |-> NoRequest]
  /\ \E k \in Cycles, w \in Delay : next = [j \in {k} |-> w]
  /\ old = {} /\ naming = {} /\ choked = {} /\ closing = {}
  /\ checking = {} /\ todo = {} /\ asking = {} /\ reached = {}
  /\ looks = {} /\ deciding = {}

TimedOut(c) == age[c] > Timeout

-----------------------------------------------------------------------------
(* The connections and what comes in on them *)

\* connectedRoutine() of a new connection.
Connected(c) ==
  /\ link[c] \in {"none", "down"}
  /\ link' = [link EXCEPT ![c] = "new"]
  /\ UNCHANGED <<old, naming, choked, reached, closing, age, waited, asked, timers>>

\* Connect or ConnectAck: from now on the connection has a name, and is found by it
\* unless an earlier one is found first.
Name(c) ==
  /\ link[c] = "new"
  /\ \/ link' = [link EXCEPT ![c] = "up"]
     \/ c \in old /\ link' = [link EXCEPT ![c] = "astray"]
  /\ naming' = naming \cup {c}
  /\ UNCHANGED <<old, choked, reached, closing, age, waited, asked, timers>>

\* lastKeepAliveResponse = now().
Note(c) ==
  /\ age' = [age EXCEPT ![c] = 0]
  /\ waited' = [waited EXCEPT ![c] = 0]

\* Only then does the client begin anew.
HandleConnect(c) ==
  /\ c \in naming
  /\ naming' = naming \ {c}
  /\ Note(c)
  /\ UNCHANGED <<link, old, choked, reached, closing, asked, timers>>

\* A message, a request of the peer, or another Connect.
Hear(c) ==
  /\ link[c] \in {"up", "astray"} /\ c \notin naming
  /\ Note(c)
  /\ UNCHANGED <<connections, asked, timers>>

\* Faulty: the answer is not noted.
HandleKeepAliveResponseUnnoted(c) ==
  /\ link[c] = "up" /\ c \notin naming /\ asked[c] # NoRequest
  /\ asked' = [asked EXCEPT ![c] = NoRequest]
  /\ UNCHANGED <<connections, age, waited, timers>>

HandleKeepAliveResponse(c) ==
  /\ link[c] = "up" /\ c \notin naming /\ asked[c] # NoRequest
  /\ asked' = [asked EXCEPT ![c] = NoRequest]
  /\ Note(c)
  /\ UNCHANGED <<connections, timers>>

\* A connection ends; it stays in devices under the name it has.
Drop(c) ==
  /\ link' = [link EXCEPT ![c] = "down"]
  /\ old' = IF link[c] \in {"up", "astray"} THEN old \cup {c} ELSE old
  /\ asked' = [asked EXCEPT ![c] = NoRequest]
  /\ choked' = choked \ {c} /\ closing' = closing \ {c}
  /\ reached' = {p \in reached : p[1] # c}
  /\ UNCHANGED <<naming, age, waited, timers>>

\* The device is unplugged.  The client stays in clients.
Lose(c) == link[c] \in Open /\ Drop(c)

\* The peer does not read, and a ::send to it is blocked ...
Choke(c) ==
  /\ link[c] \in Open
  /\ choked' = choked \cup {c}
  /\ UNCHANGED <<link, old, naming, reached, closing, age, waited, asked, timers>>

\* ... until it reads again.
Unchoke(c) ==
  /\ choked' = choked \ {c}
  /\ UNCHANGED <<link, old, naming, reached, closing, age, waited, asked, timers>>

-----------------------------------------------------------------------------
(* The timers *)

\* start() after stop(): a cycle more, since stop() ends none.
Start(k) ==
  /\ k \notin DOMAIN next
  /\ \E w \in Delay : next' = [j \in DOMAIN next \cup {k} |-> IF j = k THEN w ELSE next[j]]
  /\ UNCHANGED <<connections, age, waited, asked, checking, todo, asking, looks, deciding>>

\* The timer of a cycle, which goes through the clients.
CheckClients(k) ==
  /\ k \in DOMAIN next \ checking /\ next[k] <= 0
  /\ checking' = checking \cup {k}
  /\ todo' = todo \cup (Clients \X {k})
  /\ UNCHANGED <<connections, age, waited, asked, next, asking, looks, deciding>>

\* isTimedOut(), and the connection found by the client's name.
Visit(p) ==
  /\ \A q \in asking : q[2] # p[2]
  /\ todo' = todo \ {p}
  /\ asking' = IF TimedOut(p[1]) THEN asking \cup {p} ELSE asking
  /\ reached' = IF TimedOut(p[1]) /\ link[p[1]] = "up" THEN reached \cup {p} ELSE reached
  /\ UNCHANGED <<link, old, naming, choked, closing, age, waited, asked>>
  /\ UNCHANGED <<next, checking, looks, deciding>>

\* The request waits for the send_mutex.  Then a second timer is set, whether or not
\* there is a connection and whether or not one is set already.
Ask(p) ==
  /\ p \in reached => p[1] \notin choked
  /\ asked' = IF p \in reached /\ asked[p[1]] = NoRequest
              THEN [asked EXCEPT ![p[1]] = 0] ELSE asked
  /\ looks' = looks \cup {[client |-> p[1], cycle |-> p[2], left |-> Wait]}
  /\ asking' = asking \ {p} /\ reached' = reached \ {p}
  /\ UNCHANGED <<link, old, naming, choked, closing, age, waited>>
  /\ UNCHANGED <<next, checking, todo, deciding>>

\* Faulty: the cycle is not started again.
RestartNot(k) ==
  /\ k \in checking /\ \A p \in todo \cup asking : p[2] # k
  /\ checking' = checking \ {k}
  /\ next' = [j \in DOMAIN next \ {k} |-> next[j]]
  /\ UNCHANGED <<connections, age, waited, asked, todo, asking, looks, deciding>>

\* The check has come to its end, and starts the cycle again.
Restart(k) ==
  /\ k \in checking /\ \A p \in todo \cup asking : p[2] # k
  /\ checking' = checking \ {k}
  /\ next' \in {[next EXCEPT ![k] = w] : w \in Delay}
  /\ UNCHANGED <<connections, age, waited, asked, todo, asking, looks, deciding>>

\* The second timer: isTimedOut() ...
Look(l) ==
  /\ l.left <= 0
  /\ looks' = looks \ {l}
  /\ deciding' = IF TimedOut(l.client) THEN deciding \cup {<<l.client, l.cycle>>} ELSE deciding
  /\ UNCHANGED <<connections, age, waited, asked, next, checking, todo, asking>>

\* ... and disconnect(), of the connection found by the client's name.  An earlier one
\* is IDLE, and nothing happens.
Disconnect(d) ==
  /\ deciding' = deciding \ {d}
  /\ closing' = IF link[d[1]] = "up" THEN closing \cup {d[1]} ELSE closing
  /\ UNCHANGED <<link, old, naming, choked, reached, age, waited, asked>>
  /\ UNCHANGED <<next, checking, todo, asking, looks>>

\* disconnect() of the client named "", by its second timer.
DisconnectUnnamed(c) ==
  /\ link[c] = "new"
  /\ closing' = closing \cup {c}
  /\ UNCHANGED <<link, old, naming, choked, reached, age, waited, asked, timers>>

\* close(), which waits for the send_mutex.
Close(c) == c \in closing /\ c \notin choked /\ Drop(c)

\* A check waits for the send_mutex of a client.
Waits(k) == \E p \in reached : p[2] = k /\ p[1] \in choked

\* A check is held up, or the disconnect() of this client.
Held(c) == checking # {} \/ c \in closing

\* Time passes unless a timer is at its latest.
Tick ==
  /\ \A k \in DOMAIN next : IF k \in checking THEN Waits(k) ELSE next[k] > -Late
  /\ \A l \in looks : l.left > -Late
  /\ deciding = {} /\ closing \subseteq choked
  /\ age' = [c \in Clients |->
       IF age[c] = Unheard \/ TimedOut(c) THEN age[c] ELSE age[c] + 1]
  /\ waited' = [c \in Clients |->
       IF waited[c] = Unheard \/ waited[c] > Limit \/ Held(c) THEN waited[c] ELSE waited[c] + 1]
  /\ asked' = [c \in Clients |->
       IF asked[c] \in {NoRequest, Wait} THEN asked[c] ELSE asked[c] + 1]
  /\ next' = [k \in DOMAIN next |-> IF k \in checking THEN next[k] ELSE next[k] - 1]
  /\ looks' = {[l EXCEPT !.left = @ - 1] : l \in looks}
  /\ UNCHANGED <<connections, checking, todo, asking, deciding>>

Next ==
  \/ \E c \in Clients :
       \/ Connected(c) \/ Name(c) \/ HandleConnect(c) \/ Hear(c)
       \/ HandleKeepAliveResponse(c) \/ Lose(c) \/ Choke(c) \/ Unchoke(c)
       \/ DisconnectUnnamed(c) \/ Close(c)
  \/ \E k \in Cycles : Start(k) \/ CheckClients(k) \/ Restart(k)
  \/ \E p \in todo : Visit(p)
  \/ \E p \in asking : Ask(p)
  \/ \E l \in looks : Look(l)
  \/ \E d \in deciding : Disconnect(d)
  \/ Tick

Spec == Init /\ [][Next]_vars

-----------------------------------------------------------------------------
(* Properties *)

(***************************************************************************)
(* Only who has left a request unanswered for Wait is found dead while his *)
(* connection is up, whatever requests are under way, however long they    *)
(* wait for a mutex and whichever timers of an earlier connection or cycle *)
(* are still set (client_dispatcher.cpp:52-66).  The exception is a client *)
(* whose connection has just got its name: until handleConnectAck() has    *)
(* noted the time (client_dispatcher.cpp:152-157), that of its earlier     *)
(* connection counts.                                                      *)
(***************************************************************************)
AnswersCount ==
  [][\A d \in deciding' \ deciding :
       link[d[1]] = "up" /\ d[1] \notin naming => asked[d[1]] >= Wait]_vars

(***************************************************************************)
(* A connection that its client's name leads to does not stay up for       *)
(* longer than Limit without a sign of life (client_dispatcher.cpp:44-86), *)
(* not counting the time in which a check waited for the send_mutex of any *)
(* client or a disconnect() for that of this one (socket_client.cpp:92,    *)
(* 118).                                                                   *)
(***************************************************************************)
SilentGoes == \A c \in Clients \ naming : link[c] = "up" => waited[c] <= Limit

(***************************************************************************)
(* Although every check sets another timer for a client that is timed out, *)
(* and goes on to do so when it is gone, the dispatch queue holds only so  *)
(* many of them, also after a check that was held up                       *)
(* (client_dispatcher.cpp:51-68).                                          *)
(***************************************************************************)
LooksBounded ==
  \A c \in Clients :
    Cardinality({l \in looks : l.client = c})
      <= Cardinality(DOMAIN next) * (1 + (Wait + Late) \div Check)
=============================================================================
