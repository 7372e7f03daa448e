---------------------------- MODULE KeepAliveProofs ----------------------------
(***************************************************************************)
(* The keep-alive cycle for any clients, any number of cycles and any      *)
(* times: the types of the state, how long a silent client may stay        *)
(* connected, how many timers are set at once, and, for times as they are  *)
(* in the code, that an answer counts.                                     *)
(***************************************************************************)
EXTENDS KeepAlive, FunctionTheorems, FiniteSetTheorems, TLAPS

\* Some cycle always runs, and there are finitely many of them.
Running == IsFiniteSet(DOMAIN next) /\ DOMAIN next # {}

\* A check comes to each client once, and asks one at a time.
Underway ==
  /\ \A p \in todo \cup asking : p[2] \in checking
  /\ \A p \in asking : p \notin todo
  /\ \A p, q \in asking : p[2] = q[2] => p = q

(***************************************************************************)
(* A client that is timed out while its connection is up is still to be    *)
(* found by a check, or asked, or to be found by a second timer, or about  *)
(* to be disconnected, each early enough.  A check that is under way and   *)
(* has been to the client before it was timed out comes again.             *)
(***************************************************************************)
ToBeChecked(c) ==
  \E k \in DOMAIN next :
    IF k \in checking /\ <<c, k>> \notin todo THEN waited[c] <= Timeout
    ELSE waited[c] + next[k] <= Timeout + Check + MaxOffset

ToBeAsked(c) == waited[c] + Wait <= Limit - Late /\ \E p \in asking : p[1] = c

ToBeLookedAt(c) == \E l \in looks : l.client = c /\ waited[c] + l.left <= Limit - Late

ToBeDropped(c) == waited[c] <= Limit /\ (c \in closing \/ \E d \in deciding : d[1] = c)

Watch(c) == ToBeChecked(c) \/ ToBeAsked(c) \/ ToBeLookedAt(c) \/ ToBeDropped(c)

Watched ==
  \A c \in Clients :
    /\ TimedOut(c) \/ waited[c] <= age[c]
    /\ link[c] = "up" /\ c \notin naming /\ TimedOut(c) => Watch(c)

(***************************************************************************)
(* Second timers of one cycle for one client are at least Check apart, and *)
(* the next check, or what is left of the present one, is as far from the  *)
(* last of them.                                                           *)
(***************************************************************************)
Followed(l) ==
  /\ l.cycle \in DOMAIN next
  /\ IF l.cycle \in checking
     THEN <<l.client, l.cycle>> \in todo \cup asking => l.left + Check <= Wait
     ELSE l.left + Check <= Wait + next[l.cycle]

\* Two second timers of one cycle for one client are the same, or Check apart.
Apart(l, m) ==
  l.client = m.client /\ l.cycle = m.cycle =>
    l.left = m.left \/ l.left + Check <= m.left \/ m.left + Check <= l.left

Spaced == \A l \in looks : Followed(l) /\ \A m \in looks : Apart(l, m)

(***************************************************************************)
(* While a second timer runs its client has been heard of since the timer  *)
(* was set, or else it has had a request for as long as the timer has run. *)
(* A request that has found no connection finds none that says nothing.    *)
(***************************************************************************)
HeardSince(l) == age[l.client] + l.left <= Wait

AskedSince(l) ==
  /\ asked[l.client] \in 0..Wait
  /\ asked[l.client] = Wait \/ asked[l.client] + l.left >= Wait

Up(c) == link[c] = "up" /\ c \notin naming

Answerable ==
  /\ \A l \in looks : Up(l.client) => HeardSince(l) \/ AskedSince(l)
  /\ \A p \in asking \ reached : Up(p[1]) => age[p[1]] <= 0

-----------------------------------------------------------------------------
(* Types *)

Looks == [client : Clients, cycle : Cycles, left : (-Late)..Wait]

LEMMA Constants ==
  /\ Check \in Nat /\ Check > 0 /\ Wait \in Nat /\ Wait > 0 /\ Timeout \in Nat /\ Timeout > 0
  /\ MaxOffset \in Nat /\ Late \in Nat
  /\ Limit = Timeout + Check + MaxOffset + Wait + 2 * Late /\ Limit \in Nat
BY TimeAssumption DEF Limit

\* What the types say of the variables that hold times.
LEMMA StateTypes ==
  ASSUME TypeOK
  PROVE  /\ \A c \in Clients : age[c] \in Int /\ waited[c] \in Int /\ asked[c] \in Int
         /\ \A k \in DOMAIN next : k \in Cycles /\ next[k] \in (-Late)..(Check + MaxOffset)
         /\ \A l \in looks : l \in Looks
<1>1. /\ Limit + 1 \in Int /\ Timeout + 1 \in Int /\ Unheard \in Int /\ NoRequest \in Int
      /\ Wait \in Int
  BY Constants DEF Unheard, NoRequest
<1>2. \A c \in Clients : /\ age[c] \in Unheard..(Timeout + 1)
                         /\ waited[c] \in Unheard..(Limit + 1)
                         /\ asked[c] \in NoRequest..Wait
  BY DEF TypeOK
<1>. QED  BY <1>1, <1>2 DEF TypeOK, Looks

\* What they say of the others.
LEMMA SetTypes ==
  ASSUME TypeOK
  PROVE  /\ old \subseteq Clients /\ naming \subseteq Clients /\ choked \subseteq Clients
         /\ closing \subseteq Clients
         /\ todo \subseteq Clients \X Cycles /\ asking \subseteq Clients \X Cycles
         /\ deciding \subseteq Clients \X Cycles /\ reached \subseteq asking
BY DEF TypeOK

LEMMA NoteTypes ==
  ASSUME TypeOK, NEW c \in Clients, Note(c)
  PROVE  /\ age' \in [Clients -> Unheard..(Timeout + 1)]
         /\ waited' \in [Clients -> Unheard..(Limit + 1)]
<1>1. 0 \in Unheard..(Limit + 1) /\ 0 \in Unheard..(Timeout + 1)
  BY Constants DEF Unheard
<1>. QED  BY <1>1 DEF Note, TypeOK

LEMMA DropTypes ==
  ASSUME TypeOK, NEW c \in Clients, Drop(c)
  PROVE  TypeOK'
<1>1. NoRequest \in NoRequest..Wait
  BY Constants DEF NoRequest
<1>2. link' \in [Clients -> {"none", "down"} \cup Open] /\ asked' \in [Clients -> NoRequest..Wait]
  BY <1>1 DEF Drop, TypeOK
<1>3. /\ old' \subseteq Clients /\ choked' \subseteq Clients /\ closing' \subseteq Clients
      /\ reached' \subseteq asking /\ UNCHANGED <<naming, age, waited, timers>>
  BY SetTypes DEF Drop
<1>. QED  BY <1>2, <1>3 DEF TypeOK, timers

LEMMA TickTypes ==
  ASSUME TypeOK, Tick
  PROVE  TypeOK'
<1> USE Constants DEF Unheard, NoRequest
<1>1. age' \in [Clients -> Unheard..(Timeout + 1)]
  <2>1. \A c \in Clients : age[c] \in Unheard..(Timeout + 1)
    BY DEF TypeOK
  <2>. QED  BY <2>1 DEF Tick, TimedOut
<1>2. waited' \in [Clients -> Unheard..(Limit + 1)]
  <2>1. \A c \in Clients : waited[c] \in Unheard..(Limit + 1)
    BY DEF TypeOK
  <2>. QED  BY <2>1 DEF Tick
<1>3. asked' \in [Clients -> NoRequest..Wait]
  <2>1. \A c \in Clients : asked[c] \in NoRequest..Wait
    BY DEF TypeOK
  <2>. QED  BY <2>1 DEF Tick
<1>4. DOMAIN next' = DOMAIN next /\ next' \in [DOMAIN next -> (-Late)..(Check + MaxOffset)]
  <2>1. \A k \in DOMAIN next : /\ next[k] \in (-Late)..(Check + MaxOffset)
                               /\ k \notin checking => next[k] > -Late
    BY StateTypes DEF Tick
  <2>2. \A k \in DOMAIN next : k \notin checking => next[k] - 1 \in (-Late)..(Check + MaxOffset)
    BY <2>1
  <2>. QED  BY <2>1, <2>2 DEF Tick
<1>5. looks' \subseteq Looks
  <2> SUFFICES ASSUME NEW l \in looks PROVE [l EXCEPT !.left = @ - 1] \in Looks
    BY DEF Tick
  <2>1. l \in Looks /\ l.left > -Late
    BY StateTypes DEF Tick
  <2>2. l.left - 1 \in (-Late)..Wait
    BY <2>1 DEF Looks
  <2>. QED  BY <2>1, <2>2 DEF Looks
<1>6. UNCHANGED <<link, old, naming, choked, reached, closing, checking, todo, asking, deciding>>
  BY DEF Tick, connections
<1>. QED  BY <1>1, <1>2, <1>3, <1>4, <1>5, <1>6 DEF TypeOK, Looks

LEMMA CheckTypes ==
  ASSUME TypeOK, NEW k \in Cycles, CheckClients(k) \/ Restart(k) \/ Start(k)
  PROVE  TypeOK'
<1> USE Constants
<1>1. \A w \in Delay : w \in (-Late)..(Check + MaxOffset)
  BY DEF Delay
<1>2. CASE CheckClients(k)
  <2>1. checking' \subseteq DOMAIN next /\ todo' \subseteq Clients \X Cycles
    BY <1>2, SetTypes DEF CheckClients, TypeOK
  <2>. QED  BY <1>2, <2>1 DEF CheckClients, TypeOK, connections
<1>3. CASE Restart(k)
  <2>1. PICK w \in Delay : next' = [next EXCEPT ![k] = w]
    BY <1>3 DEF Restart
  <2>2. DOMAIN next' = DOMAIN next /\ next' \in [DOMAIN next -> (-Late)..(Check + MaxOffset)]
    BY <1>1, <2>1 DEF TypeOK
  <2>. QED  BY <1>3, <2>2 DEF Restart, TypeOK, connections
<1>4. CASE Start(k)
  <2>1. PICK w \in Delay :
          next' = [j \in DOMAIN next \cup {k} |-> IF j = k THEN w ELSE next[j]]
    BY <1>4 DEF Start
  <2>2. /\ DOMAIN next' = DOMAIN next \cup {k}
        /\ next' \in [DOMAIN next \cup {k} -> (-Late)..(Check + MaxOffset)]
    BY <1>1, <2>1, StateTypes
  <2>3. /\ DOMAIN next' \subseteq Cycles /\ checking \subseteq DOMAIN next'
        /\ next' \in [DOMAIN next' -> (-Late)..(Check + MaxOffset)]
    BY <2>2 DEF TypeOK
  <2>. QED  BY <1>4, <2>3 DEF Start, TypeOK, connections
<1>. QED  BY <1>2, <1>3, <1>4

LEMMA VisitTypes ==
  ASSUME TypeOK, NEW p \in todo, Visit(p)
  PROVE  TypeOK'
<1>1. /\ todo' \subseteq Clients \X Cycles /\ asking' \subseteq Clients \X Cycles
      /\ reached' \subseteq asking'
  BY SetTypes DEF Visit
<1>. QED  BY <1>1 DEF Visit, TypeOK

LEMMA AskTypes ==
  ASSUME TypeOK, NEW p \in asking, Ask(p)
  PROVE  TypeOK'
<1>1. p[1] \in Clients /\ p[2] \in Cycles
  BY SetTypes
<1>2. 0 \in NoRequest..Wait /\ Wait \in (-Late)..Wait
  BY Constants DEF NoRequest
<1>3. asked' \in [Clients -> NoRequest..Wait]
  BY <1>1, <1>2 DEF Ask, TypeOK
<1>4. looks' \subseteq Looks
  <2>1. [client |-> p[1], cycle |-> p[2], left |-> Wait] \in Looks
    BY <1>1, <1>2 DEF Looks
  <2>2. looks \subseteq Looks
    BY StateTypes
  <2>. QED  BY <2>1, <2>2 DEF Ask
<1>5. asking' \subseteq Clients \X Cycles /\ reached' \subseteq asking'
  BY SetTypes DEF Ask
<1>. QED  BY <1>3, <1>4, <1>5 DEF Ask, TypeOK, Looks

LEMMA ClientTypes ==
  ASSUME TypeOK, NEW c \in Clients,
         \/ Connected(c) \/ Name(c) \/ HandleConnect(c) \/ Hear(c)
         \/ HandleKeepAliveResponse(c) \/ Choke(c) \/ Unchoke(c) \/ DisconnectUnnamed(c)
  PROVE  TypeOK'
<1>1. NoRequest \in NoRequest..Wait
  BY Constants DEF NoRequest
<1>2. CASE Connected(c) \/ Name(c)
  <2>1. link' \in [Clients -> {"none", "down"} \cup Open]
    BY <1>2 DEF Connected, Name, TypeOK, Open
  <2>. QED  BY <1>2, <2>1 DEF Connected, Name, TypeOK, timers
<1>3. CASE HandleConnect(c)
  <2>1. Note(c) /\ naming' \subseteq Clients
    BY <1>3, SetTypes DEF HandleConnect
  <2>. QED  BY <1>3, <2>1, NoteTypes DEF HandleConnect, TypeOK, timers
<1>4. CASE Hear(c)
  <2>1. Note(c)
    BY <1>4 DEF Hear
  <2>. QED  BY <1>4, <2>1, NoteTypes DEF Hear, TypeOK, timers, connections
<1>5. CASE HandleKeepAliveResponse(c)
  <2>1. Note(c) /\ asked' \in [Clients -> NoRequest..Wait]
    BY <1>1, <1>5 DEF HandleKeepAliveResponse, TypeOK
  <2>. QED
    BY <1>5, <2>1, NoteTypes DEF HandleKeepAliveResponse, TypeOK, timers, connections
<1>6. CASE Choke(c) \/ Unchoke(c)
  <2>1. choked' \subseteq Clients
    BY <1>6, SetTypes DEF Choke, Unchoke
  <2>. QED  BY <1>6, <2>1 DEF Choke, Unchoke, TypeOK, timers
<1>7. CASE DisconnectUnnamed(c)
  BY <1>7 DEF DisconnectUnnamed, TypeOK, timers
<1>. QED  BY <1>2, <1>3, <1>4, <1>5, <1>6, <1>7

LEMMA TypeStep == TypeOK /\ [Next]_vars => TypeOK'
<1> SUFFICES ASSUME TypeOK, [Next]_vars PROVE TypeOK'
  OBVIOUS
<1>1. ASSUME NEW c \in Clients, Lose(c) \/ Close(c)
      PROVE  TypeOK'
  BY <1>1, DropTypes DEF Lose, Close
<1>2. ASSUME NEW d \in deciding, Disconnect(d)
      PROVE  TypeOK'
  <2>1. d[1] \in Clients /\ deciding' \subseteq Clients \X Cycles /\ closing' \subseteq Clients
    BY <1>2, SetTypes DEF Disconnect
  <2>. QED  BY <1>2, <2>1 DEF Disconnect, TypeOK
<1>3. ASSUME NEW l \in looks, Look(l)
      PROVE  TypeOK'
  <2>1. <<l.client, l.cycle>> \in Clients \X Cycles
    BY StateTypes DEF Looks
  <2>2. deciding' \subseteq Clients \X Cycles /\ looks' \subseteq looks
    BY <1>3, <2>1, SetTypes DEF Look
  <2>. QED  BY <1>3, <2>2 DEF Look, TypeOK, connections
<1>4. CASE UNCHANGED vars
  BY <1>4 DEF vars, connections, timers, TypeOK
<1>. QED
  BY <1>1, <1>2, <1>3, <1>4, ClientTypes, CheckTypes, VisitTypes, AskTypes, TickTypes DEF Next

(***************************************************************************)
(* Type correctness of the keep-alive cycle (client_dispatcher.cpp:44-86). *)
(***************************************************************************)
THEOREM TypeCorrect == Spec => []TypeOK
<1>1. Init => TypeOK
  <2> SUFFICES ASSUME Init PROVE TypeOK
    OBVIOUS
  <2>1. /\ Unheard \in Unheard..(Limit + 1) /\ Unheard \in Unheard..(Timeout + 1)
        /\ NoRequest \in NoRequest..Wait
        /\ \A w \in Delay : w \in (-Late)..(Check + MaxOffset)
    BY Constants DEF Unheard, NoRequest, Delay
  <2>2. PICK k \in Cycles, w \in Delay : next = [j \in {k} |-> w]
    BY DEF Init
  <2>3. DOMAIN next \subseteq Cycles /\ next \in [DOMAIN next -> (-Late)..(Check + MaxOffset)]
    BY <2>1, <2>2
  <2>. QED  BY <2>1, <2>3 DEF Init, TypeOK
<1>. QED  BY <1>1, TypeStep, PTL DEF Spec

-----------------------------------------------------------------------------
(* The order of a check *)

LEMMA RunningStep == Running /\ [Next]_vars => Running'
<1> SUFFICES ASSUME Running, [Next]_vars PROVE Running'
  OBVIOUS
<1>1. ASSUME DOMAIN next' = DOMAIN next PROVE Running'
  BY <1>1 DEF Running
<1>2. ASSUME NEW k \in Cycles, Start(k) PROVE Running'
  <2>1. DOMAIN next' = DOMAIN next \cup {k}
    BY <1>2 DEF Start
  <2>. QED  BY <2>1, FS_AddElement DEF Running
<1>3. ASSUME NEW k \in Cycles, Restart(k) PROVE Running'
  BY <1>1, <1>3 DEF Restart
<1>4. CASE Tick
  BY <1>1, <1>4 DEF Tick
<1>5. CASE UNCHANGED next
  BY <1>1, <1>5
<1>. QED
  BY <1>2, <1>3, <1>4, <1>5
     DEF Next, Connected, Name, HandleConnect, Hear, HandleKeepAliveResponse, Lose, Choke,
         Unchoke, DisconnectUnnamed, Close, Drop, CheckClients, Visit, Ask, Look, Disconnect,
         vars, timers

LEMMA RunningStart == Init => Running
<1> SUFFICES ASSUME Init PROVE Running
  OBVIOUS
<1>1. PICK k \in Cycles : DOMAIN next = {k}
  BY DEF Init
<1>. QED  BY <1>1, FS_Singleton DEF Running

LEMMA UnderwayStep == TypeOK /\ Underway /\ [Next]_vars => Underway'
<1> SUFFICES ASSUME TypeOK, Underway, [Next]_vars PROVE Underway'
  OBVIOUS
<1>1. CASE UNCHANGED <<checking, todo, asking>>
  BY <1>1 DEF Underway
<1>2. ASSUME NEW k \in Cycles, CheckClients(k) PROVE Underway'
  <2>1. \A p \in todo' : p \in todo \/ p[2] = k
    BY <1>2 DEF CheckClients
  <2>2. k \notin checking /\ checking' = checking \cup {k} /\ asking' = asking
    BY <1>2 DEF CheckClients
  <2>. QED  BY <2>1, <2>2 DEF Underway
<1>3. ASSUME NEW p \in todo, Visit(p) PROVE Underway'
  BY <1>3 DEF Visit, Underway
<1>4. ASSUME NEW p \in asking, Ask(p) PROVE Underway'
  BY <1>4 DEF Ask, Underway
<1>5. ASSUME NEW k \in Cycles, Restart(k) PROVE Underway'
  BY <1>5 DEF Restart, Underway
<1>. QED
  BY <1>1, <1>2, <1>3, <1>4, <1>5
     DEF Next, Connected, Name, HandleConnect, Hear, HandleKeepAliveResponse, Lose, Choke,
         Unchoke, DisconnectUnnamed, Close, Drop, Start, Look, Disconnect, Tick, vars, timers

LEMMA Ordered == Spec => [](TypeOK /\ Running /\ Underway)
<1>1. Init => Underway
  BY DEF Init, Underway
<1>. QED  BY <1>1, RunningStart, RunningStep, UnderwayStep, TypeCorrect, PTL DEF Spec

-----------------------------------------------------------------------------
(* Who is silent goes *)

LEMMA TickWatched ==
  ASSUME TypeOK, Running, Underway, NEW c \in Clients, Tick,
         TimedOut(c) \/ waited[c] <= age[c], TimedOut(c) => Watch(c), TimedOut(c)'
  PROVE  Watch(c)'
<1> USE Constants
<1>1. /\ age[c] \in Int /\ waited[c] \in Int /\ age'[c] \in {age[c], age[c] + 1}
      /\ ~TimedOut(c) => age[c] <= Timeout /\ waited[c] <= Timeout
  BY StateTypes DEF Tick, TimedOut, Unheard
<1>2. /\ waited'[c] \in {waited[c], waited[c] + 1}
      /\ checking # {} \/ c \in closing => waited'[c] = waited[c]
  BY DEF Tick, Held
<1>3. /\ DOMAIN next' = DOMAIN next /\ UNCHANGED <<checking, todo, asking, deciding, closing>>
      /\ \A k \in DOMAIN next :
           /\ next[k] \in Int /\ next[k] <= Check + MaxOffset
           /\ next'[k] = IF k \in checking THEN next[k] ELSE next[k] - 1
  BY StateTypes DEF Tick, connections
<1>4. CASE ~TimedOut(c)
  <2>1. PICK k \in DOMAIN next : TRUE
    BY DEF Running
  <2>2. CASE k \in checking
    BY <1>1, <1>2, <1>3, <1>4, <2>1, <2>2 DEF Watch, ToBeChecked
  <2>3. CASE k \notin checking
    <3>1. waited'[c] + next'[k] <= Timeout + Check + MaxOffset
      BY <1>1, <1>2, <1>3, <1>4, <2>1, <2>3
    <3>. QED  BY <1>3, <2>1, <2>3, <3>1 DEF Watch, ToBeChecked
  <2>. QED  BY <2>2, <2>3
<1>5. CASE ToBeChecked(c)
  <2>1. PICK k \in DOMAIN next :
          IF k \in checking /\ <<c, k>> \notin todo THEN waited[c] <= Timeout
          ELSE waited[c] + next[k] <= Timeout + Check + MaxOffset
    BY <1>5 DEF ToBeChecked
  <2>2. CASE k \in checking
    BY <1>2, <1>3, <2>1, <2>2 DEF Watch, ToBeChecked
  <2>3. CASE k \notin checking
    <3>1. waited'[c] + next'[k] <= Timeout + Check + MaxOffset
      BY <1>1, <1>2, <1>3, <2>1, <2>3
    <3>. QED  BY <1>3, <2>1, <2>3, <3>1 DEF Watch, ToBeChecked
  <2>. QED  BY <2>2, <2>3
<1>6. CASE ToBeAsked(c)
  <2>1. checking # {}
    BY <1>6 DEF ToBeAsked, Underway
  <2>. QED  BY <1>2, <1>3, <1>6, <2>1 DEF Watch, ToBeAsked, Limit
<1>7. CASE ToBeLookedAt(c)
  <2>1. PICK l \in looks : l.client = c /\ waited[c] + l.left <= Limit - Late
    BY <1>7 DEF ToBeLookedAt
  <2> DEFINE m == [l EXCEPT !.left = @ - 1]
  <2>2. m \in looks'
    BY DEF Tick
  <2>3. m.client = c /\ m.left = l.left - 1 /\ l.left \in Int
    BY <2>1, StateTypes DEF Looks
  <2> HIDE DEF m
  <2>4. waited'[c] + m.left <= Limit' - Late
    BY <1>1, <1>2, <2>1, <2>3
  <2>. QED  BY <2>2, <2>3, <2>4 DEF Watch, ToBeLookedAt
<1>8. CASE ToBeDropped(c)
  <2>1. c \in closing
    BY <1>8 DEF ToBeDropped, Tick
  <2>. QED  BY <1>2, <1>3, <1>8, <2>1 DEF Watch, ToBeDropped, Limit
<1>. QED  BY <1>4, <1>5, <1>6, <1>7, <1>8 DEF Watch

\* The steps of a check.
LEMMA CheckWatched ==
  ASSUME TypeOK, Underway, NEW c \in Clients, NEW k \in Cycles, CheckClients(k), Watch(c)
  PROVE  Watch(c)'
<1>1. /\ UNCHANGED <<waited, next, asking, looks, deciding, closing>>
      /\ k \notin checking /\ checking' = checking \cup {k}
      /\ <<c, k>> \in todo' /\ \A j : j # k => (<<c, j>> \in todo' <=> <<c, j>> \in todo)
  BY DEF CheckClients, connections
<1>2. CASE ToBeChecked(c)
  BY <1>1, <1>2 DEF Watch, ToBeChecked
<1>3. CASE ~ToBeChecked(c)
  BY <1>1, <1>3 DEF Watch, ToBeAsked, ToBeLookedAt, ToBeDropped, Limit
<1>. QED  BY <1>2, <1>3

LEMMA VisitWatched ==
  ASSUME TypeOK, NEW c \in Clients, NEW p \in todo, Visit(p), TimedOut(c), Watch(c)
  PROVE  Watch(c)'
<1> USE Constants
<1>1. /\ UNCHANGED <<waited, next, checking, looks, deciding, closing>>
      /\ todo' = todo \ {p} /\ asking \subseteq asking' /\ waited[c] \in Int
  BY StateTypes DEF Visit
<1>2. CASE ToBeAsked(c) \/ ToBeLookedAt(c) \/ ToBeDropped(c)
  BY <1>1, <1>2 DEF Watch, ToBeAsked, ToBeLookedAt, ToBeDropped, Limit
<1>3. CASE ToBeChecked(c)
  <2>1. PICK k \in DOMAIN next :
          IF k \in checking /\ <<c, k>> \notin todo THEN waited[c] <= Timeout
          ELSE waited[c] + next[k] <= Timeout + Check + MaxOffset
    BY <1>3 DEF ToBeChecked
  <2>2. CASE p # <<c, k>>
    <3>1. <<c, k>> \in todo' <=> <<c, k>> \in todo
      BY <1>1, <2>2
    <3>. QED  BY <1>1, <2>1, <3>1 DEF Watch, ToBeChecked
  <2>3. CASE p = <<c, k>>
    <3>1. p[1] = c /\ p \in asking'
      BY <2>3 DEF Visit
    <3>2. next[k] \in Int /\ next[k] >= -Late
      BY <2>1, StateTypes
    <3>3. waited[c] + next[k] <= Timeout + Check + MaxOffset
      BY <2>1, <2>3
    <3>4. waited[c] + Wait <= Limit - Late
      BY <1>1, <3>2, <3>3
    <3>. QED  BY <1>1, <3>1, <3>4 DEF Watch, ToBeAsked, Limit
  <2>. QED  BY <2>2, <2>3
<1>. QED  BY <1>2, <1>3 DEF Watch

LEMMA AskWatched ==
  ASSUME TypeOK, NEW c \in Clients, NEW p \in asking, Ask(p), Watch(c)
  PROVE  Watch(c)'
<1>1. /\ UNCHANGED <<waited, next, checking, todo, deciding, closing>>
      /\ looks \subseteq looks' /\ asking' = asking \ {p}
  BY DEF Ask
<1>2. CASE ToBeChecked(c) \/ ToBeLookedAt(c) \/ ToBeDropped(c)
  BY <1>1, <1>2 DEF Watch, ToBeChecked, ToBeLookedAt, ToBeDropped, Limit
<1>3. CASE ToBeAsked(c)
  <2>1. PICK q \in asking : q[1] = c
    BY <1>3 DEF ToBeAsked
  <2>2. CASE q # p
    BY <1>1, <1>3, <2>1, <2>2 DEF Watch, ToBeAsked, Limit
  <2>3. CASE q = p
    <3> DEFINE m == [client |-> p[1], cycle |-> p[2], left |-> Wait]
    <3>1. m \in looks' /\ m.client = c /\ m.left = Wait
      BY <2>1, <2>3 DEF Ask
    <3>2. waited[c] + Wait <= Limit - Late
      BY <1>3 DEF ToBeAsked
    <3> HIDE DEF m
    <3>. QED  BY <1>1, <3>1, <3>2 DEF Watch, ToBeLookedAt, Limit
  <2>. QED  BY <2>2, <2>3
<1>. QED  BY <1>2, <1>3 DEF Watch

LEMMA RestartWatched ==
  ASSUME TypeOK, Underway, NEW c \in Clients, NEW k \in Cycles, Restart(k), Watch(c)
  PROVE  Watch(c)'
<1> USE Constants
<1>1. PICK w \in Delay : next' = [next EXCEPT ![k] = w]
  BY DEF Restart
<1>2. /\ UNCHANGED <<waited, todo, asking, looks, deciding, closing>> /\ waited[c] \in Int
      /\ k \in checking /\ checking' = checking \ {k} /\ <<c, k>> \notin todo
      /\ w \in Int /\ w <= Check + MaxOffset
      /\ DOMAIN next' = DOMAIN next /\ \A j \in DOMAIN next : next'[j] = IF j = k THEN w ELSE next[j]
  BY <1>1, StateTypes DEF Restart, connections, Delay
<1>3. CASE ToBeChecked(c)
  <2>1. PICK j \in DOMAIN next :
          IF j \in checking /\ <<c, j>> \notin todo THEN waited[c] <= Timeout
          ELSE waited[c] + next[j] <= Timeout + Check + MaxOffset
    BY <1>3 DEF ToBeChecked
  <2>2. CASE j = k
    <3>1. waited[c] + w <= Timeout + Check + MaxOffset
      BY <1>2, <2>1, <2>2
    <3>. QED  BY <1>2, <2>1, <2>2, <3>1 DEF Watch, ToBeChecked
  <2>3. CASE j # k
    BY <1>2, <2>1, <2>3 DEF Watch, ToBeChecked
  <2>. QED  BY <2>2, <2>3
<1>4. CASE ~ToBeChecked(c)
  BY <1>2, <1>4 DEF Watch, ToBeAsked, ToBeLookedAt, ToBeDropped, Limit
<1>. QED  BY <1>3, <1>4

LEMMA LookWatched ==
  ASSUME TypeOK, NEW c \in Clients, NEW l \in looks, Look(l), TimedOut(c), Watch(c)
  PROVE  Watch(c)'
<1> USE Constants
<1>1. /\ UNCHANGED <<waited, next, checking, todo, asking, closing>>
      /\ deciding \subseteq deciding' /\ waited[c] \in Int
  BY StateTypes DEF Look, connections
<1>2. CASE ToBeChecked(c) \/ ToBeAsked(c) \/ ToBeDropped(c)
  BY <1>1, <1>2 DEF Watch, ToBeChecked, ToBeAsked, ToBeDropped, Limit
<1>3. CASE ToBeLookedAt(c)
  <2>1. PICK m \in looks : m.client = c /\ waited[c] + m.left <= Limit - Late
    BY <1>3 DEF ToBeLookedAt
  <2>2. CASE m # l
    <3>1. m \in looks'
      BY <2>1, <2>2 DEF Look
    <3>. QED  BY <1>1, <2>1, <3>1 DEF Watch, ToBeLookedAt, Limit
  <2>3. CASE m = l
    <3>1. m.left \in Int /\ m.left >= -Late
      BY StateTypes DEF Looks
    <3>2. waited[c] <= Limit
      BY <1>1, <2>1, <3>1
    <3>3. <<c, l.cycle>> \in deciding'
      BY <2>1, <2>3 DEF Look
    <3>. QED  BY <1>1, <3>2, <3>3 DEF Watch, ToBeDropped, Limit
  <2>. QED  BY <2>2, <2>3
<1>. QED  BY <1>2, <1>3 DEF Watch

LEMMA DisconnectWatched ==
  ASSUME TypeOK, NEW c \in Clients, NEW d \in deciding, Disconnect(d), link[c] = "up", Watch(c)
  PROVE  Watch(c)'
<1>1. /\ UNCHANGED <<waited, next, checking, todo, asking, looks>>
      /\ closing \subseteq closing' /\ deciding' = deciding \ {d}
      /\ d[1] = c => c \in closing'
  BY DEF Disconnect
<1>2. CASE ToBeDropped(c)
  BY <1>1, <1>2 DEF Watch, ToBeDropped, Limit
<1>3. CASE ~ToBeDropped(c)
  BY <1>1, <1>3 DEF Watch, ToBeChecked, ToBeAsked, ToBeLookedAt, Limit
<1>. QED  BY <1>2, <1>3

LEMMA WatchedStep == TypeOK /\ Running /\ Underway /\ Watched /\ [Next]_vars => Watched'
<1> SUFFICES ASSUME TypeOK, Running, Underway, Watched, [Next]_vars, NEW c \in Clients
             PROVE  /\ (TimedOut(c) \/ waited[c] <= age[c])'
                    /\ (Up(c) /\ TimedOut(c))' => Watch(c)'
  BY DEF Watched, Up
<1>1. TimedOut(c) \/ waited[c] <= age[c]
  BY DEF Watched
<1>2. Up(c) /\ TimedOut(c) => Watch(c)
  BY DEF Watched, Up
<1> DEFINE Goal == /\ (TimedOut(c) \/ waited[c] <= age[c])'
                   /\ (Up(c) /\ TimedOut(c))' => Watch(c)'
<1>3. ASSUME UNCHANGED <<age, waited>>,
             Up(c)' /\ TimedOut(c) => Watch(c)'
      PROVE  Goal
  BY <1>1, <1>3 DEF TimedOut
<1>4. ASSUME UNCHANGED <<age, waited, timers>>, Up(c)' => Up(c), Up(c)' /\ c \in closing => c \in closing'
      PROVE  Goal
  <2>1. ASSUME Up(c)', Watch(c) PROVE Watch(c)'
    BY <1>4, <2>1 DEF Watch, ToBeChecked, ToBeAsked, ToBeLookedAt, ToBeDropped, timers, Limit
  <2>. QED  BY <1>2, <1>3, <1>4, <2>1
<1>5. ASSUME NEW b \in Clients, Note(b), UNCHANGED <<timers, link, closing>>,
             c # b => (c \in naming' <=> c \in naming)
      PROVE  Goal
  <2>1. CASE b = c
    <3>1. age'[c] = 0 /\ waited'[c] = 0
      BY <1>5, <2>1 DEF Note, TypeOK
    <3>. QED  BY <3>1, Constants DEF TimedOut
  <2>2. CASE b # c
    <3>1. age'[c] = age[c] /\ waited'[c] = waited[c] /\ (Up(c)' <=> Up(c))
      BY <1>5, <2>2 DEF Note, TypeOK, Up
    <3>2. ASSUME Watch(c) PROVE Watch(c)'
      BY <1>5, <3>1, <3>2 DEF Watch, ToBeChecked, ToBeAsked, ToBeLookedAt, ToBeDropped, timers, Limit
    <3>. QED  BY <1>1, <1>2, <3>1, <3>2 DEF TimedOut
  <2>. QED  BY <2>1, <2>2
<1>6. ASSUME NEW b \in Clients, HandleConnect(b) \/ Hear(b) \/ HandleKeepAliveResponse(b)
      PROVE  Goal
  BY <1>5, <1>6 DEF HandleConnect, Hear, HandleKeepAliveResponse, connections
<1>7. ASSUME NEW b \in Clients,
             Connected(b) \/ Name(b) \/ Choke(b) \/ Unchoke(b) \/ DisconnectUnnamed(b)
      PROVE  Goal
  <2>1. Up(c)' => Up(c)
    BY <1>7 DEF Connected, Name, Choke, Unchoke, DisconnectUnnamed, TypeOK, Up
  <2>2. c \in closing => c \in closing'
    BY <1>7 DEF Connected, Name, Choke, Unchoke, DisconnectUnnamed
  <2>3. UNCHANGED <<age, waited, timers>>
    BY <1>7 DEF Connected, Name, Choke, Unchoke, DisconnectUnnamed
  <2>. QED  BY <1>4, <2>1, <2>2, <2>3
<1>8. ASSUME NEW b \in Clients, Lose(b) \/ Close(b)
      PROVE  Goal
  <2>1. Drop(b)
    BY <1>8 DEF Lose, Close
  <2>2. (Up(c)' => Up(c)) /\ (Up(c)' /\ c \in closing => c \in closing')
    BY <2>1 DEF Drop, TypeOK, Up
  <2>3. UNCHANGED <<age, waited, timers>>
    BY <2>1 DEF Drop
  <2>. QED  BY <1>4, <2>2, <2>3
<1>9. ASSUME NEW k \in Cycles, Start(k)
      PROVE  Goal
  <2>1. /\ UNCHANGED <<link, naming, closing, age, waited, checking, todo, asking, looks, deciding>>
        /\ \A j \in DOMAIN next : j \in DOMAIN next' /\ next'[j] = next[j]
    BY <1>9 DEF Start, connections
  <2>2. ASSUME Watch(c) PROVE Watch(c)'
    BY <2>1, <2>2 DEF Watch, ToBeChecked, ToBeAsked, ToBeLookedAt, ToBeDropped, Limit
  <2>. QED  BY <1>2, <1>3, <2>1, <2>2 DEF Up
<1>10. ASSUME NEW k \in Cycles, CheckClients(k) \/ Restart(k)
       PROVE  Goal
  <2>1. UNCHANGED <<link, naming, age, waited>>
    BY <1>10 DEF CheckClients, Restart, connections
  <2>. QED  BY <1>2, <1>3, <1>10, <2>1, CheckWatched, RestartWatched DEF Up
<1>11. ASSUME NEW p \in todo, Visit(p)
       PROVE  Goal
  <2>1. UNCHANGED <<link, naming, age, waited>>
    BY <1>11 DEF Visit
  <2>. QED  BY <1>2, <1>3, <1>11, <2>1, VisitWatched DEF Up
<1>12. ASSUME NEW p \in asking, Ask(p)
       PROVE  Goal
  <2>1. UNCHANGED <<link, naming, age, waited>>
    BY <1>12 DEF Ask
  <2>. QED  BY <1>2, <1>3, <1>12, <2>1, AskWatched DEF Up
<1>13. ASSUME NEW l \in looks, Look(l)
       PROVE  Goal
  <2>1. UNCHANGED <<link, naming, age, waited>>
    BY <1>13 DEF Look, connections
  <2>. QED  BY <1>2, <1>3, <1>13, <2>1, LookWatched DEF Up
<1>14. ASSUME NEW d \in deciding, Disconnect(d)
       PROVE  Goal
  <2>1. UNCHANGED <<link, naming, age, waited>>
    BY <1>14 DEF Disconnect
  <2>. QED  BY <1>2, <1>3, <1>14, <2>1, DisconnectWatched DEF Up
<1>15. CASE Tick
  <2>1. (Up(c)' <=> Up(c))
    BY <1>15 DEF Tick, connections, Up
  <2>2. (TimedOut(c) \/ waited[c] <= age[c])'
    <3>1. age[c] \in Int /\ waited[c] \in Int
      BY StateTypes
    <3>2. age'[c] = IF age[c] = Unheard \/ TimedOut(c) THEN age[c] ELSE age[c] + 1
      BY <1>15 DEF Tick
    <3>3. waited'[c] = waited[c] \/ (waited[c] # Unheard /\ waited'[c] = waited[c] + 1)
      BY <1>15 DEF Tick
    <3>4. waited[c] >= Unheard
      BY Constants DEF TypeOK, Unheard
    <3>. QED  BY <1>1, <3>1, <3>2, <3>3, <3>4 DEF TimedOut, Unheard
  <2>. QED  BY <1>1, <1>2, <1>15, <2>1, <2>2, TickWatched
<1>16. CASE UNCHANGED vars
  BY <1>4, <1>16 DEF vars, connections, Up
<1>. QED
  BY <1>6, <1>7, <1>8, <1>9, <1>10, <1>11, <1>12, <1>13, <1>14, <1>15, <1>16 DEF Next

(***************************************************************************)
(* For any times and any number of cycles that start() has set going: a    *)
(* connection that its client's name leads to does not stay up for longer  *)
(* than Limit without a sign of life (client_dispatcher.cpp:44-86), not    *)
(* counting the time in which a check, or the disconnect() of this client, *)
(* waited for a send_mutex.                                                *)
(***************************************************************************)
THEOREM SilentIsDropped == Spec => []SilentGoes
<1>1. Init => Watched
  BY Constants DEF Init, Watched, TimedOut, Unheard
<1>2. TypeOK /\ Watched => SilentGoes
  <2> SUFFICES ASSUME TypeOK, Watched, NEW c \in Clients \ naming, link[c] = "up"
               PROVE  waited[c] <= Limit
    BY DEF SilentGoes
  <2>1. waited[c] \in Int /\ age[c] \in Int
    BY StateTypes
  <2>2. CASE ~TimedOut(c)
    BY <2>1, <2>2, Constants DEF Watched, TimedOut
  <2>3. CASE ToBeChecked(c)
    <3>1. PICK k \in DOMAIN next : \/ waited[c] <= Timeout
                                   \/ waited[c] + next[k] <= Timeout + Check + MaxOffset
      BY <2>3 DEF ToBeChecked
    <3>. QED  BY <2>1, <3>1, StateTypes, Constants
  <2>4. CASE ToBeAsked(c)
    BY <2>1, <2>4, Constants DEF ToBeAsked
  <2>5. CASE ToBeLookedAt(c)
    <3>1. PICK l \in looks : waited[c] + l.left <= Limit - Late
      BY <2>5 DEF ToBeLookedAt
    <3>2. l.left \in Int /\ l.left >= -Late
      BY StateTypes, Constants DEF Looks
    <3>. QED  BY <2>1, <3>1, <3>2, Constants
  <2>6. CASE ToBeDropped(c)
    BY <2>6 DEF ToBeDropped
  <2>. QED  BY <2>2, <2>3, <2>4, <2>5, <2>6 DEF Watched, Watch
<1>. QED  BY <1>1, <1>2, WatchedStep, Ordered, PTL DEF Spec

-----------------------------------------------------------------------------
(* How many second timers there are *)

LEMMA AskSpaced ==
  ASSUME TypeOK, Underway, Spaced, NEW p \in asking, Ask(p)
  PROVE  Spaced'
<1> USE Constants
<1> DEFINE new == [client |-> p[1], cycle |-> p[2], left |-> Wait]
<1>1. /\ looks' = looks \cup {new} /\ UNCHANGED <<next, checking, todo>>
      /\ asking' = asking \ {p}
  BY DEF Ask
<1>2. new.client = p[1] /\ new.cycle = p[2] /\ new.left = Wait
  OBVIOUS
<1>3. p = <<p[1], p[2]>> /\ p[2] \in checking /\ p[2] \in DOMAIN next /\ p \notin todo
  BY SetTypes DEF Underway, TypeOK
<1> HIDE DEF new
<1>4. \A l \in looks : l.left \in Int
  BY StateTypes DEF Looks
<1>5. ASSUME NEW l \in looks, l.client = p[1], l.cycle = p[2]
      PROVE  l.left + Check <= Wait
  BY <1>3, <1>5 DEF Spaced, Followed
<1>6. Followed(new)'
  BY <1>1, <1>2, <1>3 DEF Followed
<1>7. ASSUME NEW l \in looks PROVE Followed(l)'
  BY <1>1 DEF Spaced, Followed
<1>8. ASSUME NEW l \in looks', NEW m \in looks' PROVE Apart(l, m)
  BY <1>1, <1>2, <1>5 DEF Spaced, Apart
<1>. QED  BY <1>1, <1>6, <1>7, <1>8 DEF Spaced, Apart

LEMMA RestartSpaced ==
  ASSUME TypeOK, Spaced, NEW k \in Cycles, Restart(k)
  PROVE  Spaced'
<1> USE Constants
<1>1. PICK w \in Delay : next' = [next EXCEPT ![k] = w]
  BY DEF Restart
<1>2. /\ w \in Int /\ w >= Check /\ UNCHANGED <<looks, todo, asking>> /\ checking' = checking \ {k}
      /\ DOMAIN next' = DOMAIN next /\ \A j \in DOMAIN next : next'[j] = IF j = k THEN w ELSE next[j]
  BY <1>1 DEF Restart, Delay
<1>3. ASSUME NEW l \in looks PROVE Followed(l)'
  <2>1. Followed(l) /\ l.left \in Int /\ l.left <= Wait
    BY StateTypes DEF Spaced, Looks
  <2>2. CASE l.cycle = k
    <3>1. l.left + Check <= Wait + w
      BY <1>2, <2>1
    <3>. QED  BY <1>2, <2>1, <2>2, <3>1 DEF Followed
  <2>3. CASE l.cycle # k
    BY <1>2, <2>1, <2>3 DEF Followed
  <2>. QED  BY <2>2, <2>3
<1>. QED  BY <1>2, <1>3 DEF Spaced, Apart

LEMMA TickSpaced ==
  ASSUME TypeOK, Spaced, Tick
  PROVE  Spaced'
<1> USE Constants
<1>1. /\ DOMAIN next' = DOMAIN next /\ UNCHANGED <<checking, todo, asking>>
      /\ \A j \in DOMAIN next : /\ next[j] \in Int
                                /\ next'[j] = IF j \in checking THEN next[j] ELSE next[j] - 1
  <2>1. \A j \in DOMAIN next : next[j] \in Int
    BY StateTypes
  <2>. QED  BY <2>1 DEF Tick
<1>2. ASSUME NEW n \in looks'
      PROVE  \E l \in looks : /\ n.client = l.client /\ n.cycle = l.cycle
                              /\ n.left = l.left - 1 /\ l.left \in Int
  <2>1. PICK l \in looks : n = [l EXCEPT !.left = @ - 1]
    BY <1>2 DEF Tick
  <2>2. l \in Looks
    BY StateTypes
  <2>. QED  BY <2>1, <2>2 DEF Looks
<1>3. ASSUME NEW n \in looks'
      PROVE  Followed(n)'
  <2>1. PICK l \in looks : /\ n.client = l.client /\ n.cycle = l.cycle
                           /\ n.left = l.left - 1 /\ l.left \in Int
    BY <1>2
  <2>2. Followed(l)
    BY DEF Spaced
  <2>. QED  BY <1>1, <2>1, <2>2 DEF Followed
<1>4. ASSUME NEW n \in looks', NEW o \in looks'
      PROVE  Apart(n, o)
  <2>1. PICK l \in looks : n.client = l.client /\ n.cycle = l.cycle /\ n.left = l.left - 1
                           /\ l.left \in Int
    BY <1>2
  <2>2. PICK m \in looks : o.client = m.client /\ o.cycle = m.cycle /\ o.left = m.left - 1
                           /\ m.left \in Int
    BY <1>2
  <2>3. Apart(l, m)
    BY DEF Spaced
  <2>. QED  BY <2>1, <2>2, <2>3 DEF Apart
<1>. QED  BY <1>3, <1>4 DEF Spaced, Apart

LEMMA SpacedStep == TypeOK /\ Underway /\ Spaced /\ [Next]_vars => Spaced'
<1> SUFFICES ASSUME TypeOK, Underway, Spaced, [Next]_vars PROVE Spaced'
  OBVIOUS
<1>1. ASSUME looks' \subseteq looks, UNCHANGED checking,
             todo' \cup asking' \subseteq todo \cup asking,
             \A j \in DOMAIN next : j \in DOMAIN next' /\ next'[j] = next[j]
      PROVE  Spaced'
  <2>1. ASSUME NEW l \in looks PROVE Followed(l)'
    BY <1>1 DEF Spaced, Followed
  <2>. QED  BY <1>1, <2>1 DEF Spaced, Apart
<1>2. ASSUME NEW k \in Cycles, CheckClients(k)
      PROVE  Spaced'
  <2>1. /\ k \in DOMAIN next /\ next[k] \in Int /\ next[k] <= 0
        /\ UNCHANGED <<looks, next, asking>> /\ checking' = checking \cup {k}
        /\ \A p \in todo' : p \in todo \/ p[2] = k
    BY <1>2, StateTypes, Constants DEF CheckClients
  <2>2. ASSUME NEW l \in looks PROVE Followed(l)'
    <3>1. Followed(l) /\ l.left \in Int
      BY StateTypes, Constants DEF Spaced, Looks
    <3>2. CASE l.cycle = k
      <4>1. l.left + Check <= Wait
        BY <1>2, <2>1, <3>1, <3>2, Constants DEF Followed, CheckClients
      <4>. QED  BY <2>1, <3>2, <4>1 DEF Followed
    <3>3. CASE l.cycle # k
      BY <2>1, <3>1, <3>3 DEF Followed
    <3>. QED  BY <3>2, <3>3
  <2>. QED  BY <2>1, <2>2 DEF Spaced, Apart
<1>3. ASSUME NEW k \in Cycles, Start(k)
      PROVE  Spaced'
  <2>1. /\ UNCHANGED <<looks, checking, todo, asking>>
        /\ \A j \in DOMAIN next : j \in DOMAIN next' /\ next'[j] = next[j]
    BY <1>3 DEF Start
  <2>. QED  BY <1>1, <2>1
<1>4. ASSUME NEW p \in todo, Visit(p)
      PROVE  Spaced'
  BY <1>1, <1>4 DEF Visit
<1>5. ASSUME NEW l \in looks, Look(l)
      PROVE  Spaced'
  BY <1>1, <1>5 DEF Look
<1>6. CASE UNCHANGED <<next, checking, todo, asking, looks>>
  BY <1>1, <1>6
<1>. QED
  BY <1>2, <1>3, <1>4, <1>5, <1>6, AskSpaced, RestartSpaced, TickSpaced
     DEF Next, Connected, Name, HandleConnect, Hear, HandleKeepAliveResponse, Lose, Choke,
         Unchoke, DisconnectUnnamed, Close, Drop, Disconnect, vars, timers

\* Numbers with the same quotient are less than the divisor apart.
LEMMA SameQuotient ==
  ASSUME NEW a \in Nat, NEW b \in Nat, NEW d \in Nat \ {0}, a \div d = b \div d
  PROVE  a < b + d
<1> DEFINE q == d * (a \div d)
<1>1. q <= a /\ a < q + d
  BY SMTT(20)
<1>2. q <= b
  BY SMTT(20)
<1>3. q \in Int
  OBVIOUS
<1> HIDE DEF q
<1>. QED  BY <1>1, <1>2, <1>3

LEMMA QuotientBound ==
  ASSUME NEW a \in Nat, NEW b \in Nat, NEW d \in Nat \ {0}, a <= b
  PROVE  a \div d \in 0..(b \div d) /\ b \div d \in Nat
BY SMTT(20)

\* Elements that a pair of numbers tells apart.
LEMMA PairsBound ==
  ASSUME NEW S, NEW K, IsFiniteSet(K), NEW n \in Nat,
         NEW f \in [S -> K \X (0..n)], \A x, y \in S : f[x] = f[y] => x = y
  PROVE  Cardinality(S) <= Cardinality(K) * (1 + n)
<1> DEFINE T == 0..n
<1>1. IsFiniteSet(T) /\ Cardinality(T) = 1 + n
  <2>1. IsFiniteSet(0..n) /\ Cardinality(0..n) = IF 0 > n THEN 0 ELSE n - 0 + 1
    BY FS_Interval
  <2>. QED  BY <2>1
<1>2. f \in Injection(S, K \X T)
  BY Fun_IsInj
<1> HIDE DEF T
<1>3. IsFiniteSet(K \X T) /\ Cardinality(K \X T) = Cardinality(K) * Cardinality(T)
  BY <1>1, FS_Product
<1>4. Cardinality(S) <= Cardinality(K \X T)
  BY <1>2, <1>3, FS_Injection
<1>. QED  BY <1>1, <1>3, <1>4

(***************************************************************************)
(* However often a client is found timed out, and by however many cycles,  *)
(* the second timers that are set for it at once are bounded by the number *)
(* of cycles (client_dispatcher.cpp:51-68).                                *)
(***************************************************************************)
THEOREM TimersBounded == Spec => []LooksBounded
<1>1. Init => Spaced
  BY DEF Init, Spaced
<1>2. TypeOK /\ Running /\ Spaced => LooksBounded
  <2> SUFFICES ASSUME TypeOK, Running, Spaced, NEW c \in Clients
               PROVE  Cardinality({l \in looks : l.client = c})
                        <= Cardinality(DOMAIN next) * (1 + (Wait + Late) \div Check)
    BY DEF LooksBounded
  <2> DEFINE n     == (Wait + Late) \div Check
             K     == DOMAIN next
             Of    == {l \in looks : l.client = c}
             place(l) == (l.left + Late) \div Check
             slot  == [l \in Of |-> <<l.cycle, place(l)>>]
  <2>1. Check \in Nat \ {0} /\ Wait + Late \in Nat
    BY Constants
  <2>2. ASSUME NEW l \in Of
        PROVE  /\ l \in Looks /\ l.client = c /\ l.cycle \in DOMAIN next
               /\ l.left \in Int /\ l.left + Late \in Nat /\ l.left + Late <= Wait + Late
    <3>1. l \in looks /\ l \in Looks /\ l.client = c
      BY StateTypes
    <3>2. l.left \in (-Late)..Wait /\ l.cycle \in DOMAIN next
      BY <3>1 DEF Looks, Spaced, Followed
    <3>. QED  BY <3>1, <3>2, Constants
  <2>3. n \in Nat /\ \A l \in Of : l.cycle \in K /\ place(l) \in 0..n
    BY <2>1, <2>2, QuotientBound
  <2>4. ASSUME NEW l \in Of, NEW m \in Of, l.cycle = m.cycle, place(l) = place(m)
        PROVE  l = m
    <3>1. l.left + Late < m.left + Late + Check /\ m.left + Late < l.left + Late + Check
      BY <2>1, <2>2, <2>4, SameQuotient
    <3>2. l.left \in Int /\ m.left \in Int /\ l.client = m.client
      BY <2>2
    <3>3. l.left = m.left \/ l.left + Check <= m.left \/ m.left + Check <= l.left
      BY <2>4, <3>2 DEF Spaced, Apart
    <3>4. l.left = m.left
      BY <3>1, <3>2, <3>3, Constants
    <3>. QED  BY <2>2, <2>4, <3>4 DEF Looks
  <2>5. IsFiniteSet(K)
    BY DEF Running
  <2> HIDE DEF n, K, Of, place
  <2>6. slot \in [Of -> K \X (0..n)]
    BY <2>3
  <2>7. \A l, m \in Of : slot[l] = slot[m] => l = m
    BY <2>4
  <2> HIDE DEF slot
  <2>8. Cardinality(Of) <= Cardinality(K) * (1 + n)
    BY <2>3, <2>5, <2>6, <2>7, PairsBound
  <2>. QED  BY <2>8 DEF n, K, Of
<1>. QED
  BY <1>1, <1>2, SpacedStep, Ordered, PTL DEF Spec

-----------------------------------------------------------------------------
(* Who answers stays *)

LEMMA AskAnswerable ==
  ASSUME TypeOK, Answerable, NEW p \in asking, Ask(p)
  PROVE  Answerable'
<1> USE Constants
<1> DEFINE new == [client |-> p[1], cycle |-> p[2], left |-> Wait]
<1>1. /\ UNCHANGED <<link, naming, age>> /\ looks' = looks \cup {new}
      /\ asking' \ reached' \subseteq asking \ reached
  BY DEF Ask
<1>2. new.client = p[1] /\ new.left = Wait /\ p[1] \in Clients
  BY SetTypes
<1> HIDE DEF new
<1>3. \A c \in Clients : asked[c] \in NoRequest..Wait
  BY DEF TypeOK
<1>4. \A c \in Clients : asked[c] \in 0..Wait => asked'[c] = asked[c]
  BY <1>3 DEF Ask, TypeOK, NoRequest
<1>5. ASSUME NEW l \in looks, Up(l.client)
      PROVE  HeardSince(l)' \/ AskedSince(l)'
  <2>1. l.client \in Clients
    BY StateTypes DEF Looks
  <2>. QED  BY <1>1, <1>4, <1>5, <2>1 DEF Answerable, HeardSince, AskedSince
<1>6. ASSUME Up(p[1])
      PROVE  HeardSince(new)' \/ AskedSince(new)'
  <2>1. CASE p \in reached
    <3>1. asked'[p[1]] = IF asked[p[1]] = NoRequest THEN 0 ELSE asked[p[1]]
      BY <1>2, <2>1 DEF Ask, TypeOK
    <3>2. asked'[p[1]] \in 0..Wait /\ asked'[p[1]] + Wait >= Wait
      BY <1>2, <1>3, <3>1 DEF NoRequest
    <3>. QED  BY <1>2, <3>2 DEF AskedSince
  <2>2. CASE p \notin reached
    <3>1. age[p[1]] <= 0 /\ age[p[1]] \in Int
      BY <1>2, <1>6, <2>2, StateTypes DEF Answerable
    <3>. QED  BY <1>1, <1>2, <3>1 DEF HeardSince
  <2>. QED  BY <2>1, <2>2
<1>7. \A c : Up(c)' <=> Up(c)
  BY <1>1 DEF Up
<1>. QED  BY <1>1, <1>2, <1>5, <1>6, <1>7 DEF Answerable

LEMMA TickAnswerable ==
  ASSUME TypeOK, Underway, Answerable, Tick
  PROVE  Answerable'
<1> USE Constants
<1>1. \A c : Up(c)' <=> Up(c)
  BY DEF Tick, connections, Up
<1>2. asking' \ reached' = {}
  <2>1. ASSUME NEW p \in asking PROVE p \in reached
    <3>1. PICK q \in reached : q[2] = p[2]
      BY DEF Tick, Underway, Waits, TypeOK
    <3>. QED  BY <3>1, SetTypes DEF Underway
  <2>. QED  BY <2>1 DEF Tick, connections
<1>3. ASSUME NEW n \in looks', Up(n.client)'
      PROVE  HeardSince(n)' \/ AskedSince(n)'
  <2>1. PICK l \in looks : n = [l EXCEPT !.left = @ - 1]
    BY <1>3 DEF Tick
  <2>2. /\ l \in Looks /\ n.client = l.client /\ n.left = l.left - 1 /\ l.left \in Int
        /\ l.client \in Clients
    BY <2>1, StateTypes DEF Looks
  <2> DEFINE c == l.client
  <2>3. age[c] \in Int /\ age'[c] \in {age[c], age[c] + 1}
    BY <2>2, StateTypes DEF Tick
  <2>4. HeardSince(l) \/ AskedSince(l)
    BY <1>1, <1>3, <2>2 DEF Answerable
  <2>5. CASE HeardSince(l)
    BY <2>2, <2>3, <2>5 DEF HeardSince
  <2>6. CASE AskedSince(l)
    <3>1. asked'[c] = IF asked[c] = Wait THEN Wait ELSE asked[c] + 1
      BY <2>2, <2>6 DEF Tick, AskedSince, NoRequest
    <3>. QED  BY <2>2, <2>6, <3>1 DEF AskedSince
  <2>. QED  BY <2>4, <2>5, <2>6
<1>. QED  BY <1>2, <1>3 DEF Answerable

LEMMA AnswerableStep == TypeOK /\ Underway /\ Answerable /\ [Next]_vars => Answerable'
<1> SUFFICES ASSUME TypeOK, Underway, Answerable, [Next]_vars PROVE Answerable'
  OBVIOUS
<1>1. \A l \in looks : l.client \in Clients /\ l.left \in Int /\ l.left <= Wait
  BY StateTypes, Constants DEF Looks
<1>2. ASSUME looks' \subseteq looks,
             \A p \in asking' \ reached' : p[1] \in Clients /\ (p \in asking \ reached \/ ~Up(p[1])'),
             \A c \in Clients : Up(c)' =>
               \/ age'[c] = 0
               \/ age'[c] = age[c] /\ asked'[c] = asked[c] /\ Up(c)
      PROVE  Answerable'
  <2>1. ASSUME NEW l \in looks', Up(l.client)'
        PROVE  HeardSince(l)' \/ AskedSince(l)'
    <3>1. l \in looks /\ l.client \in Clients
      BY <1>1, <1>2
    <3>2. CASE age'[l.client] = 0
      BY <1>1, <3>1, <3>2, Constants DEF HeardSince
    <3>3. CASE age'[l.client] = age[l.client] /\ asked'[l.client] = asked[l.client] /\ Up(l.client)
      BY <3>1, <3>3 DEF Answerable, HeardSince, AskedSince
    <3>. QED  BY <1>2, <2>1, <3>1, <3>2, <3>3
  <2>2. ASSUME NEW p \in asking' \ reached', Up(p[1])'
        PROVE  age'[p[1]] <= 0
    <3>1. p \in asking \ reached /\ p[1] \in Clients
      BY <1>2, <2>2
    <3>2. age'[p[1]] = 0 \/ (age'[p[1]] = age[p[1]] /\ Up(p[1]))
      BY <1>2, <2>2, <3>1
    <3>. QED  BY <3>1, <3>2 DEF Answerable
  <2>. QED  BY <2>1, <2>2 DEF Answerable
<1>3. \A p \in asking : p[1] \in Clients
  BY SetTypes
<1>4. ASSUME NEW c \in Clients, Note(c), UNCHANGED <<link, reached, asking, looks>>,
             \A b \in Clients \ {c} : asked'[b] = asked[b] /\ (b \in naming' <=> b \in naming)
      PROVE  Answerable'
  <2>1. age'[c] = 0 /\ \A b \in Clients \ {c} : age'[b] = age[b]
    BY <1>4 DEF Note, TypeOK
  <2>. QED  BY <1>2, <1>3, <1>4, <2>1 DEF Up
<1>5. ASSUME NEW c \in Clients, HandleConnect(c) \/ Hear(c) \/ HandleKeepAliveResponse(c)
      PROVE  Answerable'
  <2>1. Note(c) /\ UNCHANGED <<link, reached, asking, looks>>
    BY <1>5 DEF HandleConnect, Hear, HandleKeepAliveResponse, connections, timers
  <2>2. \A b \in Clients \ {c} : asked'[b] = asked[b] /\ (b \in naming' <=> b \in naming)
    BY <1>5 DEF HandleConnect, Hear, HandleKeepAliveResponse, connections, TypeOK
  <2>. QED  BY <1>4, <2>1, <2>2
<1>6. ASSUME UNCHANGED <<age, asked, asking, reached>>, looks' \subseteq looks,
             \A c \in Clients : Up(c)' => Up(c)
      PROVE  Answerable'
  BY <1>2, <1>3, <1>6
<1>7. ASSUME NEW c \in Clients,
             Connected(c) \/ Name(c) \/ Choke(c) \/ Unchoke(c) \/ DisconnectUnnamed(c)
      PROVE  Answerable'
  <2>1. UNCHANGED <<age, asked, asking, reached, looks>>
    BY <1>7 DEF Connected, Name, Choke, Unchoke, DisconnectUnnamed, timers
  <2>2. \A b \in Clients : Up(b)' => Up(b)
    BY <1>7 DEF Connected, Name, Choke, Unchoke, DisconnectUnnamed, TypeOK, Up
  <2>. QED  BY <1>6, <2>1, <2>2
<1>8. ASSUME NEW c \in Clients, Lose(c) \/ Close(c)
      PROVE  Answerable'
  <2>1. Drop(c)
    BY <1>8 DEF Lose, Close
  <2>2. UNCHANGED <<age, asking, looks>> /\ reached' = {p \in reached : p[1] # c}
    BY <2>1 DEF Drop, timers
  <2>3. ~Up(c)' /\ \A b \in Clients \ {c} : asked'[b] = asked[b] /\ (Up(b)' <=> Up(b))
    BY <2>1 DEF Drop, TypeOK, Up
  <2>. QED  BY <1>2, <1>3, <2>2, <2>3
<1>9. ASSUME NEW k \in Cycles, Start(k) \/ CheckClients(k) \/ Restart(k)
      PROVE  Answerable'
  <2>1. UNCHANGED <<link, naming, age, asked, asking, reached, looks>>
    BY <1>9 DEF Start, CheckClients, Restart, connections
  <2>. QED  BY <1>6, <2>1 DEF Up
<1>10. ASSUME NEW p \in todo, Visit(p)
       PROVE  Answerable'
  <2>1. UNCHANGED <<link, naming, age, asked, looks>> /\ p[1] \in Clients
    BY <1>10, SetTypes DEF Visit
  <2>2. \A q \in asking' \ reached' : q \in asking \ reached \/ (q = p /\ link[p[1]] # "up")
    BY <1>10 DEF Visit
  <2>. QED  BY <1>2, <1>3, <2>1, <2>2 DEF Up
<1>11. ASSUME NEW l \in looks, Look(l)
       PROVE  Answerable'
  <2>1. UNCHANGED <<link, naming, age, asked, asking, reached>> /\ looks' \subseteq looks
    BY <1>11 DEF Look, connections
  <2>. QED  BY <1>6, <2>1 DEF Up
<1>12. ASSUME NEW d \in deciding, Disconnect(d)
       PROVE  Answerable'
  <2>1. UNCHANGED <<link, naming, age, asked, asking, reached, looks>>
    BY <1>12 DEF Disconnect
  <2>. QED  BY <1>6, <2>1 DEF Up
<1>13. CASE UNCHANGED vars
  BY <1>6, <1>13 DEF vars, connections, timers, Up
<1>. QED
  BY <1>5, <1>7, <1>8, <1>9, <1>10, <1>11, <1>12, <1>13, AskAnswerable, TickAnswerable DEF Next

(***************************************************************************)
(* If a second timer comes before the client it was set for could be timed *)
(* out again, as with the times of the code (client_dispatcher.h:12-15):   *)
(* whatever timers of earlier connections and cycles are set and however   *)
(* long a check waits for a mutex, only who has left a request unanswered  *)
(* for Wait is found dead while his connection is up                       *)
(* (client_dispatcher.cpp:52-66), unless it has just got its name.         *)
(***************************************************************************)
THEOREM AnswerKeepsAlive ==
  ASSUME Wait + Late <= Timeout
  PROVE  Spec => AnswersCount
<1> USE Constants
<1>1. Init => Answerable
  BY DEF Init, Answerable
<1>2. ASSUME TypeOK, Answerable, [Next]_vars
      PROVE  [\A d \in deciding' \ deciding :
                link[d[1]] = "up" /\ d[1] \notin naming => asked[d[1]] >= Wait]_vars
  <2> SUFFICES ASSUME NEW d \in deciding' \ deciding, Up(d[1])
               PROVE  asked[d[1]] >= Wait
    BY DEF Up
  <2>1. PICK l \in looks : Look(l) /\ d = <<l.client, l.cycle>> /\ TimedOut(l.client)
    BY <1>2
       DEF Next, Connected, Name, HandleConnect, Hear, HandleKeepAliveResponse, Lose, Choke,
           Unchoke, DisconnectUnnamed, Close, Drop, Start, CheckClients, Visit, Ask, Restart,
           Look, Disconnect, Tick, vars, timers
  <2>2. l \in Looks /\ l.client \in Clients /\ age[l.client] \in Int /\ asked[l.client] \in Int
    BY <1>2, StateTypes DEF Looks
  <2>3. l.left \in (-Late)..Wait /\ l.left <= 0
    BY <2>1, <2>2 DEF Looks, Look
  <2>4. ~HeardSince(l)
    BY <2>1, <2>2, <2>3 DEF HeardSince, TimedOut
  <2>5. AskedSince(l)
    BY <1>2, <2>1, <2>4 DEF Answerable
  <2>. QED  BY <2>1, <2>2, <2>3, <2>5 DEF AskedSince
<1>. QED
  BY <1>1, <1>2, AnswerableStep, Ordered, PTL DEF Spec, AnswersCount
=============================================================================
