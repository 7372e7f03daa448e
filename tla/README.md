# A formal model of swiftrobotc

swiftrobotc is a C++ publish/subscribe library. Programs publish typed messages
on channels; subscribers in the same process get them through a thread pool, and
peers on iOS devices get them over a socket that usbmuxd tunnels to the device.
This directory models the library's concurrency and its protocols in TLA+,
checks the models with TLC and proves the central facts with TLAPS.

Paths below are relative to the repository.

## 1. Inventory

| part | code | state | operations |
|---|---|---|---|
| dispatch queue | `src/dispatch_queue.cpp`, `include/.../dispatch_queue.h` | `q_`, `pq_` (timers), `lock_`, `cv_`, `quit_`, worker threads | `dispatch`, `dispatch_after`, worker loop, destructor |
| client facade (publish/subscribe) | `swiftrobotc.h`, `swiftrobotc.cpp` | `subscriber_channel_map`, one binary semaphore per subscriber | `subscribe`, `publish`, `notify`, `didReceiveMessage`, `didReceiveUpdate`, `start`, `stop` |
| client dispatcher | `client_dispatcher.cpp`, `.h`, `external_client.h` | `clients` (subscriptions and last sign of life per peer), `clientChannelSubsciptions`, `keepAliveCheckRunning` | the six packet handlers, the seven senders, the keep-alive cycle |
| USB hub | `usbhub.cpp`, `.h` | `devices` (one `Connection` per usbmux device id), `broadcastClient` | attach, detach, send to one / to all, disconnect, close |
| connection | `connection.cpp`, `.h` | `status` (IDLE, WANTING_CONNECTION, CONNECTING, CONNECTED), `name`, callbacks | `startConnection`, `connect`, `disconnect`, `send`, `messageReceived` |
| socket client | `socket_client.cpp`, `.h` | `socket_fd`, `listeningThread`, `buffer`, `data_buffer`, `send_mutex` | `open`, `close`, `send`, `send2`, listening thread |
| messages and packet headers | `msgs.h`, `swiftrobot_packet.h` | none (codecs) | `serialize`, `deserialize`, `getSize` |
| Bonjour browser, mdns, Plist, pugixml, base64, server, demo | `bonjour_browser.cpp`, `mdns.c`, `Plist/`, `server.cpp`, `subscriber.cpp`, `test.cpp` | | unfinished, vendored, empty or a demo: not modelled |

### How the parts interact

    application thread ──publish/subscribe──> SwiftRobotClient ──dispatch──> dispatch_queue (6 workers)
                                                  │  ▲ notify                     ▲ timers
                                      dispatchMessage │ didReceiveMessage         │
                                                  ▼  │                            │
                                             ClientDispatcher ──── keep-alive cycle
                                                  │  ▲ multiplexIncomingPacket
                                                  ▼  │
                                               USBHub ──createDevice──> Connection (one per device)
                                                  ▲                        │  ▲ messageReceived
                                     broadcastHandler                      ▼  │
                                               SocketClient            SocketClient
                                                  └────── usbmuxd ────────┘

Three kinds of threads run this code: the application's own, the workers of the
dispatch queue (subscriber callbacks, keep-alive timers), and one listening
thread per socket (the broadcast socket announces devices; each device's socket
brings usbmuxd's answer and then the peer's packets). Only the dispatch queue
and the sending side of a socket have a mutex; everything else is shared
without one.

### What is hard

* wakeups: several workers, two queues, one condition variable, a destructor;
* a binary semaphore taken by one thread and released by another, or by nobody;
* callbacks installed after the thread that uses them has been started, and
  state written after the request whose answer overwrites it;
* a byte stream whose reads may stop anywhere;
* timers that race the answers they wait for;
* shutdown while any of this is going on.

### What makes each part correct

| part | properties |
|---|---|
| dispatch queue | no wakeup is lost; every accepted function runs once unless the queue is destroyed; timers run when due; the destructor returns |
| publish/subscribe | at most one callback of a subscriber at a time; callbacks in publication order; a busy subscriber becomes free again |
| socket client | the parts of a packet stay together on the socket, also when it is closed; packets are delivered whole, in order and once; the listening thread ends when the socket does |
| connection | the Connect packet follows the tunnel; no Connect before it; what has been closed is closed; the threads that join each other return |
| client dispatcher | what a peer subscribed to reaches it; a silent peer is disconnected, and only one that left a request unanswered; a bounded number of timers; the handshake ends; a message gets to whoever is known to want it |
| messages | every type's `getSize()` counts what its `serialize()` writes, and `deserialize()` reads that and nothing else |

## 2. Plan

| step | module | what it adds | state |
|---|---|---|---|
| 1 | `DispatchQueue`, abstract `JobService` | the pool everything else runs on | modelled, checked, five theorems |
| 2 | `PubSub`, on `JobService` | publishing and subscribing in one process | modelled, checked, six theorems |
| 3 | `SocketReader`, abstract `PacketStream` | the listening thread of a socket | modelled, checked, four theorems |
| 4 | `DeviceLink`, abstract `DeviceSession` | the hub, its connections, their threads | modelled, checked, six theorems |
| 5 | `KeepAlive` | the timers of the client dispatcher | modelled, checked, four theorems |
| 6 | `Subscriptions` | two dispatchers and the protocol between them | modelled, checked; proved with step 9 |
| 7 | `Messages` | the sizes and layouts of `msgs.h` and of Connect | modelled, checked, four theorems |
| 8 | `SocketStream`, on `SocketReader` | `send` and `send2` under `send_mutex`, several senders, the stream they make, `close` among them | modelled, checked, seven theorems |
| 9 | `Distribution`, on `Subscriptions` | `dispatchMessage` and `handleMessage` between two dispatchers, the client that has no name yet | modelled, checked, five theorems |

Every safety property a passing run checks is stated by a theorem (section 5).
Three theorems state properties no run checks: `NobodyTwice`, `PassedOverHasReason`
and `KnownIsKept`, defined beside their proofs. What links the components is proved
where one module says what another relies on (`JobService`, `PacketStream`,
`DeviceSession`) and said in words below where a model only takes an assumption over.

What is composed with what:

    JobService   <──implements── DispatchQueue
        ^
        └──────── uses ───────── PubSub

    PacketStream <──implements── SocketReader <──extends── SocketStream
                                                            (senders, one socket)
    Subscriptions <──extends── Distribution

    DeviceSession <──implements── DeviceLink

    DeviceLink     takes from the socket that packets arrive whole and in order
    KeepAlive      takes from the pool that a timer runs at most Late after its time
    Subscriptions  takes from the link that there is one connection at a time
    Messages       takes from the socket that packets arrive one after the other

For each module `M` with proofs there is `MProofs`, which extends it; `MCM`
gives the constants the values TLC needs.

## 3. The modules and the code

### DispatchQueue (dispatch_queue.cpp) and JobService

The state is the code's: `q`, `pq`, `quit`, the owner of `lock_`, for each
worker its place in `dispatch_thread_handler()` and the function it runs, for
each call of `dispatch` or `dispatch_after` that has begun the function it
brings. `now` is the steady clock, `dtor` the progress of the destructor.

| code | action |
|---|---|
| `dispatch`, `dispatch_after`: entered | `Dispatch`, `DispatchAfter` |
| the same: lock, push, unlock, notify | `Push`, with `NotifyOne` or `NotifyIfEmpty` |
| worker: lock, test of the predicate | `Acquire`, `Sleep`; `SpuriousWake` |
| worker: a due timer, the next function | `RunTimer`, `RunNext` |
| worker: the function returns, the loop ends | `Return`, `Exit` |
| destructor: entered; `quit_`, `notify_all`; joined | `Destroy`, `Quit`, `Joined` |

A worker that finds only a timer that is not due spins holding `lock_`
(dispatch_queue.cpp:47-72): the predicate of the wait is true, no branch is
taken, and nothing in the loop unlocks. In the model it stays at `"holding"`
until the clock moves, and no caller can push meanwhile.

`JobService` is what the others may rely on: a function goes through its stages
once and in order, not more than the pool's size run at a time, and while the
pool is open everything accepted is run. It promises nothing about order.

### PubSub (swiftrobotc.h, swiftrobotc.cpp)

`subs` is `subscriber_channel_map`, `sem` the semaphores, `loop` what is left
of the walk of each `notify()`, `stage` the pool seen through `JobService`: one
task for each pair of a subscriber and a message. A callback may publish and
subscribe, so the actors are the application's threads and the subscribers'
callbacks.

| code | action |
|---|---|
| `subscribe` | `Subscribe`; the outcome of an iterator that dangles is `crashed` |
| `publish`, or `didReceiveMessage`, up to the loop of `notify` | `Publish` |
| one round of the loop, with `try_acquire` | `Visit`, then `Dispatched` when the pool has taken it |
| the task: `any_cast` | `Start`; `WrongType` when it throws |
| the callback returns, `release` | `CallbackReturns` |
| `~SwiftRobotClient`: `client_dispatcher` is gone, then the queue | `Destroy`, `DestroyQueue` |

### SocketReader (socket_client.cpp:91-208) and PacketStream

The stream is the sequence of bytes the peer sends, and a byte is its place in
it. So a half-read packet is a place between two packets, and what is in
`buffer` or `data_buffer` follows from `pos`. `arrived` grows by any amount at
any time, hence every way to cut the stream is covered. `phase` is where the
thread is, `ask` what it asks `recv` for, `taken` how much of a length it has
stored, `size` and `capacity` are those of `data_buffer`.

| code | action |
|---|---|
| `recieveMessageSize`: one `recv` | `ReadLength`, `LengthError`, `EndOfLengths` |
| the loop for the rest: one `recv` | `ReadRest`, `RestError`, `EndOfStream` |
| the callback, and back to the length | `Callback` |
| `close` | `Close` (shutdown), `Joined` |

`recieveMessageSize` calls itself for the bytes that are missing but still
compares the next piece with 4, so a length in pieces is never found; from then
on the thread asks for fewer bytes than a length has, and what it goes on to
take it may store behind `buffer`. `LostTrack` names this. A `recv` of -1 is
stored into a `size_t` and counts as a piece too. On a socket that `open()` could
not connect (`peer = "absent"`) every `recv` fails: the thread calls itself
without end, until it crashes, and the `shutdown()` of `close()` fails, which
makes `close()` return without joining (`closing = "abandoned"`). On Apple's
systems `shutdown()` also fails (ENOTCONN) when the peer has ended first; `Close`
has that outcome too, and `CloseReturns` is about the calls that get past it.

### SocketStream (socket_client.cpp:91-145, on SocketReader)

The other side of the same stream: several threads send their packets, each in
parts (header, first and second block), one after the other under `send_mutex`.
`wire` is what has been written, as parts, and `sent` how many bytes that is; the
`arrived` of the reader follows behind. `close()` takes the same mutex for its
`shutdown()`; a connection that breaks ends all writing.

| code | action |
|---|---|
| `send`, `send2`: lock; one `::send` per part; unlock | `Send`, `Write`, `SendReturns` |
| `close`: lock, `shutdown` | `LockToClose`, `Shutdown` |
| the network | `Carry`, `EndArrives`, `Snap` |
| the listening thread at the other end | the actions of `SocketReader` |

### DeviceLink (usbhub.cpp, connection.cpp)

For each device id: the device (`phone`), usbmuxd's side of the tunnel, and the
`Connection` with its status, name, the number of callbacks installed, its
socket and listening thread, and the packets that have arrived. `thread` is
where the hub's listening thread, the pool worker and `stop()` are in
`createDevice` or `disconnect`, statement by statement where another thread can
see the difference. `out` is a send between its test of the status and its
write; `holds` are the senders between the lock and the unlock of `send_mutex`,
which is where a `::send` that is blocked by a peer that does not read stays.

| code | action |
|---|---|
| `createDevice` | `CreateDevice`, `StartConnection`, `Connect` (the test), `Open`, `StartListening`, `RequestTunnel`, `Mark`, `Wire` (twice), `Announce` |
| `messageReceived` | `HearOK` with `Connected`, `HearRefused`, `HearConnect`, `HearConnectAck`, `HearRequest`; `HearEnd` for the end of the stream, `HearBadDescriptor` for a descriptor closed before the thread was started |
| `send` | `Begin`, inside the handlers or `Send`, then `Lock` and `Write` |
| `disconnect` and `SocketClient::close` | `DisconnectTest`, `-Abort`, `-Shutdown`, `-Join`, `-Close`, `-Idle` |
| who calls it | `RemoveDevice`, `DisconnectClient` (any client, also the one named ""), `Stop` with `StopNext` |

`Plug`, `Unplug`, `Answer`, `Greet` and `Hurry` are usbmuxd, the phone and the
application on it; the latter sends a request before its name (`Hurry`), as far
as `Hasty` allows. `close()` waits for `send_mutex`, and returns at once when
`shutdown()` fails (`MayFail`): on a socket that is closed and, if `Apple`, on one
whose peer has ended or which another thread has shut down.

Undefined behaviour is a choice. The status callback uses a reference to an
argument of a call that has returned (usbhub.cpp:31), so it finds any attached
device or crashes (`Referred`): no run or theorem assumes otherwise. A write to a
socket that has been shut down may end the process by a signal; so may two joins
of one thread and the use of a closed descriptor.

Two history variables serve the properties: `told` counts the Connects each
listening thread has begun to send, and `overtaken` holds the connections a
`disconnect()` has met between their entry in `devices` and `startListening()`.
`stop()` and the `disconnect("")` of a timer can do that; what is left of such a
connection (a socket and a thread that nobody ends, or a thread on a descriptor
that is closed) is modelled, but no session any more.

`DeviceSession` is the session of a device without statuses, callbacks and threads
of the hub: one socket, opened once and then read by one thread, a tunnel granted
only to a socket that is read from, a shutdown before the close, and no close while
the thread reads; a session may be lost before anybody reads. The mapping takes an
open socket without a thread as `"fresh"`, an overtaken connection as `"lost"`, and
the thread as reading from its start to its end.

### KeepAlive (client_dispatcher.cpp:44-86)

Time is counted down in the timers and up in `age`, the time since
`lastKeepAliveResponse`. `next` holds the time to the next check of each cycle
that `start()` has begun, `looks` the second timers, `deciding` the workers
between `isTimedOut` and `disconnect`. A check goes through the clients one by one
(`todo`, `asking`, `reached`), and may wait at each for the `send_mutex` of its
connection; so may a `disconnect` (`closing`). `choked` are the clients to whose
connection a `::send` is blocked, for as long as the peer likes. `naming` are the
listening threads that have set the name of a connection (connection.cpp:156) and
not yet the time of its client (client_dispatcher.cpp:152-157). `asked` and
`waited` are there for the properties.

| code | action |
|---|---|
| `start`, `startKeepAliveCheckCycle` | `Start`, `CheckClients`; for each client `Visit`, and `Ask` if it is timed out; `Restart` |
| the second timer | `Look`, then `Disconnect` and, with the mutex, `Close` |
| `messageReceived`, then `handleConnect` | `Name`, `HandleConnect` |
| `handleKeepAliveResponse`, other packets | `HandleKeepAliveResponse`, `Hear` |
| a connection is made, is lost, is blocked | `Connected`, `Lose`, `Choke`, `Unchoke` |
| `disconnect("")`, for the client with no name | `DisconnectUnnamed` |

Names lead to connections, so a client's connection has more states than up and
down: `"new"` has no name yet, and the client named "" that an early packet
makes has it closed by its own timers (`DisconnectUnnamed`); `"astray"` is hidden
behind an earlier connection of the same name that is still in `devices`: no
request reaches it and no `disconnect` finds it. Whether it is hidden depends on
the ids, which usbmuxd chooses, hence the choice in `Name`.

`Tick` lets time pass only while no timer is later than `Late` and every check and
`disconnect` that is not waiting for a mutex has gone on. So three things are
assumed: the pool has a worker left for the timers (blocked checks and callbacks
keep theirs), what a check or a `disconnect` does besides waiting for `send_mutex`
takes no time, and the join in `close()` is immediate. `SilentGoes` does not count
the time in which a check waits, nor that in which the `disconnect` of the client
in question does: it can be without end (section 7).

### Subscriptions (client_dispatcher.cpp:37-40, 146-164, 214-240)

Two ends with `subs` (`clientChannelSubsciptions`), `theirs` (the peer's entry
in `clients`), a stream in each direction and, at each end, an application
thread and a listening thread. Both copy and send in two steps.

| code | action |
|---|---|
| `subscribeRequest`: store; send | `SubscribeRequest`, `SendSubscribeRequest` |
| Connect, ConnectAck: copy the list; send | `Compose`, `SendGreeting` |
| `handleConnect`, `handleConnectAck` | `HandleGreeting` |
| `handleSubscribeRequest` | `HandleSubscribeRequest` |

A request that arrives before the peer's name goes to `early`, the list of the
client named "". `HandleGreeting` sets the name and replaces the list in one step:
no other thread of this module looks at either in between, and for the walks of
`Distribution` the order is given back by `States`.

### Distribution (client_dispatcher.cpp:27-35, 139-144, 177-190, on Subscriptions)

`publish()` walks over the clients and their lists (`walk`) while the listening
thread appends to these lists or replaces them: the list is overwritten where it
is, or has moved, and then anything may follow (`crashed`). A message goes to the
first connection with the client's name, in the order of the ids usbmuxd gives:
after a break that may be the old one or the new one (`MayRoute`), and only a
client whose name no earlier connection has had is certain to be reached
(`Routes`). While a greeting is handled the connection may have its name and the
client still its old list (`States`). `owed` is there for the property.

| code | action |
|---|---|
| `dispatchMessage`: begin; one entry; the next client | `Publish`, `Visit`, `NextClient` |
| `handleMessage`, `notify` | `HandleMessage` |
| the handlers that change lists | `HandleSubscribeRequestMeanwhile`, `HandleGreetingMeanwhile` |

The payload is left out: `dispatchMessage(Message msg)` takes its argument by
value, which cuts the derived object off, and `Message::serialize()` writes
nothing, so that what is sent is the content of an uninitialised array
(client_dispatcher.cpp:178).

### Messages (msgs.h, swiftrobot_packet.h:27-55)

`Layout` says where `serialize()` of each type copies each field, `GetSize` what
`getSize()` announces, `Reading` where `deserialize()` looks for them, `Room` how
much of an array its vector holds. `Serialize`, `Receive` and `Deserialize` take
message after message through `data_buffer`, where longer packets of the past
remain. A byte is the message, the field and the place it has there, so that
reading the wrong one shows. Payloads are those a peer writes with its type's
own `serialize()`; from this library come only the Connect packets (see above).

The arrays of 8 and 16 bit elements get `size / sizeof(uint32_t)` elements (msgs.h:75,
125, 150): the copy writes past them and may end the process (`Overruns`).
`UpdateMsg` writes its status over the second character of the name; nothing
decodes it.

## 4. The runs

`tlc -config X.cfg M`. A run marked ✗ checks a statement of the repository that
the code does not keep; see section 7.

| run | module, cfg | what it shows |
|---|---|---|
| `dispatch_queue` | `MCDispatchQueue` | no lost wakeup, nothing queued or run twice, shutdown reaches all, the destructor returns, implements `JobService` |
| `dispatch_queue_prompt` ✗ | `DispatchQueuePrompt.cfg` | a pending timer keeps `dispatch()` waiting |
| `pubsub` | `MCPubSub` | one callback at a time, in order; a taken semaphore has a reason and comes free; `publish()` returns |
| `stream` | `MCSocketStream` | the parts of a packet stay together, none is cut off by `close()`; only whole packets, in order; implements `PacketStream`; `close()` returns |
| `link_threads` | `MCDeviceLink` | CONNECTED means confirmed or being closed, IDLE means closed, with two exceptions; Connect once and after the tunnel; one session (implements `DeviceSession`); the hub and `stop()` get back if every `::send` does |
| `link_pair` | `DeviceLinkPair.cfg` | what is sent to a client reaches it, also with a request before the name and the `disconnect("")` that follows |
| `link_race` ✗ | `DeviceLinkRace.cfg` | an early answer loses the Connect |
| `link_replug` ✗ | `DeviceLinkReplug.cfg` | a device plugged in again is not reached |
| `keepalive` | `MCKeepAlive` | only who does not answer is found dead; the silent go; timers stay few |
| `distribution` | `MCDistribution` | subscriptions outside of a handshake are known; none is doubled more than once; a message is heard at most twice per subscription, and reaches whoever is known to want it; the handshake and `publish()` end |
| `subscriptions_lost` ✗ | `MCSubscriptions`, `SubscriptionsLost.cfg` | a request overtakes the list and the name, and is stored for the client named "" |
| `messages` | `MCMessages` | the sizes and layouts agree; nothing stale is read; what is complete and what is not |

### Bounds, and why they are enough

* `dispatch_queue`: two workers, one outside caller, three functions, delays 0
  and 1, a clock up to 2. Two workers are what a lost wakeup needs (one asleep,
  one busy), three functions one more than the workers; functions call
  `dispatch` too. The invariants and the step-by-step refinement of `JobService`
  are proved for any numbers.
* `pubsub`: one outside thread, two subscribers whose callbacks publish and
  subscribe as well (three publishers in all), three messages on one channel,
  one of a type nobody asked for, a pool of two. Order needs two messages; the
  third is the one that leaves a semaphore taken. Channels do not interact.
* `stream`: two threads and three packets of 6, 7 and 5 bytes, in two, three and
  one part, which either thread may send: the second is larger than the buffer the
  first left, the third smaller, and the parts of two packets are there to be
  mixed. Every cut of the 18 bytes occurs. The bytes are numbered in the order in
  which the mutex is taken.
* `link_threads`: one device with every thread, refusals, `stop()`, blocked writes
  and the errors of `shutdown()` on Apple's systems, because what these threads
  share is a connection (95,628 states). `link_pair`: two devices with different
  names, one of which hurries, so that what remains is what two devices do to each
  other, outside Apple's systems and without `stop()` and the publisher, which
  would make it many times larger (2.7 million states). What holds of two devices
  in all of these circumstances is proved. `link_race` has one device;
  `link_replug` two ids of one phone, of which the second is plugged in only when the
  removal of the first has been reported, as usbmuxd does it.
* `keepalive`: times that stand to each other as the code's do, not to scale: the
  check every 2 or 3 units (300 to 600 ms), the second timer after 3 (1000 ms), the
  timeout after 4 (2000 ms), a lateness of one. What matters is kept: a second timer may
  come before or after the next checks, and up to `Wait + Late <= Timeout` an answer
  is in time. The theorems are about any times. One client, which is enough for
  second timers of several requests, connections and cycles to meet; that a check
  waits at one client for another is in the theorems, which are about any clients;
  and two cycles, which is what `start, stop, start` gives, interchangeable, hence the
  symmetry (1.9 million states). When the client named "" is timed out is not
  tracked: its disconnect may come at any time.
* `distribution`: one channel, two calls of `subscribe` (at one end or at each),
  one message, and one break: the second handshake meets what the first one left.
  Two calls are what a list that is replaced needs (one known, one on its way);
  the walk of one message meets them all. Temporal properties take many times the
  states' cost, and what ends does not depend on how many channels there are; that
  a walk passes over entries of other channels, and that these are counted apart, is
  proved for any channels (`HeardAtMostTwice`, `ListedAtMostTwice`). `subscriptions_lost` has no messages.
* `messages`: all pairs of messages of the twelve types and Connect; up to four elements,
  characters or pixels (four is where a narrow array gets its first element) and
  two channels. Two messages are enough for the second to be read over the first.

`CHECK_DEADLOCK FALSE` stands where the system may stop: a queue destroyed, all
messages published or decoded, a socket closed, a device gone, or a process that
crashed. `MCKeepAlive` checks deadlock.

### Fairness

* `DispatchQueue`: weak fairness of what a thread does once it has the lock, of
  functions that return and of the clock; strong fairness of taking the mutex.
  The mutex is free again and again while others use it, and the platform's
  mutexes let a waiting thread through in the end. Weak fairness would not do:
  each time another worker takes it, the waiting one is disabled.
* `PubSub`: weak fairness of a running thread and of callbacks (user code is
  assumed to return), strong fairness of the pool's `Start`, which is what
  `JobService!FairSpec` promises and `DispatchQueue` is shown to keep.
* `SocketStream`: what is written arrives, a thread not blocked in `recv` goes on,
  a sender with the mutex writes its parts, and `close` with the mutex shuts the
  socket down. No fairness of sending, of breaks or of calling `close`. `SocketReader` alone
  has the reader's part of this.
* `DeviceLink`: each thread goes on, and gets a mutex that is free again and again
  (strong fairness, for each thread by itself). A `::send` returns when there is
  nobody who could keep it waiting (`Returns`); whether it does when the peer is
  there is left open, and `JoinersReturn` and `ConnectFollows` have as a hypothesis
  that it does, since without it they are false of the code. No fairness of
  usbmuxd, plugging, greeting, timeouts or of `stop`.
* `KeepAlive`: none. "Must be done by" is said with the clock, which cannot pass
  a due timer by more than `Late`.
* `Distribution`: no thread stops, a lost connection is made again; both ends read,
  so that no `::send` is blocked for ever. No fairness
  of `subscribe`, `publish` and of breaks. `Messages` and `Subscriptions`: none.

## 5. Proofs

Checked by `tlapm` for all values of the constants under the named assumptions
of the modules.

| module | theorem | says |
|---|---|---|
| `DispatchQueueProofs` | `TypeCorrect` | `TypeOK`, with `pq_` finite |
| | `NoLostWakeup` | `PendingHaveWorkers` |
| | `ShutdownReachesAll` | `QuitReachesAll` |
| | `NeverTwice` | `OnePlace` |
| | `ServesJobs` | implements `JobService!Spec` |
| `PubSubProofs` | `TypeCorrect` | `TypeOK` |
| | `AtMostOneCallback` | `OneCallback` |
| | `TakenHasReason` | `SemaphoreAccounted` |
| | `HeardInOrder` | `InOrder` |
| | `NobodyTwice` | `HandedOverOnce` |
| | `PassedOverHasReason` | `PassedOverIfBusy` |
| `SocketReaderProofs` | `TypeCorrect` | `TypeOK` |
| | `DeliversWhole` | `Whole` |
| | `BufferHolds` | `RestFits` |
| | `ReadsAStream` | implements `PacketStream!Spec` |
| `SocketStreamProofs` | `StreamIsRead` | `Spec` of `SocketReader` |
| | `StreamTypeCorrect` | `StreamTypeOK` |
| | `SentIsDeliveredWhole`, `SentFits` | `Whole`, `RestFits` |
| | `MutexKeepsTogether` | `PartsTogether` |
| | `CloseCutsNothing` | `NothingCutOff` |
| | `SocketIsAStream` | implements `PacketStream!Spec` |
| `DeviceLinkProofs` | `TypeCorrect` | `TypeOK` |
| | `ConnectedMeansConfirmed` | `ConfirmedOrClosing` |
| | `NamesReachClients` | `ReachesClient`, if no two devices bear one name |
| | `TunnelBeforeConnect` | `ConnectAfterTunnel` |
| | `IdleIsClosed` | `IdleMeansClosed` |
| | `OneSession` | implements `DeviceSession!Spec` |
| `KeepAliveProofs` | `TypeCorrect` | `TypeOK` |
| | `SilentIsDropped` | `SilentGoes` |
| | `TimersBounded` | `LooksBounded` |
| | `AnswerKeepsAlive` | `AnswersCount`, if `Wait + Late <= Timeout` |
| `DistributionProofs` | `PostTypeCorrect` | `PostTypeOK` |
| | `ListedAtMostTwice` | `NoSurplus` |
| | `HeardAtMostTwice` | `HeardEnough` |
| | `KnownWhenQuiet` | `ApartKnown` |
| | `KnownIsKept` | `ListsGrow` |
| `MessagesProofs` | `TypeCorrect` | `TypeOK` |
| | `SizeIsWritten` | `PacketFilled` |
| | `ReadAsSent` | `AsSent` |
| | `ReadWhole` | `Complete` |

**DispatchQueue.** `ThreadAssumption` (finitely many workers, at least one, none
of them a caller) and `TimeAssumption`. `PendingHaveWorkers` is inductive with
the types. A push adds one function and, if somebody sleeps, wakes one worker;
a worker that takes a function removes both one function and one idle worker; a
worker goes to sleep only with both queues empty, where the bound is 0. The
cardinality facts are `ReadyFinite`, `ReadyGains` and `ReadyLoses`; `pq` must
be finite, which is why the type invariant says so. `OnePlace` counts, but its
proof does not: `Once` says that each place (`q_`, `pq_`, the calls, the workers)
holds a function once, `Apart` that no two places hold the same, and only
`AtMostOne` turns these into numbers. The same invariant makes the refinement
mapping a function: `StageKnown` gives each job the stage its place means, `Busy`
that a worker has a function exactly while it runs one, so that no more run than
the pool has workers (`RoomToRun`), and `ServiceStep` goes through the actions.

**PubSub.** `ActorAssumption` and `DataAssumption`. `TypeOK` alone is not
inductive: a loop holds pairs of a subscriber and a message of the *same*
channel only because each vector of the map holds subscribers of its channel
(`Placed`). `OneCallback` is an invariant of the pair semaphore and task:
`StepEffect` lists what each kind of step does to the semaphore and the stage of
a task, and the theorem only looks at that. `InOrder` needs to know that a
message is published once (`SaidOnce`), that a loop that runs is about the last
message of its thread (`LoopsOnLast`) and that the subscriber of a task that waits
has heard nothing the same thread published later (`NotOvertaken`): the one task in
flight is what keeps the order, since the pool keeps none. `HandedOverOnce` is what
lets `Visit` ask that its task is fresh without stopping a `notify()`: it rests on
the map, which has each subscriber once (`StoredOnce`), on the walks, which come
to nobody twice (`VisitsOnce`), and on the order, since two walks are about the
last messages of two threads (`ApartTours`).

**SocketReader.** `SizeAssumption` and `PlaceAssumption` (where the packets start
in the stream). That packets arrive whole needs the thread's place: `Place` says
that at the length the thread stands at the start of a packet, or asks for fewer
bytes than a length has and will never find one, or will get nothing any more;
that in the rest `pos + ask` is the end of the packet, or nothing comes any
more; and that at the callback it stands exactly there. Without the second
alternative of `AtLength` the invariant would be false (a socket without a peer
is dry from the start): after a length in pieces
the thread does lose its place, and delivers nothing rather than something wrong.
That it implements `PacketStream` needs that a thread that has lost its place
never gets to a rest again (`Tracked`), so that `LostTrack` is for good and may be
mapped to the end.

**SocketStream.** `CutAssumption` and `SenderAssumption` besides those of the
reader. Every step of the composition is a step of `SocketReader` or leaves its
variables alone (`ReaderStep`), so what is proved of the reader is proved of the
composition. `PartsTogether` alone is not inductive: it does not know what the
sender that has the mutex has written already. `Holding` says that the holder of
the mutex is the only thread in `send` and that its packet was begun last,
`UpToDate` that the last part on the socket is the one before its next. The
latter holds only until the connection ends, when parts are dropped, and that an
ended connection stays ended is `OpenStays`. `NothingCutOff` goes from one end of
the connection to the other: `Measured` says how many bytes the parts on the wire
are, `EndsClosed` that a stream that ends unbroken has been closed between two
packets and is not seen to end before all of it has arrived, `Steady` where a
thread that has kept its place is when it sees the end. What is sent then ends
where a packet starts, and the thread has come so far.

**DeviceLink.** `DeviceAssumption` (ids are numbers, so the map has an order),
and, for the names, `NameAssumption` (no device has the empty one).
`ConfirmedOrClosing` says something of the status and
the tunnel, but an answer is on its way between them: `Granted` says that an
"OK" in the inbox means an open tunnel, and `Unasked` that usbmuxd has been
asked nothing before `RequestTunnel`, so that the request cannot take back an
answer. `Inv` is the conjunction of these with the types. `LeastId`
(well-foundedness of the naturals) gives `Route` its value. There is one lemma
per action.

That a device has one session (`OneSession`, with no hypothesis: also with the
dangling reference, with `stop()`, with failing `shutdown()` and with three
threads that close one connection) rests on `InSession`: the socket of a
connection that is not overtaken is there from the moment its thread is until that
has been joined, `createDevice()` opens one only for a device that has none, and a
thread on its way to join or close has seen the shutdown. A `disconnect()` that
comes between `Open` and `StartListening`, or earlier, makes the connection
overtaken in its first step, where it is mapped to a lost session. Most steps open
and close nothing; `Quiet` says what they leave alone, once for all of them.

`IdleIsClosed` adds `TornDown`: whoever has got past `shutdown()` leaves a socket
that is closed and a thread that is joined, and whoever has not, a socket that was
so already, or whose peer had ended. The two exceptions of `IdleMeansClosed` are
faults of the code (section 7), and each is as small as it can be stated: the
connections `disconnect()` met while they were being opened, and on Apple's
systems a socket that is open still and whose peer has ended.

`TunnelBeforeConnect` has no hypothesis either: it says what a listening thread
does, not to whom the dangling reference leads it. `Once` follows a thread from
its one "OK" to the Connect it begins to send, and knows that what it does on the
way it does with its own tunnel open.

One theorem has a hypothesis, the absence of a fault that the code has and section
7 names. `NamesReachClients`: no two devices have one name (`link_replug` shows
what happens otherwise); `Introduced` says that a connection has the name of its
own device or none. The hypothesis is that of the run, and the theorem lifts the
bounds.

**KeepAlive.** `TimeAssumption`: the times are positive, the lateness and the
offset any. `SilentGoes` follows from `Watched`: whoever is timed out while its
connection is up is still before a check, about to be asked, before a second timer
or before the `disconnect`, each early enough for the limit; `Running` keeps the
cycles alive, `Underway` the checks in order. A check that waits stops the clock of
`waited` for everybody, which is the whole of what the theorem supposes about
blocked writes.
`LooksBounded` counts, so it needs to know that second timers of one client and
cycle are at least `Check` apart (`Spaced`); the places they are in then inject
into the cycles times the numbers up to `(Wait + Late) \div Check` (`PairsBound`).
`AnswersCount` is proved for `Wait + Late <= Timeout`: the code waits 1000 ms and
times out after 2000 (client_dispatcher.h:12-15), so the hypothesis says that no
timer is late by more than a second. With `Answerable` a client whose second
timer runs has either been heard of since the timer was set, and then too
recently to be timed out when it comes, or had a request for as long. The
exception, a connection that has its name and whose client still has the time of
the earlier one, is a window of the code (section 7).

**Distribution.** `EndAssumption` (two ends, one of which opens), `BoundAssumption`
and `PostAssumption`. The theorems are about `PostSpec`, whose steps are those of
`Subscriptions` with a walk beside them. `NoSurplus` adds up: a list that is sent
is a beginning of the subscriptions (`ListsSent`), and what goes beyond such a
beginning comes from requests, one for each (`RequestsCount`). `HeardEnough` is
the same argument for one message while its walk is under way: `Rationed` bounds
what has been handed over, what is in flight and the places still `Ahead` of the
walk by twice the subscriptions, in whatever way the list is overwritten
meanwhile. `ApartKnown` needs the handshake: `Closed` (the two ends go up and down
together), `Stages` (the five stages between a new connection and two ends that
have each other's name, and the one greeting that may be in flight in each) and
`Told` (whoever has the name knows, or is about to be told, what was subscribed
apart from a handshake). `ListsGrow` needs that no greeting is left when both ends
have a name (`NoneLeft`, from the last of the stages): only a greeting replaces a
list, and what else is handled then appends.

**Messages.** `StreamAssumption` (what a message is).
About the layouts: `FieldsFill` says that the fields of each type but `UpdateMsg`
tile the packet without gap or overlap, for any number of elements, `ReadsLayout`
that `deserialize()` looks where `serialize()` has written, `KeptBounds` how much
of an array its vector holds (`ArrayBytes`). About the states: `Written` says
what the packet holds, `Arrived` that the buffer begins with the packet whatever
it holds behind; with `ByteThere` `AsSent` and `Complete` are consequences of one
`Deserialize`.

**Left to TLC.** Everything under fairness (`DestructorReturns`,
`PublishReturns`, `BusyEnds`, `CloseReturns`, `JoinersReturn`,
`PublishedIsHeard`, `ComesToRest`) and the fairness that `JobService!FairSpec` and
`PacketStream!FairSpec` state: of the two refinements the steps are proved, the
liveness is checked by `ImplementsService` and `ImplementsStream`.
`DispatchIsPrompt` uses `ENABLED`.

## 6. What is not modelled, and why

* Most of the lines under `src/` are not this program's: of about 18,500 in
  source files some 16,000 are vendored (`pugixml`, `mdns`, the Plist and base64
  readers). The library's own code is about 2,100 lines, and what the models leave
  of it is below. Plist's results are taken as given.
* The Bonjour browser is unfinished: nothing creates one, its callback in the
  client dispatcher is empty (client_dispatcher.cpp:94), and `bonjour_browser.cpp`
  does not compile as it is (a `void` function returns a value, an argument is
  missing). `server.h` declares a class nothing defines; `server.cpp` and
  `subscriber.cpp` are empty; `test.cpp` is a demo.
* A client over WiFi: `start()` and `stop()` do nothing for it
  (client_dispatcher.cpp:12-25).
* How `open()` finds its address. In `DeviceLink` it always succeeds; a socket
  that was never connected is in `SocketReader` and `SocketStream` only.
* The reuse of a closed descriptor: when a thread uses one (a second `shutdown()`,
  a `::close` twice, a write after the close), it may by then belong to another
  connection. `DeviceLink` ends there or goes on as if it did not (`Stray`,
  `Signal`); what the other connection suffers is not followed.
* `SocketStream` shuts a socket down whose connection is up; what `shutdown()` does
  when the peer has ended is in `SocketReader` (`Close`) and `DeviceLink`.
* When the client named "" is timed out (`KeepAlive`): its timers come at any time.
* Torn reads and writes of shared data, and the crash of a walk over a
  `std::map` while it is changed (client_dispatcher.cpp:52, usbhub.cpp:72): the
  models take a single read or write as one step. The same race on the vectors of
  subscribers is modelled, with a crash as an outcome.
* `keepAliveCheckRunning`: set by `start()`, never reset, since
  `stopKeepAliveCheckCycle()` has no caller.

## 7. Where the code and its documents disagree

Each is the counterexample of a run:

1. `dispatch_queue_prompt`: the worker spins holding the lock while a timer is
   pending; the test `dispatchOrderMixed` expects a function to have run 1 ms
   after its dispatch (`test/dispatch_queue_test.cpp:84`).
2. `link_race`: an answer that comes before `usbhub.cpp:31` finds no callback,
   and before `connection.cpp:52` is overwritten; no Connect follows
   (`swiftrobot_packet.h:106`).
3. `link_replug`: the entry of a detached device stays in the map and its name is
   found first (`usbhub.cpp:157`), against `swiftrobotc.h:20`.
4. `subscriptions_lost`: a request sent between the copy and the sending of the
   list comes before the sender's name, is stored for the client named ""
   (`client_dispatcher.cpp:163`) and never moved to the client the list makes,
   which lacks it; against `swiftrobot_packet.h:100`.

The models also contain these, which no document rules out or no run isolates:

* a message of the wrong type makes `any_cast` throw between `try_acquire()` and
  `release()`: its subscriber never hears anything again (`swiftrobotc.h:100`;
  `Deaf` in `PubSub`, the exception in `SemaphoreAccounted` and `BusyEnds`);
* what the library sends as a message's payload is uninitialised memory
  (`client_dispatcher.cpp:27`, `:178`);
* arrays of 8 and 16 bit elements lose elements and write past their vector when
  they are decoded (`msgs.h:75`, `:125`, `:150`); `UpdateMsg` overwrites the name
  it serializes (`msgs.h:231`);
* a packet that comes before its sender's name makes a client named "", whose
  timers then close connections that have no name yet
  (`client_dispatcher.cpp:163`, `usbhub.cpp:157`);
* a listening thread on a socket that was never connected calls itself without
  end (`socket_client.cpp:154`), and `close()` leaves it running (`:93`);
* an error of `recv` (-1) is stored into a `size_t` and taken for a number of
  bytes (`socket_client.cpp:154`);
* a length that comes in pieces loses the stream, and may be stored behind
  `buffer` (`socket_client.cpp:157`, `.h:54`);
* a tunnel request that cannot be sent goes unnoticed: `sendPlist()` returns a
  `size_t`, which is never negative (`connection.cpp:48`, `socket_client.h:48`);
* a refused tunnel is not asked for again (`connection.cpp:145`), and
  `client_dispatcher.cpp:98` drops DISCONNECTED;
* a status callback whose reference dangles sends Connect to another device, or
  crashes (`usbhub.cpp:31`; `Referred`);
* `stop()`, or the `disconnect("")` of a timer, may meet a connection that
  `createDevice()` is opening: found IDLE it stays open (`connection.cpp:92`); found
  between `open()` and `startListening()` (`connection.cpp:40-41`) its descriptor is
  closed and a thread then started on it, which calls itself without end;
* on Apple's systems `shutdown()` fails when the peer has ended first, as it has
  when a device is unplugged: `close()` returns, and descriptor and thread object
  stay while the connection becomes IDLE (`socket_client.cpp:93`);
* `send()` holds `send_mutex` while `::send` is blocked, and `close()`, which could
  end that, waits for it (`socket_client.cpp:92`, `:118`): a peer that does not read
  holds up `stop()`, the hub, or the keep-alive check, which then disconnects nobody
  any more (`client_dispatcher.cpp:55`, `:69`);
* a client that connects again is found by its name before its time is noted, and
  may be disconnected in between by a second timer of its earlier connection
  (`connection.cpp:156`, `client_dispatcher.cpp:152`);
* `subscribe()` may move the vector another thread's `notify()` walks over
  (`swiftrobotc.h:73`);
* a callback that publishes or subscribes while the client is destroyed uses
  `client_dispatcher` after its end (`swiftrobotc.h:58`, `:76`).
