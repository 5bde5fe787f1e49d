# A model of network-quic

TLA+ modules, TLC runs and TLAPS proofs about the concurrent core of this
library: a Go library, exported to C, that carries numbered *channels* of
messages over quic streams and datagrams between a client and a server, finds
the server through a signalling websocket, and registers a host at a management
platform.  Paths below are relative to `src/`; in them `network/` stands for
`framework/network/`.

Contents: [1 The system](#1-the-system), [2 Modules](#2-modules-and-the-code),
[3 Runs](#3-runs), [4 Fairness](#4-fairness), [5 Proofs](#5-proofs),
[6 Findings and known behaviours](#6-findings-and-known-behaviours),
[7 Not modelled](#7-not-modelled), [8 Plan](#8-plan).

## 1. The system

### Components

| Component | State | Operations | What makes it correct |
|---|---|---|---|
| **CloseableObject** `framework/dispose.go` | `IsClosed`, `closeLock`, the handler | `SetOnCloseHandler`, `Close` (OnClosing, `IsClosed`, OnClosed under the lock) | the call-backs run once and never together, a call that returns leaves the object closed, every call returns |
| **StreamChannel** `network/channel.go` | `Stream`, the unbuffered `Channel`, `Buffer` and its offset, `Done`, the FEC groups | reader goroutine `HandleChannelStreamData`, `ReceiveDataToBuffer`, `Send`, `FecDecode`, `Close` | messages reach the application once each and in order until the close; the close gets the reader and the receiver out |
| **Socket** `network/socket.go` | the table `StreamChannels`, `closeLock`, `channelEditLock` | `CreateChannels`, `CloseChannel`, the readers' disconnects, receive, send, `Close` | the table has exactly the open channels, each channel is closed by one goroutine, the application is notified once, the socket closes when its last channel ended |
| **FEC datagrams** `network/socket.go`, `network/channel.go` | shards by group, the next group | `SendFecDatagram`, `HandleChannelStreamDatagram`, `FecDecode` | frames come out once, in order, when enough shards are there, whatever is lost or reordered |
| **Server** `server/server.go` | the listener, the table of sockets by client id, `lock` | `StartListen`, `processStream`, `CloseSocket`, `Close` | a client's streams meet in one socket, announced once and ended once; closing the server ends all of them; its locks never deadlock |
| **Client** `client/client.go` | `NetConn`, `Socket`, `closeLock`, the global `clientCtx` | `ConnectToNet` (direct, by proxy, by ICE), `CloseChannel`, `Close` | whatever closes it, `NetConn` and socket are closed and the application is told; the end of its last channel is noticed; its lock and the socket's inside it never block each other |
| **WebSocket client** `websocket/client.go` | `Conn`, `Connected`, `Reconnect`, `heartTicker`, none of it locked | `Connect`, the reader, `Heart`, `Disconnect`, `ReconnectWorking`, `Close` | reconnects as long as wanted, and stops for good after `Close` |
| **ManagePlatform** `agent/manage.go` | `wsConn`, `Agents`, `heartTicker` | `ConnectToPlatform`, `Hearts`, `ListenAgentConnect`, `Close` | each agent connected once, a loop serves an open manager and ends with it |
| **Agent authentication** `agent/common.go` | one exchange: SYN, then REQ, three tries each | `authAgent` | success only if the proxy accepted |
| **Exports** `exports/openapi.go` | the globals `serverCtx`, `clientCtx`, `managerCtx`, `socketMap`, `currentBuffer` | the C functions | they check and use the objects above while other goroutines close them; the application gets each client's bytes, with the right client and channel, and is woken when something happens |
| **Framing** `network/stream.go`, `utils/stream.go` | none | 16-bit length headers, varint header of `StreamInfo`, `ReadStreamFull` | every message comes back as it was written |
| ICE worker, statistics, HTTP, JSON, TLS, log | – | – | see section 7 |

### Interaction

A quic stream is accepted by the server's `processStream` (or opened by the
client), which finds or creates the `Socket` of the client's id and starts the
stream's reader.  The reader offers each message on an unbuffered Go channel;
a C caller receives it into the channel's `Buffer` and copies it out, perhaps in
several calls.  When the reader ends it calls `OnDisconnect`, which takes the
channel out of the socket's table and closes the socket if no live channel is
left; the socket's `OnClosed` calls the server's `OnDisconnect`, which takes the
socket out of the server's table.  A close can also start from the other end
(server, socket, channel), from any goroutine, and meet the first in the middle.
With datagrams, one goroutine for each socket receives the shards of all its
channels and hands frames over on the same Go channel the reader closes.
`ServerSocketReceive` is one goroutine of the application for all clients: it lists the
channels of all sockets in `socketMap`, waits in one select over them, and hands the message it
got out of `currentBuffer` over several calls.
`ProxyServerCreate` starts the loop that keeps the platform's websocket and
creates a server for each agent the platform names.

### What is hard here

* Every object is closed by several goroutines: the application, its own reader
  and its owner.  `closeLock` is held over both call-backs, is not reentrant,
  and call-backs take other locks (`channelEditLock`, the server's `lock`).
* Fields are tested and then loaded again without a lock (`Stream`, a slot of the
  table, `Conn`, `heartTicker`, `managerCtx`), while closing sets them to nil.
* Hand-offs are unbuffered, so a slow or missing consumer blocks the producer,
  and the closer waits for the producer, at most 100 ms.
* Datagrams and the authentication exchange meet loss, delay and repetition.
* Reconnections are started by several goroutines for one and the same break.
* Two closes run one inside the other: the client's closes the socket's under its own
  lock, while a reader may be closing the socket.  Setting up a client is a long sequence
  that fails in the middle, and may be closed in the middle.
* The list of channels of `ServerSocketReceive` is made from tables that change while it is
  made, and is old while the select waits.

`PROJECT.json` lists these hazards line by line, each with the properties
that would catch it, or the reason why there is none yet.

## 2. Modules and the code

| Module | Models | Made of |
|---|---|---|
| `CloseableObject` | `dispose.go` | the abstract specification of a close, too; run through `Client` |
| `OrderedDelivery` | – (abstract) | what a receiver is promised: messages once each and in order; with `MaySkip = FALSE` without gaps |
| `StreamChannel` | `channel.go` without FEC, `ServerSocketChannelReceive` and `ClientChannelReceive` | the steps of a channel in a socket; implements `OrderedDelivery` (`MaySkip = TRUE`) |
| `Socket` | `socket.go` without datagrams | extends `StreamChannel`; implements `CloseableObject` |
| `Client` | `client/client.go`, with `ClientConnect`, `ClientClose`, `ClientChannelClose` | extends `CloseableObject` for the client, has another instance for its socket |
| `FecReassembly` | `socket.go:268-354`, `channel.go:197-244` | implements `OrderedDelivery` (`MaySkip = FALSE`) |
| `Server` | `server.go`, with the parts of `socket.go` it meets | |
| `WebSocketClient` | `websocket/client.go` | |
| `ProxyAuth` | `agent/common.go`, `authAgent` | operators only: steps of one exchange as sets of records |
| `ManagePlatform` | `agent/manage.go`, the loop of `exports/openapi.go` | extends `ProxyAuth` |
| `Heartbeat` | `Hearts` of `agent/manage.go`, with what it meets of the loop and of the manager's `Close` | |
| `Framing` | `utils/stream.go`, `network/stream.go`: headers and what a reader makes of them | functions on sequences of bytes |
| `ServerReceive` | `ServerSocketReceive` with `socketMap`, the streams and sockets it meets, `ServerClose` | extends `Framing` |
| `MC*` | TLC instances | |
| `*Proofs` | theorems | about `CloseableObject`, `Client`, `Socket` and the channels in it, `FecReassembly`, `Server`, `WebSocketClient` (`WebSocketProofs`), `ManagePlatform` and `Heartbeat` (`PlatformProofs`), `Framing` and `ServerReceive` (`ReceiveProofs`) |

`PROJECT.json` "map" has the lines of each definition.  A name ending in
something like `Unlocked`, `OffByOne`, `Again`, under a comment "Mutant:", is
a changed copy of the definition below it: a bug that the property it is paired
with in `PROJECT.json` finds.  No action of the models uses them.

Conventions common to the modules:

* **Granularity.**  A step reads or writes one shared field, or several that no
  other goroutine changes in between.  A test and a later load of the same field
  are two steps.  Accesses are sequentially consistent and each is atomic: the
  races on the Go fields are modelled as interleavings of such accesses, not as
  torn values.  Lock acquisition and the first access under it are one step.
* **nil.**  A dereference of nil ends the process: it sets `panic`, and `Next`
  requires that there is none.  A run with a panic is thus cut off, not ignored:
  what properties say, they say up to that point, and liveness properties name
  the panic as their exception.
* **Time.**  There is no clock.  A bounded wait (100 ms for `Done`, 3 s of
  reconnection, the heartbeat's pong) may end at any moment.
* **Data.**  Messages are numbers, shards are pairs of group and index, agents
  and clients are model values or small numbers.

### CloseableObject
`pc` says where each caller is in `Close`; `Skip`, `Begin`, `Agree`, `Refuse`,
`Finish` are the paths through `dispose.go:36-50`.  `closedRuns` is history.

### StreamChannel
`rpc`, `cpc`, `wpc` are the program counters of the reader, the consumer and the
sender of each channel.  `wire`, `sent`, `quic` are the stream as the code sees
it: the peer's messages in order, its end, or nothing any more after a cancel
or a reset.  `done` stands for `Done`, `close(Channel)` and `Channel = nil`, which
the reader does in one go and no other code looks at separately, but for FEC,
which has its own module.  `Handoff` is the rendezvous on the Go channel.
`TakePart` and `Take` are the partial copy in the exports.  `CloseBegin` is
OnClosing up to the wait, `CloseEnd` the end of the wait, `IsClosed` and
OnClosed.  The module has no specification of its own: a channel lives in a socket, and
`Socket` composes these steps with the table.

### Socket
Goroutines are readers (named by their channel), closers and droppers; `spc` is
the place of each in the shutdown.  `drop .. scan` are `CloseChannel` and the
readers' disconnect, `close .. notify` are `Close`, OnClosing with its sweep over the
table, and OnClosed.  The users' unlocked accesses of the table are
`HandleChannelStream`, `Receive*`, `Send*`: a slot emptied between test and use is a
panic.  A consumer is of one of two kinds: `ClientChannelReceive` tests the slot before each
use (`ReceiveRecheck`) and indexes the table once more (`ReceiveIndex`), which ends the process when OnClosing has
emptied the table in between (`TableEmpty`), and `ServerSocketChannelReceive` uses `Buffer` without a test (`UseNothing`, `UseBuffer`).
The client's rule (`client.go:47-52`) is the same close by the last reader.

### Client
`Main` is the goroutine in `ClientConnect`: `at[Main]` walks through `ConnectToNet`
("connect", "opened" with a UDP socket made, "dial" with it in `NetConn`, "dialled", then
"configure", "stream", "attach" for each channel) to the
last line of `ClientConnect`, which reads `clientCtx.Socket`.  The other callers are in `ClientClose` or,
the `Droppers`, in `ClientChannelClose`; each channel has its reader.  The variables of the
extended `CloseableObject` are the client's lock, those of `Sock` the socket's; `part` is the place in the
client's OnClosing, which runs `Sock`'s close inside.  `Needs` is a load of a pointer that may be nil by
now.  `early` is history: a close began before the socket was set.  `netConn` says that
`NetConn` is set, which nothing undoes, and `udp` whether the UDP socket that was made is open: it may be without
ever becoming `NetConn` (`ResolveFails`, `NoConnection`).  A socket is reduced to the
protocol that `Socket` is shown to implement, and its table.

### Framing
A byte has `Base` values, 256 in the code, so a length header of two bytes wraps at
`Base * Base` (`UShort`) and a varint digit has half of `Base` values.  `WriteStreamByHeader`
is what one send puts on the stream; `HasMessage`, `MessageOf`, `AfterMessage` what the
reader's two `io.ReadFull` make of what has arrived; `HasInfo` and its companions the same for the
`StreamInfo` at the head of a stream.

### ServerReceive
`wire` is the bytes of a stream that the server has not read, `inHand` the message its reader
offers, `current` is `currentBuffer`, `got` what the application has.  `apc` is the place in
`ServerSocketReceive`: `WaitEnds` is the loop without sockets, with `room` the count it takes;
`List` makes the list of select cases; `Select` and `SelectClosed` are `reflect.Select`; `Copy` is one call's share of the
message.  Readers, sockets and `ServerClose` take as few steps as the receive can tell apart.
`proxied` chooses between `ServerCreate` and `ProxyServerCreate`, which differ in the call-back of a
closed socket and in what `ServerClose` closes.

### FecReassembly
`net` holds the datagrams under way; any of them may be lost or arrive next.
`groups` is `FecGroups`, `next` `NextGroupId`, `dpc` the datagram goroutine.
Reed–Solomon is taken at its word: any `DataShards` shards of a group give its
frame.  `arrived` is history.

### Server
A stream's goroutine runs `processStream`; the socket's end, wherever it comes
from, runs the server's `OnDisconnect`; `CloseSocket` and the server's
`OnClosing` close sockets themselves.  The server's `lock` and the closeLock of
each socket are both modelled, since `CloseSocket` takes one inside the other.
A socket is reduced to its closing; `Socket` has the detail.

### WebSocketClient
For each connection there is a worker (it called `Connect` and stays in `Heart`)
and a reader; both, and the closer, may be in `Disconnect` together.  Goroutines
in the sleep of `ReconnectWorking` and in `Dial` are alike and are counted.  `heartMessage` says whether the client has
one: the application may pass an empty one (`openapi.go:679`), and then `Heart` returns at once (`NoHeart`), without a ticker and
without the Disconnect at its end.  The heartbeat
that `Heart` sends is left out: it changes nothing of the client's state, and its
load of `Conn` is one more of the nil dereferences of section 6.

### ProxyAuth and ManagePlatform
A loop does not hold its manager, it loads `managerCtx` at each method call, so
`mgr[l]` says whose method loop `l` is in.  While a loop authenticates to an
agent's proxy, `auth[l]` is the exchange, whose steps are sets of records in `ProxyAuth`.
`made` and `shared` are history: how often an agent was connected, and whether a loop
ever served a manager other than its own.

### Heartbeat
One manager, whose loop dials and starts a `Hearts` at every turn.  A goroutine, the ticker
it makes and the connection of its turn have the turn's number; `ticker`, `wsConn` and `silent` (the
last message is too long ago) belong to the manager, and a `Hearts` of an earlier turn sees those
of a later one.  `holds` is the ticker a goroutine ranges over, which it loads once; `leave`, `stop`, `clear`
are its deferred function, `halt` to `hangup` the manager's `Close`.  `out` says who is in
the websocket's write, which panics when two are.  The managers that follow one another
and the agents are in `ManagePlatform`, which has this module's `HangUp` as a connection that ends.

## 3. Runs

| Run | Bounds | What it shows |
|---|---|---|
| `Socket` | 2 channels of 1 message, a closer and a dropper | table and channels agree, one closer per channel, one notification, which comes when both readers are done whoever was last, every step is one of `CloseableObject` or a stutter |
| `SocketUse` | 1 channel, 2 messages in up to 2 parts, a consumer of either kind, sender, closer | nothing lost, doubled or swapped before the close; once each and in order also during it; closes return though a reader is stuck in its hand-off; reader and waiting receiver get out |
| `Client` | 2 channels, `ClientConnect`, one `ClientClose` caller, one `ClientChannelClose` caller, all three ways | `NetConn` and socket released by every close, whatever part of the set-up failed before it, the last channel's end noticed, the nested locks never block each other; of the close protocol: one OnClosed, and it has run when the lock is free |
| `FecReassembly` | 3 frames of 2+1 shards, up to 2 losses a frame | decodability, no forgotten shard, refinement of gapless ordered delivery; every frame comes out with at most 1 loss a frame |
| `Server` | 1 client, 3 streams, at most 3 sockets, one `CloseSocket`, with datagrams | the table finds every open socket, one announcement and one end for each, the server's close ends all, no deadlock |
| `WebSocketClient` | 2 connections, any number of failed dials, with a heart message and without | somebody is always reconnecting while it is wanted, nobody after the close, and then a late connection is given up if there is a heartbeat |
| `ManagePlatform` | 2 managers, 2 connections, 1 agent, 2 tries of a datagram | an agent once, only after its proxy accepted, always a loop for an open manager, loops end |
| `Heartbeat` | 2 turns of the loop, a close at any moment | a connection on which the platform is silent gets closed although two `Hearts` share all their fields, and after the close no `Hearts` ticks and the loop ends |
| `ServerReceive` | 2 clients of 1 channel, 1 message of the longest length each, taken in 2 calls, 1 byte lost at a stream's end | each byte arrives with its client and channel, in order; a blocked receive is woken |
| `OperationInProgress` | 1 channel | **violation**, section 6 |
| `DrainLoop` | 1 frame | **violation**, section 6 |
| `CloseWhileDialing` | 1 manager | **violation**, section 6 |

Why the bounds are enough to be interesting:

* Two channels are the least with "the last one", and with two readers ending
  together; a closer and a dropper beside them give every pair of goroutines
  that can meet in the shutdown.  A third goroutine on one lock only
  queues.  The proofs cover any number.
* Three messages fill every place between stream and application (reader,
  rendezvous, `Buffer`) at once.  Two parts are a first and a last part.
* With 2+1 shards and 2 losses there are complete, just decodable and undecodable
  frames, and with three frames one of each in every order.
* Three streams of one id: one creates the socket, one finds it, and one comes
  after it ended and creates the next, so that a late OnDisconnect of the first
  socket meets the second.  A second index would add nothing to the table of
  sockets.  The third socket is one more than two overlapping ones.
* Two connections overlap in every way; the reader of the first may find
  itself reading the second.
* `Client`: two channels again, so that the second can fail when the first already has a reader.  The
  four goroutines outside the readers' pair (main, closer, dropper, and a reader that closes)
  cover each pair of different paths to a close.
* `ServerReceive`: with `Base = 4` a message of 15 bytes is the longest whose length fits, so that
  both bytes of the header matter; `Sizes = {8}` cuts it into 8 and 7, and the rest of one client's message is
  kept while the other client's arrives.  `MaxLost = 1` cuts a stream inside a message or inside its `StreamInfo`.
  `PerSocket` is the number of channels, as 3 is in the code for clients with three: the server keeps
  room for three whatever the client opened, and with fewer the list is not full.
* `Attempts` is 2 instead of 3: a first try and a retry.  With two managers the
  loop of the first may find the second.
* Two turns of the loop in `Heartbeat` are an earlier and a later `Hearts`; all their interleavings, with the
  loop and the close, are some 350 000 states.  A third would only be one more that is earlier.

The runs say `CHECK_DEADLOCK FALSE` where all goroutines may be done, or the bound be
reached, or the process have ended by a panic; that nobody is stuck before that is stated by
`NoDeadlock`, `CloseReturns` and the other liveness properties.  `Server` uses
symmetry of its streams, and checks no liveness.

## 4. Fairness

* `Socket`: a goroutine that can run does (the Go scheduler is
  preemptive): WF for each.  Steps that take a mutex have SF: Go's `sync.Mutex`
  goes to the longest waiter once that has waited for 1 ms, so nobody is overtaken
  for ever though the lock is taken and released again and again.  Nobody is
  obliged to call anything.
* The channel's steps in `SocketUse`: WF for the reader, the consumer once it has called, the
  rendezvous, the end of the bounded wait.  None for the peer, so a reader may
  stay in `Read` until a close cancels the stream.
* `FecReassembly`: WF for the goroutine, for the arrival of each datagram
  that is not lost, for the encoder to be set at last, and for the consumer.
* `WebSocketClient`, `ManagePlatform`: one WF over everything that happens
  without the peer (`Progress`).  This is weaker than one for each goroutine: one
  goroutine may wait as long as any other can go on.  It is enough,
  since after the close everything that can happen leads to an end.  Peer steps are
  in no fairness condition.  Dials and sleeps end: `Dial` has a timeout.
* `ServerReceive`: one WF for the server's goroutines together and one for the application, which
  calls `ServerSocketReceive` in a loop, as its callers do.  Clients need not do anything.
* `Heartbeat`: WF for the loop, for each `Hearts`, and for a close that has begun: a ticker that runs
  ticks.  None for a close to begin, for the platform's messages, for silence or for the network.
* `Server`, `Client`: safety only.  `NoDeadlock` and `HoldersRun` state as an invariant that somebody can
  go on while a goroutine is inside.

## 5. Proofs

All theorems hold for every value of the constants that satisfies the module's named
assumptions.

**`CloseableObjectProofs`** (any set of callers, `NoOneIsNotACaller`).  The
invariant `IInv` adds to the types that the lock is held exactly by the caller
inside the call-backs, and that "notifying" is entered with `IsClosed` set and
`closedRuns = 0`.  Without the first part two callers inside could not be
excluded, without the second a second run of OnClosed could not.  `ClosesOnce`, whose
property the run `Client` checks for the client's object, `CallbacksAreExclusive`, and
`ReturnsClosed`, that a call which returns leaves the object closed, follow.

**`SocketProofs`** (any set of channels, closers and droppers).  `ShutdownInv`
says that each lock is held by exactly the goroutine whose place is in its
critical section, that a goroutine inside a channel's close has in
`target` a channel still in the table, that closed channels are just those out of the
table or in the hands of the goroutine about to take them out, and that `sockClosed` is reached
only with an empty table.  The steps of readers, consumers and senders leave all
that alone (`UserStepsInert`); every step of the shutdown has its lemma.  From
it: `TableIsKept`, `ChannelsCloseOnce`, `NotifiesOnce`, `ShutdownIsExclusive`,
`ClosedStaysClosed` (a closed socket never gets a channel back), and `SocketImplementsProtocol`, the refinement of `CloseableObject`.
Through that refinement what `CloseableObjectProofs` proves holds of the socket: `SocketCloseReturnsTold`, that whoever
comes out of `Close`, the first, a second or a reader, finds the socket closed and the application told.

Two theorems say what can be proved of `CloseReturns` without fairness.  `SocketWaitersWaitForRunner`: `closeLock` is
taken before `channelEditLock`, and who waits for either waits, in at most two steps, for a goroutine that waits for none.
`CallsCountDown` (assumption `TableIsFinite`): each step of a goroutine in `Close`, `CloseChannel` or a
reader's OnDisconnect lowers the number of steps it has left, no step of another raises it, and it is at most three for each
channel of the table and nine; the loops over the table cannot be kept going by others, since nobody puts a channel back.
That each of these steps is taken some day is fairness, and stays with TLC.

Of the channels in it (any channels, goroutines, messages and parts) `ChannelInv` follows a
message through its places: the stream, the reader's hands, the rendezvous, the consumer's hands, `Buffer`, the
application.  Besides types it says that a reader or a consumer holds a message at a few of its places only
and that `Buffer` is empty when the consumer brings one (`HeldAt`), that the messages of a
channel that is not closing are numbered through these places without a gap (`OpenNumbered`), and that
also through a close a later place holds later messages (`AllOrdered`).  The second part alone would not
survive a close, which drops what is under way; the third alone would not show that nothing is
lost.  From it `ChannelsLoseNothing` (`NothingLost`), `ChannelsDeliverInOrder` (the
refinement of `OrderedDelivery`) and, with the types of the shutdown, `SocketTypes`.  Every other step
is shown to leave these variables alone by one frame lemma for each group of them.

`GoneInv` (assumption `SocketHasAChannel`) says that a reader that has ended removes its own channel and no other, that
it leaves the slot of that channel empty, that the socket is closed once all readers have left, and that OnClosed of a closed socket
has run once unless somebody is about to run it.  With `ShutdownInv` it is inductive, and
`LastChannelNotifies` (`AllGoneNotified`) follows: no order of readers, droppers and closers leaves a
socket without channels that nobody closes.

**`ClientProofs`** (any channels, connecting, closing and dropping goroutines; assumptions `NoOneIsNotACaller`,
`MainIsACaller` and `ChannelsAsked`, that a connection asks for at least one channel).  The client's Close runs
its socket's Close inside its call-back, so there are two instances of one protocol, one lock inside the other.  Every
step of `Client` is a step, or no step, of each of the two (`NextIsCloseStep`, `NextIsSocketStep`), and what
`CloseableObjectProofs` proves holds of both: `ClientImplementsProtocol`, `ClientSocketImplementsProtocol`,
`ClientClosesOnce`, `ClientReturnsClosed`.  `NestInv` adds what neither lock shows by itself: at which place of
the client's code a goroutine may be in the socket's Close (`CallsInv`), how far `ClientConnect` has come
(`ConnectInv`), that whoever is past the socket's Close left it closed (`DoneInv`), that the readers of the
channels opened so far run or have left the table (`ReadersInv`), what a close that found a socket has let go
(`ReleaseInv`), and where `ClientConnect` can be while a UDP socket is open that is not `NetConn` (`LostInv`): the exception that
`ReleasedOnClose` makes for it is proved to be the only one.  From it `ClientTypes`, `ClientReleases` (`ReleasedOnClose`), `ClientLastChannelCloses`
(`LastChannelCloses`) and `ClientLocksNest`: who has the socket's lock is in its call-backs, which wait for
nobody, and unless it is a reader has the client's lock already.  This is what keeps the two locks from a deadlock, stated without
ENABLED.

**`FecProofs`** (any shard counts, any number of frames and losses).  `FecInv`
is the types, "no shard arrives that was not sent", "the frame in hand is the last
one released", `ShardsKept` and `ReleasedIsDecodable`; the last needs the one before it, since a
frame is released on what is filed, and `ShardsKept` says that this is what arrived.
From it `FramesInOrder`, `ReleasesAreDecodable`, `ShardsAreKept` and
`FecImplementsOrderedDelivery`.

**`WebSocketProofs`** (any number of connections).  `NeverStranded` is inductive
together with the types of the counters, the flags and the places: a
goroutine leaves the sleep or the dial only into the other, into a
connection it is about to announce, or because there is one, and a Disconnect that
undoes a connection adds a sleeper.  `WebSocketTypes` adds the types of the pointers.

`ConnectionWatched` is the other half: while the client calls itself connected a reader goes on, or is about to be
started, since a Disconnect returns only where it found `Connected` false or made it so.  It holds with a heart message and
without, when `Heart` returns and leaves the reader alone (`NoHeartWatches`).  `ClosingWindsDown` is the part of
`CloseEndsReconnecting` that needs no fairness: once OnClosing cleared `Reconnect` no step adds a goroutine that
sleeps or dials.

**`PlatformProofs`** (any number of managers, connections, agents, attempts, turns).  Two
independent invariants.  `ServedInv` is `AlwaysServed` with the types it needs: a loop ends only
after it saw that `managerCtx` is nil or closed, which no later step but
the creation of a manager with a new loop undoes.  `AuthInv` says of every exchange that
an answer to REQ is under way only if the proxy accepted a REQ, that only an
unfinished exchange waits, and that a successful one was accepted and has no
deadline; the lemmas about `AuthSteps` and `ProxySteps` are about the records of
`ProxyAuth` alone.

`PlatformInv` adds the types of everything, a manager to each loop that is in a method, and
`OnceInv`: while no loop serves a manager other than its own, an agent that was made once is in
`Agents`, and the one being authenticated is not.  `AgentsConnectOnce` and `PlatformTypes` follow, the
former because `ProxyMessage` looks into `Agents` before it authenticates.  `AgentsExist` is its only assumption.
`AgentsComeByExchange` puts it together with `AuthInv`: an agent comes into a manager's `Agents` only from a loop in
a method of this manager that was asked for it, after an exchange its proxy accepted, and stays there.

`Heartbeat` is proved about here too, by an instance `Beat` with variables of its own (assumption `TurnsArePositive`,
a hypothesis of each theorem).  Its types need to know that the turn of the loop has not been started
before, so `HeartsInv` adds `TurnsInOrder`: the `Hearts` of later turns are idle, the loop between a dial and `go Hearts()`
is in a turn whose `Hearts` is idle, and a ticker anybody knows was made.  `HeartbeatTypes` and `RobbedForGood` follow: a
`Hearts` whose ticker somebody else stopped waits on it for ever, which is why the liveness properties
of `Heartbeat` except it.

**`ServerProofs`** (any number of clients, streams, sockets and callers of `CloseSocket`; assumptions
`GoroutinesDiffer` and `ClientsHaveIds`).  The next-state relation has a step for each goroutine and many ways to
die, so it is restated as the steps that matter (`Moves`) and for each group of variables a frame lemma says which
steps touch it.  The invariant `Inv` says who holds the server's lock and each closeLock, that an
entry of the table is a socket of that client, that a socket which is alone in being open is in the
table or is about to be put there by the holder of the lock, and where in `processStream` a socket is announced
before its end.  Whoever has a lock is inside its critical section (`HoldersInside`), as long as the process lives.  The lock is what makes "announced once, ended later" inductive, and the closeLock
what makes the end unique.  From it `ServerTypes`, `ServerTellsInOrder`
(`AcceptedThenEnded`), `ServerFindsSockets` (`TableFindsSockets`), `ServerEndsSockets`
(`ServerCloseEndsSockets`) and `ServerWaitersWaitForRunner`: who waits for a lock waits, in at most two steps, for a goroutine
that waits for none.

`ServerSocketsImplementProtocol` shows each socket of the table to implement `CloseableObject`, with the goroutines at it
as its callers, whoever closes it, and `ServerCloseReturnsTold` that whoever comes out of the `Close` of a socket finds it closed and its end
told, once.  `ServerCallsGoOn` bounds the calls as `CallsCountDown` does in `Socket`: the places of `processStream`,
`CloseSocket` and `Close` are numbered, every step of a goroutine goes to a smaller number or ends the process, nobody
else moves it, and only the loop of OnClosing goes back, to a client it has not visited.

**`ReceiveProofs`** (any base, clients, channels, messages, lengths of the application's buffer; assumptions
`BaseIsEven`, `InfoFits`, `Inputs` and `Numbers`).  First the functions of `Framing`.  `LengthSurvives`: a length that
fits in two digits is read as it was written.  `MessageSurvives`: what `WriteStreamByHeader` puts before any rest
is read as that message, and leaves that rest.  `CutMessageIsNone`: no proper beginning of it is taken for a
message.  `InfoSurvives`: when a reader makes out a StreamInfo in what has arrived of a stream, it is the one
sent, and the messages begin behind it.  `UnframedFramed`: a reader of whole messages makes of any sequence of
framed messages just their bytes.  The last two are about recursive functions.  The library's induction theorems
take the statement as an operator parameter, which the provers cannot instantiate, so the induction is stated
over sets of numbers (`SetInduction`, from the well-foundedness of the order of Nat) and the equations of the recursive functions
are derived from it (`RecursionExists`).

Then the receive.  `Flows` says of each channel that what the application has, followed by what is left of it in
`currentBuffer`, by what the reader offers and by what the reader will make of the bytes under way and of
those that were lost with a closed end, is what the client sent, and that no message is taken from a stream before
its StreamInfo was.  Together with the types (`Types`, which holds of every variable and of `currentBuffer` at each stage of
`ServerSocketReceive`) it is inductive (`ReceiveInvariance`); `ReceiveTypeCorrect` and `BytesArriveIntact`
(`BytesIntact`) follow.

Model-checked only: all liveness properties (they need fairness, which the prover does not handle), `NoDeadlock`
of `Server` and `HoldersRun` of `Client`, which speak of ENABLED (`ServerWaitersWaitForRunner`, `ServerCallsGoOn` and
`ClientLocksNest` prove what can be said of the locks and calls without it).

## 6. Findings and known behaviours

Three runs show code and text at odds (`PROJECT.json` "findings"):

* `OperationInProgress`: closing a stream should revoke reads and writes in progress
  (`changelog.md:51`), but OnClosing sets `Stream` to nil up to 100 ms before
  `IsClosed`, so that a reader or sender between its check and the read or write itself dereferences nil
  (`channel.go:140`, `:193`).  The trace has a reader that saw its channel open (`:137`), the first step of the
  close, and the read.  A reader that has not begun to read has a panic of its own, below.
* `DrainLoop`: the datagram goroutine is to leave its loop gracefully
  (`socket.go:279`), but when the stream ended while the next group is complete, the
  loop of `channel.go:217` goes round for ever.
* `CloseWhileDialing`: a closed manager is not to connect any more
  (`openapi.go:604`), but when a `ServerClose` comes to its end while the loop is in the dial of
  `ConnectToPlatform`, the loop goes on to call `Hearts` on a nil manager (`openapi.go:608`), and the process dies
  (`manage.go:118`).  The property is about this panic only.

Other behaviours the models have, that no text of the repository speaks
against, so that no run is made of them:

* `managerCtx` may become nil also between the test and `ConnectToPlatform` (`openapi.go:607`), and between
  `Hearts` and `ListenAgentConnect` (`:609`): both end the process.
* A channel closed after its reader attached the stream and before the reader asks for
  its context (`channel.go:121`) has no stream any more: a nil dereference.
* `ClientChannelReceive` finds the slot of its channel set (`openapi.go:263`) and indexes the table again
  (`:266`), which OnClosing may have replaced by an empty one: an index out of range.
* A consumer that calls `ReceiveDataToBuffer` after the reader set `Channel` to nil
  waits for ever on a nil Go channel (`channel.go:175`): place "stuck".
* OnClosed runs after 100 ms even when the reader is alive (`channel.go:102-116`), so
  a reader stuck in its hand-off stays; and a reader that attaches its stream after
  the cancellation is not cancelled (`ReaderReleased` names both exceptions).
* FecDecode may send on the Go channel while the reader closes it, which panics, or
  load it as nil, which blocks for ever (`channel.go:233`).
* Shards that come late reopen a group already released; nothing removes it
  (`channel.go:25`, `:202`).
* The heartbeat and the reader of a websocket client load `Conn` and the ticker
  again after testing them; two Disconnects at once may dereference nil.  Two goroutines
  may dial at once, and the loser's connection is overwritten without a close.
* A worker whose ticker was stopped waits for ever in `Heart`.
* With an empty heart message (`openapi.go:679-681`) `Heart` returns at once (`websocket/client.go:117-119`).  A connection announced
  between OnClosing's Disconnect and `IsClosed` then stays, its reader in `ReadMessage`, until the peer sends or
  closes (`CloseEndsReconnecting` names it, `Abandoned`).
* A `Hearts` is to leave when its connection was replaced (`manage.go:136`), but its test compares
  `config.Id` with `config.Id`, which is set once: it stays, and pings on the new connection beside
  the new `Hearts`.
* A `Hearts` that ends stops the newest ticker, whoever ranges over it, and so does the manager's `Close`: the
  goroutine waits for ever and its connection is watched no more (`SilentIsClosed` and `CloseEndsHearts`
  name it, `Robbed`).  The loop and several `Hearts` write to one websocket, which panics when two do
  at once, and a ticker or connection set to nil between a test and its use is a nil dereference.
* A loop whose manager was closed and created again may go on for the new one,
  beside the new one's loop; then an agent may be connected twice
  (`AgentConnectedOnce` and `LoopsEnd` name `shared` as their exception).
* `ServerSocketChannelReceive` uses `Buffer` of a slot after the receive without a test: a
  receive that was woken by the channel's end, or a slot emptied meanwhile, is a nil dereference.
* `CreateStream` returns neither a stream nor an error when writing `StreamInfo` fails
  (`network/stream.go:88`): the channel's reader uses a nil stream.
* A `ClientClose` before `ConnectToNet` has set `Socket` closes nothing of what is set afterwards
  (`ReleasedOnClose` names it, `early`); one after it makes the next load of `cli.Socket`, up to
  the last line of `ClientConnect`, a nil dereference.  That last line also meets nil when the
  proxy's agent or the ICE exchange failed.
* A failed dial leaves the UDP socket open until the client is closed.  When the server's address does not resolve
  (`client/client.go:91-95`) it is open and in no field, so no close reaches it, and so is that of a proxy's agent whose address does
  not resolve or whose authentication fails (`agent/common.go:98-110`): `ReleasedOnClose` excepts both.
* Nobody calls the `OnSocketDisConnected` that `ServerCreate` sets (`openapi.go:365`): a closed
  socket stays in `socketMap`, counts for the room of the list but has no channels, and
  `reflect.Select` panics on the zero cases left.
* `ServerClose` of a proxied server closes no server of an agent (`manage.go:84-100`): their sockets
  live on, and a receive blocked in its select stays there.
* An application waiting for the first client when `ServerClose` runs waits for ever, unless it
  looks in the moment between `Close` and `serverCtx = nil` (`openapi.go:466`).
* The end of a single channel leaves a nil entry in the table, which `ServerSocketReceive` uses without a
  test (`openapi.go:479`): the next call ends the process.
* A client that connects while the select waits is not heard before another one was, and
  `currentBuffer` survives `ServerClose`.
* When the first dial to the platform fails there is no pause of three seconds
  (`openapi.go:621` against `changelog.md:42`, which speaks of a connection that
  was lost).

## 7. Not modelled

* `network/collector.go`, `controller.go`: statistics, which nothing reads back;
  `ice/IceWorker.go`: one sequence of calls into the ICE library; `HttpClient`, `json`,
  `log`, `tls`: conversions without state; the tests and the generated C header `output/net.h`.
* `Client.Send` and `SetFecParam`, which test and load `Socket` as `CloseChannel` does, and the
  HTTP exchanges by which a client finds its server's address.
* The headers of four and of eight bytes and `ReadStreamWithTimeout`, which nobody uses.
* In `ServerReceive`, clients that connect while the server closes (`Server` has them), and
  messages longer than the header can tell: they are cut, which `BytesIntact` excepts.
* `Ping`, which indexes the table as `Send` does; the buffer pool.
* The pause of three seconds between two dials of the platform's loop: nothing is timed.
* quic itself, the websocket library, Reed–Solomon, the proxy and the platform:
  external, by what the code relies on.

## 8. Plan

Written so far, in this order: `CloseableObject`, `StreamChannel`, `Socket`,
`FecReassembly`, `Server`, `WebSocketClient`, `ManagePlatform` with `ProxyAuth`,
`Client`, `Framing`, `ServerReceive`, `Heartbeat`, and the proofs of section 5.

What is left of the model:

1. Two channels on one datagram goroutine: a slow consumer holds up the others.
2. The reopening of a released group, with a bound on the groups that stay.

Of the proofs nothing is left that the prover can reach: what only TLC checks is liveness, or speaks of ENABLED.
