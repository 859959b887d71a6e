# Verification of ZeroMax

ZeroMax is a client for the MAX messenger: a Rust library (`zeromax-core`), a
UniFFI bridge to it (`zeromax-ffi`), a desktop application (`apps/desktop`, Rust
and Slint) and a macOS application (`apps/macos`, SwiftUI). This directory holds
TLA+ models of its stateful parts, the TLC configurations that check them, and
proofs checked by TLAPS. `PROJECT.json` lists the components, the runs, the map
from definitions to source lines, the findings, the hazards and the theorems.

Paths below are relative to `src/`; `core/` stands for `zeromax-core/src/`.

    tlc -workers 2 -config TransportWs.cfg MCTransport     # a run
    tlapm TransportProofs.tla                              # a proof module

## 1. Inventory

The repository has no unit tests, only two example programs, so every behaviour
below that needs two actors or a failure is untested.

| component | state | operations | correct when |
|---|---|---|---|
| transport (`core/transport/{websocket,socket,pending,dual,frame}.rs`) | sequence counter, pending map, connected flag, writer, two task handles | `connect`, `send_and_wait`, `close`, receive loop, keepalive loop | each request ends once, with a frame of its key or an error; no answer is lost while its request waits |
| outgoing queue (`core/transport/queue.rs`) | bounded channel, breaker | `QueueSender::send`, consumer loop | nothing lost or duplicated, given up only after all retries |
| client session (`core/client.rs`, `core/protocol/sync.rs`) | transport, token, flags, chat lists, handlers, dispatcher handle | `connect`, `close`, `reset_for_reconnect`, `start_dispatcher`, `start` | one dispatcher on the transport in use, lists of the current session once, `start` always comes back |
| event dispatch (`core/event/`) | a receiver of the broadcast channel | dispatcher task | survives a lag, ends with its session |
| FFI client (`zeromax-ffi/src/client.rs`) | one mutex around the client, caches, listener | ~40 calls, reconnect loop, event loop | calls return, reconnects are atomic to calls, a live session stays |
| FFI event bridge (`zeromax-ffi/src/events.rs`) | a receiver | bridge task | the listener hears the connection in use |
| storage (`core/storage/`) | one SQLite table: device id, token | load, save, get-or-create | what was saved is what is loaded |
| authentication (`core/protocol/auth.rs`) | token in memory and on disk | code, 2FA, QR, `set_token` | memory and disk agree |
| uploads (`core/protocol/files.rs`) | map of upload waiters | `upload_*`, notification handler | each upload gets its own notification |
| chats, messages, users, profile, folders (`core/protocol/`) | chat lists | requests that edit a list | no duplicates, no stale rows |
| desktop application (`apps/desktop/src/{auth,main,chat_list}.rs`) | login flow, poll handles, client, session file | start, poll, back, resume, logout | what the screen shows belongs to the live client |
| macOS session (`MaxService`, `AuthViewModel`, `QRLoginView`) | client, `isAuthenticated`, poll task | launch, phone and QR login, logout | signed in means a session exists |
| macOS conversation (`ConversationViewModel`, `MessageCache`) | message list, SQLite cache | load, send, push, delete | the list agrees with the server, each message once |
| the rest | none | types, constants, opcodes, conversions, views, generated bindings, examples, build files | not modelled |

**Interaction.** An application calls the FFI client (macOS) or the core client
(desktop) directly; both own one `MaxClient`, behind a mutex. The client owns one
transport object and replaces it at each reconnect. A transport object runs two
tasks per connection that share with the callers the pending map, the counter and
the flag. Frames nobody waits for go to a broadcast channel, to which a
dispatcher (`start`) or the FFI bridge subscribes. No application calls `start`,
`start_dispatcher` or `spawn_outgoing_loop`: they are the library's interface.

**What is hard.** Tasks on a multi-threaded runtime that share a map and a flag;
timers racing answers; connections that end between any two steps; tasks that
outlive the object that started them; a mutex held across network requests;
bounded channels; numbers reduced modulo 256. `PROJECT.json` names each hazard at
its line, with the properties that cover it or the reason why none does.

## 2. Modules

| module | models | order |
|---|---|---|
| `PendingMap` | the pending map and the oneshot channels in it, as operators | 1, done |
| `Transport` | one transport object; EXTENDS `PendingMap` | 1, done |
| `RequestResponse` | what `request` promises; refined by `Transport` | 1, done |
| `TransportProofs` | theorems on `Transport` | 1, done |
| `OutgoingQueue` | the queue | 2, done |
| `MaxClient` | connection state of the client, the steps of `connect` as operators | 3, done |
| `ClientStart`, `ClientStartProofs` | `MaxClient::start` and the dispatchers, EXTENDS `MaxClient`; theorems on it | 3, done |
| `FfiSession`, `FfiSessionProofs` | the FFI client as the macOS application drives it, EXTENDS `MaxClient`; theorems on it | 4, done |
| `DesktopAuth`, `DesktopAuthProofs` | login tasks of the desktop application, Back, polls, aborts, client mutex, session file, relaunch; theorems on them | 5, done |
| `Uploads`, `UploadsProofs` | upload waiters, watcher, HTTP failures, notifications; theorems on them | 6, done |
| `ChatLists`, `ChatListsProofs` | the chat lists under sync, pages, joins and leaves, `load_all_chats`; theorems on them | 7, done |
| `Conversation`, `ConversationProofs` | view model, cache and event bridge of one open conversation; theorems on them | 8, done |
| `WireCodec` | binary packets, cut up and decoded | 9, done |
| `PacketChannel` | what the byte stream promises; refined by `WireCodec` | 9, done |
| `QueueAndWireProofs` | theorems on `OutgoingQueue` and on `WireCodec` | 2 and 9, done |

`MC<module>` modules instantiate a module for TLC. The storage has no module of
its own: `DesktopAuth` holds the whole of `sqlite.rs`, because what can go wrong
with it comes from the logins that share the file.

Left of the plan: the two login views of the macOS application on one FFI client
(a QR login reuses the client of a phone login, `QRLoginView.swift:95`); the load
of the desktop's rows after a login; the name and avatar caches. No module
declares a RECURSIVE operator, and every component modelled has theorems.

## 3. How state and actions correspond to the code

### Transport

One object, of either kind. Both kinds have the same control; they differ in the
key of the map (`Key(s) == s % Modulus`: 256 on the socket, the number itself on
WebSocket, that is a `Modulus` above every number) and in the frames a packet
yields (`FramesPerPacket`: none for one that does not parse, several for a
MessagePack list).

`pending`, `chan` and `got` are the map with its oneshot channels, named by the
number of the request that created them; `seq` the counter; `connected` the flag;
`conn` the connection `writer` belongs to. Per connection there are `wire`,
`recv` (where the receive loop is) and a keepalive task; `pc`, `mine` and
`outcome` place the tasks. `reached`, `answered` and `published` are the server's
view and the event subscribers'.

A task's steps are cut where another thread can run: `TakeNumber` (fetch_add),
`MakeRoom` and `Register` (the remove and the insert of `PendingMap::insert`),
`Write` or `WriteFails`, then `TakeAnswer`, `NoticeClosed` or `Expire`, then
`Cleanup` (remove). The receive loop goes `RecvContinues`, `ReadAnswer` or
`ReadPush`, `Dispatch`; at its end the flag and the map are two steps
(`RecvLowersFlag`, `RecvCancelsAll`). `connect` and `close` take `&mut self`, which
excludes callers in flight but no background task; an abort takes effect at the
aborted task's next await. The server answers in any order and each request at
most once. It numbers its own packets as it likes: `PushSeqs` may hold numbers of
requests in flight, and such a push answers the request, because frames are matched
by number alone. `RequestResponse` calls that outcome, and a late answer under a key
used again, `misled`: `OwnAnswer` says what a call may return, and nothing in the
code makes it say more.

Abstracted: payloads, opcodes (matching ignores them), the order of frames inside
one connection (answers come in any order), partial writes.

### OutgoingQueue

`queue` is the channel, `hand` and `loop` the consumer, `retries`, `attempts` and
`fate` the messages, `errors`, `tripped` and `cooled` the breaker. Time is one
bit: the cooldown has passed since the last error. tokio grants room to waiting
senders in order; the model lets any waiting sender have it, which allows more.

### MaxClient and ClientStart

A transport object appears by two bits: its socket is `open`, its `flag` is up.
The steps of `connect` are operators (`TransportConnects`, `HandshakeOk`,
`SyncOk`, and their failures) that both drivers use. `rows` counts the syncs
whose chats are in the lists, `rowsFrom` the transports they came from.
`ClientStart` adds the loop of `start` (`pc`), the handler registry (one bit, one
list stands for all) and the dispatcher tasks, each with its subscription and its
inbox of at most `Capacity` frames. An object of which nothing is left (no
socket, no flag, no subscriber) is used again, so the loop can go round for ever.

### FfiSession

Actors: the application's login (`app`), the reconnect loop (`loop`), requesters
(`req`) and the event bridge (`bridge`); `lock` says who holds the client's
mutex. A launch calls `connect`; a login calls `connect_for_auth`, `set_token`
and `sync_after_login`, each under the mutex. The requests in between (code, 2FA,
QR) do not change the state kept here and are left out. `start_event_loop` takes
the mutex only to subscribe, and the reconnect loop looks at `is_connected` under
the mutex without keeping it: one step each, when the mutex is free. After its
2 s sleep the loop takes the mutex and resets without looking again. A phone login
makes a new client; that client starts where `Init` is, so it is not a case of
its own. The 20 s timer covers the wait for an answer, not the connect
(`websocket.rs:88`, `socket.rs:70-83`) and not the write (`websocket.rs:137`), so
whoever holds the mutex may `Hang` at any point, for good (`hung`).

### Uploads

`waiters` is the map, `rx` each upload's oneshot channel, `inbox` the watcher's
receiver of the broadcast channel (`Capacity` frames, the oldest dropped), `tuned`
whether that receiver is of the transport in use. Files and videos are numbered
apart by the server and meet in one map, so two uploads may share a number. The
HTTP exchange has no timeout and may end in any way or never; after `send().await?`
fails the entry stays (`leaked`). A frame confirms a file, a video, one of each,
or nothing. Uploads borrow the client, so its transport is replaced only when none
is running.

### ChatLists

A list is the number of its entries for each chat; both user interfaces sort what
they show. A chat is of one kind for good: a dialog, a group, a channel, of a type
the client does not know (`OTHER`, which `sync` skips and `fetch_chats` files among
the groups), or one whose entry does not parse (`UNREADABLE`, which both skip and
which this client can neither join nor create). `stamp` orders the account's chats
on the server: pages are newest first and end before the marker. The stamps are the
server's event times in milliseconds and are assumed distinct; what the server does
with a marker is external. The client is behind a mutex that
`load_all_chats` keeps for all its pages, so an operation of one request is one
step, and between two pages only the server moves. `joins`, `left` and `moved`
are history for the properties.

### WireCodec

A byte is a digit below `Base`; the length has three digits under one of flags.
`PackPacket` and `UnpackPacket` are translated byte by byte, the receive loop by
its two exact reads; LZ4 and MessagePack are external (a failure, a list or a
value). The writer lays packets out as `pack_packet` does, with a flag, since the
client never sets it and the server does. `stream` is every byte written, with two
positions in it: `arrived`, what the network has brought, and `read`, what
`read_exact` has taken. `ends` (where each packet ends) and `delivered` (the frames
taken out of each packet) are history. `PC` maps this to `PacketChannel`: a packet
is there when its last byte arrived, and a read of a header is a stutter. The code
does not check that a length fits: `pack_packet` masks a longer one and writes the
whole payload all the same. From the first such packet on the loop reads rubbish, so
`InStep` and `WholePackets` speak of the packets before it (`Honest`), and the
mapping shows the channel those alone.

### Conversation

A message is a number (the order of time) and the version of its text. `bridgeQ`
holds events pushed and not yet handled by the bridge's thread, `mainQ` those
posted to the main actor, `calls` the requests under way: an answer is given in one
step and applied in a later one, and whatever the bridge or other calls do in
between comes first. A page of older messages has a step before these (`MoreAsked`),
which reads its marker from what is shown: the answer (`MoreAnswered`) is to that
marker, however the list has changed since. `cache` is the SQLite table, `shown` and
`hasMore` the view model. `Reopen` may happen at any time (`MainView.swift:16-23`
has no guard); calls of the view model that is gone go on and save their answers to
the cache without showing them (`Detached`), and its events are dropped. Events may
be lost (a lag, or a bridge left on an old transport); `missed` remembers which,
`own` what was sent from this view, `kept` what the view has taken in. A request that
fails changes nothing, so it is an answer that is never given; a page that fails
lets another be asked for (`MoreFails`).

Assumed of the cache: its database opens and its statements succeed
(`MessageCache.swift:48` and `79` return an empty list and save nothing otherwise,
and every property below would then be about nothing). `saveMessages` from two
threads shares one SQLite connection; its transactions merge and commit together, so
each save is one step. Two detached calls with the same answer are one in the set:
applying it twice is applying it once. `InOrder` is the `ORDER BY` of
`loadMessages`, and keeps the order where one message is removed.

### DesktopAuth

`job` and `at` are the tokio tasks the buttons spawn, each at its next step:
`cancel`, `take`, `clear` (the three awaits of `cancel_flow`), `wipe`, `open`,
`insert`, `load`, `connect`, `store`, `flow`, `handle`, `clone`, `ask`, `save`,
`sync`, `track`, and at last a post to the window (`post`, `post2fa`, `error`).
A task takes one step from one await to the next. An abort takes effect at an await,
so a polling task whose sync has returned, which has given the client mutex back and
has no await left, is no longer aborted (`Aborted`): it posts `Authed` whatever Back
does in between. Posts apply in the order they are posted, each as one step.

The client mutex is held from the answer that brings the token until the sync
(`Holders`); a request on its own is one step that waits for the mutex. The scratch
of a login is read before the mutex is waited for (`CloneScratch`). `tokens` and
`several` are `session.db`: its rows, each with or without a token, and whether there
is more than one. Which of several rows a `LIMIT 1` without `ORDER BY` returns, and
which is the row of a client, is then any choice. A client has a token or not and
a pool on the file that the directory names or on one that was unlinked: `wipe_session`
unlinks it under everyone, or fails, logs that, and leaves the file (`WipeFails`).
Opening, connecting and the requests may fail at every point (`StartFails`,
`NeedLogin`, `SignInFails`), and so may drawing the QR code, which leaves a client
nobody polls for (`QrRenderFails`). `Relaunch` kills the process at any point;
`SpawnResume` is the first task of the next one.

`overlap` is history: `none` while the login in hand began with no other task alive
and no Back was alive together with a sign-in, `back` when one was, `start` when the
login began over another task. Opening and `CREATE TABLE` are one step with the first
look at the table: two openings at once are told apart by `insert`.

## 4. Runs

| run | instance | shows |
|---|---|---|
| `transport` | WebSocket keys, 2 callers and the keepalive, 2 numbers, 1 connection, a push that bears the second number | `NoAnswerMissed`, `OneDestination`, and `ImplementsRequestResponse`, the refinement of `RequestResponse` with its liveness |
| `transport_socket` | keys modulo 2, 2 callers and the keepalive, 3 numbers, 1 connection, packets of 0 and 2 frames, a push under a key in use | `OwnAnswer`: a call returns its own answer, a push of its key, or the late answer of a request of its key that no longer waits; `CancelledOnlyOnLoss` |
| `queue` | 3 messages, channel of 2, 2 retries, threshold 3 | `OnePlace`, `DroppedOnlyWhenExhausted`, `BreakerAgrees`, and under fairness `SettlesUnlessFull` |
| `start` | 3 transports, 2 faults, 3 events, channel of 1 | `OneDispatcher`, `ServingIsHeard`, and under fairness `KeepsServing` |
| `start_handlers` | the same | **violation** of `HandlersKept` |
| `ffi` | 5 transports, 2 faults, 1 requester | `RowsOfThisSession`, and under fairness `EndsUpConnected`, `CallsReturn` |
| `ffi_bridge` | 3 transports, 1 fault | **violation** of `ConnectedIsHeard` |
| `uploads` | 3 uploads, 2 numbers, channel of 1 | `WaitersAgree`, `ConfirmedExactly`, `LostToNamesakeOnly` |
| `chats` | 4 chats, the last of each kind, pages of 2, a sync of 1, 3 pages, 6 events | `RowsOnce`, `LeftStaysGone`, `LoadLeavesNoHole` |
| `wire` | one-bit bytes, 9 packets, streams of 2 | `InStep`, `WholePackets`, and `ImplementsPacketChannel`, the refinement of `PacketChannel` with its liveness |
| `conversation` | 3 messages, 1 change, 2 things under way, pages of 1, 2 shown | `DuplicateOnlyOfOwnSend`, `NothingLost`, `HistoryWhole` |
| `desktop` | 3 tasks at once, 2 of them starting a login, 0 or 1 row to begin with, tasks symmetric | `AuthedIsPersisted`, `AuthedHasClient`, `OneQrTask`, `BusyIsFreed` |

The largest, `conversation` and `desktop`, have two and one million states and take
two minutes or less. `conversation` is run under a `VIEW`: states are one when they differ only in
whether a message that is cached or deleted counts as `missed`. Both last (nothing
is taken out of the cache, and nothing deleted comes back), `missed` is only added to,
and `HistoryWhole` asks it only of messages that are neither.

Further configurations, not among the runs. All but the last violate one property on
purpose and show a behaviour section 6 describes:

| configuration | module | property |
|---|---|---|
| `TransportWrap.cfg` | `MCTransport` | `AnswerToThisRequest`, with keys modulo 2 and no pushes |
| `QueueFull.cfg` | `MCOutgoingQueue` | `AcceptedSettles` |
| `FfiReset.cfg` | `MCFfiSession` | `HealthyNotReset` |
| `FfiLaunch.cfg` | `MCFfiSession` | `SignedInHasToken` |
| `ChatsAll.cfg` | `MCChatLists` | `AllLoaded` |
| `DesktopBack.cfg` | `MCDesktopAuth` | `BackLeavesClient` |
| `TransportTwo.cfg` | `MCTransport` | none: `OwnAnswer`, `NoAnswerMissed`, `OneDestination` and `CancelledOnlyOnLoss` hold with two connections of one object |

**Bounds.** `MaxSeq` and `MaxConn` bound the transport. Three numbers modulo 2 are
the least for a key to be used again while another is in flight, so that a late answer
meets the next request of its key; two WebSocket numbers and a push that bears the
second are the least for a push to answer a request. Two
connections are what it takes for an old task to meet a new connection; the theorems
cover any number, `TransportTwo.cfg` checks two.
Three messages and a channel of two are the least for producers to fill the
channel while the consumer holds a message; a threshold of three trips within the
retries of two messages. Two faults in `start` and `ffi` allow a
connection lost in service and another failure in the middle of the reconnect,
and there are enough transport objects for each to leave tasks behind. A channel
of one makes a dispatcher or the upload watcher lag at the second event. Three
uploads on two numbers let two share one while a third has its own. Four chats in
pages of two, with three pages, make a load meet a short page, a page of dialogs,
and its limit. Bytes of one bit make a length of eight overflow, and streams of
two packets put a broken one, or one whose length lies, before or after a whole one;
longer streams and wider bytes are the theorems' part. Three messages, two shown
and pages of one make every load drop, keep or skip something; a change and two
things under way are the least for an answer and an event to cross. Three tasks are
a login, the task it overlaps, and the one that stores a polling handle; of logins
that start, at most two do so at once (`TwoStart`, a `CONSTRAINT` of `Desktop.cfg`),
which is what it takes for one to abort, unlink or replace what the other made. In
the theorems of section 5 the bounds are constants of any value, and there is no
such constraint.

**Deadlock.** Checked in `uploads`, `chats`, `conversation` and `desktop`: frames
go on arriving, an application is relaunched and a conversation opened again. The
other runs may really stop and say `CHECK_DEADLOCK FALSE`: callers finish,
messages are all settled, `start` returns without `reconnect`, the macOS
application drops its client, the stream is read to its end. There progress is
stated by the liveness properties instead.

**Fairness.** `Transport!FairSpec`: a caller's own task runs, its timer fires and
its write ends. The last is an assumption on the peer and the network: the write
is outside the timeout in the code. Nothing is assumed of the server, the receive
loop or the keepalive. `OutgoingQueue!FairSpec`: the consumer runs, `send_fn`
returns (it has a timeout), the clock advances, and room in the channel reaches
each waiting producer (tokio's semaphore is first come first served).
`ClientStart` and `FfiSession`: tasks run, an ended connection is noticed by its
receive loop, the mutex is first come first served (strong fairness of the steps
that take it), and a connection attempt that is possible again and again succeeds
in the end (strong fairness of the three steps of `connect`): with finitely many
faults that is what "reconnects eventually" can mean. That an attempt ends is not
what the code guarantees, since neither `connect` nor a write has a timeout
(`websocket.rs:88` and `137`, `socket.rs:70-83`). `ClientStart` assumes it, and
`KeepsServing` is false without it. `FfiSession` does not: `Hang` keeps the mutex for
ever, and `EndsUpConnected` and `CallsReturn` name `hung` as their exception.
`WireFairSpec`: tokio polls the receive loop when a `read_exact` can return;
nothing is assumed of the network or the peer.

## 5. Theorems

`TransportProofs`, for all callers, connections, keys and numbers:

* `TypeCorrect`: `Spec => []TypeOK`, from `TypeInv`, which adds to `TypeOK` that
  a task past `TakeNumber` has a number and callers and keepalives are in places
  of their own.
* `AnswersNotMissed`: needs `NumberInv` (numbers are handed out once, a channel is
  unused until its number was inserted, only numbers already registered reach the
  server) and `WaiterRegistered` (a receiver that waits has its sender in the map,
  since a sender that leaves the map closes its channel): the answer to a registered
  request finds its waiter.
* `OwnAnswers`: for every modulus and every numbering of the server's pushes, from
  `MatchInv`: an entry of the map is under the key of its number (`Filed`), a packet
  bears the key of the request it answers or of a push (`FramesTagged`), and a channel
  is filled by a frame of its key, by another request's answer only when that request
  no longer waits (`Rightful`, whose step is that a channel which no longer waits never
  waits again).
* `OnlyLossCancelsWaiters`: for every modulus and any number of connections, from
  `LossInv`: a receive loop about to cancel the map, and a flag that is down after the
  first `connect`, both mean that a connection of this object was lost or closed.
* `OneDestinationEach`: under `OneFrame` (`FramesPerPacket \subseteq {0, 1}`), from
  `InFlightOnce`: an answer is in the hands of one receive loop, in its channel, or
  published, never in two of these. A WebSocket message is one JSON
  frame; a socket packet whose payload is a list is several frames that share one
  number, where the first may answer the request and the others be published.
* `RefinesRequestResponse`: `Spec => RR!Spec`, for both transports and the mapping
  that `ImplementsRequestResponse` uses. Every action of `Transport` is mapped to a
  step of `RequestResponse` or a stutter. Beyond `MatchInv` the mapping needs that
  an answer on its way or delivered is to a request the server received
  (`AnswersReached`) and that an idle caller has no number (`UnnumberedIdle`).

`QueueAndWireProofs`, on `OutgoingQueue`, for all capacities, retry limits and
thresholds:
`TypeCorrect`, `RetriesExhausted` and `BreakerAlwaysAgrees`, from one inductive
invariant `QueueInv` (types; where a message is according to its fate; attempts
against retries; the breaker). `DroppedOnlyWhenExhausted` is not inductive: it
needs that a message in the channel or in hand has been attempted exactly as often
as it was retried, and that the consumer's place says what is in its hand.
`AlwaysOnePlace` adds to it that the channel holds a message at most once and that
each message is where its fate says (`Findable`, `Held`).

`QueueAndWireProofs`, on `WireCodec`, for every base of the digits (256 in the
code), all packets, any number of them and every way the bytes are cut up:

* `PacketRoundTrip`: `UnpackPacket(PackPacket(p)) = Meant(p)` for a packet whose
  payload is below `LengthCap`. Under it are the arithmetic of quotients and
  remainders, which the prover does not do for a base that is a constant
  (`DivUnique`, from `TimesMonotonic`), and the digits of numbers of two and four
  bytes (`BytesOfTwo`, `BytesOfFour`).
* `WireTypeCorrect`, `AlwaysInStep` and `AlwaysWholePackets`, from the inductive
  invariant `WireInv`. `InStep` says nothing of where the loop stands, so it is not
  inductive: `Laid` says that the stream is the packets written, one after the
  other; `AtBoundary` that, while lengths fit, `read` is where the next packet
  starts or just after its header, and the header in hand is the one in the stream;
  `EndedDry` that the loop ended on a dead connection with less left than it
  needed. A packet too long leaves `AtBoundary` vacuous from then on, and nothing is
  claimed of what follows it, nor is it true; that the packets before it had arrived
  when they were taken is therefore an invariant of its own (`TakenWhole`). The
  stream is a history and its two positions move over it, so that no step asks for
  an induction over packets: the start of a packet is the end of the one before it.
* `RefinesPacketChannel`: `WireSpec => PC!Spec`, for the mapping that
  `ImplementsPacketChannel` uses, with packets of any length. A packet whose length
  lies, all that is written after it and all that is read from then on are stutters
  of the channel (`ChannelWrite`, `ChannelTakes`). That a step of the loop takes the
  next packet that is there, and that it ends only when none is, are `InStep`,
  `TakenWhole` and `WholePackets` after the step; that the honest packets are the
  first so many (`HonestPrefix`) needs the least packet whose length lies, which
  the well-foundedness of the naturals gives.

`UploadsProofs`, for all sets of calls, whatever they upload, all numbers and
capacities: `TypeCorrect`, `WaitersAlwaysAgree`, `SuccessIsConfirmed` and the action
property `WaiterLostToNamesake`, from one inductive invariant `UploadInv`.
`WaitersAgree` needs that a call has a number exactly from its URL answer on
(`Numbered`): a new waiter then never stands for another call. `ConfirmedExactly` needs what a full channel says of the frames
taken and the converse (`Fulfilled`), and that whatever the server has confirmed
is of the number of some call (`FromServer`): the confirmation of a number newly
given out cannot have been taken already. For `WaiterLostToNamesake` it is that calls
of one kind never share a number (`KeysDistinct`).

`ClientStartProofs`, for all sets of transports, faults, events and capacities:
`TypeCorrect`, `OneDispatcherAlways` and `ServingAlwaysHeard`. The invariant is
`HandleInv`: outside of serving and closing the handle is empty, the only
dispatcher running is the one it names, and that one listens to the transport in
use. `FfiSessionProofs`, for all sets of requesters and transports:
`TypeCorrect`, with the mutex held exactly by the actor in the middle of a call,
and `RowsAlwaysOfThisSession`, from `RowsInv`: the lists are empty whenever
somebody is on the way to a sync, because the application syncs once, before the
loop exists, and the loop only after a reset. Each module begins with the lemmas
on the steps of `MaxClient` it rests on.

`ChatListsProofs`, for all sets of chats, page sizes and limits:
`TypeCorrect`, `ShownOnce`, `LeftAlwaysGone` and the action property
`LoadAlwaysWhole`. The invariant `ListsInv` says in which lists a chat may be and
how often (`Filed`: `join_chat` files every chat among the groups, so a channel
may have one entry there for each join), that a load comes after the sync, and
that the load has listed every chat at or above its marker that did not move
(`LoadedAbove`). The step of `LoadedAbove` is about pages: what a page leaves
out is older than all it holds (`PageIsNewest`), and a page is empty only when
nothing is left (`PageNotEmpty`), from the choice of a least element, which exists
because `<` on the naturals is well founded, and from the cardinality of finite
sets.

`DesktopAuthProofs`, for any number of tasks at once. `TypeCorrect`,
`EveryPollHeld` and `BusyAlwaysFreed` come from `Base`: each task is at a point
of its own job; a polling task with more than its post to do has its handle in the
flow or with the task about to store it; a task that has opened the file, and a client
that is stored, have their row there. `AuthedAlwaysPersisted` and `AuthedKeepsClient`
need `AloneInv` on top, whose hypothesis is `overlap # "start"`: a task that opens a
session is then alone, at most one sign-in is alive, and no sign-in while a logout is
(`Company`); what each has opened, taken and saved so far is known (`Progress`); and
only a client that a start is about to take may have lost its file (`ClientLinked`).
A Back may be alive with a sign-in under that hypothesis and may take the client before
the sign-in posts: the token is in the file all the same, because the save came before
the mutex was free. With `overlap = "none"` no Back met the sign-in and its client
stays (`NoBack`).

`ConversationProofs`, for any number of messages, changes and things under way,
any page and any limit. What the operators compute comes first: `InOrder` lists a
set once each, `LoadMessages` shows cached messages once each and all of them up
to the limit, a page of `History` is the newest part of what is older and a short
one is all of it. `TypeCorrect` needs that every event, item and shown message
was given out by the server (`Served`). `NothingEverLost` is then inductive, from
the six effects a step can have on the view (`ViewEffect`).
`OnlyOwnSendsDoubled` needs that each call to send carries one message of its own
and that this message is shown at most once while the call is under way (`Once`).
`HistoryAlwaysWhole` is about `Untold`, the live messages that are neither cached
nor under way nor missed: all of them are older than everything cached, answered
or pushed as new (`Frontier`), and there are none once a page came back short
(`Reached`). No step adds to `Untold`, because what waits for the main actor is
cached or deleted (`CachedFirst`), and so are what is edited or deleted from here and
what marks a page asked for, whichever view model asked (`ChangesCached`); this is
where the order of `onNewMessage`, first cache, then post, matters.

The assumptions are the named `ASSUME`s on the constants of the modules; every
run evaluates those of its modules. They ask for types and non-empty sets, and of
`ChatLists` that the chats are finitely many and the clock's bound leaves each a
stamp of its own. One theorem of `TransportProofs` assumes `OneFrame` besides, which
WebSocket meets.
The inductive invariants were checked by
TLC on the instances of section 4 before they were proved.

Model-checked only:

* All liveness (`ImplementsRequestResponse` and `ImplementsPacketChannel` with
  their fairness, `SettlesUnlessFull`, `KeepsServing`, `EndsUpConnected`,
  `CallsReturn`) and ENABLED, which are out of the prover's reach.

## 6. Findings

Two are runs that expect a violation:

1. **Handlers are lost** (`core/client.rs:372`, run `start_handlers`). After the
   first reconnect of `start` no handler is called.
2. **The bridge is left behind** (`zeromax-ffi/src/client.rs:240`, run
   `ffi_bridge`). After the first reconnect the listener hears nothing.

Six more are shown by the further configurations of section 4:

3. **Reused keys** (`core/transport/socket.rs:127`). The late answer to a request
   that timed out is returned to the request 256 numbers later.
4. **The queue blocks itself** (`core/transport/queue.rs:165`). The consumer waits
   for room in its own full channel.
5. **A live session is reset** (`zeromax-ffi/src/client.rs:240`). After a login
   `connected` is false, and the reconnect loop replaces the transport.
6. **Signed in without a token** (`MaxService.swift:82`). `connect()` without a
   token succeeds, and the launch takes that for a session.
7. **A page of dialogs ends the load** (`zeromax-ffi/src/client.rs:344`).
   `fetch_chats` returns a page without its dialogs, and `load_all_chats` takes an
   empty result for the end of the list.

8. **Signed in without a client** (`apps/desktop/src/main.rs:174-183`, `269-305`). A
   Back pressed while the polling task finishes aborts a task that has no await left,
   takes the client as soon as the mutex is free, and shows the choose screen; then
   the task posts `Authed`. Nothing else needs to overlap. The token is in the file, so
   the next launch resumes the session.

Behaviours the models have because the code does, which no property forbids:

* Desktop: buttons of the choose screen work while a login starts, so two logins
  may build clients at once, insert two device rows, and save the token to the row
  no launch reads; Back does not set `busy`, so a code may be submitted while Back
  closes its client. `AuthedIsPersisted` leaves out logins that began over another
  task; for those it is false. A file that could not be wiped keeps the token of the
  session that was left. Back after the token was saved leaves a session the
  next launch resumes.
* Transport: a push that bears the number of a request in flight answers it; on the
  socket a request may be cancelled by another of its key.
* FFI: a connect or a write that hangs under the mutex stops every call for good.
* Conversation: a message sent from here is shown twice when its push is handled
  before its answer; a deleted message comes back from the cache; a history answer
  undoes an edit pushed after it was given; beyond 200 cached messages the newest
  are not shown after a load; an edit of a message that was not cached leaves a gap
  that paging never fills.
* Uploads: an HTTP error leaves its waiter in the map; the watcher ends with its
  transport and must be spawned again by the caller.
* Wire: a packet whose payload is an empty list gives no frame, so the request it
  answers waits until it times out; a payload of 16 MiB or more desynchronises the
  stream.

## 7. Not modelled

The name and avatar caches of the FFI client, the desktop's chat rows and their
user cache, the login views of the macOS application beyond the calls they make,
read marks, typing, reactions, replies, event filters, `resend_code` and
`login_with_code` (no application calls them). Requests that build one payload and
return one answer (users, profile, folders, pins, links) keep no state. Types,
opcodes, JSON, MessagePack and LZ4, views, generated bindings, examples and build
files keep none either. The contents of answers are left out everywhere except
where a property tells them apart. A statement of SQLite that goes on after its
future was dropped, a damaged session or cache file, and two chats with the same
time are not modelled. A second `start_background_reconnect` on one client (which
would run two loops) is not a state the applications reach.
