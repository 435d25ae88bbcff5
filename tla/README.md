# TLA+ models of esphome-apiclient

This directory holds TLA+ models of the Go client library for the ESPHome
native API, the TLC configurations that check them on small instances, and
proofs, checked by TLAPS for every value of the constants, of every safety property
that the configurations check. Line numbers refer to the files of the repository.

## 1. The system

A `Client` keeps one TCP connection to one device. Messages are framed in plain
text or with Noise encryption. One goroutine reads frames and dispatches each
message to the handlers registered for its type; any goroutine may write. A
keepalive goroutine pings the device; when the connection is lost, a goroutine
dials again, lists the entities and subscribes to states as before.

| Part | State | Operations | What makes it hard | What makes it correct |
|---|---|---|---|---|
| Life cycle (`client.go`, `framer.go`) | `framer`, `done`, `connected`, `closed`, `reconnectInterval`, `ctx`; only `closed` and `framer.Close` are under `closeMu` | `DialWithContext`, `connect`, `handshake`, `readLoop`, `keepaliveLoop`, `reconnectLoop`, `Close`, `Disconnect`, `Ping` | goroutines of several attempts alive at once, fields replaced without a lock, cancellation racing a redial | one driver of the fields at a time; no double close; no leaked connection; a loss is retried; Close is final |
| Router and calls (`router.go`, `client.go`, `bluetooth.go`) | `handlers` by type, one channel for each call | `On`, `Remove`, `Dispatch`, `requestResponse`, `ListEntities`, GATT services, read, write and notify | handlers run after their removal; concurrent calls take each other's answers; a blocking send in the read loop; the channel that ends a wait is replaced by a reconnection | no panic; each call gets its own answer, leaves no handler, returns; dispatch never stands still |
| Entity registry (`entities.go`) | 16 maps by domain, `byKey`, `byName` | `HandleListEntityMessage`, `HandleStateMessage`, `Clear`, accessors | live objects shared with the read loop, written field by field; three maps to one object; keys and names shared by domains; cleared at a reconnection | no entity and no state of an earlier connection or of another entity; the maps agree |
| State subscription (`client.go`) | `stateHandler`, one registration per type of state message | `SubscribeStates`, `unsubscribe`, the resubscription in `reconnectLoop` | application and reconnectLoop subscribe at the same time | what is saved is subscribed; unsubscribing removes everything |
| Commands (`commands.go`), services (`services.go`) | service maps | `Set...`, `SendCommand`, `validateEntity`, `ExecuteService` | check, then use, against `Clear` and new listings | nothing valid is refused; what was checked is still so when it is sent |
| Logs, Bluetooth subscriptions (`logs.go`, `bluetooth.go`) | registered handlers | `SubscribeLogs`, `SubscribeBluetoothAdvertisements`, `SubscribeBluetoothConnectionsFree` | nothing renews them after a reconnection; one listener's unsubscribe stops the device for all | no handler is left, the device is told when the last listener goes |
| Framing (`codec`, `transport/noise.go`, `transport/plain.go`) | cipher states with a nonce for each direction, `writeMu` | `WriteFrame`, `ReadFrame` | a frame is several writes; nonces must stay in step | frames arrive whole and in order |
| Connecting (`transport/noise.go`, `transport/dial.go`, `client.go`) | the socket and its deadline, API version | `dialTCP`, `resolveMDNS`, `DialNoise`, `performHandshake`, `handshake` | a device that is silent, hangs up, or is of another kind, at any step | only a device that agrees is accepted; nothing is left of a failure; a silent device does not hold the dial |
| Generated messages (`pb`), CLI (`cmd`) | none | constructors; flags and printing | | |

How they interact: `connect` builds a framer and hands it to the client; the read
loop calls `Router.Dispatch`, whose handlers are closures of the calls and write
to the registry; `reconnectLoop` calls `ListEntities` and `SubscribeStates` like
an application; every write goes through `SendMessage` and its `writeMu`.

## 2. The modules

| Module | Models | Extends |
|---|---|---|
| `Lifecycle` | the goroutines that make, use, lose and close connections | |
| `Session` | the abstract promise: one connection after another | |
| `LifecycleProperties` | properties, refinement mapping to `Session`, inductive invariant | `Lifecycle` |
| `LifecycleProofs` | theorems and proofs | `LifecycleProperties`, `TLAPS` |
| `Calls` | calls and subscriptions, their handlers, and Dispatch, over several connections; inductive invariant | |
| `CallsProofs` | theorems and proofs | `Calls`, `SequenceTheorems`, `FiniteSetTheorems`, `TLAPS` |
| `States` | listing and state subscriptions over several connections; inductive invariant | |
| `StatesProofs` | theorems and proofs | `States`, `TLAPS` |
| `Registry` | the registries in memory: maps, objects, fields, checks before use; inductive invariant | |
| `RegistryProofs` | theorems and proofs | `Registry`, `SequenceTheorems`, `TLAPS` |
| `Table` | the abstract promise of an entity registry | |
| `Framing` | one direction of a connection, piece by piece; inductive invariant | |
| `FramingProofs` | theorems and proofs | `Framing`, `SequenceTheorems`, `TLAPS` |
| `Handshake` | how a connection comes to be; inductive invariant | |
| `HandshakeProofs` | theorems and proofs | `Handshake`, `SequenceTheorems`, `TLAPS` |
| `MCLifecycle`, `MCStates` | symmetry sets for TLC | the module of their name |
| `MCCalls`, `MCRegistry` | profiles for TLC: what applications do and what devices have, with the bounds | the module of their name |
| `MCOptions` | `LifecycleProperties` for two clients, with and without `WithReconnect` | `LifecycleProperties` |
| `MCTransport` | `Framing`, or an instance of `Handshake`, one at a time | `Framing` |
| `TransportProofs` | the theorems of both, for `MCTransport`; an instance of `HandshakeProofs` | `MCTransport`, `FramingProofs` |

`States` and `Registry` look at the same code from two sides.  `States` has the
goroutines that list, subscribe and reconnect, and an entity is one cell;
`Registry` has the data structure, written field by field, and there listing and
subscribing are single steps.

### Lifecycle

The k-th call of `connect()` is *attempt* k. What the code creates for one call
is named by its number: the connection (`conn[k]`), the done channel, the read
loop, the keepalive loop, and the `reconnectLoop` between attempts k and k+1.
`framer` and `done` are the fields of the client: the attempt whose object they
hold. A goroutine is a program counter (`connector`, `reader`, `retry`,
`keepalive`, `app`); an action is the code between two points at which another
goroutine can observe or change shared fields. `late` counts attempts begun after
cancellation, for one property; it is history only.

- `DialSucceeds` assigns `c.framer` before the Hello handshake, as `connect` does.
- `Reads` is the evaluation of `defer close(c.done)`, which happens when the new
  goroutine first runs, not when it is started.
- `RecvFails` reads `c.framer`, whichever connection it is by then. Unlocked
  field accesses are atomic reads and writes of one word here; Go does not
  promise it for the interface value `c.framer`, but `OneDriver` shows that only
  a keepalive loop, Close or a writer can read the field while it is replaced.
- `EnterSelect`, where each round of `keepaliveLoop` evaluates `c.done` anew, `Tick`,
  `SendPing`, `PingAnswered`, `PingFails`, `CloseDead` are one round of it, with the
  `requestResponse` inside. A pong is taken by every
  waiting ping, since no request carries an identifier.
- `CallDisconnect` turns reconnection off and `AskToDisconnect` writes the request: a
  loss may come between the two.
- `PeerCloses` and `CancelParent` are the environment. The device may send a frame
  that does not decode when `BadFrames` holds.

What `reconnectLoop` does after it has started the loops (list, subscribe,
`onConnect`) leaves this state alone: its list is a call of `Calls`, and what the list
and the subscription do to the registry is in `States`. A write is taken to return:
a TCP write can block for long on a device that does not read, as no write
deadline is set, and a ping would hang with it. `Framing` models that.

### Session

Three variables: the phase of the latest connection, its number, what
`Connected()` reports. The phase is mapped from the driver of the latest attempt:
its connector, its read loop, or the `reconnectLoop` that follows it.
`ImplementsSession` says that every step of the goroutines is a step of Session or
leaves its state alone. Session allows a Withdraw (Close) while up, and the
availability reported before the connection is in use.

### Calls

A call or a subscription is a goroutine and a number. `HandlersOf` lists the
registrations of each kind in order, and what each handler does to the channels of
the call: `offer` (send with default), `put` (plain send), `collect` (append to the
result), `close`, `fail` (keep the error, then close). `Register` and `Remove` are
one `On` or one deferred removal each, so that messages may arrive between them.
`Read` takes a message and copies the handlers of its type, `Invoke` runs one of the
copy with no lock held. `Put` has no step while the channel is full: the read loop
stands still. A second close sets `panicked`, after which nothing happens.
`TakeResponse`, `TakeDone`, `TimeOut` and `SeeClosed` are the cases of the select;
`Await` is its evaluation of `c.done`, which comes after the request was sent and
may find the channel of a later connection. `CloseDone` is the read loop's end,
`Redial` and `Reconnect` are what `reconnectLoop` does to this state: a new channel,
the same router, and a call of its own. A `reconnectLoop` that has reconnected lists the
entities (`client.go:571`) with the same handlers, in the same Router, as an application
that lists: it is a caller, named by the number of the connection it made. One
application goroutine that lists over a reconnection is therefore one of two callers
that list, as in `list_closes_twice`. BluetoothGATTNotify is the kind "notify" when it
enables with a handler and registers three, and "mute" when it disables or has no
handler and registers two. The kinds whose answers have message types of their own are
two families, `Lists` and `Gatt`; no message of one reaches a handler of the other. `Subscribe`, `Stop` and `Part` are the subscriptions, which hold
their handlers from one call to the next and over connections; `Emit` sends what the
device sends unasked, `feeding` is what it has been asked to go on sending. A message
carries the call that caused it, which the code cannot see and no action looks at;
properties do. `profile` fixes what an execution is about: the kinds of calls, how
many, whether they time out, unasked messages and reconnections.

### States

Subscribers are application goroutines and, written as a number, the
`reconnectLoop` that made that connection. `Save`, `Register`, `Send` or
`SendFails`, `Forget` and `Remove` are `SubscribeStates` and its unsubscribe
function, which saves and forgets the handler under `stateMu` and registers under
the router's lock. `Clear` is the clearing before a redial. Three abstractions:
the read loop reads what the device sends next (there is no queue between
them), a connection and its handshake are one step, and reading a state and
copying its handlers is one step. Handling is one step for each subscription,
though the device may have been asked twice. Since an application may have one
subscription at a time and `MaxSubs` of them in turn, its handler and its
registrations are told apart by who registered them. The application's handler has
no effect of its own.

### Registry and Table

An object is a number, its place in `heap`, and 0 is nil; `maps`, `byKey` and
`byName` hold such pointers, and so does an application that has called an accessor.
`ListEntity` is one call of `HandleListEntityMessage`, all under the lock.
`WriteFirst` and `WriteSecond` are `HandleStateMessage`: the lookup and the fields
written early, then those written late, with the lock held from one to the other
(`Free` says that it is not). The state of an entity is the number of the message
that brought it, so that a mixture of two states shows. For a camera, `first` is
`ImageData` and `done` is `ImageDone`. `Report` is the dispatch of a state message to
as many handlers as there are subscriptions, and `CallHandler` the application's own
handler after each. `Count` and `Check` are the two steps of `validateEntity`, each
under the lock on its own, `SendRequest` is the write. `Empty` and `EmptyServices` clear the
two registries in turn, `Connect` may find another firmware. `AppClears` is there
because `Entities()` hands the registry, with its `Clear`, to the application.

`Table` has one row for each domain and key and no locks, objects or indexes: a row
is listed, set to the latest report if that is its own, and cleared. The refinement mapping of
`ImplementsTable` takes a state as shown once its last field is written.

### Handshake

One variable, `stage`, walks through `connect()`: resolve, dial, the four frames of
Noise, the two messages of Hello. `options` are the client's, `device` is what
answers this time; it may be of either protocol, have another key, name or version,
and `Hang` or `FallSilent` at any step. `deadline` is set on the socket by
`performHandshake` and taken back when it returns. The device answers all it has to
say at once (`Reply`); a handshake message that was made with another key is one with
`sameKey` false.

### Framing

`Pieces` are the `Write` calls that make up a frame: preamble, size, type and
payload (if any) in plain text, header and payload with Noise. The two locks of a
Noise connection (the client's `writeMu`, the transport's) are always taken one
inside the other and are one here. Encryption takes a nonce before the size of the
ciphertext is looked at. The network holds `Buffer` pieces, less than one frame.
The other end reads piece by piece and refuses one that cannot come where it
comes, or that does not decrypt. Read from the device's side the writers are the
client's goroutines; the device has one writer. A piece is written whole or not at
all; bytes within it, and the encoding of a varint, are left out.

## 3. The runs

| Run | Question | Instance |
|---|---|---|
| `lifecycle_safety` | Do the goroutines keep to one driver, one close per channel, no leak, and to Session? | 3 attempts, 2 applications, Close and Disconnect, cancellation |
| `lifecycle_live` | Is a loss retried, a dead connection closed, do loops end on cancellation; without reconnection, does Close end every goroutine? | 2 attempts, keepalive, 1 application that closes; a client with `WithReconnect`, and one without |
| `calls` | Do calls return with whole answers of their own, end with their connection, leave no handler, never panic nor stop the read loop? | 2 callers, 2 calls, 2 peers, in six profiles: one caller in turn; one that meets reports that nobody asked for; one that makes a GATT call over a reconnection, whose reconnectLoop lists; one that lists beside one that writes or turns notifications on or off; two with timeouts; two subscribers over a reconnection, where reconnectLoop lists too |
| `states_cache` | Is the registry that of this connection, and a saved handler subscribed? | 2 applications, 2 entities, 2 values, 2 connections |
| `registry` | Do indexes, states and images stay with their entities, and do checks before a request hold when it is sent? | 3 domains, 2 keys, 2 names, in four profiles: commands (5 objects), reading and clearing (3 objects, 2 states), a camera (4 parts), services (3 connections) |
| `transport` | Framing: do frames arrive whole, in order, is nothing refused without cause? Handshake: is only a device that agrees accepted, and nothing left behind, and does silence end? | 2 writers, 2 messages each, 3 sizes, 2 pieces in transit; or 2 connection attempts, all options, all devices of 2 names and 2 versions |
| `close_is_undone`, `cancel_leaves_readloop`, `list_closes_twice`, `gatt_blocks_dispatch`, `unsubscribe_leaves`, `read_is_torn` | the disagreements of section 5 | the smallest instance that shows each |

Why the bounds are enough. Every hazard of the life cycle involves one attempt, its
successor and a goroutine left over from the first; the third attempt shows that the
second can be lost in its turn, and the theorems remove the bound. Two applications
suffice for a Close that meets a Close or a Disconnect, as `closeMu` admits one at a
time. Calls interfere in pairs, by a shared message type or by the read loop.
Applications do not disturb one another in `Registry`: each only reads what is shared,
and `Clear` needs no caller, so that one is enough; two keys and two names are the least
with which an index can point astray, two states the least that mix, two parts the least
that make an image, and four parts two images. In `Handshake` a second attempt shows
what the first one left behind. Two connections show all of what a reconnection carries
over; a longer instance of `States` (1 application, 3 connections, 2 subscriptions) was
run once with the same result, and so were longer ones of `Calls` (two GATT calls of one
caller over a reconnection). Two writers and a buffer smaller than a frame let a second
writer find the first in every place.

Every run sets `CHECK_DEADLOCK FALSE`: a client that was closed, or whose bounded
calls are over, has nothing more to do. Symmetry is used only in `states_cache`,
which checks invariants.

Fairness. The Go scheduler is fair, so each goroutine has weak fairness on its
steps; dialling has a timeout, a ping and every call have theirs (`TimeOut` is fair
as part of a call's steps, in profiles whose calls may time out; in the others the
answer or the closing of done is what ends a wait). `select` picks at random among ready cases, hence strong
fairness of `StopKeepalive`. A Go mutex is handed to a waiter that starves, hence
strong fairness of `Lock` in `Framing`. Nothing is assumed of the device or of the
application's calls. In `Handshake` the steps of the client are fair, the expiry of a
deadline that is set among them, and nothing the device does. One assumption is of another kind: `EnterBackoff` takes it that
a `select` entered with the context already done and a timer of a positive backoff
sees the context only, that is, that entering it takes less time than the backoff.
`CancelBoundsRetries` and `RetriesBounded` rest on it. In `Framing` the other end
goes on reading, or hangs up: without it a SendMessage may block for ever, as there
is no write deadline.

## 4. What is proved

`LifecycleProofs` proves, for any number of attempts and any set of applications:

- `Invariance`: the inductive invariant `Inv` holds always. From it follow
  `TypeCorrect`, `SingleDriver` (OneDriver), `Availability` (ConnectedHasReader),
  `OwnConnection` (ReaderOwnsFramer) and `NoDoubleClose` (DoneClosedOnce).
- `Refinement`: `Spec => ImplementsSession`.
- `NoLeak` and `CloseIsSilent`, under the assumption `~BadFrames`.
- `RetriesBounded`: until Disconnect is called, one late dial at most.

The argument. OneDriver alone is not inductive: a read loop could start from an
attempt that had been refused, or take a field that has moved on. `Inv` adds that
attempts not begun have left no trace (`Untouched`), that connector, read loop and
reconnectLoop of one attempt follow one another (`Succession`), and that the driver
of the latest attempt owns `framer` and `done`, while every closed channel belongs
to a read loop that has exited (`Ownership`). Each action is a lemma of its own or
a step of one. `Containment` adds what holds only while frames decode: a read loop
that failed has seen its connection end. `Lateness` adds that after the one late
attempt no backoff is entered. Both are proved on top of `Inv`.

The proofs use the constants' assumptions `MaxAttemptsAssumption` and
`SwitchesAssumption`, which TLC evaluates in every run of the life cycle.

`RegistryProofs` proves, for any domains, keys and names, any devices, and any number
of objects, reports, connections and applications:

- `Consistency`: the inductive invariant `IInv` holds always. From it follow
  `RegistryTypeCorrect` (TypeOK), `NoStaleIndex` (IndexesAgree), `HandlerInformed`
  (HandlerSeesState), `NoFalseRefusal` (RefusedForCause), `WholePictures` (ImagesWhole)
  and `CheckedFits` (RequestsFit).
- `Detachment`: an object that the registry no longer shows is never written again.
- `TableRefinement`: `Spec => ImplementsTable`.

The argument. `IndexesAgree` does not survive a listing by itself: one has to know that
an object is shown in the slot of its own domain and key, and that an entity which is shown has its key in `byKey` (`Filed`). While
the lock is held between the two writes of a report, the object looked up is the one
shown and has the first half of the state (`Written`). A command is refused only when
`ByKey` finds an entity of another domain; a goroutine that has counted the entities and
whose entity has been there since, alone under its key, excludes that (`Judged`).
`ImagesWhole` is the hardest: `Imaged` says what the object of a camera is between two
messages, while a part is stored and when no handler is registered, and that no message
is in work unless the connection is up, so that the last part of an image cannot be
marked on an object of the next connection. Every step of the code is a step of `Table`
or leaves it alone because a slot shows one object, and no two slots the same one
(lemma `OneSlotEach`). The proofs use `RegistryAssumption`: a device has one entity in a
slot, and a profile connects at least once.

`HandshakeProofs` proves, for any devices, keys, names and versions:

- `Progress`: the inductive invariant `IInv` of `connect()`. From it follow `Agreement`
  (UpIsAgreed) and `CleanExit` (NothingLeftBehind); and `HandshakeTypeCorrect`, for which
  there must be a minor version to report and a bound on the attempts.

That a connection in use is to a device that agrees cannot be seen from the last step
alone: `Known` says, stage by stage, what has been compared by then, `Heard` that what
lies in the inbox is about the device that is there, and `Held` that a deadline is set
only between the Noise frames.

`FramingProofs` proves, for any writers, any number of messages and any buffer:

- `InOrder`: the inductive invariant `IInv`. From it follow `FramingTypeCorrect`
  (TypeOK), `Arrival` (FramesArriveWhole) and `Refusal` (RefusedIsTooLarge).

The argument. What the other end has got says nothing about the pieces still on
their way, so `Streamed` follows the whole line: the part of a frame that it has read,
the wire, and the piece that the holder of the lock writes next are a contiguous
stretch of the frames begun (`Chain`), and reach their end when nobody is writing
(`Final`). `Exclusive` and `Numbered` say that one writer is past the lock and that no
frame is begun twice; `Sealed` that the nonces of both ends are in step as long as no
message was refused for its size, and how far apart they are afterwards. The stretch
is described by what follows what and not by its length, as lengths over sums of frames
would need induction. The assumption: "free", which stands for nobody, is no writer.

`TransportProofs` carries these over to `MCTransport`, whose steps are those of one
half while the other stands still (`FramingHalf`, `HandshakeHalf`):
`TransportTypeCorrect`, `AcceptedAgrees` and `CleanConnect`.

`StatesProofs` proves, for any applications, entities, values and connections:

- `Continuity`: the inductive invariant `IInv`. From it follow `StatesTypeCorrect`
  (TypeOK), `NothingStale` (CacheCurrent) and `SubscriptionKept` (SavedIsSubscribed).

`SavedIsSubscribed` speaks of moments at which nobody is subscribing. In between,
somebody must be on the way there: `Held` names a subscriber that has saved the
handler, has it registered or is about to, and has the device send states, or is
followed by a `reconnectLoop` that will ask for them (`Resuming`). `Cached` says what
the registry shows while a message is being dispatched, which is one state behind.

`CallsProofs` proves, for any callers, peers and profiles, with any number of calls,
unasked messages and reconnections:

- `CallsInvariant`: the inductive invariant `IInv`. From it follow `CallsTypeCorrect`
  (TypeOK), `Released` (HandlersReleased), `AnswersAreOwn` (OwnPeer), `Quiet`
  (QuietWhenUnheard), `SoloIsSafe` (SoloNoPanic) and `ListIsComplete` (ListComplete).

The argument has two parts. `Apart` holds of any callers: the Router has exactly the
handlers that the callers believe to have registered (`Registered`), how many those are
at each program counter (`Standing`), and Dispatch's copy, which may be stale, holds
handlers of past calls but none of a call to come (`Copied`), so that a channel is empty
when its call begins (`Fresh`). For `HandlersReleased`, nothing of the messages is
needed. `Solo` is the case in which the code is safe: one goroutine at most lists, with
every `reconnectLoop` counted, one at most makes GATT calls, and each waits for its
answers. So there is at most one reconnection, and none if the application lists; and a
caller that lists may go on beside one that makes GATT calls. `Alone(g)` then holds of
both families g: a reply on its way, or a request for one, means that the one caller of
g waits for it and on the done channel of this connection (`Awaits`), and there is one
answer of which the read loop has taken so many messages and the call has been handed as
many, or one less while one is being delivered (`Exchange`). So nothing comes after the
message that closes the channel, and a list is whole when it returns. A reconnection
drops what is left of the answer, which is why `Continues` speaks only of a connection
that stands. `CallsAssumption` says that there is a peer and a call to make, that no
application is named by a number, as reconnectLoops are, and what profiles are. That the
statement is limited to `Solo` is not for the proof's sake: `list_closes_twice` shows
two callers panic, and one application that lists over a reconnection is two callers in
the code.

Only model-checked. Liveness, which with fairness and ENABLED is out of the prover's
reach: `PlainCloseStops`, `LossIsRetried`, `DeadConnectionEnds`, `CancelStopsLoops`,
`CallReturns`, `SoloDispatchEnds`, `LossEndsWaits`, `SendReturns`, `TimeoutBoundsDial`. And
the statements of section 5, which are false of the code and for which TLC finds the
counterexample.

## 5. What the code does otherwise

Six runs end in a counterexample, each to a sentence of the repository; the
findings in `PROJECT.json` quote them.

- `close_is_undone`: a reconnection past its select reopens a closed client: after
  Close has returned it is connected and not closed (`client.go:559-561`).
- `cancel_leaves_readloop`: cancelling the context leaves the read loop in its
  read (`client.go:463`).
- `list_closes_twice`: two ListEntities at once close a channel twice
  (`client.go:351`); one of them may be the reconnectLoop's (`client.go:571`).
- `gatt_blocks_dispatch`: a GATT handler blocks the read loop (`bluetooth.go:168`).
- `unsubscribe_leaves`: the handlers of a resubscription are never removed
  (`client.go:582`).
- `read_is_torn`: the fields of an entity are read without the lock under which they
  are written (`entities.go:576`).

Further statements that one would expect are written down beside the others and
are false of the code. No run checks them:

| Definition | Why it fails |
|---|---|
| `DoneClosedAtRest` | a redial replaces `done`; if it fails and the loop then stops, nobody closes the new channel (`client.go:542`) |
| `SilentDisconnect` | the device's close after a DisconnectRequest may be read before the context is cancelled (`client.go:476`) |
| `KeepaliveClosesOwn` | the ping failed on one connection, `c.framer` is the next one by then (`client.go:516`) |
| `HelloFirst` | `c.framer` is visible before the handshake (`client.go:215`) |
| `NoOrphan` with `BadFrames` | a decoding error returns without closing the connection (`client.go:483`) |
| `LostRequestsEnd` | the select reads `c.done` after the request was sent: a call whose connection was lost and made again meanwhile waits for its timeout (`client.go:314-316`) |
| `ListComplete` with timeouts | the late answer to the first request reaches the second (`client.go:350`) |
| `OwnPeer` for "connect" | BluetoothConnect compares no address (`bluetooth.go:57`) |
| `SubscriptionSurvives` | a failed resubscription forgets the saved handler (`client.go:426`) |
| `ReportedIsCached` | listing again replaces an entity by one without a state (`entities.go:781`) |
| `ImagesWhole` with two subscriptions | each part is appended once for each registered handler, and a last part then begins an image; a reconnection leaves two (`client.go:582`, `entities.go:1150-1157`) |
| `RefusedForCause` for shared keys | `byKey` has the entity that was listed last, of whatever domain: a command for the other one is refused (`entities.go:798`, `commands.go:387`) |
| the same across a `Clear` | between `Len` and `ByKey` the registry is emptied: a command is refused that an empty registry lets pass (`commands.go:375-383`) |
| `HelloEnds` | the HelloResponse is read without a deadline (`client.go:238`) |
| `OwnVersionSent` | the minor version of the device is stored and sent at the next connection (`client.go:257`) |
| `RefusalIsHarmless` | a refused message has taken a nonce (`transport/noise.go:209`) |

## 6. What is not modelled, and the plan

Not modelled: the packets of mDNS and the choice of an address; the CLI, which is
input and output around one client; the generated messages and their constant
table; cryptography; the bytes of a varint and the fields that tell the 16 domains
and their 12 commands apart. `pb/api.pb.go` and `pb/api_options.pb.go` alone are four
fifths of the lines of the implementation, generated and without behaviour of
their own; of what is written by hand, the greater part is mapped.

Next, in this order:

1. An abstract specification of a connection as a queue of frames, which `Framing`
   implements, and of a call (asked once, answered at most once), which `Calls`
   implements; both with their refinement proved.
2. Action properties of `States` and `Handshake` from the invariants above: a state is
   overwritten only by the dispatch of a later one, a stage is left only forwards.

## 7. Running

    tlc -config lifecycle_safety.cfg MCLifecycle.tla
    tlc -config registry.cfg MCRegistry.tla
    tlapm LifecycleProofs.tla
    tlapm RegistryProofs.tla

and likewise each configuration with the module that `PROJECT.json` names for it, and
`tlapm` for `HandshakeProofs`, `FramingProofs`, `TransportProofs`, `StatesProofs` and
`CallsProofs`. The longest proof, `CallsProofs`, takes three minutes.
