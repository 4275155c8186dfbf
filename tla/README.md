# A TLA+ model of inkwell

inkwell is a C runtime for small devices: one thread, one event loop, and a set
of components that never block. A component is driven from three sides: by the
application, which calls its functions; by the loop, which calls it when a
descriptor is ready; and by a tick, which the application calls with the time
and in which every deadline is looked at. Results come back through callbacks,
and a callback may call straight back into the component that is calling it.

So there are no threads to interleave, and still most of what can go wrong is a
matter of order: a child process or a peer that acts between two calls of one
handler, a batch of events in which an early callback invalidates a later event,
a callback that cancels or restarts what its caller is in the middle of, a
deadline that meets a late answer, a call that fails after half its work is done.
These are what the modules here model and what their properties are about.

The files: a module `X.tla` models a component, `MCX.tla` gives its constants
values for TLC, `X.cfg` is a run, `XProofs.tla` holds theorems. `PROJECT.json`
relates every definition to the lines of C it stands for and lists components,
runs, mutants, findings, hazards and theorems.

## 1. Inventory

| Component (under `src/`) | State | Operations | Works with | What is hard | What makes it correct |
|---|---|---|---|---|---|
| Event loop `runtime/loop.c`, `wake.c` | table of sources, the kernel's registrations, stop flag, wake | init, add, update, remove, run, stop, shutdown | every component registers with it | callbacks that change the table during a batch; a registration that fails half way; a stop from anywhere; sources that are always ready | table = kernel; no event for the wrong file; a stop is not lost; a bounded run returns |
| Resolver `net/resolve.c` | child pid, pipe, record, deadline, callback | start, cancel, tick, shutdown | loop; used by tcp, mqtt, fetch | a child that writes, exits, hangs or dies at any moment; reap and read are two calls | one callback per accepted lookup; no zombie, no open pipe; the verdict is the child's |
| TCP connector `net/tcp.c` | state, socket, token, lookup, deadline, callback | start, cancel, tick, shutdown | loop, resolver | completion inside start(); restart from the callback; every failure path closes once; an event that is not about its connect() | one owner per socket; one callback; a socket handed over is connected (section 4: it need not be) |
| Stream `net/stream.c` | ring of frames, partial write, write interest | open, send, flush, pump, write_raw, close | loop; its owner | partial writes, a full ring, sends from callbacks, close with frames queued, a loop that refuses a change | frames leave in order and whole, or are reported dropped; OUT is armed exactly while something waits |
| MQTT client `net/mqtt.c` | state, socket, TLS session, deadlines, retry and backoff, out buffer, in buffer, filters | start, stop, publish, subscribe, clear_filters, tick, shutdown | loop, resolver, TLS | start/stop from every callback; a TLS write that blocked must be repeated as it was; retries for ever | always on its way with something armed; one socket; no byte lost; backoff grows until a session is accepted |
| Fetch `net/fetch.c` | request in flight, hop, addresses, session, codec, body, deadlines | start, cancel, tick, connect_to, shutdown | loop, resolver, TLS, HTTP codec | failing inside start(); redirects; a session that blocks in the other direction; a reply that is cut; idle time measured between ticks | one callback; whole body or failure; a POST is sent once; nothing outlives the request |
| HTTP codec `codec/http.c` | phase of a response, what remains | init, feed, finish | fetch | framing by length, chunks or close | the body is what the server sent |
| TLS session `net/tls.c` | Mbed TLS context, wants_write, more_to_read; the trust anchors, once per process | set_roots, start, handshake, read, write, stop | fetch, mqtt | blocking in the other direction; a run of tickets; plaintext that raises no event | its user is always woken for what it holds |
| MQTT codec `codec/mqtt.c` | none | decode, encode | mqtt | a length in pieces; flags; limits | a packet is read at its own boundaries |
| Zip fetch `net/zip_fetch.c`, `codec/zip.c` | step of a sequence of ranged requests, staged files | start, cancel, tick | fetch, zip codec | one failing step of several, one retry each; an archive replaced in between; numbers that are the server's | the member whole or a true verdict; nothing left in the staging directory |
| USB storage `io/usb_storage.c` | forked writer, claim on the drive, progress pipe, stall deadline | find, unmount and claim, write, tick, cancel | loop | hotplug scripts that mount again; a child that hangs or dies half way; sync before count | nobody else has the drive; progress is what is synced; every write ends |
| BLE central `ble/central.c` | five request slots with timers, connect and pair, agent request, subscription | open, attach, write, read, query, subscribe, connect, pair, cancel, poll, process, close | loop, backend | an answer after its deadline, cancel or close; no deadline on connect and pair; a loop that comes and goes | an answer is the request's own; a timer belongs to an open request; requests end |
| BlueZ backend `ble/bluez.c` | serials, a copy of bluetoothd's object tree, watches, agent registration | send, dispatch, fetch, agent calls | libdbus, bluetoothd | signals older than a snapshot; bluetoothd restarting; two watches on one socket; answers read by a blocking call; pairings of others | the copy converges; the agent grants our pair only; what was sent leaves and what came is seen |
| Timer, signals, crash report `runtime/*` | armed deadline; pending signal; report file | arm, cancel; install; write, collect | loop | a signal handler's view of shared state; a crash while the report is written | |
| Serial, log, record file `io/serial.c`, `base/*` | port settings; log size; file on disk | open; write, compact; load, save | | a crash between two file operations | a reader finds the old or the new file |
| Codecs `codec/*`, base helpers | none | pure functions | | limits and boundaries | equal to a reference definition |

`PROJECT.json` lists all of them, with the reason for each one that is not
modelled, and under `hazards` the lines where the order of things bites.

## 2. Modules

```
                 Completion  (abstract: one request, one answer)
          /          |            |         \
     Resolve    TcpConnector    Fetch     ZipFetch -- Zip
                                  |
                             HttpResponse

  FrameQueue (abstract) -- Stream        Loop        UsbStorage

  MqttWriteQueue    MqttClient    MqttSession -- Tls, MqttCodec

  BleCentral -- BluezObjects -- Bluez
```

ResolveProofs, TcpConnectorProofs, FetchProofs, ZipFetchProofs and UsbStorageProofs hold
the proofs about the module of that name, BluezProofs those about the three BLE modules,
LoopProofs those about Loop and Stream, MqttProofs those about MqttClient,
MqttWriteQueue and MqttSession. Components that share a module of proofs must not share
names, which is why Stream's, MqttWriteQueue's and MqttSession's specifications are
`StreamSpec`, `OutSpec` and `SessionSpec`.

**Completion** is the promise `start()` makes in `resolve.h`, `tcp.h`,
`fetch.h` and `zip_fetch.h`: refused by the return value and then silent, or accepted and then
answered exactly once unless cancelled, and settled in the end. Its state is what
the caller sees. Resolve, TcpConnector, Fetch and ZipFetch are shown to implement it, with
liveness (`Completes` is `C!Spec` under a refinement mapping).

**FrameQueue** is the promise of a stream: accepted frames leave whole and in
order, or are reported once each, in order, when the stream closes.

**Resolve** (`net/resolve.c`, the Linux variant). `proc`, `pipe`, `answer` are the
child's side; `child`, `child_fd`, `record`, `failure`, `on_done`, `age` the
fields of the C structure. `ChildWrites`, `ChildCloses`, `ChildExits` are separate
actions and interleave with the parent's `TryFinish` (the drain) and `Reap`
(waitpid), which are two actions because the child runs between the two calls.
Callbacks are explicit: after `Complete` the application has the thread and may
start the next lookup with the tick still on the stack.

**Loop** (`runtime/loop.c`). `sources` is the table, `kernel` what epoll or kqueue
has registered, `file` which open file a descriptor number means (a closed number
is reused by the next open, as POSIX says), `batch` the events still to be
dispatched. `kqueue_apply` and `epoll_apply` return the set of results a
registration can have, failures included, and `backend_remove` those of a removal;
`LoopInitFails` is an init that gets no poll set, no wake or no place for it. `wake_open`, `wake_signal`, `wake_drain` and
`wake_close` are `wake.c`: a flag that stays up until it is drained. Between two dispatches the callback may
take any action of the application.

**TcpConnector** (`net/tcp.c`). `open` is what the process holds, `conn` the kernel's
view of each connect. `ConnectAtOnce`, `ConnectPending` and `ConnectFails` are the
outcomes of `connect()`. `OnFd` is `tcp_on_fd()` as it stands: any event for its
descriptor runs it, also one that Loop's `NoStaleEvent` says should not come, while the
connect is still pending. The resolver appears by what Resolve shows of it.

**Stream** (`net/stream.c`). `slots`, `head`, `queued` are the ring; `write` takes any
number of bytes up to what is offered; `at` is the walk of `stream_drop_queue()`.
`want_write` is the stream's field and, as the field changes only when
`inkwell_loop_update_fd()` succeeds, the loop's interest too; `refused` is that the loop
refused the change asked for last, which the next call of the stream asks for again.
`SendsFromDrop` says whether on_dropped may send (see the findings).

**MqttWriteQueue** and **MqttClient** split `net/mqtt.c` into the bytes of one
connection and the life cycle of the client. The first has the `out` buffer with
numbered bytes, `out_sent`, `out_pending`, the keepalive, the record a blocked
TLS write is committed to, and `interest`, what the loop watches for, apart from
`want_write`, what `mqtt_arm()` last asked it for and never asks twice; the second has state, lookup, socket, deadline, retry
and backoff, and a pending continuation for what a handler does after a callback.

**HttpResponse** is the response half of `codec/http.c` as operators on the codec's
record: what a head, a byte, a chunk size, an end of chunk, a trailer or junk does
to it. **Fetch** (`net/fetch.c`) composes it with the phases of a request. `pc` is
where the thread is (`hop`, `try`, `handshake`, `send`, `receive`, the tick, or the
application), `nested` that a callback is on the stack, `starting` that
`inkwell_fetch_start()` is and holds `on_done` back. A session may report done,
blocked in either direction, or over, at every call. `conn.armed` is what `fetch_arm()`
has the loop wait for, or "refused" when the loop did not change it; events come
whatever it says, so that a late one of the old interest is among them.

**MqttSession** is the third part of `net/mqtt.c`: one connection with its reader.
`c` holds the fields of the structure it works on (the in buffer with its bytes,
`skip`, `more_to_read`, `read_wants_write`, the TLS session, the queued packets),
`subs` the filters, `net` what is in the socket and, under TLS, already inside the
session, `broker` a broker that answers by the book. It composes two modules of
operators: **MqttCodec**, all of `codec/mqtt.c` on sequences of bytes, and **Tls**,
`net/tls.c` on the session's record, where a session is given records (data,
tickets, a request to be answered first, a close) and says how the read ended. The
reader (`mqtt_read_ready()`, `mqtt_consume()` and the handlers) takes several steps,
with the application's callbacks in between. The time of the broker and of the
network passes only while the thread waits; what they do meanwhile is then seen in
any amount, which is no restriction. The constants
are assumed such that every packet but a message fits in the buffer (a SUBACK has 5
bytes, and `INKWELL_MQTT_CLIENT_PACKET_MAX` is far above), and that a length has no more
than two digits, which at the code's radix is up to 16383 bytes. That keeps every case
the reader tells apart: a length of one byte, a length of several bytes cut anywhere, and
a message larger than the buffer.

**ZipFetch** (`net/zip_fetch.c`) is the sequence of requests, with **Zip**
(`codec/zip.c` and the inflater's contract) as operators on an archive. An archive is
a sequence of cells: an end record, a directory entry, a local header, or a unit of a
member's data, so that offsets, windows, truncation and overlap are real while bytes
are not. The fetcher is what Fetch shows of it: one request, one answer, which may be
short. `Replace` puts another archive in the same place.

**UsbStorage** (`io/usb_storage.c`): the parent's structure; the child as a process
that writes and syncs chunk by chunk and can hang, fail or die at every step; the
platform, which mounts and unmounts, and another program that wants the drive.
Claiming takes its several calls in several steps, because the platform acts in
between.

**BleCentral** (`ble/central.c` with the sending half of `ble/bluez.c`),
**BluezObjects** (the object tree, its fetches, the watches) and **Bluez** (the agent,
the dispatch of messages, bluetoothd) are one machine in three modules, each extending
the one before. `calls` is what is on the bus, `inbox` what libdbus has queued, in
order, `backlog` what the socket did not take; every call has its serial. `watch` is what
the loop watches the socket for and which entry of `watches[]` knows of it; every add and
update may be refused (`watch.refused`), as `watch_sync()` lets it and attach ignores.
`silent` is that all of `inbox` was read by a blocking call or a flush, so that the socket
has no event for it. A message is
popped and handled in one step of `Process`; the caller reacts to a wake-up in a step of
its own. bluetoothd answers or not, asks the agent
about any device for consent or to display a code, changes its tree, dies and comes back.

### What is abstracted

Control is kept: guards, early returns, error paths and their order. Data is
reduced to what the properties distinguish: names and addresses to whether they
resolve and how many there are, bodies to a few numbered bytes, packets to a
length and a kind, texts to whether there is one. Time is a small counter, or,
where a deadline is looked at only by the tick, the choice of the tick that finds
it over. The Windows branches are left out.

## 3. Runs

| Run | Distinct states | Bounds | Shows |
|---|---|---|---|
| `resolve` | 50,115 | 2 lookups, timeout 2, failing start and read | see below |
| `loop` | 50,768 | 2 descriptors and the wake, 2 opens, 3 slots, batches of 2, kqueue, failing registrations and waits | |
| `tcp_connector` | 64,902 | 3 attempts, timeout 2, with and without a loop | |
| `stream` | 618,624 | 3 frames of up to 2 bytes, 2 slots, 2 reads per turn, any change of interest refused | |
| `mqtt_write_queue` | 1,752 | 7 packets of 2 bytes, a buffer of 7, any change of interest refused | |
| `mqtt_client` | 4,812 | 3 starts, failures saturate at 3 | |
| `mqtt_session` | 915,199 | 2 filters, one of them refused; messages of 7, 9 and 10 bytes into a buffer of 9; lengths to the base 4; 2 tickets and 2 reads per turn; 4 events of the world | |
| `fetch` | 210,612 | 2 requests of 4 kinds, 10 replies, 2 addresses, 1 redirect, 2 reads per turn, idle after 2 | |
| `zip_fetch` | 151,172 | 2 downloads, some 60 archives, 2 replacements, a tail window of 3 cells, directories up to 2 | |
| `usb_storage` | 310,648 | 2 writes of 2 chunks, timeout 2, 3 claims, 3 mounts, mounts named in 3 ways | |
| `bluez` | 311,037 | 3 calls and questions on the bus (4 about the tree), 2 peripherals, 2 characteristics, 5 slots of which a behaviour uses one or two, any watch refused | |
| `resolve_lost_answer` | | as `resolve`, nothing failing | violates its property: section 4 |

Where several invariants are about one thing they are checked as one conjunction with
a name of its own; its parts are named too.

* **resolve.** `NothingLeaks`: no path leaves a child unreaped or a pipe without its
  child. `BusyIffOwed`: busy exactly while a callback is owed, in every intermediate
  state, so a restart from a callback is neither refused nor overwritten.
  `VerdictFaithful`: found and not-found come from the child of that lookup.
  `Completes`: implements Completion even if the child hangs.
* **loop.** `TableMatchesKernel`: table and kernel agree whichever registration
  failed. `StopEndsRun`: a stop ends the run it was made in, or the next.
  `BoundedRunReturns`: even if a source is ready at every wait.
* **tcp_connector.** `ResourcesOwned` is `SocketsOwned`: every open socket has exactly one owner.
  `WatchedWhileConnecting`, `LookupIffResolving`: no watch or lookup of one attempt
  reaches into the next, whatever events the loop reports. `Completes`.
* **stream.** `DeliversFrames`: the ring implements FrameQueue. `ArmedWhileQueued`: OUT
  is armed exactly while something waits, or the loop has refused the last change the
  stream asked for. `FramesLeave`: what waits leaves if the far end reads, or the loop has
  refused to say that it does.
* **mqtt_write_queue.** `StreamIntact`: what is unsent is what the broker has not had,
  in order. `RetryContract`: a blocked TLS write is repeated as it was.
  `QueueDrains`: what is queued leaves, unless the loop refused to watch for OUT and
  nothing else ever flushes the buffer again.
* **mqtt_client.** `ConnectionOwned` is `Attended`: a client that is wanted always has something armed
  that moves it. `SocketsOwned`, `WaitingSaysWhy`. `ReadsOwnConnection`: a handler
  that continues after a callback continues with its own connection.
  `BackoffNotForgiven`: only an accepted session resets the backoff. `AttemptEnds`: no
  attempt lasts for ever, however often the broker speaks without saying yes.
* **mqtt_session.** `FramesIntact`: what the reader has handled is a prefix of what the
  broker sent, packet by packet, with the oversized ones counted off, however the
  stream is cut. `FiltersAsked`: no filter is passed over and the pump does not stall,
  but for a SUBSCRIBE that found no room. `NothingStranded`: what has arrived is
  handled or the session ends; nothing waits inside the TLS session, in the buffer or
  behind a write for an event that does not come. `FiltersAnswered`: a SUBACK, accepting
  or refusing, moves the pump on.
* **fetch.** `ResourcesOwned` is `NothingLeaks`: sockets, files and the lookup are those of the request in
  flight. `ListensForSession`: the loop waits in the direction the session is blocked
  in, whichever phase blocked it, unless it refused to. `ExchangeFaithful` is `BodyWhole`: OK means the whole body, however it was
  framed and wherever it was cut; and `SentOnce`: a POST reaches one connection.
  `IdleMeansSilence`: the idle timeout ends only a request that was silent that long,
  although movement is stamped by the next tick. `Completes`.
* **zip_fetch.** `ResultIsMember`: what is handed over as ready is the content of that
  member in some archive that was there. `VerdictDeserved`: what is reported of an
  archive that stayed the same is true of it: it is what a reader who has the whole
  archive at hand would say, so that a broken directory is not one without the member,
  and a directory outside the window is found (`VerdictAssumption`, which TLC evaluates,
  says that the reader's and the code's ways of looking agree on every archive of the run). `StagedFilesOwned`: on every way
  out the staging directory holds the result, or nothing. `Completes`.
* **usb_storage.** `DriveOwned` is `WriteOwns`: child, pipe and claim belong to a running
  write and go with it; and `NobodyElseWrites`: from the first byte until the child is
  reaped nothing of the drive is mounted and nobody else has it. `ProgressIsSynced`: the
  progress shown is on the drive, and 100 means all of it. `WriteEnds`: even if the
  child hangs.
* **bluez.** `CentralOwns` is `TimersOwned`: no timer is on the loop but that of a
  request that is not idle; `ValuesAreMatched`: values are expected only under a match
  rule (the converse is not claimed: a second subscription leaves the first one's rule
  in place); and `WatchesCover`: the socket is watched for exactly what libdbus has to
  do, unless the loop refused the last change, and no watch is left on a loop that
  nobody knows of. `AnswersAreOwn` is `AnswerIsOwn`: the answer to a request is the
  reply to its own call or its own deadline; and `AgentAnswersForPair`: a PIN, a
  comparison or an authorization is granted only to the pair in flight (a Display* call
  grants nothing and is acknowledged for any device: section 4). `LinkCanFinish`: a
  connect or pair in flight, which has no deadline, still has an answer coming.
  `MirrorConverges`: the copy of the tree with the queued signals applied is
  bluetoothd's tree, and a fetch is awaited only while its answer can come.
  `EverythingEnds` is `RequestEnds`: a request in flight ends, by its timer on the loop
  or by process() off it, through attaching and detaching; the one that was begun off
  the loop and taken onto it has neither (section 4); and `FetchEnds`: on a loop, a
  fetch leaves, is answered and the answer is taken, unless the loop has gone deaf for
  good: the answer was read by a blocking call and nothing comes after it, or the watch
  it needs was refused.

**Why the bounds are enough.** Every component here serves one request, lookup or
connection at a time, so two of them (three where one may be refused meanwhile)
reach each interaction of an old one with its successor. The ring of two slots with
three frames wraps and fills; two bytes per frame are the least that can be split;
a buffer of seven bytes with packets of two has an odd end that a packet does not
fit. A batch of two events is the least in which one callback can invalidate the
other. Two addresses and one redirect exercise each limit once from below and once
from above. Deadlines of two steps separate before, at and after. Where a bound is
about the constants only (slots, descriptors, lookups, timeouts), section 5 removes
it.

In `mqtt_session` the base of the length is 4, so that a packet of four bytes has a
length of two digits; the three messages are one that fits, one that fits exactly and
one that is a byte too large for the buffer. Two tickets per read and two reads per turn
let each budget run out before, with and after the other; an event of the world (an
attempt, a call, a message, a ticket, a request, a cut, a full socket, a close, a ping)
costs one of four. A cell of an archive stands for a whole structure, so that three
cells of window against a directory of up to two and a comment of up to two put the
directory inside, across and before the window. Two chunks are the least at which
progress can be partial; three mounts let one come between each two steps of a claim.
In `bluez` two kinds of request at a time meet everything two kinds can share (the
serials and the slot's own table are all they have in common).

Symmetry is not used, because most of these runs check liveness.

**Mutants.** For each property of each passing run there is a definition named after
the code it breaks (a comment says how), with which TLC finds the property violated.

### Fairness

Each `Fairness` definition says what it assumes; in summary:

* the application calls the tick again and again and its callbacks return. The
  headers ask for it: the tick is where deadlines are looked at;
* time passes. This is strong fairness in the models where the clock stands still
  during a handler;
* functions return: weak fairness of the steps inside a handler;
* a descriptor that stays ready is reported in the end: strong fairness, since other
  events can come first. In Loop this is asked of the wake only; other sources may
  be ready for ever and starve each other;
* Stream and MqttWriteQueue assume for `FramesLeave` and `QueueDrains` that the far
  end keeps reading; TcpConnector and MqttClient that a lookup ends, which is what
  `resolve` shows;
* MqttSession assumes that the thread comes back to the loop, that a full socket is
  written out in the end and that the broker sends what it owes;
* Bluez assumes of the loop what it does and no more: it calls `process()` for a socket
  that has something to read while IN is in the watch's mask, which what a blocking call
  has read is not (`Readable`), and for one that takes more while OUT is (`Writable`); it
  fires the timers it has. Off the loop the caller calls `process()`, as `central.h` says;
  on it he need not. bluetoothd answers a fetch or dies;
* ZipFetch assumes that the fetcher answers, which is what `fetch` shows;
* nothing is assumed of a child process, of a peer that has to answer, or of a
  `connect()`.

## 4. Findings

Eight statements of a comment or a header are definitions here that TLC refutes. The first
is a run of `PROJECT.json`; each of the others has a configuration of its own, named with
the module it is for, which ends in the counterexample described.

* `AnswerNotLost` (run `resolve_lost_answer`): `resolve_try_finish()` drains, then
  reaps. A child that writes and exits between the two is reaped with its answer unread,
  and the lookup fails. The comment there says the order exists so as not to lose an
  answer. (Draining again after a successful waitpid() would close the gap;
  `usb_storage.c` does so.)
* `NoStaleEvent` (`LoopStaleEvent.cfg`, `MCLoop`): a slot freed and refilled within a
  batch can get its predecessor's event, because the new file gets the old number.
  `loop.c:621` says it cannot. (A generation in the slot and in the kernel's user data
  would tell them apart.)
* `SuccessIsConnected` (`TcpStaleEvent.cfg`, `MCTcpConnector`): such an event runs
  `tcp_on_fd()` while the connect is under way; SO_ERROR is 0, and a socket that is not
  connected is handed over as a success. `tcp.h:43` promises a connected one.
* `DroppedStaysDropped` (`StreamDropSends.cfg`, `MCStream`): a send from inside
  `on_dropped` flushes the ring and writes the frame that was just reported as one that
  will never go out (`stream.h:82`). It breaks `DeliversFrames` too, which is why
  `stream` runs without.
* `FullIsNotFatal` (`MqttFullBuffer.cfg`, `MCMqttWriteQueue`): a PINGREQ that finds the
  buffer full ends the connection; `mqtt.c:297` calls a full buffer a dropped message.
* `DetailOnlyOfFailure` (`FetchDetail.cfg`, `MCFetch`): a request that fails on one
  address and succeeds on the next hands out OK with the first address's error;
  `fetch.h:94` says the detail is empty on success.
* `OnlyPairAnswered` (`BluezDisplay.cfg`, `MCBluez`): DisplayPasskey, DisplayPinCode and
  unknown members are acknowledged for any device. `bluez.c:1464` says only the pair in
  flight is answered. Nothing is granted by it.
* `DeadlineKept` (`BluezDeadline.cfg`, `MCBluez`): a request begun before
  `inkwell_ble_attach_loop()` has no timer on the loop and gets none; on a silent bus
  its deadline passes unnoticed until the caller calls process() himself. `central.h:36`
  promises -ETIMEDOUT whether or not the stack replies.

Remarks from the modelling, which no run shows:

* `clear_filters()` and `subscribe()` with a SUBACK under way: the answer to the old
  filter is credited to the new one with the same id, so that a refusal names the wrong
  topic. `mqtt.h` has the connection remade around it. A SUBACK with id 0 would match
  "none in flight"; no conforming broker sends one.
* `zip_cancel()` cancels the fetcher even when nothing of its own is in flight; a HEAD
  without a length is reported as `NOT_A_ZIP`; the tail window is 21 bytes short of the
  largest end record.
* `usb_storage.c` looks at the silence deadline before it reaps the child, so a finished
  write that nobody ticked for 30 s is reported as stalled. The resolver's child inherits
  the claim on the drive when it is forked during a write, and holds it until it ends.
  An `umount2()` of a mountpoint mounted over takes the topmost only.
* What libdbus reads into its queue during a blocking call raises no event on the socket
  and waits for the next one (`Deaf`, which `FetchEnds` has to excuse); a watch the loop
  refused is not tried again before libdbus next toggles one, and attach reports 0;
  `discovering()` answers -EAGAIN for ever if the adapter it remembers is gone; the
  agent stays marked as registered when bluetoothd dies.

## 5. Proofs

TLC covers the instances above; TLAPS proves the following for every value of the
constants that satisfies the assumptions named in the modules.

**ResolveProofs** - any set of lookups (positive numbers), any timeout, any set of
failing calls.

* `Invariant`: `SafeSpec => []Inv`, with
  `Inv == TypeOK /\ NothingLeaks /\ BusyIffOwed /\ VerdictFaithful /\ Consistent /\ Counted`.
  `VerdictFaithful` is not inductive alone: it needs that the pipe and the parent's
  record hold nothing but the answer of the current child and are empty without one
  (`Consistent`), and that a lookup not yet used has no answer and no call (`Counted`).
  There is one lemma per group of actions, and `CompleteInv`, `DrainInv` for the
  two helpers several actions share.
* `TypeCorrect`, `NoLeak`, `BusyExact`, `VerdictsFaithful`: its parts.
* `Implements`: `SafeSpec => C!SafeSpec`. Each step is an Accept, a Refuse, an
  Answer, a Cancel or a stutter of Completion; the invariant says that the callback
  that runs is the one outstanding.

**LoopProofs, the loop** - any descriptors, table size, batch size and masks, both backends,
any failing calls.

* `Invariant` with `Inv == TypeOK /\ TableMatchesKernel /\ SourcesInUse`; the last says
  that an active source watches a real number for at least one direction, and that
  a closed loop has nothing registered, from which `init` starts.
* `TypeCorrect`, `TableAgrees`: its parts.
* The lemmas that carry it: `FiltersCompose` (two filters changed in turn make the
  mask asked for, and the first changed back makes the old one), `AllOrNothing` (a
  registration succeeds or leaves the kernel as it was), `OneSourcePerFd`. A removal that
  fails leaves source and registration as they were; an init that fails leaves the table
  with nothing active.

**TcpConnectorProofs** - any set of attempts (positive numbers), any timeout.

* `Invariant` with `Inv == ResourcesOwned /\ Fields /\ Counted /\ HoldsOwed`.
  Nothing in it says that a socket handed over is connected, which does not hold
  (section 4). `ResourcesOwned` speaks of states in which the thread is between two handlers as well
  as inside one; to carry it across a step takes how the fields go together (`Fields`:
  a callback is held exactly while there is an attempt, and the socket and the watch are
  those of that attempt), what the caller has seen (`Counted`), and that the callback held
  is the one owed unless `start()` is still on the stack (`HoldsOwed`).
* `OwnsResources`: its first part. `Implements`: `SafeSpec => C!SafeSpec`, in which an
  attempt that ends inside `start()` is a refusal and not an answer.

**MqttProofs, the client** - any number of starts, any limit on the failures counted.

* `Invariant` with `Inv == TypeOK /\ AlwaysAttended /\ SocketsOwned /\ WaitingSaysWhy /\
  ReadsOwnConnection /\ Resumable`. `Attended` promises something of a client at rest; a
  handler calls back in the middle of its work, so the proof needs the same at every step
  (`AlwaysAttended`), and that a handler whose generation has not moved finds the state it
  left (`Resumable`). `TransitionEffect` and `AttemptOutcomes` say once what the two
  helpers that most handlers share can do.
* `OwnsConnection`, and the action property `NeverForgiven` (`BackoffNotForgiven`).

**MqttProofs, the sending side** - any number of packets, any buffer.

* `OutInvariant` with `OutInv == OutTypeOK /\ (Up => Continues(...) /\ Committed)`. `Continues` is
  `StreamIntact` byte by byte, which is what an append and a compaction can be followed
  through, and neither of them depends on what the loop watches for; `Committed` ties the record the session is committed to to `out_sent` and
  `out_pending`.
* `NothingLost`, `RetriesAsBefore`. `AppendedContinues` and `BaseContinues` are the lemmas
  on the buffer.

**MqttProofs, the receiving side** - any radix from 4 to 128, any in buffer of at least 6
bytes, any filters and messages whose length has at most two digits, any number of reads
and tickets in a turn and of events.

* `SessionInvariant` with `SessionInv == SessionTyped /\ Limits /\ Phase /\ Subscribing /\
  SessionFlow`. `FramesIntact` compares two sequences of packets; between them lie bytes,
  some in the buffer, some inside the TLS session, some in the socket as records cut
  anywhere and some still with the broker. `SessionFlow` says that there is a stream of
  which these are consecutive parts, and which from the first byte not to be skipped on
  is made of the packets that were sent and are not handled. A read moves the border
  between the first two parts, a handled packet or a skip its beginning, an answer
  of the broker its end; no step has to know where the others are cut.
* That the packet at the beginning is read for what it is takes the codec: a length that
  is written is read back, a length that is cut is not yet a length, and each kind of
  packet decodes to what `Seen` says of it. The recursive functions of the codec are
  followed digit by digit, and the places of records and packets in the stream by
  the least one that would not fit, so that nothing is proved by induction over data.
* `FiltersAsked` is not independent of this: it needs that the broker hears the filters
  the pump counts off, and that the SUBACK handled is the one of the SUBSCRIBE in flight.
  `Pump` and `Moving` say how far the subscribing has come; `Phase` that a CONNACK can be
  handled once only, as the first packet.
* `FramesAreIntact`, `FiltersAreAsked`.

**LoopProofs, the stream** - any number and length of frames, any ring, any number of reads.

* `StreamInvariant` with `StreamInv == StreamTypeOK /\ Armed /\ Phases`: unless the
  loop refused the last change, OUT is armed while something waits, also when a flush is
  entered, so that leaving it with frames is right and leaving it without must disarm.
  `ArmedExactly` follows, and holds whether or not `on_dropped` sends.
* `Delivers`: the ring refines FrameQueue under `SendsFromDrop = FALSE`; with TRUE it is
  false, as section 4 says, so the hypothesis is the finding's other side. It takes
  `Separate` (a flush is not part of closing; `at` stays within the queue) and the lemmas
  on the ring as a queue: `Wraps`, `SlotsDiffer`, `SlotMoves`, then `Appends`, `Pops`,
  `Shortens`, `Walks` for what each operation does to the sequence of waiting frames.

**UsbStorageProofs** - any number of chunks, claims, mounts, mountpoints and writes, any
timeout.

* `Invariant` with `Inv == TypeOK /\ Claims /\ Owns /\ Exclusive /\ Counting`.
  `NobodyElseWrites` speaks of a write that runs; what keeps others out is the open file
  description of the claim, which the claiming parent, the child and a resolver's child
  share, so `Exclusive` is about all of its holders. `ProgressIsSynced` needs how far the
  child is, what its pipe can hold and what an exit of 0 means (`Counting`).
* `OwnsDrive`, `ShowsSynced`. `ReadIs`, `UmountIs` and `DrainedIs` are the lemmas on
  the table of mounts and on the pipe: what a reader of them can find.

**FetchProofs** - any jobs and replies (of any length, framing and status from 200 to
999), any number of requests, addresses, redirects and reads in a turn, any idle time.

* `Invariant`, whose parts say what is held (`Holds`), where the thread and the request
  are (`Places`, `Stack`), which way the loop listens (`Listens`), how often the bytes of
  a POST have begun to go out (`Once`), what the stamps mean (`Silence`), what the caller
  has been told (`Answers`), and what has been read (`Reads`).
* `Reads` is the part that `BodyWhole` rests on. It says that there is a reply and a
  number p such that p units of it have been read, the rest is what the server has left,
  and the phase of the codec and the body are exactly what p units make. What they make is
  given in closed form (`SoFar`, `IntoBody`), so that no induction over the reply is
  needed: `ReplyIs` says what the p-th unit is, `FeedLength`, `FeedChunk` and `Feed` that
  feeding it leads from p to p + 1, and `Whole` that a codec which is done, or a reply framed
  by the close that has been read to its end, has brought the body that was meant.
* `OwnsResources`, `Faithful`, `SilenceIsOne` (an action property), and `Implements`: the
  safety half of `Completes`.

**ZipFetchProofs** - any downloads, any archives and replacements, any window and limits.

* `Invariant` with `Inv == Typed /\ Owned /\ Asked /\ OneOwed /\ EntryListed(zip) /\
  ResultIsMember /\ Unswapped /\ VerdictDeserved`. `Asked` says that the answer awaited is
  to the request of the step the download is in, `Unswapped` what each step has learnt of
  an archive as long as nobody has replaced it; the latter carries `VerdictDeserved`
  through a sequence of up to five requests.
* The walk over a directory and the search for an end record are over data of any length.
  What they find is said without induction, by the least place at which something is
  found (`Least`), and the recursive functions are followed by the least counterexample.
* `OwnsFiles`, `HandsOverMember`, `VerdictsDeserved`, and `Implements`: the safety half of
  `Completes`.

**BluezProofs** - any slots, characteristics, peripherals and kinds of caller, any
traffic on the bus.

* `Invariant`. Its parts say who owns a timer, a match rule and the watch on the bus
  (`TimersOwned`, `ValuesAreMatched`, `WatchesCover`, with `WatchTyped`: a mask on the loop
  is known to an entry, which attach, toggle and detach keep whatever the loop refuses);
  which call on the bus, reply in the
  queue and deadline belong to which slot (`OwnCalls`, `OneEach`, `AnswerIsOwn`,
  `LinkCanFinish`); what bluetoothd may be granted about a pair (`Asked`,
  `AgentAnswersForPair`); which fetch is awaited (`Fetching`, `FetchComing`); and how the
  copy of the tree relates to bluetoothd's (`Mirrors`).
* `Mirrors` is what `MirrorConverges` rests on. It says of the queue that the signals of
  one bluetoothd about one object alternate and that the last agrees with the tree
  (`Consistent`), and of a copy that from some message on it is as good as the tree
  (`Follows`). `AppliedFollows` and `TreeFollows` are one signal and one fetched tree;
  `ReplayFollows` carries them over the whole queue, by the least message at which it
  would fail.
* `OwnsAll`, `AnswersOwn`, `CanFinish`, `Converge`.

**Only model-checked.**

* Liveness under fairness, which is not within TLAPS's reach: `StopEndsRun` and
  `BoundedRunReturns`, `FramesLeave`, `QueueDrains`, `AttemptEnds`, `NothingStranded`,
  `FiltersAnswered`, `WriteEnds`, `EverythingEnds`, and the fairness half of each
  `Completes`.
* What the codecs compute, beyond what MqttProofs and FetchProofs need of them. The few
  recursions here are folds or recursive functions, never RECURSIVE operators.

## 6. Not modelled

* Mbed TLS and its cryptography, libdbus, bluetoothd, the broker, the kernel: external,
  and nondeterministic within their contracts.
* The Windows and Apple variants of every component (`winrt.c`, `serial_windows.c`,
  `resolve_apple.c` and so on): other code under the same contracts.
* The serial port, timers, signals, the crash handler and its report, the log and the
  record file: each is a short sequence of system calls with one actor, where what is
  hard lies below a model of this kind (async-signal safety, termios, the file system's
  own guarantees).
* The pure codecs (JSON, PNG, base64, hashes, UF2, ESP images) and text helpers.
* The scripted stand-in of the BLE central, calls that pass straight through to the
  backend, and the raw HCI calls.
* The parsing and formatting of URLs, addresses, HTTP header lines and D-Bus values, and
  `inkwell_resolve_pick`.

* Calls into the BLE central from inside its two wake-ups, `read_ready` and
  `requests_ready`, which run within process(): the model lets the caller react once the
  message is handled. A close from inside one, with process() still popping, is a hazard
  that is listed and not checked. The loss of the connection to the bus itself.

Assumptions where the code cannot do otherwise: undoing a kqueue change that has just
succeeded succeeds, and so does EV_DELETE of a filter that is registered; a child that
was sent SIGKILL can be reaped, so that the blocking `waitpid()` of a stalled write
(`usb_storage.c:594`) returns (a child in uninterruptible I/O would hold the thread until
the I/O ends); in MqttSession, unlike MqttWriteQueue, the loop grants the interest
`mqtt_arm()` asks for, so `NothingStranded` is about such a loop; a server ends a close-framed body with a close_notify only when the
body is whole; the reader `VerdictDeserved` compares with knows the code's tail window; a broker follows the protocol where `mqtt_session` says so; the trust
anchors are set before the first session, as `tls.h` asks.

## 7. Plan

Every invariant and every action property that a run checks is also a theorem, and so is
the safety half of each refinement; what is left to TLC alone is liveness. The components of
section 6 are where the model could grow: the timer queue with a wake that races a close,
and the record file with a crash between its writes.
