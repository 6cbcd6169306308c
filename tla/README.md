# Formal models of lmc, an asynchronous MQTT 3.1.1 client

This directory holds TLA+ models of the client library whose source is in
`src/`, TLC configurations that check them on small instances, and TLAPS proofs
that hold for every instance. `PROJECT.json` lists the runs, the source lines
behind every definition, the hazards and the findings.

## 1. The system

`Client::connect` (`lib.rs`) opens a transport, queues CONNECT and spawns one
**transceiver task** (`transceiver/mod.rs`). The task owns the socket and all
protocol tables, and is driven by a `select!` over: socket writable, socket
readable, a command, a one-second alarm. Owners of the `Client` run on any
thread. They reach the task through a bounded command channel (1024) and through
`ClientShared` (`shared.rs`): the next packet id, three notifier maps for publish
futures, and the map of subscription states, each under its own lock.

| Part | State | Operations | What is hard about it | Module |
|---|---|---|---|---|
| Transmit path, keep-alive, shutdown | `tx_pkt`, `internal_pkt_queue`, `last_tx`, `connect_sig`, `clean`, `disconnect_sent` | write, read, command and alarm branches; disconnect sequence | partial writes, branches that write directly or queue, a peer that stalls, timeouts | `Transceiver` |
| QoS handshakes | `pending_packets`, `timeout_queue`, packet ids | Publish command, PUBLISH/PUBACK/PUBREC/PUBREL/PUBCOMP handlers, retransmission | repeated and late packets, stale timeouts, reuse of ids | `PublishFlow` |
| Publish futures | notifier maps, wakers | register, send, poll, drop, trigger, `fail_notify_map` | interleavings at every lock and await, cancellation, shutdown | `PublishFutures` |
| Subscription handshake | map of `SubscriptionState`, `pending_subs` | subscribe, unsubscribe, SUBACK, UNSUBACK, retransmission, drain | states read before an await and used after it | `Subscribe` |
| Subscription tree | trie, queues, callbacks | get, get_or_create, dispatch, prune, clear | recursion over wildcards, lists changed while walked | `SubscriptionSet` |
| Packet framing | `bytes`, `size` | recv, parse_packet_size | every way of cutting the stream | `PacketReader` |
| Codecs | byte writer and reader | encoders and decoders of the fourteen packet types | sizes and contents computed by different functions, limits of the fields | `PacketCodec` |
| Transports | buffers of rustls, readiness hints | wants, read, write, pre_read, pre_write, send_close_notify | data that waits in a buffer nobody looks at | `Transport` |
| Connecting | `OptionsT`, oneshot result | the builder, `Client::connect` | order of the setters, a timeout or error at every await | `Connection` |

Not modelled: see section 8.

## 2. Modules

Two abstract specifications say what a part promises to the others.

- `PacketStream`: packets leave whole, once, in the order given. `Transceiver`
  implements it (`Transceiver!TransmitsInOrder`: the backlog is `tx_pkt`
  followed by `internal_pkt_queue`, the emitted packets are the frames cut out of
  the bytes). `PublishFlow` is built on that promise: its `backlog` is that of
  `PacketStream`. `Subscribe` abstracts it further to a FIFO channel.
- `Delivery`: at least once for QoS 1, at most once otherwise, and confirmed only
  after delivery. Both directions of `PublishFlow` implement it
  (`MCPublishFlow!OutgoingDelivered`, `IncomingDelivered`). For an incoming message
  delivered means handed to the subscribers or held by the handler that is about to
  do so: the code writes PUBACK and PUBREC before it dispatches, and the broker may
  act on them in between. With `got <- dispatched` in place of `got <- Handed` the
  refinement fails, on a message of QoS 1 that is acknowledged and not yet
  dispatched.

How the detailed modules correspond to the code:

- **Transceiver.** `phase` is the part of `task()` (`boot` = before the loop,
  `run`, `stop`/`flush` = disconnect sequence, `done`), `pc` the place inside a
  handler that makes several writes. Each branch of `select!` is an action, or a
  few when it loops over writes. A write takes any number of bytes. A transport
  that has failed keeps failing. `wire`, `accepted` and `quiet` are history.
  `Client::connect` is part of it: it takes the oneshot result or times out.
- **PublishFlow.** A call of a publish method takes an id (`Call`), registers its
  future and waits for a place in the command queue (`ClientPublish`,
  `ClientSend`); callers may overtake one another on the way. `try_publish` finds
  a place or is refused, having used up an id. One action per packet type handled
  by `process_packet`, and a second one, `Dispatch`, for the call that follows the
  acknowledgement of a PUBLISH; `dispatching` is the message between the two, and no
  branch of `select!` is taken meanwhile. The alarm branch is `Alarm`, then one
  `AlarmPop` per timeout until `AlarmBreak` or the count is used up. The clock is the
  age of each timeout in ticks; because ticks and insertions are not aligned, an age at the
  limit may or may not be due. The broker is external, and may ignore any packet.
- **PublishFutures.** A caller is `idle`, `sending` (registered, waiting for the
  channel), `polling`, `parked`, or finished. The task ends through `closed`, the
  early return of `task()`, or through the disconnect sequence and the three maps.
- **Subscribe.** One topic. `before`/`after` are the two waits of
  `Client::subscribe`; `waker_index` is kept exactly, since it outlives the list
  it indexes.
- **SubscriptionSet.** The tree is a set of paths; `NodeDispatch` is the recursion
  of the code and is compared with `Matches`, a direct definition. In this code
  the single-level wildcard is `*`, and `a/#` does not match `a`.
- **PacketCodec.** Packets are records, bytes are numbers, and encoding and
  decoding are what the code does byte by byte: control field, size field, strings
  with a length in front, flags of CONNECT, results of SUBACK. The writer panics
  and the reader fails where the code does. Two bases are scaled down so that
  limits are within reach: `Digit` stands for the 2^7 of the size field and
  `U16Byte` for the 2^8 of a `u16`.
- **PacketReader.** A sender encodes packets, or sends contents that do not decode
  (`Raw`) or a size field that does not end within the header (`Unsized`). The bytes
  arrive in any portions, and the receiver is `recv` under the loop of the read
  branch. `MAX_PACKET_SIZE` is above every size that the header can hold, as in the
  code (512,000,000 against 2^28), so that `ReachedMaxSize` is never returned. On
  the other side it is the reader of the test broker, which states what the client's
  packets have to look like.
- **Transport.** TCP and TLS under the loops of the task. rustls is external: a
  buffer of plaintext that waits for the end of the handshake, one of records that
  wait for the socket, both limited, and one of decrypted data. Packets are numbers
  of bytes. What `select!` waits for is computed by `wants` before it waits. A write
  may return zero, which `continue_writing_packet` takes for the end of the
  connection (`ConnectionClosed`); `ZeroWritten` says when: on TCP after the peer has
  closed, on TLS never, because `write` turns the zero of a full buffer into
  `WouldBlock`.
- **Connection.** The options are a record with the fields of `OptionsT`, each call
  of the builder a change of it. `Client::connect` is one action per await, with
  its errors: host and port, TLS set-up, name resolution and choice of an address,
  TCP, the result of CONNECT with its timeout, and the wait for a task that was
  refused. The task it spawns takes the steps of `Transport`, which this module
  extends.

Operators that a comment calls `Fault` are plausible mistakes in the code. None is
part of a specification: each shows that some property would notice it.

## 3. Runs that pass

| Run | Configuration | Shows |
|---|---|---|
| transmit_path | TransceiverSafety | bytes on the wire, queue, shutdown status, keep-alive |
| task_ends_and_stream | TransceiverLive | implements `PacketStream`; the disconnect sequence ends whatever the peer does; a Disconnect command ends the task provided the transmit path clears |
| publish_delivery | Publish | delivery by QoS in both directions, no step back in QoS 2, timeouts in order and covering every pending packet |
| publish_completes | PublishLive | handshakes end |
| futures | Futures | Ok only after the event, no lost wake-up, a graceful shutdown releases the callers that had registered |
| subscribe_any | SubscribeAny | what holds with cancellation, refusal, unsubscription and both ends; a refusal is reported only after one, until somebody unsubscribes or the task drains the map |
| subscribe_calm | SubscribeCalm | the handshake without those: one SUBSCRIBE, all callers complete |
| dispatch | Dispatch | dispatch against the reference; each listener once |
| framing | ReaderFraming | packets whole, in order, none held back; the encoder panics only on what the format cannot say; the receiver fails only on a malformed packet; the read loop ends on every size field that ends within the header |
| connection | Connection | the connection is the one the builder was asked for; connect returns; no stall in the buffers of rustls; the connection is taken for closed only when it is; packets get out while the socket takes bytes; `disconnect_sent` is true |

`subscribe_calm` deliberately leaves out cancellation, refusal, unsubscription and
shutdown. Its invariants `NoLostWakeup`, `NeverWhilePending` and
`PendingMeansEstablishing` do not hold once all of these are allowed (section 4).
The run establishes them for the calm case only, and section 5 says which of the
disturbances each one survives. `OkMeansGranted` looks for a grant of the topic at
any time, and `KindKept` excuses a refusal: neither tells two requests in flight
apart.

### Bounds

- Transceiver: two submitted packets and one reply, of two and three bytes, four
  accepted packets. This gives a packet in transmission with others behind it, DUP
  packets cut after their first byte, and a ping competing with both. The bound on
  accepted packets makes pings, replies and resends finite, which they are not in the
  code; no property may rest on that (see `PathClears` below). The two
  clocks stop at `MaxQuiet`, above the interval plus one.
- PublishFlow: one place in the command queue and one refusal by `try_publish`,
  with enough ids for both; one message per QoS outgoing; incoming, two of QoS 2 on
  one id. The bound `Mixed` lets both sides publish in one behaviour only one message of QoS 2
  each (none in the liveness run); otherwise one side, either of them, publishes.
  The two directions share the transmit path, the timeout queue and the table of
  pending packets, whose keys differ by packet type. The theorems of section 5 hold
  for any mixture.
  `MaxInFlight` bounds the packets under way *when something is sent again*, so
  retransmission is repeated without limit over time but not in space. Delivery
  counts stop at 2, enough to tell once from more than once.
- PublishFutures: one caller per map and a channel of one entry, so that callers
  do wait for it.
- Subscribe: two or three callers, one unsubscription, a channel of two entries.
- SubscriptionSet: eight patterns against six topics for one listener; one pattern
  for five listeners.
- PacketCodec and PacketReader: `Digit` = 3 and `U16Byte` = 3, so that arrays are as
  wide as a `u16` can say and one byte wider, and size fields take one to five
  bytes; `MAX_PACKET_SIZE` = 160 is above the 85 bytes of the largest packet. Each
  packet of each type alone, and streams of up to three packets, among them one with a
  size of four digits, one that does not decode and one with a size of five.
- Connection: three calls of the builder (every pair of setters that interact, and
  one more), hosts with and without a port and in IPv6 notation, and rustls buffers
  of two bytes against packets of one, three and five, so that a packet is taken in
  parts before, during and after the handshake.

Deadlock is not checked where the system may stop: callers that have all finished,
and a closed connection.

### Fairness

- The task is scheduled when it can proceed: weak fairness of its internal steps,
  strong fairness of branches of `select!` (tokio polls them in random order, so a
  branch that is ready again and again is taken).
- `PathClears`, that the transmit path is empty again and again or the transport has
  failed, is the premise of `DisconnectObeyed`. That the peer keeps reading would not
  be enough: `tx_pkt` is None only when the whole queue is out, so a peer that reads
  more slowly than packets are queued (resends of a large packet over a slow link)
  keeps the command branch disabled (`mod.rs:563`). `ShutdownEnds` needs no premise.
- `PeerReads` of `Connection`, that a socket that stays writable is written to, is
  the premise of `GetsOut` and of nothing else. `GetsOut` counts bytes: those that
  have been accepted are written in the end, whether or not more follow.
- The broker answers a packet that is sent to it again and again (strong fairness);
  it may ignore any finite number. Nothing obliges it to answer in
  `PublishFutures`.
- A caller is polled when woken, and one of those that wait for a spot in the
  channel gets it when it is free.
- `Client::connect` goes on when what it awaits is there or its timer fires
  (`ConnectStep`), and the timeout of the disconnect sequence fires. Nothing obliges
  the peer to send or to read.
- A handler that has written an acknowledgement goes on to dispatch (`Dispatch`).

## 4. Where code and documentation disagree

Two runs check one sentence of the repository each and find an execution of the
model that contradicts it. `PROJECT.json` quotes the sentences.

| Run | Execution |
|---|---|
| futures_connection_closed | The peer closes the connection; `task()` returns before `fail_notify_map`, and a waiting future is never woken. |
| subscribe_cancel | A future woken by a refusal is dropped before it is polled; its stale `waker_index` clears the waker of another future in a later list, or is out of range. |

The models show further ones, which are not kept as runs. Each was obtained with
TLC, by checking the property named on the configuration named.

| Property | Configuration | Execution |
|---|---|---|
| `DisconnectObeyed` without its premise | TransceiverLive | A packet is half written and the peer stops reading; commands are not read while `tx_pkt` is set, so the shutdown never starts (`mod.rs:563`, `lib.rs:678`). |
| `PingOnlyAfterInterval` | TransceiverSafety | A packet written at once does not update `last_tx`; a PINGREQ follows it immediately (`mod.rs:453`, `options.rs:121`). |
| `ConnectResultSpecified` | TransceiverSafety | The connection closes before CONNACK; `connect_sig` is dropped unused (`mod.rs:778`, `errors.rs:94`). |
| `NewPacketsOnly`, `ReleaseIsFinal` | Publish, `IdSpace = 2`, three outgoing messages of QoS 1 or 2, none incoming | Ids wrap around while a PUBLISH is unacknowledged; a new one replaces it (`lib.rs:369`, `mod.rs:230`). In the code this takes 65,536 publications during one handshake. |
| `NoFutureStuck` | FuturesClosed, `Callers = {"a", "c"}`, `Ends = {"stop"}` | A future registers behind `fail_notify_map`, while the channel is still open (`mod.rs:797`, `mod.rs:762`). |
| `NeverWhilePending` | SubscribeCalm, `MaxUnsubs = 1` | A caller that saw `Existing` sends its command during a newer pending subscription (`mod.rs:572`). |
| `LiveMeansSubscribed` | SubscribeCalm, `Callers = {"a", "b"}`, `MaxUnsubs = 1` | A late UNSUBSCRIBE is sent again behind a newer SUBSCRIBE (`mod.rs:641`, `lib.rs:245`). |
| `PendingMeansEstablishing` | SubscribeCalm, `Cancellers = {"a"}` | A caller is dropped between its map entry and its command; the topic stays pending (`lib.rs:532`, `lib.rs:242`). |
| `RefusedMeansRefused` without `Undisturbed` | SubscribeAny | Subscribers that wait at shutdown, or when somebody unsubscribes, get `RefusedByBroker` (`futures.rs:148`, `errors.rs:142`). |
| `HeaderRoom` | ReaderFraming | A size field that does not end within the header fills the buffer; `recv` then asks for zero bytes and returns `NeedMoreData`, and the loop of the read branch goes round without end (`packet_reader.rs:169`, `mod.rs:552`). |
| `InvalidRejected` | Dispatch | `get` stops at a missing entry before it sees a misplaced `#` (`subscription.rs:313`, `subscription.rs:289`). |
| `CloseNoticed` | Connection | The alert of the peer comes without data; `pre_read` returns false and the main loop goes on (`tls/mod.rs:155`). |
| `WrittenIsReported` | Connection | With TLS everything is written, the peer sends no alert, and the timeout ends the sequence with `disconnect_sent` false (`mod.rs:668`). |

Starvation of the command branch by a slow reader (section 3, `PathClears`) is an
infinite behaviour with unboundedly many packets, which the bounded model does not
have; it is read off the guard at `mod.rs:563`.

One more is visible in `Connection` without a property: the name ends at the first
colon of the host. A bare IPv6 address gets no default port and does not resolve,
and one in brackets fails with `InvalidHostname` when TLS is enabled (`lib.rs:269`,
`lib.rs:254`). `ConnectsAsAsked` speaks of connections that are made.

## 5. What is proved

For every value of the constants that satisfies the named assumptions of the
modules: `SizeAssumption`, `NoneAssumption`, `BoundsAssumption` and
`NamesAssumption` of `Transceiver`; `CallersAssumption`; `ConstantsAssumption` of
`PublishFlow`; `SubscribeAssumption`; `TransportAssumption`,
`ConnectionAssumption` and `SettersAssumption`. Bounds of the models are constants too, so a theorem holds
for every value of a bound.

**TransceiverProofs**

- `TypeCorrect`. `TypeOK` is not inductive: that `continue_writing_packet` finds a
  packet to write depends on the control state. `ControlInv` relates `pc` and
  `phase` to `tx_pkt`; `TypeOK /\ ControlInv` is inductive (`ControlCorrect`).
- `QueueCorrect`: `tx_pkt` and the queue are exactly the accepted packets not
  completely written, and the queue is empty whenever a handler may write
  directly. This is the claim in the comment of `queue_internal_packet`. It needs
  `BootInv` (CONNECT is alone before the loop starts). The argument is one lemma
  per way of touching the path (write, first write, accept, pop, frame).
- `KeepAliveCorrect`, an action property. `ClockInv` says that the true quiet time
  never exceeds `last_tx` when nothing is in transmission, so the missing updates
  of `last_tx` can only make pings come early.
- `CleanCorrect`: a clean status of a connection that was up means that DISCONNECT
  was sent, unless the flush met the end of the connection. The exception is real:
  a write that returns zero while flushing ends the sequence with `clean` set.

**StreamProofs**

- `WireCorrect` (`WireIsAcceptedStream`), `FlushCorrect`
  (`DisconnectSentMeansFlushed`) and `StreamImplemented`: every step of
  `Transceiver` is a step of `PacketStream` or a stutter. The byte stream is a
  recursive function of the accepted packets; what it is for one packet more is
  proved by induction over the numbers, stated for sets (`SetInduction`). The
  inductive invariant (`StreamCorrect`) says that the wire is the encoding of the
  packets behind which the queue begins, less what is left of `tx_pkt`
  (`StreamInv`), and that nothing follows DISCONNECT (`FlushInv`). A packet that a
  failed write has taken out of the queue is `Lost`: from then on nothing is
  written. Every step is one of a few kinds (`StreamKinds`), and each lemma treats
  kinds in place of actions.

**PublishFuturesProofs**

- `TypeCorrect`; `OkCorrect` (Ok only after the event); `WakeupCorrect` (no lost
  wake-up), for any number of callers and any capacity. `OkMeansTriggered` and
  `NoLostWakeup` are not inductive alone: both need that an entry missing from
  its map means a triggered event for every live future (`AbsentMeansTriggered`).
  Their conjunction is `IInv` (`InvCorrect`).

**PublishFlowProofs**

- `Inv`, that is `TypeOK /\ TimeoutCovered /\ OldestFirst`, is inductive as it
  stands (`InvHolds`): the two properties are about what is in `timeout_queue`, and
  each action adds at the back, removes at the front or makes all of it older. The
  argument is one lemma per way of touching the tables (`TablesRemove`,
  `TablesReplace`, `TablesAdd`), the alarm being the interesting case: a timeout is
  dropped only if no pending packet has its key (`AlarmPopKeeps`).
- `TimeoutCoveredHolds` and `OldestFirstHolds`, for any messages, ids, capacity and
  delay, with ids that wrap around. `TypeCorrect` includes that the alarm loop pops
  no more timeouts than it found.
- `ReleaseIsFinal` is not among them because it is false for some constants: it
  needs more ids than messages in flight (section 4).

**SubscribeProofs**

- `InvHolds`. The properties are not inductive alone. `GrantedFirst`: without a
  grant of the broker there is no such SUBACK under way, no `Existing` entry and no
  caller that goes by one. `RemovedByOwner`: a command that removes a callback
  comes from an owner that is done with it.
- `RequestsCoveredHolds`, `OkMeansGrantedHolds`, `UnsubscribedIsEmptyHolds`,
  `TypeCorrect`, and the action property `KindKeptHolds`, for any number of
  callers, cancellations, unsubscriptions, answers and ends.
- What holds until something disturbs the callers, with the hypothesis in the
  theorem: `NeverWhilePendingHolds` until somebody unsubscribes;
  `PendingMeansEstablishingHolds` while no call is cancelled, no SUBACK is without a
  result, and nothing was refused or nobody has unsubscribed (`Steady`);
  `RefusedMeansRefusedHolds` as the property stands; `NoLostWakeupHolds` while
  `Undisturbed` and without a refusal, whichever calls are cancelled. The invariant
  `CalmInv` counts what asks for the subscription: one caller, one command or one
  SUBSCRIBE at most (`OneRequest`), and says where the waker of each future is
  (`Listed`).

**TransportProofs, ConnectionProofs**

- `NoStallHolds`, `ClosedMeansClosedHolds`, `SentWhenWrittenHolds`: whatever the
  sizes of the buffers and packets. The inductive invariant says which buffers of rustls
  may hold something: a packet waits in the task only `Behind` records that wait
  for the socket; nothing has come from the peer before the handshake is over
  (`Early`), and no plaintext waits after it (`Late`); on TCP there is no rustls
  (`Plain`); the main loop has `Consumed` what was decrypted.
- `ConnectionNoStall` carries `NoStall` over to the composition: each step of
  `Connection` is a step of `Transport` or leaves its variables alone.
- `ConnectionAsAsked` (`ConnectsAsAsked`), for builder calls of any number and order:
  `OptionsInv` says that every field is what the last call about it made it.

`QueueFacts` holds what the proofs share about queues: the elements of a sequence
after its head was taken or an element was added.

## 6. What is only model-checked

`SubscriptionSet`, `PacketCodec` and `PacketReader`, which declare or reach a
`RECURSIVE` operator; the refinements of `Delivery`; `ReleaseIsFinal`; all liveness
properties. Liveness and `ENABLED`, and modules that reach a `RECURSIVE` operator,
are beyond the installed provers.

## 7. Plan

1. `ReleaseIsFinal` and the refinements of `Delivery` under the assumption that ids
   do not wrap around.
2. Id wrap-around together with futures, where a new entry replaces that of a live
   future.
3. `Subscribe` composed with `SubscriptionSet`, for several topics and invalid
   patterns.

## 8. Not modelled

- **Client authentication and certificate checks** (`tls/client_auth.rs`,
  `tls/dangerous.rs`): conversions of keys and certificates for rustls and
  callbacks that return them, without state. That they may fail is part of
  `Connection`.
- **Cryptography and records of TLS**: rustls is an external component.
- **Errors and wrappers** (`errors.rs`, `wrappers.rs`): enumerations and newtypes
  without state; the variants appear as results.
- **Invalid topics in the handshake** (`mod.rs:593`): the topic of `Subscribe` is
  valid. For one that is not, the command is dropped and the call waits for ever.
- **Publishers that reuse an id in use** (`lib.rs:369`): expressible with a small
  `IdSpace`, and excluded from the passing runs (section 4).
- **Growth of `internal_pkt_queue`** against a peer that does not read, or reads
  slowly: the models bound the packets in flight.
- **The rest of the test broker**, which scripts one test each.
- **Sessions that outlive a connection**: the client keeps nothing across
  connections.
