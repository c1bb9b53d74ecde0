# Pigeon: a TLA+ verification project

Pigeon connects clients to backends that sit behind NAT, through a relay that
forwards what it cannot read. This project models the concurrent parts of the
Go implementation in TLA+, model-checks them with TLC on small instances, and
proves the most important invariants with TLAPS for every value of the
constants. It also transcribes the state machines the repository generates and checks
that everything that runs them agrees. Paths below are relative to the repository.

## 1. The system and its parts

| part | source | state | operations | talks to |
|---|---|---|---|---|
| relay hub and handlers | `session.go`, `quicserver.go`, `webtransport.go` | `hub.instances`, per-instance context and `listens` channel | register, listen, connect, match, bridge, unregister | backends, clients |
| bridge pumps | `session.go`, `streamctl.go` | stream pairs, `streamTracker` | forward messages, half-close, reset, tear down | two connections |
| listener | `api.go` | parked transports, `accepted` queue | Register, acceptWorker, Accept, Close | relay, activation |
| activation | `c/src/activation.c` through `cwire` | nonces, route, session key | authRequest, authOk, confirm | both ends |
| session: stream rendezvous | `api.go`, `stream_lifecycle.go` | pending waiters, parked streams, timers, draining flag | AcceptStream, OpenStream, GoAway, Close | application, carrier |
| session: channels | `api.go`, `cwire/session.go`, `c/src/crypto.c` | sequence numbers per name | Send, Recv | carrier |
| session: datagrams | `api.go`, `fragment.go` | queue, message ids | Send, Recv, split, join | carrier |
| LAN upgrade | `lan_upgrade.go`, `lan.go` | current carrier, pending table | offer, dial, verify, swap | session, LAN server |
| discovery | `discovery.go` | none | Enumerate, handleEnumerate | session |
| pairing | `pairing/pairing.go`, `c/src/pairing.c`, `pairing/pairingceremony_gen.go` | ceremony, code, confirmation, machine | Accept, Initiate, Code, Confirm, Close | session |
| backchannel | `backchannel/` | Unix socket, lock on the path | Listen, Accept, Dial, Close | local daemon |
| fault proxy | `faultproxy/` | upstream table, profile | forward, drop, corrupt, delay, blackhole, Close | tests |
| protocol executor and generator | `protocol/machine.go`, `protocol.go`, `gogen.go` | a table of transitions, a state | HandleMessage, Step, ExportGo | build, embedders |
| generated machines | `session_gen.go`, `protocol/*_gen.go`, `pairing/pairingceremony_gen.go` | state, path, timers' counters | HandleMessage, Step, HandleEvent | event loop, C drivers |
| ports | `c/`, `Sources/`, `android/`, `web/` | as the Go session | as the Go session | |

### How the parts interact

A backend *registers* an ID with the relay on a control connection and parks
*listen* connections under it. A client *connects* by ID; the relay takes a
parked listen out of the instance's channel and *bridges* the two connections.
Over the bridge the two ends run the *activation* exchange, which yields a
Session key, and from then on a Session carries named streams and datagram
channels. Each name has an AEAD *channel* with a sequence number per direction.
Streams that the peer opens are matched by name with the application's
`AcceptStream`. When both ends are on one network, the Session moves to a direct
connection (*LAN upgrade*). *Pairing* is a Session of its own kind that
establishes the identities in the first place. What a session and a ceremony may
do is also written down as state machines (YAML), from which Go is generated; the
package `protocol` can run the same tables as an interpreter. Tests put the *fault
proxy* between an end and the relay.

### What is hard here

- **Two goroutines between two critical sections.** `hub.register` against a late
  `unregister`; `AcceptStream` that is cancelled while a stream is being handed
  to it; `enterDrain`, which sets its flag in one critical section and rejects
  the parked streams in another; `Send`, which seals under one mutex and writes
  under another.
- **Clean-up that runs beside the work.** `Listener.Close` against workers that
  are dialling; `Session.Close` against `swapTransport`; `closeAll` against the
  goroutines that still add streams.
- **Lost connections at every step.** A listen that was taken out of the pool and
  whose client then goes away; a reset or a FIN that has to cross the bridge.
- **Timers against late answers.** The expiry of a parked stream, the offer's
  time-out against a verification that has been confirmed already.
- **Several programs for one protocol.** A transition table, its interpreter, the
  generated `HandleMessage`/`Step`, the generated `HandleEvent`, a second generated
  copy under other names, and a C driver that walks the machine beside its own
  script.
- **Two machines that see different things.** The backend falls back on missing
  pongs, the client on a read error or an application's order; each may be on the
  direct path while the other has left it.
- **Things that must eventually happen.** Nobody waits on a dead instance; a
  bridge ends; `Close` releases every waiter.

`PROJECT.json` lists them one by one, with the line at which each one bites and
the properties that would catch it.

## 2. Modules

A step of a model is the code between two points at which another goroutine can
be observed: a mutex, a channel operation or a `select`, a context, the network.
Names of connections, streams and calls are reused once nothing in the program
refers to the earlier one, so that finite sets stand for unbounded sequences of
them. Operators called `X_Something`, each after a comment that begins "Mutant",
are deliberately wrong variants of `X`; no specification uses them. They show that
a property can fail.

| module | models | abstract specification | proofs |
|---|---|---|---|
| `RelayHub` | `hub`, `instance`, the handlers of both servers, the bridge as a link | `RelayService` | `RelayProofs` |
| `BridgeStreams` | `bridge`, `bridgeStream`, `streamTracker`, stream wrappers | `StreamPipe` | `BridgeStreamsProofs` |
| `StreamRendezvous` | `acceptLoop`, `deliverIncomingStream`, `AcceptStream`, parking, `GoAway` | | `StreamRendezvousProofs` |
| `ListenerPool` | `Register`'s workers, `Accept`, `Listener.Close` | | `RelayProofs` |
| `StreamAead` | `Stream.Send`, `Stream.Recv`, the strict channel of a name | | `StreamAeadProofs` |
| `LanUpgrade` | `offerLAN`, `handleLANOffer`, `LANServer`, `swapTransport`, `Session.Close` | | `LanUpgradeProofs` |
| `FaultProxy` | `faultproxy.Proxy` with one client | | |
| `DatagramParts` | `Datagram.Send`/`Recv`, `fragment.go`, the session's datagram channel, over `FaultProxy` | | `DatagramPartsProofs` |
| `Ceremony` | `pairing.go`'s Pairer and Ceremony, the drivers of `c/src/pairing.c`, over `PairingMachine` | | `CeremonyProofs` |
| `ProtocolMachine` | what a transition is, what `machine.go` and the generated code do with one | | |
| `SessionMachine`, `ProtocolSessionMachine`, `PathSwitchMachine` | the machines of `session_gen.go`, `protocol/session_gen.go`, `protocol/pathswitch_gen.go` | | |
| `PairingMachine`, `ProtocolPairingMachine` | the machines of the two `pairingceremony_gen.go` | | |
| `MachineExecutors` | every machine in every executor, on the same inputs | | `SessionPathProofs` (for every table) |
| `SessionPath` | the backend's and the client's session machine, event loops and links | | `SessionPathProofs` |

The `MC…` modules only give values to constants for TLC.

**RelayHub.** `pc[x]` is where the handler of connection `x` is. `slot` is
`hub.instances`; an instance is named by the control connection that registered
it, which is the pointer identity `unregister` checks. `target` is what `hub.get`
returned, and goes stale as it does in the code. The two servers' handlers differ
in how they write and refuse, not in what they do to the hub, and share the
actions. `Match` is the rendezvous on the unbuffered `listens` channel,
`ParkEnds` and `MatchEnds` are the other arms of the two selects, `AckConnect` is
the write that may fail after the listen has been taken. `RelayService` says only
who owns an ID and who is linked to whom.

**BridgeStreams.** A bridged stream is two QUIC streams, each with two halves; a
half has a queue, an end (`open`, `fin`, `reset`) and a mark that its reader has
cancelled it. `loop` is the goroutine that accepts streams of one end, `pump` one
`bridgeStream`. The teardown is the sequence in the code: `cancel`, `closeAll`
stream by stream, close the client, close the backend, `wg.Wait`. The primary and
datagram pumps appear only through the fact that they have ended
(`PrimaryPumpOver`, `DatagramPumpOver`). QUIC's streams themselves are external: a
`CancelWrite` replaces a FIN unless the FIN has been read, and may come too late
in any case (`AfterCancel`). `StreamPipe` is one stream with two ends, as the
applications see it.

**StreamRendezvous.** `pending` and `buffered` are the two maps under `streamMu`,
`ch` and `done` belong to a waiter, `timers` are the running expiry timers. An
accept loop that has popped a waiter sends to it after the unlock
(`DeliverPops`, `SendToWaiter`, `CheckDone`), and a cancelled `AcceptStream` leaves
in three steps (`RemovePending`, `MarkDone`, `Abandon`). Two accept loops run side
by side, as they do after a LAN upgrade.

**ListenerPool.** `wpc` is where a worker is: dialling, backing off, tracking the
listen, activating, offering the Session to `accepted`. `activate` is a step that
succeeds, fails because of the client, or is cut with the connection.
`CloseCancels`, `CloseControl` and `CloseSweeps` are the three parts of `Close`.

**StreamAead.** One direction of one name. A ciphertext is its sequence number and
the number of the `Send` that made it; it opens when the number is the expected
one. `Recv` leaves its reader goroutine behind when its context ends (`orphan`).
Two readers of one stream may each get part of a message (`torn`).

**LanUpgrade.** `pending` is the table of the `LANServer`, keyed by the client's
instance ID; `taken` is the entry that `handleConn` took out. `carrier[s][e]` is
`s.transport` at an end. `swapTransport` installs the connection and schedules the
close of the old one (`CloseOld`).

**FaultProxy and DatagramParts.** `FaultProxy` has the goroutines of the proxy:
`readLoop` and the upstream's reader, each with the packet in its hands and the
number `pktCount` gave it, the timers of delayed packets (`held`), `blackholeLoop`,
`UpdateProfile`, and `Close` in its steps (socket, walk over the clients, wait).
`getOrCreateUpstream` after the walk is `upstream = "late"`. A fault with a
probability is a choice. `DatagramParts` puts the Session's datagrams on it:
`Send` splits with the code's arithmetic (`maxAppChunk`, `Split`), takes a part's
number under the channel's lock and hands it to the transport in a later step, before
which another name's `Send` may have come (`overtaken`). All names share one
channel, which refuses a number below the highest it has seen (`refused`); a full
queue drops. `slowed` remembers that the link has held back a packet.

**Ceremony.** One acceptor and one initiator. `phase[s]` is where the C driver of a
side is, `mach[s]` the machine it steps beside it, `up[s]` its carrier, `code`,
`result` and `caller` what the application sees. `Close` reads the fields under the
mutex and ends Session and listener after it (`CloseReads`, `CloseEnds`);
`runAcceptor` stores the Session in between or afterwards. `waitConfirm` selects on
the confirmation and the context. The C scripts (`pair_send`, `pair_recv`) are
modelled from the calls in `pairing.go` and from `c/src/pairing.c`; a message has
the kind the script expects, keys and commitments are data.

**Machines.** `ProtocolMachine` defines a transition as a record and two ways to
run a sequence of them: `MachineDispatch` (`tryTransitions`: a missing guard or
action is an error) and `GoDispatch` (generated: a missing guard is false, a
missing action is skipped, an update that the generator cannot translate is left
to the action). Each machine module transcribes one generated file three times, from
its own lines: the table, the `switch` of `HandleMessage` and `Step`, and
the `switch` of `HandleEvent` with the commands it returns. `MachineExecutors` gives
all of them the same input, and the copy in the other package its translation.

**SessionPath.** The backend and client machines of `session_gen.go`, driven
through `HandleEvent`. The event loop that carries out the commands is not in the
repository; it is modelled from the commands and the events that the machines declare
(`start_x` starts a reader or a timer, `stop_x` ends it, a timer that runs may
expire, a reader sees the end of its connection). The relay delivers; direct
connections are made by dials, break, and lose datagrams.

## 3. Runs

| run | instance | distinct states | shows |
|---|---|---|---|
| `relay` | 1 ID, 2 backends, 1 listen, 2 clients | 98,176 | a live owner keeps its ID, refinement of `RelayService`, four liveness properties |
| `bridge` | 1 stream, header and request, client may leave, backend's leg may be full | 129,677 | refinement of `StreamPipe`, a Reset is forwarded, the bridge ends |
| `rendezvous` | 2 names (1 reserved), 2 streams, 1 waiter, 2 loops, 1 GoAway, cap 1 | 212,386 | no stream is leaked or in two hands; a drain leaves nothing parked; every stream settles |
| `listener` | 2 workers, 3 connections, queue of 1 | 312,128 | one holder per connection; `Close` ends workers and idle listens |
| `aead_channel` | 2 senders, 2 receivers, 2 streams, 3 Sends | 1,015,046 | what opens is what was sealed, in order, without a gap |
| `aead_single` | 1 sender, 1 receiver, 2 streams, 4 Sends | 15,329 | without concurrent Sends every message is readable and arrives |
| `lan` | 2 Sessions of one client; one may time out and be closed | 30,805 | a Session is carried by its own connection only; the undisturbed Session completes |
| `datagram` | 2 names, 2 Sends of 18 or 19 bytes, 4 events, 2 profiles, queue of 1 | 1,188,066 | what is received is in order and fits together; a refusal has a cause; `Proxy.Close` returns |
| `ceremony` | 1 acceptor, 1 initiator, 1 `Confirm` each | 205,106 | a record takes both users; driver and machine agree; the acceptor outlasts its peer; `Close` unwinds |
| `machines` | all 13 generated machines; all hooks, none, or one missing | 27,978 | interpreter, generated code and the copy in the other package agree |
| `session_path` | 2 direct connections, 2 candidates messages, 1 fault | 63,601 | machine, readers, timers and connections agree; nobody stays alone on a path; the pair settles |

One run ends in a violation. `ceremony_close` (`CeremonyDeferClose.cfg`) states what the
comment on `runInitiator` says, that its order keeps `Ceremony.Close` from racing
the peer (`CloseSparesPeer`); `PROJECT.json` quotes the line under "findings". The
initiator's `Confirm` can return while its last message is still on its way, and
the `Close` that follows cuts the carrier: the acceptor's ceremony fails.

Five more configurations, which are not in the list of runs, show what a comment or the
repository's README says of the older parts and the code does not do. Each takes
seconds to reproduce, as `tlc -config <cfg> <module>`:

| configuration | module | property | what happens |
|---|---|---|---|
| `BridgeStreamsRpc.cfg` | `MCBridgeStreams` | `EofMeansDone` | over WebTransport the bridge's half-close sets a past read deadline, so the return path ends before the backend has answered |
| `StreamAeadConcurrentSend.cfg` | `MCStreamAead` | `ReadableUnlessReset` | two concurrent `Send`s are sealed in one order and written in the other; the strict channel refuses the first |
| `LanUpgradeTimeout.cfg` | `MCLanUpgrade` | `CarriersAlwaysMeet` | the offer times out after the client was told "ok": the two ends are on different carriers |
| `LanUpgradeClose.cfg` | `MCLanUpgrade` | `CloseReleasesCarrier` | a swap that runs after `Session.Close` installs a connection that nothing closes |
| `ListenerPoolSessions.cfg` | `MCListenerPool` | `AcceptedSessionUnaffected` | `Listener.Close` cancels the context that accepted Sessions hang below |

`LanUpgrade`'s passing run states the same agreement for the Session whose offer
does not time out (`CarriersMeet`), and `StreamAead`'s passing run has one sender.

The invariants that are proved and follow from no listed property
(`MatchedListenHasOneClient`, `OpenConnectionHasHandler`, `SequenceNumbersUnique`,
`AbandonedChannelIsEmptied`, `NoWaiterBesideParked`, `AppStreamNeverReset`,
`SwapIsConfirmed`, `SweepSparesSessions`) and the inductive invariants behind them
are left to TLAPS; add them to a module's configuration to check them with TLC too.

### Bounds

- *Relay.* Two controls for one ID make every take-over and every late unregister;
  two clients for one listen make the contention. A second ID adds no interaction,
  as no step looks at two slots; the proofs cover any number.
- *Bridge.* `Window = 1` makes every pump block on every write. Two messages are
  the fewest for which one is in the pump or behind it while a FIN or a Reset
  arrives. One stream is enough for order, FIN and Reset, which concern one stream
  at a time; it is not enough for an accept loop that has returned (see below).
- *Rendezvous.* With `Cap = 1` the second stream meets a full buffer. Two loops and
  one waiter are what the hand-over race needs. One waiter at a time serves any
  number of successive calls.
- *Listener.* A queue of one and two workers make a worker stall on a full queue;
  a third connection lets one be tracked, one queued and one with the application.
  The pool of the code is 8 with a queue of 8 (`listenPoolSize`).
- *AEAD.* Three or four Sends leave one sealed, one on the wire and one read.
- *LAN.* Two Sessions with one instance ID share an entry of the pending table,
  which is the only state that Sessions share.
- *Datagrams.* With `MaxDatagram = 53`, 18 bytes are one datagram and 19 are the
  shortest message in parts, which is the boundary of `maxAppChunk`; two Sends make
  a whole and a split message, or two split ones, meet. `MaxEvents = 4` counts parts,
  closes and profile changes together. One profile loses, corrupts and delays; the
  other goes dark, drops a range and drops all after a number. `MsgIDSpace = 8` is above
  the ids the run uses. The proofs have no bound on lengths, names or profiles.
- *Ceremony.* A ceremony has two sides by nature. One `Confirm` per side: a second one
  is described below.
- *Machines.* Any sequence of inputs, with limits as in the protocol's documentation
  (3 ping failures, backoff cap 5); only `CodeAttempts`, which nothing bounds, is
  capped (`MaxAttempts`).
- *Session path.* `MaxBackoffLevel = 2` is above every level that is reached. Two
  connections and two queued candidates let a new offer cross the check of the
  old connection. One fault (a break or a forced fallback) beside any number of lost
  datagrams, time-outs and refreshes.

`relay` and `session_path` have deadlock checking on: a name can always connect
again, and a session goes on. The other models stop when the bridge has returned, the Session or the listener is closed,
the ceremony is over, a machine is in a final state, or the bounded Sends are made.

### Fairness

Weak fairness of goroutines only: a handler, pump, worker, accept loop, timer or
closer that can run does run (Go's scheduler), and QUIC's idle time-out ends
connections whose peer is gone, so that a lost connection is noticed. No fairness
is assumed of applications, with two exceptions: an end of a bridge reads what has
arrived (`BridgeStreams`), and a receiver calls `Recv` again while there is
something to read (`SentIsReceived`); both state what is delivered to someone who
listens. No fairness is assumed of clients, backends or losses. A `select` with
several ready arms may take any of them; the actions for its arms are grouped
under one fairness condition, so that a particular arm is never forced. There are
two additions in the newer modules. In `FaultProxy`, `blackholeLoop` selects on its
timer and on `done`; strong fairness says that it does not choose the timer for ever
once both are ready, as Go's `select` picks at random. In `SessionPath`, timers that
run expire, readers see the end of their connection, and dials and checks end;
nothing makes a dial or a check succeed, a ping arrive or a network gather
candidates in time.

## 4. Proofs

Each theorem holds for every value of the constants that satisfies the module's
named assumption (sets disjoint, `None` not a member, capacities positive).
Each proof has the same shape: `Init => Inv`, one lemma per action (or per
group of actions that touch the same state) for `Inv /\ [Next]_vars => Inv'`, and
a temporal step that combines them.

- **RelayProofs**, the relay. `RelayInvariant`: types, `SlotsConsistent` (an ID's slot
  belongs to a handler that will still unregister it), `WaitersConsistent` (a listen
  or client that waits holds an instance of the ID it asked for),
  `PairsConsistent` (a client that has been matched has a listen whose handler has
  let go of it). The last one is needed because the listen's own handler returns at
  the match, and from then on the client's handler alone must close both. From it:
  `LiveOwnerAlwaysKeepsSlot`, `MatchedListenAlwaysHasOneClient`,
  `OpenConnectionAlwaysHasHandler`. `RelayImplementsService` shows step by step
  that the hub implements `RelayService` (`StepRefines`).
- **StreamRendezvousProofs.** `RendezvousInvariant`.
  That a stream has one holder is not inductive alone: `QueuesConsistent` and
  `LoopsConsistent` say what the queues and the loops may hold, and
  `HandoverConsistent` relates the popped waiter, its `done` flag and its channel.
  The theorems on `EveryStreamHasOneHolder`, `AbandonedChannelIsEmptied`,
  `NoWaiterBesideParked` and `DrainLeavesNothingParked` follow; the action property
  `AppStreamNeverReset` follows from the one-holder invariant.
- **RelayProofs**, the listener. `ListenerInvariant`, with `WorkersConsistent` (which
  program points hold a connection) and `ClosedForGood`; from it
  `OpenConnAlwaysHasOneHolder` and `SweepAlwaysSparesSessions`.
- **StreamAeadProofs.** `AeadInvariant`, with `InFlightSealed`: every ciphertext
  with a sender, on a wire or with a reader was sealed, below the send counter.
  From it `SequenceNumbersAlwaysUnique` and `AlwaysOpenedAsSealed`. The bound on
  the number of Sends is a constant, so the result holds for every number.
  Two more need an application that sends from one goroutine and receives in one
  (`OneSender`, `OneReceiver`): with two senders the numbers and the wire may be in
  different orders, which `StreamAeadConcurrentSend.cfg` shows.
  `RecvAlwaysReturnsNext` (order, no gap) also needs receivers that do not give up a
  `Recv` (`Cancellable = {}`; section 5 says why). It rests on `SealedInTurn` and
  `ReturnedInTurn`, which tie a number to its Send and the opened messages to the
  returned ones, and holds on any number of streams and after any Reset.
  `AlwaysReadableUnlessReset` allows cancelled Recvs and rests on `SoleStreamInv`:
  while one stream of the name is in use, the numbers with the sender, on the wire
  and with the reader follow the receive counter without a gap.
- **LanUpgradeProofs.** `LanInvariant`, with `FiledByPeer` and
  `HandshakeConsistent` (which points of the two handlers go with which state of
  the connection and of the confirmation); from it `CarrierAlwaysOwn` and
  `SwapAlwaysConfirmed`, for any number of Sessions per peer. `UpgradeInvariant` adds
  what `RefusalExplained` and `CarriersMeet` need: `StagesInOrder` (offer, dial,
  server and swaps of a Session come in this order), `EntryWaits` (until the
  server has looked, the challenge of an offer is on file) and `HandshakeDecides` (a confirmed dial takes both ends
  over, an offer that is over without one takes none). From it
  `RefusalAlwaysExplained` and `CarriersAlwaysMeetInTime`.
- **DatagramPartsProofs.** `DatagramInvariant`, with `TakenBehind` (what the channel
  has delivered is in order and below the number it expects) and `LinkInOrder`: as
  long as the link has held nothing back and no Send has overtaken another, the
  packets with the proxy's reader, at its socket and at the receiver are in the order of
  their numbers, all ahead of the receiver. The latter is needed because a refusal
  depends on everything that is still under way. From it `PartsAlwaysInOrder` and
  `RefusalAlwaysHasCause`, for every set of names, lengths and profiles: loss,
  corruption, blackholes and `Close` never make the channel refuse a part.
  `PartsAlwaysRejoin` says that messages can be put together from what arrives. Its
  invariant `PartsTraced` traces every packet, wherever it is, to a part that its
  Send cut, with the id the counter gave that Send. Three assumptions: a datagram
  leaves a byte for the payload beside the headers (`MaxDatagramPayload` is 1200,
  the headers take 43), there are fewer Sends than message ids (`MsgIDSpace`,
  2^32 in the code as `nextFragMsgID` is an `atomic.Uint32`; an id is reused after
  that), and `NoPacket` is not a packet.
- **BridgeStreamsProofs.** `BridgeKeepsOrder`, for any legs: `PipelineOrdered` (what
  was received, what is in the out half, in the pump and in the in half are the
  messages of the stream, in order and without a gap), `ResetHasCause`,
  `PumpsStarted`. The rest needs `WebTransport = {}`, since `closeWritePair` sets a
  past read deadline on a WebTransport leg and `BridgeStreamsRpc.cfg` shows what
  becomes of the return path: `BridgeInvariant` (with `deadline = {}`, a FIN on one
  leg stands for a FIN on the other with everything before it forwarded),
  `EofMeansDoneOverQuic`, and `BridgeImplementsPipe`: every step of the loops, the
  pumps and the teardown is a step of `StreamPipe` or leaves the applications' view
  as it is. `PipeStep` sorts the steps; what the teardown does to a stream is
  `StreamPipe`'s `Cut`.
- **SessionPathProofs.** TLC's run has two connections and one fault; the proof has
  any number of both, and any limits of the health checks. Every case of the two
  `HandleEvent` switches is sorted by what it does to the direct path (`BackendRows`:
  enters, leaves, leaves it alone; `ClientRows`: also off it before and after), a
  trigger without a case included. A turn of an event loop is then one of few kinds
  (`BackendTurnKeeps`, `ClientTurnKeeps`), and every action is such a turn, a broken
  link or a lost datagram. `PathInvariant` proves `PathInv`: `BackendPathHeld` and
  `ClientNeverAlone` with an acknowledgement under way only on the connection that
  the backend holds, no dial running once the client has a connection to check, and
  backoff level 0 on the direct path. Without the first the client could take
  a connection that the backend has given up; the last bounds the level after a
  fallback by one. `BackendPathAlwaysHeld` and `ClientIsNeverAlone` follow.

- **SessionPathProofs**, the executors. Three theorems about the framework of
  `protocol/`, for every table, machine record and trigger, whatever the guards say
  and the action returns. `InterpreterMatchesGenerated`: with the hooks that the
  table names registered, `MachineDispatch` (`machine.go`) and `GoDispatch` (what
  `gogen.go` writes) end in the same state. Both stop at the same transitions, since the two
  differ only in what they make of a hook nobody registered; and both leave the state
  as it was if the action fails. `AnyStepMatchesGenerated`: the same for `Step("")`,
  whatever event the map iteration meets first. `RegroupedSwitchAgrees`: two switches
  with the same cases leave the same record if the cases of one state and one trigger
  are in the same order, since the least matching index of one is mapped to
  that of the other; this is why the generator may split `HandleEvent` into
  `HandleMessage` and `Step`.
- **CeremonyProofs.** `CeremonyInductive` proves `CeremonyInv`, with and without
  `DeferClose`. A C driver is a straight line, so its position determines nearly
  everything: the state of its machine (`StateAt`), that its user has confirmed
  (`AskAt`), and how many messages it has sent and taken (`SentAt`, `TakenAt`). `InStep`
  says the first two. `MailInOrder` says that what is on the wire to a side is the part of
  the peer's messages that was sent and not taken, or, once a carrier was cut,
  that everything on it was sent and no more was taken than sent; the message a driver waits for is
  then the one that comes (`AwaitedComes`), and a driver that waits at an empty,
  ended stream has a peer that failed or a carrier that was cut (`EmptyWaitHasCause`).
  `EndsHaveCauses` traces a cut carrier, a FIN and a failed driver to the context
  or the `Close` behind them, and `RecordDrained` a record handed out to the drain.
  `BeforeInitiate` is needed for the carrier that `Initiate` creates. Where the
  machine meets the driver is a matter of the tables: `AcceptorMessages` to
  `InitiatorSteps` compute each case of the generated switches, `ScriptFits` each entry of
  the scripts. From the invariant follow
  `CeremonyRecordNeedsBothUsers` (a record needs the peer's last message, which is sent
  after the peer's user has confirmed), `CeremonyDriverFollowsMachine`,
  `CeremonyAcceptorOutlastsPeer` and `CeremonyAgrees`: one side paired and the other
  failed only after the acceptor was cancelled or the initiator closed. The last is
  `PairingAgreed`, which no run lists; TLC finds it, and `CeremonyInv`, to hold in all
  states of the run `ceremony`. The exception for the initiator's `Close` is the one
  that `ceremony_close` exhibits.

Only model-checked: every liveness property (fairness is out of the prover's reach).
`ExecutorsAgree` and `TwinsAgree`, which are about the thirteen machines of the
code: that their tables, each transcribed from several places and tens of rows long, have the
same cases. `SelectSeq`, by which the executors index a table by state, is recursive, so
the theorems above are about tables before they are indexed; TLC's run goes through
every machine, state, trigger and choice of a missing hook.

## 5. Known and not shown by a run

- A second stream of a name shares the channel of the first (`api.go:670`), so
  that messages of the two refuse one another, while `api.go:688` speaks of
  opening a stream by name without a limit; `SharedChannel` excludes the case from
  the reliability properties.
- A `Recv` that was cancelled leaves a reader which takes the next message and
  drops it (`api.go:1061`); `Cancellable` is empty in `aead_single`.
- Two Sessions of one client share the pending entry of the LAN server
  (`lan.go:150`), so that one of them is refused; `RefusalExplained` says that this
  is the only reason.
- When `OpenStream` on the other leg fails, the bridge's accepting goroutine
  returns for good (`session.go:233-237`, `258-262`) and later streams of that end
  are not bridged. One datagram that the other leg cannot send ends that direction
  of datagrams likewise (`session.go:203`, `218`).
- A connection that is lost in the middle of a stream reaches the other end as a
  FIN, not as a Reset; `StreamPipe` promises nothing about a stream that is cut.
- A Reset that follows a `CloseWrite` may not be forwarded; `ResetForwarded` is
  about an end that was still writing.

Pairing:

- A ceremony's driver that waits in `pair_recv` waits for the stream, not for the
  context; `Pairer.Close` only cancels the context, while the comment at
  `pairing/pairing.go:144-146` says it "still aborts every in-flight ceremony".
  `Ceremony.Close` closes the Session and does end it (`CloseUnwinds`).
- The result channel holds one value and is never closed, so a second `Confirm`
  after the first has returned waits until its own context ends
  (`pairing/pairing.go:282`).
- `Ceremony.Close` between `Accept` and the store of the Session in `runAcceptor` finds
  no Session to close, and the driver may wait on one that nothing closes. This is
  the exception in `CloseUnwinds`.

Datagrams and the fault proxy:

- Concurrent `Send`s of two names number their parts in one order and may send them in
  the other; the channel then drops a part on a link that loses nothing. This is
  `overtaken` in `RefusalHasCause`.
- A client that the proxy's `readLoop` adds after `Close` has walked the table keeps its
  reader, and `Close` waits for it. This is the exception in `CloseReturns`.
- `UpdateProfile` says "previous faults don't accumulate"
  (`faultproxy/faultproxy.go:208-210`), but the `blackholeLoop` of an earlier profile
  goes on switching the link off and on. It also reads the profile without the lock.
- A profile with `Reorder` and no `Latency` calls `rand.Int64N(0)`
  (`faultproxy/faultproxy.go:375`), which panics; the model's profiles have a delay
  where they reorder.

Machines (`docs/session-protocol.md` against `session_gen.go`):

- Line 360: the backoff level "increments on `candidates_timeout` or max-failure
  fallback". The table raises it on both, but the generator leaves that update to the
  transition's action, and the transition on `candidates_timeout` has none. As a direct
  path that works resets the level, it never passes one (`BackendPathHeld`).
- Line 250: "every transport state can send and receive data". New candidates in
  AltActive take the client to PairDialing and close its connection, while its active
  path is still the direct one (`ClientActivePathOpen` in `SessionPath` is violated).
- Line 342: "Every resource start has a corresponding stop". A read error in AltActive
  leaves the pong timer running (`NoPongTimerOffPath` is violated).
- Line 327: a pong cancels the pong time-out; in AltActive the machine ignores it, and
  only AltDegraded has the transition.
- An unregistered guard or action is an error in `machine.go` and false or nothing
  in the generated code, so `ExecutorsAgree` compares the interpreter only where all
  hooks are registered.
- `Step("")` says "first matching guard wins" (`protocol/machine.go:131-132`); it collects the
  transitions from a map, whose order is not that of the table. `StepAny` takes any.
- The generator leaves out the leads-to properties of the YAML files; `PathSettles`
  states them.

Others:

- A cancelled `Accept` of the backchannel sets a past deadline on the listener
  (`backchannel/server.go:155`), from a goroutine that may run after `Accept` has returned,
  and only an `Accept` that succeeds lifts it: the next one may fail at once.
- `Connect` derives the Session's context from the context of the dial
  (`api.go:510`), so that a caller who cancels after connecting ends the Session.

## 6. Not modelled, and the plan

- *Activation* (`c/src/activation.c`, `activate`, `Connect`): one request and one answer
  whose content is cryptographic. `ListenerPool` has it as a step that succeeds, is
  refused or is cut.
- *Discovery*: one request and one answer on a reserved stream; the rendezvous it uses
  is in `StreamRendezvous`.
- *Backchannel*: one local peer at a time; see above for its one hazard.
- *Cryptography* itself: a ciphertext opens with the right number. *Wire codecs*: a part,
  a greeting or a header is what it decodes to.
- *Generators* other than Go's, the YAML reader, composed actors (no protocol has one):
  text processing.
- *The C transport and listener* and *the ports* to Swift, Kotlin, TypeScript: the same
  protocol in other languages. The C drivers of pairing are modelled.
- *Command line, status pages, QR codes*: input, output and pure checks.

`PROJECT.json` gives the reason for each component. What would add most next:

1. Runs of `BridgeStreams` with several streams (an accept loop that has returned);
   the proofs cover them.
2. `Ceremony` with any number of `Confirm`s a side; the results on records do not
   depend on it, `CloseUnwinds` does.
3. Composition of `RelayHub` with `ListenerPool` (the relay's side of a listen), with
   activation between them, and of `LanUpgrade` with `DatagramParts` (two datagram loops).
4. `Backchannel`: socket life cycle and the deadline.
