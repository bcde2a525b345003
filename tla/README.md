# A TLA+ verification of go-l2tp

go-l2tp implements L2TPv2/v3 (RFC 2661, RFC 3931) in Go. This directory holds
TLA+ models of its code, TLC configurations that check them on small instances,
and TLAPS proofs about them for every instance. Paths below are relative to
`src/`.

## The system

| Part | Source | State | Concurrency | Module |
|---|---|---|---|---|
| sequence numbers, slow start | `l2tp/transport.go` 108-202 | `slowStartState` | a mutex per method | `SeqNum`, `SlowStart` |
| reliable transport | `l2tp/transport.go` | queues, timers, channels | sender, receiver, timer and caller goroutines | `Transport` |
| control plane socket | `l2tp/controlplane.go` | a file descriptor | shared by both transport goroutines | as its users see it |
| FSM driver | `l2tp/fsm.go` | current state | run by its owner | `Fsm` |
| dynamic tunnel and sessions | `l2tp/l2tp_dynamic_*.go` | FSMs, flags, session registry | one goroutine each, plus one per session message sent | `DynamicTunnel` |
| context | `l2tp/l2tp.go` | tunnel registries, IDs | locks, user goroutines | `Context` |
| event handlers | `l2tp/l2tp.go` 490-526 | the list of handlers | a read-write lock | `EventHandlers` |
| static and quiescent tunnels | `l2tp/l2tp_static.go`, `l2tp_quiescent.go` | data planes, sessions | `xportReader` against the user | `QuiescentTunnel` |
| codec | `l2tp/msg.go`, `l2tp/avp.go` | none | none | `Avp`, `ControlMessage` |
| netlink data plane | `l2tp/nl_dataplane.go`, `internal/nll2tp` | a netlink connection, kernel objects | callers and `runConn` | `NlDataPlane` |
| configuration | `config/config.go` | the tree being loaded | none; map order is random | `Config` |
| kl2tpd | `cmd/kl2tpd` | pppd children | event handlers, waiters, signals | `Kl2tpd` |
| null data plane, ql2tpd | `l2tp/null_dataplane.go`, `cmd/ql2tpd` | none | none | no: stubs; start and wait |

A tunnel owns one transport. The tunnel goroutine reads `recvChan`, steps its
FSM and calls `send()`; sessions exchange messages with the tunnel goroutine
over unbuffered channels; tunnels and sessions report to the context, which
calls the event handlers (kl2tpd's starts and stops pppd).

The models are stacked in the same way. `DynamicTunnel` uses of the transport
what `Transport` is shown to provide (a message is accepted, and answered once
it is acked or the transport fails). `DynamicTunnel` implements `TunnelEvents`,
the order of events the application may rely on, and `Kl2tpd` is driven by
`TunnelEvents`.

## Modules

| Module | Role |
|---|---|
| `SeqNum` | `seqIncrement`, `seqCompare` over a sequence space of `SeqSpace` (2^16 in the code) |
| `SlowStart` | `slowStartState` and its methods |
| `Transport` | two transports and the network between them |
| `ControlChannel` | what the transport promises: each message taken once, in order, delivered in order, acked only when taken |
| `Fsm` | `fsm.handleEvent` |
| `DynamicTunnel` | a dynamic tunnel with its sessions, over a transport that may fail |
| `TunnelEvents` | what the application sees: events of a tunnel and of sessions |
| `Context` | creating, registering and closing tunnels |
| `EventHandlers` | delivering events under `evtLock` |
| `QuiescentTunnel` | quiescent and static tunnels with their static sessions |
| `Avp`, `ControlMessage` | the codec, on sequences of bytes |
| `NlDataPlane` | data planes, the netlink connection and the kernel's tables |
| `Kl2tpd` | the daemon over `TunnelEvents` |
| `Config` | loading a configuration |
| `MC*` | values of the constants for TLC |
| `SlowStartProofs`, `TransportTypes`, `TransportStepProofs`, `TransportSendProofs`, `TransportProofs` | proofs about the transport |
| `DynamicTunnelProofs`, `NlDataPlaneProofs`, `Kl2tpdProofs` | proofs about these modules |

Definitions whose name says how they differ from the one they follow
(`seqCompareNoWrap` and the like) are the faulty variants each property has been
tried against; no specification uses them.

### State and actions of `Transport`

Each variable is a function of the end of the connection and keeps the name of
the struct field it models. `xmit` holds every `xmitMsg` in order of creation,
and the queues hold indices into it. `tx` and `rx` say where the two goroutines
are. Timers follow the semantics of the Go version in `go.mod` (1.13): `Stop`
and `Reset` leave a tick that is already in the channel, so a timer is a record
of `armed` and `fired`, and of `on`, whether the transport has one (no hello
timer runs without a `HelloTimeout`); a retry timer that fired is a goroutine
blocked on `retryChan`. `hist` is history the program does not have, used by the
properties, by `MaxLife` and by nothing else.

The channels are unbuffered, so a channel operation is a joint step. A step is
the code between two points another goroutine can observe. `sendMessage` is two
steps: reading `ns` and `nr` and writing the frame (`TxHead`, `Retry`, `Hello`),
then the rest (`AfterWrite`), because the answer may arrive before `incrementNs`.

| Code | Actions |
|---|---|
| `sender` | `AcceptSend`, `SeeClosed` (sendChan), `TakeNr`, `SeeReceiverGone` (nrChan), `Retry` (retryChan), `Hello`, `ExplicitAck` |
| `processAckQueue`, `processTxQueue` | `AckHead`, `TxHead`, one iteration each |
| `sendMessage` after the write, and its callers | `AfterWrite` |
| `down`, `closeReceiver` | `goDown`, then `Drain`, then `FinishDown` |
| `receiver`, `recvFrame` | `ReadFrame`, `ReadBadFrame`, `ReadError` |
| `processRxQueue`, `dequeueRxMessage` | `ProcessRx` |
| `recv`, `close` | `RecvCall`, `Close` |
| runtime timers | `AckTimerFires`, `HelloTimerFires`, `RetryTimerFires` |

The network is a set of frames. A frame that is never read is lost, frames are
read in any order, and in a workload with `duplicates` a frame may be read any
number of times.

Abstractions: payloads, encodings and durations are left out (a running timer
may fire at any moment). A datagram carries one message, which is what the
transport itself writes. `ReadBadFrame` stands for every datagram the parser
rejects. The test at `transport.go:280` for an unknown mandatory AVP has its
arguments to `strings.Contains` swapped, so it is false for the parser's errors
and the model has no such exit. The user does not call `close()` twice, nor
`send()` after or concurrently with `close()` (the code panics).

### `DynamicTunnel`

`tun` and `ses[s]` are the structs, each with a `pc` that says where its
goroutine is. A channel operation is a joint step; everything a handler does up
to the next channel operation, or call another goroutine can observe, belongs
to the step before it, including nested `handleEvent` and `fsmActClose` calls.

| Code | Actions |
|---|---|
| `runTunnel` | `Open`, `SeeClose` (closeChan), `TakeMsg` and `SeeTransportDown` (recvChan), `TakeNewSession` (eventChan), `TakeSend` (sendChan) |
| `handleV2Msg` | inside `TakeMsg`; `BadMsgAgain` is its second half after a message that fails validation |
| the tunnel's `send` | `Accept`, `SendOnClosed`, `TunnelSent` |
| `fsmActOnSccrp` | `TakeMsg`, `TunnelSent`, `TellTunnelUp` for each session, `ReportUp` |
| `fsmActForwardSessionMsg` | `Forward` |
| `fsmActOnStopccn` | `StopccnDrain`, `StopccnTimeout` |
| `fsmActClose`, `closeAllSessions` | `TakeSessions`, `Kill` and `Killed` per session, `DrainSend` meanwhile, `CloseDp`, `CloseRest` |
| session goroutine | `TellTunnelUp`, `Forward`, `SeeKill`, `SeeSessionClose`, `Answered` |
| `fsmActOnIcrp` after ICCN | `CreateDp`, `GetInterfaceName`, `ReportClosed` (the session it has closed is reported up) |
| `NewSession`, `Close` of both | `NewSession`, `CloseSession`, `CloseTunnel` |
| peer and transport (external) | `PeerSends`, `TransportFails`, `SessionSent` |

### The other modules

- `Context`: each `New...Tunnel` call runs through its checks, the choice of an
  ID, construction (which may fail at each stage) and `linkTunnel`; a tunnel may
  end by itself; `Close` of a tunnel and of the context. Unlinking deletes by
  name and ID, as the code does. Names and addresses are model values.
- `EventHandlers`: `evtLock` with Go's rule that a waiting writer holds back new
  readers; a callback may wait for another goroutine's event. `registered` is the
  list the application means, `eventHandlers` the one the code keeps.
- `QuiescentTunnel`: `NewSession` in its two visible steps (data plane and
  event, then `linkSession`), `Close` of session and tunnel, `xportReader`.
- `Avp`, `ControlMessage`: encoding, parsing, lookup, the nine builders, which may
  refuse (`BuildFails`), and validation; a behaviour builds messages, puts them in
  a datagram (possibly cut, or with AVPs added or left out) and parses it.
- `NlDataPlane`: `execute` is a send on `reqChan` and a receive from `rspChan`;
  `runConn` serves one request at a time; the attributes are translated, and the
  kernel (external) stores what they say and deletes sessions with their tunnel,
  and a managed tunnel with its socket, which another goroutine may close at any
  time (`CloseSocket`).
- `Kl2tpd`: `HandleEvent`'s cases. Starting pppd, looking up the entry of the
  tunnel and writing that of the session are steps of their own (`SessionUp`,
  `Store`, `Stored`; `SessionDown`, `Deleted`), since handlers of several sessions
  share the maps without a lock: two uses that overlap crash the process or lose
  the entry that is stored (`mayRace`). The goroutines that wait for pppd or close
  a session; `run`, signals and shutdown. The library does what `TunnelEvents`
  allows, including a session that gave up and is reported up all the same.
- `Config`: one step per key in any order, as Go ranges over maps; conversions
  with their range checks; tunnels, sessions, custom parameters.

## Runs

Deadlock is not checked where the system may stop for good: a transport or a
tunnel that is down takes no step.

| Run | Instance | Properties | Distinct states |
|---|---|---|---|
| `transport_loss` | two messages, one message and a fault, or keep-alives and a fault; frames lost, delayed, reordered; a fault is a socket error or a bad datagram; a close | `IInv`, `CompleteIsFinal`, `ImplementsChannel`, `AcceptedCompletes`, `DownCompletes`, `AcksDieOut`, `DeadPeerDetected` | 77,550 |
| `transport_wrap` | eight messages in a sequence space of eight, three callers at a window of two with retransmission, a HELLO beside a message, each with duplicates; both ends sending | `AckedWasTaken`, `DeliveredInOrder`, `PeerFrameAccepted`, `HelloInFlightExact`, `WindowBound` | 1,137,104 |
| `hello_retried` | a message and a HELLO | `AckedNotRetried`, which is violated | |
| `tunnel` | two sessions, a peer that says anything, everything may fail, everything may be closed | `ReleasedAtExit`, `ToldOnce`, `LeftUpOnlyIfClosedBefore`, `ImplementsEvents`, `SessionDpInsideTunnelDp` | 1,240,010 |
| `tunnel_live` | two sessions, a peer that keeps to the protocol, a transport that fails only when it is stalled | `NoPanic`, `CloseReturns`, `SessionStarts`, `NewSessionWaitsOnlyForGone` | 28,325 |
| `context` | six constructor calls, two of them refused, failures at every stage, `Close` on both levels | `RegistriesAgree`, `CloseTearsDown` | 795,932 |
| `handlers` | three goroutines with events, a new handler and one already there registered and unregistered, callbacks that wait for other events | `CalledForEvent`, `EventsDelivered` | 133,924 |
| `quiescent` | static and quiescent tunnels, three sessions, a transport that may fail | `DownOnce`, `CloseRemoves`, `FailureDetected` | 5,882 |
| `codec` | every message built or refused, whole, cut, with an AVP more or less | `RoundTrip`, `ReadBack`, `TruncatedRejected` | 14,004 |
| `netlink` | a managed and a static tunnel, a session in each, a kernel that may refuse, sockets and the connection closed early | `ResponseIsMine`, `LiveIffInKernel`, `CallsReturn` | 92,045 |
| `kl2tpd` | two sessions, which may give up; pppd and setup may fail; handlers overlap | `CrashesOnlyIf`, `CleanExit`, `SessionFollowsPppd`, `ShutdownCompletes` | 34,842 |
| `config_order` | files with values in and out of range, every map order | `LoadedAsWritten`, `RefusedIffMalformed` | 374,584 |

What they show, in short: no message is acked that was not taken, none is
delivered twice or out of order, the window is kept and every accepted message
and every shutdown completes. However a tunnel ends it releases what it holds,
its sessions are told once, and the application sees events in the order of
`TunnelEvents`. The two registries of the context agree, and closing it leaves no
tunnel running, for an application that makes one call at a time and does not
close tunnels that have ended. Netlink responses are not mixed up. kl2tpd crashes
only in the cases `CrashesOnlyIf` names, stops the pppd of a session that goes
down, and shuts down unless the library holds it up. A configuration means the
same, or is refused, in every map order.

The modules state further properties that are not among those of a run and that
TLC finds true of the same instances: the `TypeOK` of each module that has one,
`QueuesHoldWaiting`, `SessionEventOrder`, `InvalidNeverForwarded`,
`TunnelSettles`, `RunningIsRegistered`, `ClosedOnce`, `UniqueIDs`, `CallsReturn`
of `EventHandlers`, `ClosedTwiceOnlyIfFailed`, `CloseReturns` of `NlDataPlane`.

### What the code does not keep

`hello_retried` is a promise of the documentation that the code breaks:
`sendHelloMessage` bypasses `ackQueue`, so a HELLO the peer has acked is
retransmitted `MaxRetries` - 1 times and then fails the transport. It also makes
`DeadPeerDetected` easier to keep: a transport that has sent a HELLO goes down
whether the peer is dead or not, so the property says that the hello timer is
never lost, and no more.

The modules state other such promises, under the heading of what comments and
documentation say beyond the properties above. TLC refutes each on the instance
named; the configurations above leave that instance out or except the case.

| Property | Instance that refutes it | What happens |
|---|---|---|
| `RxQueueServed` | three messages, three callers, `MaxRxQueue` 3 | `dequeueRxMessage` loops over `i` but tests `rxQueue[0]`: a message ahead of sequence hides the in-sequence one behind it |
| `SendReturns` | two messages under `FairSpec` | a `send()` that meets a transport whose sender has exited blocks for ever on `sendChan` |
| `AckTimerOffMeansAcked` | both ends send one message | `receiver` hands `nr` to the sender before `incrementNr`; a message written in between stops the ack timer with an `nr` that does not ack |
| `CloseReturns` | one session, `HangingUpPeer` | the tunnel forwards to a session that is itself sending |
| `CloseReturns` | one session, `OpeningPeer`, the session in `Closers` | a session closed after `allSessions()` listed it is told that the tunnel is up |
| `CloseReturns` | one session, `OpeningPeer`, `Failing = "any"` | the tunnel sends on a transport whose sender has exited |
| `ClosedMeansDown` | one session, `AnsweringPeer` | the ICCN fails while the tunnel closes; `sendMessage` closes the session, `fsmActOnIcrp` goes on and reports it up. `LeftUpOnlyIfClosedBefore` says that it happens only to a session closed inside that handler or by the application |
| `UpBeforeTunnelDown` | one session, `AnsweringPeer` | the same, with the tunnel down before the session is reported up |
| `ClosedMeansRemoved` | one session, `QuietPeer` | a session added between the end of the FSM and the end of the goroutine is nobody's |
| `TerminatesAfterClose` | one session, `Failing = "any"` | after a failed SCCRQ has closed everything the loop may see `closeChan` before the closed `recvChan`, and sends a StopCCN on the closed transport |
| `FailedDpNotUsed` | one session, `SessionDp = {"fail"}` | `fsmActOnIcrp` lacks a return after the data plane failed |
| `NewSessionReturns` | one session, `AnsweringPeer` | `injectEvent` to a tunnel that has ended. `NewSessionWaitsOnlyForGone` says that this is the only case |
| `UniqueIDs` | `OneThread = FALSE` | the race a TODO in the code mentions |
| `NonZeroIDs` | two generated IDs | generated IDs include zero |
| `CloseTearsDown` | `CloseDead = TRUE` | closing an ended tunnel unlinks the one that took its name, and `Context.Close` misses it |
| `FailedHoldsNothing` | `Stages` not empty | construction fails and the socket stays open |
| `NotCalledAfterUnregister` | that of `handlers` | `append(handlers[:], handlers[i+1:]...)`: the handler stays on the list, and those behind it are on it twice |
| `CloseRemoves` | `Serial = FALSE` | `Close` between a static session's data plane and its `linkSession` |
| `CloseDoesNotPanic` | any with a failing transport | `xportReader` and `Close` both run `close()` |
| `SessionUpInTunnelUp` | any | `TunnelUpEvent` is never reported for static and quiescent tunnels |
| `TotalLenExact` | `Config <- LongName` | the AVP length wraps at ten bits |
| `UnknownIgnored` | `Extras <- VendorExtra` | the payload of an ignored AVP is read as the next AVP |
| `ArrayParsed` | `PerFrame = 2` | the second message of a datagram is lost |
| `CookiesAsConfigured` | `conf <- Cookies`, `Caller = {t1, s1, s2}` | the peer cookie is sent as the local one |
| `InterfaceNameKnown` | `conf <- Cookies`, `Caller = {t1, s1, s2}` | the interface name is never filled in |
| `ClosedIsAnError` | `CloseEarly = TRUE` | a panic instead of the error |
| `NoConcurrentWrites` | two sessions | two event handlers write one map at once |
| `EntryExists` | that of `kl2tpd` | no entry for the session that goes down: its pppd did not start, its tunnel went down before it, or its entry was lost |
| `MapExists` | that of `kl2tpd` | a session that gave up, or that the application closes, comes up after `TunnelDownEvent` has deleted the map of its tunnel |
| `NoPppdLeft` | that of `kl2tpd` | `run` returns while the handler of a session that gave up has started a pppd and not yet counted it in `wg` |
| `NumbersChecked` | `File <- Files` | the error of `max_retries` is shadowed |
| `DocumentedRanges` | `File <- ShortCookie`, or `Files` | neither the range of a session ID nor the length of a cookie is checked |

Some properties that do hold have exceptions, each for what the code does:

- `SessionDpInsideTunnelDp` and `TunnelEvents` except sessions that are out of the
  registry when the tunnel closes: those the application closes itself and those
  that gave up (`fsmActClose` of the session ran before it was reported up). The
  tunnel does not wait for them, and one may create its data plane, or be reported
  up, after the tunnel is down.
- `CloseReturns` is checked for a peer that keeps to the protocol, an application
  that closes the tunnel only and a transport that fails when it is stalled. The
  three rows of the table above are what lies outside.
- `CleanExit` excepts sessions that gave up, and `CrashesOnlyIf` and
  `ShutdownCompletes` name their cases (`heldUp`: a `Close()` of the library that
  does not return, a session it has left up).
- `RefusedIffMalformed` excepts `max_retries`.
- `RegistriesAgree` and `CloseTearsDown` are checked with `OneThread` and without
  `CloseDead`, `CloseRemoves` with `Serial`.

### Bounds

Transport:

- `Workloads`: how often each end calls `send()`, which end sends keep-alives,
  `MaxRetries`, whether the network duplicates, and how many faults each end
  sees; `Init` chooses one. `MaxCallers` is how many calls an end makes at once.
  Three concurrent callers at a window of two are the least that fill the window,
  queue behind it and reopen it, and two retries let a retransmission collapse
  `cwnd` while both are in flight; eight messages through eight sequence numbers
  are the least that use them all and wrap.
- `TxWindowSize` 2. `MaxRetries` 2 (a message is retransmitted once and then
  gives up), or 1 (the first timeout is fatal) in the longer workloads.
- `SeqSpace` 8: larger than twice the window, as in the code with its default
  window of 4. In a space of six duplicates of a window of two are ambiguous.
- `MaxLife`: frames older than this many messages have left the network. The
  protocol needs it, since sequence numbers are reused; 8 never expires a frame
  in the short runs, 1 in `transport_wrap` keeps one generation of duplicates.
- `MaxRxQueue`: the code's `rxQueue` is unbounded. When it is full the model
  leaves frames in the network, which is a delay.
- `faults`: socket errors and rejected datagrams. One error already takes the
  transport down.
- `duplicates` is off in `transport_loss`: a network that repeats an old frame
  for ever keeps resetting the hello timer, and under fairness of the transport
  as a whole it could keep out the other goroutines for ever. It is off where both
  ends send, to bound the number of states.

Others:

- `DynamicTunnel`: two sessions are the least that can wait on each other through
  the tunnel. `AnyPeer` sends each kind of message the FSM tables tell apart,
  malformed or well-formed, in turn or not: besides what brings the tunnel and
  its sessions up, `MaxOdd` messages of another kind or sent again (`MaxSaid`
  times at most). `MaxClosed` is how many sessions the application closes. `Polite` peers only answer what
  they heard; `AnsweringPeer` adds HELLOs and messages for unknown sessions.
  `Failing` says when the transport may fail: at any time, or only (`stalled`)
  when its receiver has a message nobody takes, so that acks stop and its retries
  run out. The sessions are symmetric in `tunnel`, which has no liveness.
- `Context`: two dynamic tunnels of one name, a static and a quiescent one, one
  of an unsupported version and one whose peer does not resolve; three IDs, one
  of them zero. `OneThread` is an application that makes its calls in sequence,
  `CloseDead` one that closes tunnels that have ended by themselves.
- `EventHandlers`: three goroutines, two handlers and a third that comes and
  goes; the callbacks wait for nobody, or each for the next goroutine's event.
- `QuiescentTunnel`: three sessions. `Init` chooses the kind of tunnel
  (`quiescent`) and whether its transport fails (`fails`); `Serial` is an
  application that makes one call at a time.
- Codec: names of up to two bytes, IDs at both ends of their range and one beyond
  it, receive buffers of 10, 15 and 28 bytes, which cut the message header, the
  header of an AVP and AVPs at various places, and of 4096, the code's. The
  ten-bit limit of an AVP length is out of reach of these names; `LongName` in the
  table above is at it.
- `NlDataPlane`: a managed and a static tunnel with neighbouring IDs, so that a
  request naming the wrong one does harm, and a session in each.
- `Kl2tpd`: two sessions, since the races are between two.
- `Config`: `Uint32Max` is 1000000, as TLC's integers have 32 bits.

### Fairness

Fairness is assumed of goroutines, timers that are running, and what has been
asked of a library or process; never of the peer, the network, the user or of
failures.

- `Transport`: weak fairness of `System`, the whole disjunction of goroutine and
  timer steps. It is weaker than fairness of each goroutine. Reading from an open
  socket, `recv()`, `send()` and `close()` are excluded.
- `DynamicTunnel`: weak fairness of `Goroutines`, and of a stalled transport
  running out of retries (`DownCompletes` and `AcceptedCompletes` of `Transport`).
- `EventHandlers`, `QuiescentTunnel`: weak fairness of the goroutines' steps.
- `NlDataPlane`: weak fairness of `runConn` and of each caller; strong fairness of
  the send on `reqChan`, because Go serves blocked senders in order.
- `Kl2tpd`: weak fairness of the daemon's goroutines, and of a pppd that has been
  interrupted exiting. Nothing is assumed of the library: neither that its events
  come nor that its `Close()` returns.

## Proofs

The assumptions are the named ones: an even sequence space of at least 4, a
positive window and retry count (`sanitiseConfig`), two ends; the tunnel is not
a session and `None` is neither (`NamesAssumption`); `None` is not the name of a
fault (`NoneIsNoFault`) nor a set of sessions (`NoneIsNoTable`). Everything else
is arbitrary.

- `SeqCompareWithinHalf`: numbers less than half the space apart are ordered
  correctly across the wrap.
- `InductiveInvariant`: `IInv == TypeOK /\ StepInv` always holds. Neither half
  is inductive. That `ntx` stays in its type when a write is completed needs
  `canSend` to hold still from the test in `processTxQueue` to `onSend` two
  steps later; that `onAck` is called with `ntx > 0` needs `ntx` to be the length
  of `ackQueue`. `StepInv` says so for each place a goroutine can be at, and that
  a message that has not completed has a retry left. One lemma per action shows
  it is preserved.
- `TypeCorrect` and `StepsReady` follow from it: `Spec => []TypeOK`,
  `Spec => []StepInv`.
- `WindowNeverExceeded`: `Spec => WindowBound`. Only the step after the write of a
  new message makes `ackQueue` longer (`GrowsAfterWrite`), and in a state of
  `IInv` that step finds `ntx`, the length of `ackQueue`, below `cwnd`
  (`RoomInWindow`).
- `CompletionIsFinal`: `Spec => CompleteIsFinal`, by showing that every step
  from a state of `IInv` leaves completed messages alone.
- `TunnelInvariant`, `TunnelReleasesAll` (`DynamicTunnelProofs`): for any sessions
  under any names and IDs, any peer and any failure, the tunnel goroutine exits
  only when it has released everything (`Spec => []ReleasedAtExit`). The property
  alone is not inductive: `TunnelInv` adds that a closing tunnel holds nothing
  once it has left `fsmActClose`, that an event `up` outstanding means
  `established`, and that a handler about to return from `runTunnel` either is
  closing or is sending the StopCCN after which it closes. One lemma per action.
- `ResponsesNotMixedUp`, `OneRequestAtATime` (`NlDataPlaneProofs`):
  `Spec => []ResponseIsMine`. The channels carry no correlation ID; the invariant
  is that a waiting caller is the one `runConn` is serving.
- `EntryFound`, `ExitsClean` (`Kl2tpdProofs`): `Spec => []CrashesOnlyIf` and
  `Spec => []CleanExit`. `DaemonInv` says for each pppd that has started who
  attends to it (the handler that stores its entry, then a goroutine that waits),
  that a session that is up has its entry once the handler is done (`Entered`),
  that only sessions the tunnel does not wait for are up or have a handler outside
  its life (`Inside`), and which goroutines a shutdown has already waited for
  (`Ending`).

Only model-checked: the other safety properties, and the refinements
`ImplementsChannel` and `ImplementsEvents`. The liveness properties rest on
fairness, which the prover does not handle. The codec's and the configuration's
properties are about recursive functions on data, which would need induction
that the prover cannot do.

## Not modelled

- `String` methods, logging, result code texts.
- `controlplane.go` and `pppol2tp.go` beyond whether a call succeeds: system calls.
- `allocSid` and `allocCallSerial`: session IDs are given by the instance. The
  generator is the one `NonZeroIDs` is about.
- The null data plane (stubs), ql2tpd (creates tunnels and waits for a signal),
  constants and package documentation.
- Hidden AVPs, which the code refuses, and the TOML parser, a library.
- The overflow of the retry delay (`scaleRetryTimeout`): delays are abstracted.
  `sanitiseConfig` appears as the assumptions on the constants.
- A race without a stated promise to check: a tunnel that fails before it is
  linked stays registered until the context closes.
