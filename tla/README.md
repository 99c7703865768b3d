# AuxScreen: specifications, model checking and proofs

AuxScreen turns an Android tablet into a monitor of a Linux desktop. A host
program (Rust, `linux/host`) captures a virtual or physical monitor through the
ScreenCast portal, encodes it with GStreamer and streams it with WebRTC; an
Android app (Kotlin, `android/app`) connects to the host over a WebSocket,
answers its offer and shows the track. This directory specifies the control
logic of both sides in TLA+, checks it with TLC on small instances, and proves
every safety property of those runs, and both refinements, for every size.

Line numbers refer to the source files of the repository at the commit this
directory was written for.

## 1. Inventory

| component | source | state | operations | what makes it correct |
|---|---|---|---|---|
| session service of the host | `linux/host/src/server.rs` 37-298 | `connected` (one slot), `failed_auth` (failed logins per address), one task per WebSocket | upgrade, limiter check, compare-and-swap, hello, start of the media session, drop of the guard | at most one tablet; no path leaks the slot; a bounded number of wrong tokens per window; a client that does nothing cannot block others; a limited address is let in again |
| streaming loop and heartbeat | `server.rs` 300-416, 57-78 | `HeartbeatState`, two intervals, the outbound channel | receive, relay, poll the bus (rebuild with OpenGL), ping | a dead tablet is dropped in bounded time, a living one is not; stale pongs do not count |
| media session | `media.rs` | pipeline, webrtcbin, weak references held by callbacks | start, create offer, set answer, candidates, bus messages, drop | an answer belongs to the offer of the pipeline that gets it; a replaced pipeline falls silent |
| portal session | `portal.rs` | portal session, one restore token per source on disk | create, select, approve (60 s), callback, close | the session, and the virtual monitor with it, goes on every path and not before what captures it; what is repeated without asking is what was accepted |
| preview, shutdown signal | `preview.rs`, `shutdown.rs` | pipeline, interval, signal listener | wait for signal or tick, read the bus | a signal ends it; an error ends it |
| process | `main.rs`, `server.rs` 137-184 | runtime, listener | serve, graceful shutdown | serve ends, then the portal session is closed |
| connection controller of the tablet | `AuxScreenController.kt`, `ConnectionPolicies.kt` | `state`, `generation`, attempts, socket, peer connection, track, statistics, runnables in the looper | connect, callbacks of OkHttp and WebRTC, reconnect with delays, fail, disconnect, onCleared | one transport at a time; the screen tells the truth; a loss is never missed; nothing comes back after "Desconectar" |
| screens | `MainActivity.kt` | composition, saved endpoint | buttons, `LaunchedEffect` | they act on a state that may be a frame old |
| policies | `cli.rs`, `EndpointPolicy.kt`, `fit_dimensions` | none | validation of addresses, ports, sizes | agree with their definitions at the boundaries |
| messages | `protocol.rs`, `Protocol.kt`, `protocol/` | none | encode, parse | both sides and the schema agree |
| doctor | `doctor.rs` | none | report of what is installed | no false alarm; "ready" means that `serve` streams, but for what it does not look for |
| vendored `zbus`, build files, scripts | `third_party/`, ... | - | - | not ours |

How they interact: the tablet's controller opens a WebSocket to the host's
`/v1/session`. Per socket the host spawns a `handle_socket` task; tasks share
only `ServerState`. The task that wins the slot owns a `MediaSession`, whose
GStreamer callbacks send offers and candidates into a channel that the task
relays to the socket; answers and candidates come back the same way. On the
tablet, OkHttp's and WebRTC's callbacks run on their own threads and post
runnables to the main looper, most of them guarded by a generation number.
Service and preview both run as a callback inside the portal session
(`with_capture`): when the callback returns the session is closed, and then
`main` returns. Upgraded connections are tasks of their own, which the graceful
shutdown does not wait for.

What is hard to test here: the interleaving of handshakes; the order of
runnables, timers, clicks and callbacks on the tablet; callbacks of a pipeline
that has been replaced; pings, pongs and a loop that is held up; a signal before,
while and after somebody listens, and a listener that is dropped and made again;
a host still busy with a lost session against a tablet's patience. `PROJECT.json`
lists each hazard at its line with the properties that would catch it.

## 2. Modules

| module | models | abstracts |
|---|---|---|
| `SessionSlot` | what the host promises of its single session: acquired by one, released by its holder | everything else |
| `HostSession` | `handle_socket` up to the select loop, `AuthLimiter`, `ConnectionGuard`, `validate_client_hello` | a failed login is its age; the media session starts or fails |
| `Heartbeat` | `HeartbeatState`, the heartbeat arm and the pong path of the select loop, in discrete time | the other arms are time the loop is busy (`Stall`) |
| `TabletController` | `AuxScreenController` and the parts of `MainActivity` that call it | a socket and a peer connection are named by their generation; statistics by the peer they are of; the delay of a reconnection is any time in which the screen is drawn |
| `TabletRetries` | `TabletController` with a history variable that counts reconnections without video | |
| `OfferAnswer` | what signalling promises: an offer, an answer and an agreement per media session, once, in this order | channels, callbacks, rebuilds |
| `Negotiation` | `MediaSession`, the other arms of the select loop, the rebuild with OpenGL, and the tablet's one peer connection | SDP and candidates are the number of the media session they belong to; at most two media sessions, as in the code |
| `Preview` | `preview::run` with `shutdown::wait` and tokio's delivery of signals | bus messages are error, eos or other |
| `HostProcess` | `main`, `with_capture`, `server::run` and, by `INSTANCE Preview`, the preview, over several runs of the program | a selection is a number of streams and their type; a token is the selection it stands for |
| `Setup` | doctor, argument parsing and validation, encoder, elements, size and start of the stream, and the tablet's `EndpointPolicy` | an address is its family and what decides its scope; an installation is what it lacks, whether GStreamer takes the ICE address and what comes of starting a pipeline |
| `MCSetup` | the cases at `Setup`'s boundaries | |
| `Recovery` | host and tablet in seconds around an outage | one tablet; the exchange from hello to track is two messages |
| `HostSessionProofs`, `HeartbeatProofs`, `TabletControllerProofs`, `NegotiationProofs`, `HostProcessProofs`, `SetupProofs`, `RecoveryProofs` | the theorems about the module in their name, with their inductive invariants and lemmas (section 5) | |

### HostSession and the code

`pc[c]` is where connection `c`'s task is. A step is a stretch of
`handle_socket` between two awaits, which one worker thread runs without giving
it up. There is one exception: between `is_limited` (203) and the
compare-and-swap (215) there is no await, but another worker may act, so the two
are separate steps (`IsLimited`, then `TakeSlot` or `Busy`), and a task in
between ("checked") occupies a worker. This is why the number of `Workers`
matters: the limiter's check and the recording of a failure are not atomic.

| action | code |
|---|---|
| `Upgrade` | `upgrade`, the spawn of the task |
| `IsLimited` | `is_limited` with its `retain`, and the early return |
| `TakeSlot`, `Busy`, `Rejected` | the compare-and-swap; "busy" or "rate_limited" is sent |
| `HelloLost` | timeout, close, transport error or a message that is not JSON text |
| `HelloRefused`, `Refused` | `validate_client_hello` fails (a wrong token is recorded), the reason is sent, the guard is dropped |
| `HelloAccepted`, `Started`, `StartFailed` | the hello is good; `MediaSession::new`, the acknowledgements and `start` (with the second try) succeed or one fails |
| `SessionEnded` | the select loop ends for any reason |
| `Tick` | time for the recorded failures |

The refinement to `SessionSlot` maps `holders` to the connections whose task
owns the guard.

### TabletController and the code

The looper's `queue` holds posted runnables in order; `timers` the delayed
reconnections that have not run, by their generation; `statsArmed` the one
`statsRunnable`. When its delay is over (`DelayElapses`) a reconnection takes its
place behind what was posted before, as in Android's queue, which is ordered by
time; `Reconnect` and `ReconnectOvertaken` are the two outcomes of the check it
then makes itself. `Outdated` is the check in `onMain`; the runnables of ICE,
tracks and statistics have no such check in the code and none here. Callbacks (`SocketOpens`,
`HostSpeaks`, `SocketEnds`, `IceBreaks`, `TrackArrives`, `AnswerSent`,
`SdpFails`, `StatsArrive`) happen on other threads at any time. `screen` is the
state as composed last, which a click acts on; `Compose` is a frame. Assumed of
time: a frame is drawn, and its effect has run (`Drawn`), before a delay of a
second or more is over and before a session that begins has a track. A click
meets a screen that is a frame behind, and not one that is a session behind.

Assumed of the libraries: every OkHttp socket ends with one `onFailure` or
`onClosed` (its ping interval finds a host that is gone); `PeerConnection.close`
and `dispose` return when its callbacks have returned, and none begins later; a
track of a disposed peer throws when it is used (`TrackDisposed`, which ends the
app). A failed SDP step calls `fail()` from WebRTC's thread; the model takes it
as one step between runnables, so the data race of its individual assignments
with the main thread is not covered.

A click that `connect()` refuses (`ConnectRefused`) changes only the state. On
a screen that is a frame behind, a reconnection may just have been scheduled; the
code does not cancel it, and the properties about errors say so.

### Heartbeat and Preview

`Heartbeat` keeps, per ping in flight, its nonce and age. `Tick` is not enabled
while a loop that is not busy has something ready, so time passes only as the
code lets it; a busy loop (`Stall`) does nothing, and what became ready meanwhile
is served in any order, as `select!` does.

`Preview` models one turn of the loop as `Select` (either future may be polled
first), `Stop` or `TickWins`, and `Drain`. A signal reaches the listener that is
registered when it arrives, and no other.

`HostProcess` composes `Preview` with the process around it: `Loop` is `Preview`
with `pc` as `turn` and `asked` as `signalled`.

### Negotiation and the code

| action | code |
|---|---|
| `NegotiationNeeded` | `on-negotiation-needed`, which emits `create-offer` (media.rs) |
| `CallbackBegins`, `CallbackEnds` | `offer_created` and the candidate's callback: the weak reference is upgraded, the local description set, the message sent, the reference given back |
| `Post` | GStreamer posts to the bus |
| `Start`, `StartReplacement` | `media.start()` and the second try with OpenGL, before the loop or in it |
| `Incoming`, `Outgoing`, `BusTick`, `Drain`, `LoopFails` | the arms of `select!`; the bus is read message by message, and an error rebuilds or ends the session |
| `End` | `handle_socket` returns: receiver and media session are dropped |
| `TabletReads`, `TabletAnswers`, `TabletTrickles`, `ClientSays` | the tablet, or another client |

`held` are the media sessions the task owns, `call` what a callback is in the
middle of. A pipeline plays on while either refers to it (`Kept`), which is what
dropping the last `Arc` means. The refinement to `OfferAnswer` maps `agreed` to
the pairs of a media session and the offer that the answer it took belongs to.
`late` is a history variable: the rebuild came when the replaced pipeline had
begun to offer. Only then can the answer to the old offer be given to the new
pipeline, and TLC reaches such states: nothing in the message tells the two
apart. The code's own path to a rebuild, caps that fail at the first buffer, is
before any offer; a change of format later is after it.

Assumed of webrtcbin: its callbacks run one after the other on a thread of its
own, and it takes an answer only while it has a local offer without one.

### HostProcess and the code

A step is a stretch between two awaits of `main` and `with_capture`; after each
await the code goes on or returns an error ("exit"), and then the process is
gone (`Gone`), and with it its D-Bus connection and its tasks. `Response` saves
the token before it looks at the selection, as `with_capture` does. `Listen` is
the first poll of `shutdown::wait` by the service; before it a signal kills the
process. `Shutdown` waits for requests, not for `streams`, and a request is
complete when its client has sent the rest of it, which may be never.

The token of a source is used up when it has been shown to the portal, or it is
not: it may be unreadable, or the portal may refuse it, and what is on disk stays
good. `Saved` says what the response leaves there: the new token, none, or the
old one, where no token came or the file cannot be written. `refused` remembers
per source whether a selection has ever been refused. The state directory is
taken to be the same in every run.

Assumed of the portal: it answers what needs no user; its session goes with its
connection; a restore token repeats the selection it was made for without asking,
or is not accepted. That the portal or the user ends the session while it is in
use (`docs/BUILD_AND_DEPLOY.md:111`) is not modelled: the code does not listen for
it, and what then happens is up to the pipeline.

### Setup and the code

`Doctor`, `ParseArguments`, `Run`, `OpenSession` and `Start` are the places where
the program decides, in the order in which it comes to them. `OpenSession` fails
for want of an element or when GStreamer rejects the ICE address
(media.rs:91-93); `Start` is `media.start()` with the one second try with OpenGL
(server.rs:281-298), for which the elements must be there as well. What makes
GStreamer reject an address or a pipeline is not in this code: it is a fact of
the `machine`. "started" means that the pipeline plays; what happens to it
afterwards is in `Negotiation`.

`FitDimensions` gives the set of sizes that `fit_dimensions` may return: it
multiplies by a quotient of floats and rounds down, which may come out one short
where the exact product is whole. This happens: 2148x1342 within 1920x1200 becomes
1918x1198. `EncodedFits` is the reference definition it is checked against.

What the model shows and no property claims:

- An IPv6 endpoint that the host accepts and prints is not one the tablet
  accepts; `LanIsTheSameForBoth` is about IPv4 and says one direction.
- doctor does not look for GStreamer's base elements, the ICE address or whether a
  pipeline starts: the exceptions in `ReadyStreams`.
- doctor always asks for x264enc. With `--encoder auto`, the default (cli.rs:76),
  and nvh264enc installed, `serve` does not need it, and doctor's complaint is a
  false alarm. `NoFalseAlarm` and `ReadyStreams` are about command lines whose
  encoder comes out as x264enc, asked for or because auto finds no other.
- Whether the UDP ports of ICE are free is tried by neither doctor nor serve and
  is not in the model. `docs/TESTING.md:20-22` expects doctor to confirm free
  ports; it tries the TCP port.

### Recovery and the code

`Heartbeat`, `HelloTimesOut` and `Tick` count the host's heartbeat and its wait for
the hello in seconds; `NoticeLoss`, `Connect`, `Busy` and `TimedOut` are the
tablet's reconnections. A try that finds the slot free gets there in three steps,
between any two of which the network may fail: `Admitted` is the compare-and-swap
(the tablet shows "Connecting" still), `Hello` the hello that is read, after which
the heartbeat begins, and `Track` is `attachRemoteTrack`, which alone resets the
attempts (AuxScreenController.kt:282). `unplayed` is the try whose session was
lost again before its track. Both sides may notice at any time up to their limit.
It is a reduction of `Heartbeat`, `HostSession` and `TabletController` to what
decides how long a recovery takes; the times are the code's. What a socket that
the tablet has given up still delivers arrives together with its end.

## 3. Runs

| run | module, cfg | expected | shows |
|---|---|---|---|
| `host_session` | `HostSession` | pass, 7,786 states | `OldestFirst`, `SlotAccurate`, `FailureBound`, refinement of `SessionSlot`; `HandshakeEnds`, `LimitLifted` |
| `tablet_safety` | `TabletController`, `MCTablet.cfg` | pass, 1,294,377 states | `OneTransport`, `AnswersReachTheirHost`, `ReconnectingIsArmed`, `LossIsReported`, `StreamingHasVideo`, `QuietWhenOff`, `ErrorIsLeftByUserOrIce` |
| `tablet_liveness` | `TabletController`, `MCTabletLive.cfg` | pass, 82,733 states | `ReconnectingEnds`, `LossIsNoticed` |
| `heartbeat` | `Heartbeat` | pass, 52,260 states | `CountCoversUnanswered`, `ResponsiveTabletIsKept`, `LostTabletIsDropped` |
| `negotiation` | `Negotiation` | pass, 880,546 states | refinement of `OfferAnswer`; `MixUpNeedsLateRebuild`, `CandidatesFindTheirPeer` |
| `negotiation_live` | `Negotiation`, `NegotiationLive.cfg` | pass, 9,585 states | `OfferSettles`, `BreakdownEnds`, `PipelinesAreReleased` |
| `host_process` | `HostProcess` | pass, 148,582 states | `StreamsHaveTheirMonitor`, `SilentRefusalIsARepetition`, `SignalEndsService`, `ErrorEndsPreview` |
| `setup` | `MCSetup`, `Setup.cfg` | pass, 179,674 states | `EncodedFits`, `LanIsTheSameForBoth`, `NoFalseAlarm`, `ReadyStreams` |
| `recovery` | `Recovery` | pass, 48,989 states | `GivesUpOnlyWhenCutOff` |
| `tablet_retries` | `TabletRetries` | violation | finding 1 |
| `service_signal` | `HostProcess`, `ServiceSignal.cfg` | violation | finding 2 |
| `preview_signal` | `Preview`, `PreviewSignal.cfg` | violation | finding 3 |

### Bounds, and why they are enough

- `host_session`: three connections and two workers let two tasks be between
  check and swap while a third holds the slot, which is how the limit is
  exceeded; the bound `MAX_FAILURES + Workers - 1` is reached (it fails with one
  less). `MAX_FAILURES` and `WINDOW` are 3 instead of 5 and 60 s. One address
  keeps the liveness properties small; the theorems hold for any number of
  connections, addresses and workers.
- `tablet_*`: `MaxGeneration` stops new outside events once that many
  generations have begun (what is under way still ends), `MaxQueue` bounds the
  runnables that wait. Four generations are a session, its loss, the
  reconnection and its loss; a runnable of each of them can meet the next.
  `MaxAttempts` is `ReconnectPolicy`'s number of delays (5 in the code).
  `DebugExtras`, in the liveness run, starts the app with an endpoint to connect
  to by itself.
- `heartbeat`: `Interval` 4, `MaxRtt` 3 (less than an interval), one stall of at
  most 18 ticks, that is more than four intervals, so that a burst of missed
  ticks would show; a session rebuilds its pipeline at most once. `Nonces` wraps
  at 4. With two long stalls, or round trips of an interval, a responsive tablet
  can be dropped: that is the code's behaviour and the reason for the bounds.
- `preview_signal`, `host_process`: three messages on the bus put an error behind
  an end of stream and something else. Two streams are the least that
  `validate_stream_count` refuses besides none; two requests and two streaming
  tasks let one end while another begins. The runs of the program follow each
  other without bound. `service_signal` needs one request, and one of each.
- `negotiation`: one candidate of each side per offer, one message on a bus at a
  time, and of what else a client says a ping and text that is not JSON (the
  others differ only in the reply). The two media sessions are no bound: the
  code never makes a third. `UseGl` TRUE is the case in which there is one only.
- `negotiation_live`: candidates and other messages only delay what it is about.
- `setup`: addresses, ports, sizes, rates and bit rates at each boundary and one
  to either side, on a whole machine; and every choice of source, encoder and
  OpenGL on machines that lack one element, both encoders, virtual monitors or
  the port, or on which the ICE address is rejected or a pipeline with or without
  OpenGL does not negotiate or not start. The monitors have scales with and without a fraction, and are wider,
  higher and thinner than the limit.
- `recovery`: the code's times. Three outages let one come on the heels of
  another, in every second of the recovery from the first, and once more. The
  exception in `GivesUpOnlyWhenCutOff` is needed: with `unplayed >= 5` in place
  of `unplayed >= 4` the property is false.

Deadlock is checked in `host_session`, `host_process` and `recovery`. The others
allow it: the tablet has nothing to do when nothing happens, and a preview, a
heartbeat session, a negotiation and a setup end.

### Fairness

- `HostSession`: the clock advances, and a task that is ready again and again
  is run (strong fairness, because other tasks may occupy the workers for a
  while), as tokio's scheduler guarantees. The wait for the hello ends because of
  its 10 s timeout. Clients are not assumed to do anything.
- `TabletController`: the looper runs what is posted, frames are drawn, an effect
  that is launched runs, and a delay elapses. The last is strong fairness, because
  the bound of the model on waiting runnables may hold a delay up again and again;
  in the code there is no such bound.
- `Negotiation`: callbacks and the tablet's looper run, the task runs, an arm of
  `select!` that is ready again and again is polled first some time, as its order
  is random, and a pipeline does not post faster than its bus is read (strong
  fairness of the drain that finds it empty: the code reads until then). That
  the caps arrive, candidates are found or other clients speak is not assumed.
- `Preview`: the timer elapses, the task runs, and a branch of `select!` that is
  ready again and again is polled first some time.
- `HostProcess`: the same of the preview; the portal answers what needs no user,
  the dialog's minute passes (the timeout of portal.rs:107) and the service's
  tasks run. Nobody has to share anything, no tablet has to leave, and no client
  has to complete its request: axum's `serve` sets no limit to that.
- `Heartbeat`, `Recovery` and `Setup` have no liveness property; what must
  happen in time there is stated as an invariant with the time in it.

### Mutants

Each property of a passing run is paired in `PROJECT.json` with a change of the
code it would catch; the changed definition is written before the real one and
named in a comment "Mutant".

## 4. Findings

1. `AuxScreenController.kt:282` resets the attempts when the track is announced,
   which happens while the offer is applied. If media cannot flow, the client
   reconnects without end; `docs/BUILD_AND_DEPLOY.md:136` promises five tries at
   most. `MediaFlows` in `TabletRetries` is where the count may start anew.
2. `server.rs:173` waits in its graceful shutdown for every request that has been
   begun, and nothing limits the time a client takes to send the rest of one.
   Until then the portal session is not closed and a further signal does nothing,
   whereas `docs/BUILD_AND_DEPLOY.md:124-125` says that Ctrl+C and SIGTERM close
   the session and remove the monitor. `SignalEndsService` says that this is the
   only thing that can hold a signal.
3. `preview.rs:43` makes a new `shutdown::wait()` in every turn. In the trace a
   signal reaches the one that is registered, which `select!` then drops because
   the tick wins; a signal that comes between two of them is lost in the same way.
   `preview.rs:35` and `docs/TESTING.md:28` promise that it ends the preview.

Met while modelling, and contradicting nothing that is written down:

- The token of a selection that is then refused is saved (`portal.rs:117` before
  the checks). Without a prompt the next start refuses the same selection again,
  if the portal hands out a token for it; `SilentRefusalIsARepetition` is exactly
  what still holds.
- The answer to a replaced pipeline's offer, still on its way, is given to its
  replacement, and so are the candidates behind it (`server.rs:336`). The new
  pipeline then ignores the answer to its own offer.
- A session of the tablet's fourth or fifth try that is lost again before its
  track leaves the tablet less time than the host may need to free the slot: the
  host answers "busy" to the last try, and the tablet gives up with the network
  there (`GivesUpOnlyWhenCutOff`).
- `consumeStats` (344-346) takes any report as the next baseline, also that of a
  peer that is gone, and looks at the state only afterwards. As `connectTransport`
  resets the baseline (155), only a report that waits in the looper behind the next
  `connectTransport` could spoil it; nothing is claimed of it.
- The size of the stream may be one step smaller than it could be (see `Setup`).

## 5. Proofs

Each `...Proofs` module extends the module it is about. The theorems hold for
every value of the constants that satisfies the module's ASSUME, which TLC
evaluates in every run of it; the further hypotheses are in the table.

| module | theorem | states (after `Spec =>`) | inductive with |
|---|---|---|---|
| `HostSessionProofs` | `TypeCorrect`, `SlotIsAccurate` | `[]TypeOK`, `[]SlotAccurate` | each other |
| | `ImplementsSlot` | `SlotSpec` | `SlotAccurate` |
| | `QueuesAreOrdered`, `FailuresAreBounded` | `[]OldestFirst`, `[]FailureBound` | `FailureInv` |
| `TabletControllerProofs` | `TypeCorrect`, `NothingIsLeftBehind`, `AnswersArrive`, `DelayIsPending`, `EndIsReported`, `VideoIsThere`, `OffIsOff` | the seven invariants of `tablet_safety` | `Bound`, `Waiting`, `Off`, and each other |
| | `ErrorStays` | `ErrorIsLeftByUserOrIce`, an action property | the same |
| `HeartbeatProofs` | `TypeCorrect`, `CountIsRight` | `[]TypeOK`, `[]CountCoversUnanswered` | `Consecutive` |
| | `LostIsDropped` | `[]LostTabletIsDropped` | `Patience` |
| | `ResponsiveIsKept` | `[]ResponsiveTabletIsKept`, if `MaxStalls <= 1` | `Responsive` |
| `NegotiationProofs` | `TypeCorrect`, `CandidatesAreNotMixedUp`, `CandidatesAreLed` | `[]TypeOK`, `[]MixUpNeedsLateRebuild`, `[]CandidatesFindTheirPeer` | `Callbacks`, `Notices`, `Replacement`, `Relayed`, `Returned` |
| | `ExchangeIsImplemented` | `ExchangeSpec`, the refinement of `OfferAnswer` | the same |
| `HostProcessProofs` | `TypeCorrect`, `MonitorIsThere`, `RefusalsRepeat` | `[]TypeOK`, `[]StreamsHaveTheirMonitor`, `[]SilentRefusalIsARepetition` | `Open`, `Remembered` |
| `SetupProofs` | `LanIsTheSame`, `AlarmsAreTrue`, `ReadyIsReady` | `[]LanIsTheSameForBoth`, `[]NoFalseAlarm`, `[]ReadyStreams` | `Decided`, `Blamed` |
| | `StreamFits` | `[]EncodedFits`, if every monitor has sides of two pixels or more | `Sized` |
| `RecoveryProofs` | `TypeCorrect`, `GivesUpOnlyWhenLost` | `[]TypeOK`, and `[]GivesUpOnlyWhenCutOff` if `4 * Interval < 23` and `HelloTimeout <= 4 * Interval` | `Patience` |

So every invariant, every refinement and the action property of a passing run is
also a theorem. TLC has found each of the inductive invariants to hold on the
instance of the run before it was proved.

### The hypotheses

- `MaxStalls <= 1`: a session rebuilds its pipeline at most once
  (`server.rs:328-337`; the replacement uses OpenGL, and then another failure
  ends the session), and building a pipeline is the one thing in the loop that
  blocks. Where it is held up twice for long, say by sends that wait for a full
  socket too, the property is false: a tablet can be dropped that answers.
- `4 * Interval < 23`: the host's interval is 5 s (`server.rs:302`), and 23 s are
  the last two of the tablet's delays (`ConnectionPolicies.kt:4-8`), which a
  session that its third try has lost leaves it. The theorem says how far the two
  constants, in two programs, may be moved apart: not at all in whole seconds.
- `HelloTimeout <= 4 * Interval`: 10 s and 20 s (`server.rs:236`, 302). The host
  does not wait longer for a hello than for the pongs of a session.
- sides of two pixels: `fit_dimensions` rounds a monitor that is one pixel wide,
  and fits, down to none. No monitor is, but nothing in the code says so.

### Host session

`FailureBound` is not inductive, because it does not speak of connections that
have passed the limiter and may still fail. `FailureInv` adds them
(`InFlight(p)`): a peer's failures and its connections in flight are together
within the bound, or else every worker is between check and swap while the slot
is taken and the peer has fewer failures than the limit. The second case is
needed: with all workers in "checked" and a holder in "hello" the sum is one too
large, but nobody can fail before one of them has moved, and the first to move
finds the host busy. `InFlightBound` relates the sum to the number of "checked"
tasks, using that only one task is in "hello" (`SlotAccurate`); `CountedStays`
serves all steps that neither admit a connection nor record a failure;
`CheckKeepsCount`, `BusyKeepsCount` and `RecordKeepsCount` are the others.

The model drops a prefix where `retain()` filters. `RetainRemovesTheExpired`
shows that for ordered queues these are the same entries.

### Tablet controller

Most of what the properties say follows from the generations, so the invariant
says what a generation is. `Bound`: the socket in the field is the current
generation's or none, it has not been told to close, and a peer connection is of
the same generation and exists only after the hello. `Waiting`: a runnable in
the looper is of a generation that has begun, and one of the *current*
generation finds its socket in the field, the hello sent if it is an offer, and
its track announced if it is a track. That is why onMain's check is enough for
those that make it, and why `AttachRemoteTrack`, which does not make it, is safe
while its peer lives. `Off` is what `QuietWhenOff` says, also of "Reconectando".

Every connection, loss, failure and disconnection is a `Renews` step: a
generation begins, the transport goes, a socket may be opened. `Renewed` and
`RenewalKeeps` are proved of it once, `PostingKeeps` of every callback that
posts, `TakingKeeps` of every runnable that changes neither the state nor the
transport. The queue is reasoned about as the set `Queued`; only `Takes`, `Posts`
and `TrackPosts` look at its order.

### Heartbeat

`Consecutive`: the pongs on their way answer consecutive pings, up to the newest
as long as the tablet answers, and at most as many as are counted. With more than
three nonces only the newest ping's pong has the current nonce.
`Patience`: the silence of a lost tablet, the time to the next ping and an
interval for each ping that may still be sent are together four intervals and
what the stalls took (`Slack`); a pong that was under way gives pings back only
if it answers the newest (`Fresh`), and that was sent within the last interval.
`Responsive`: before the stall (`NotHeldUp`) a pong is read before the next ping
is due; after it (`HeldUpOnce`) up to three pings may be unanswered, but the
third is followed by a whole interval, in which its pong arrives (`InTime`).

### Negotiation

`Relayed` follows an offer through the outbound channel, the WebSocket and the
tablet's queue: it is in exactly one of the places until it is read, the
candidates behind it come after it, and nothing is read that was not made.
`Returned` says the same of the way back. `Replacement` says when the second media
session can exist and what `late` means; `Callbacks` and `Notices` tie callbacks
and bus messages to their cause. In the refinement, `OfferIsMade`, the tablet's
answer and the host taking an answer are `Offer`, `Answer` and `Agree`, the
rebuild is `Hurry`, and everything else stutters (`NoExchange`).

### Host process, Setup, Recovery

`Open`: after `Connect` there is a portal session wherever `main` has not
returned, and streams only from the service on. `Remembered` says that a token on
disk, and an answer that nobody was asked for, stand for an acceptable selection
unless one of the same source has been refused.
`DiskSteps` names the only steps that touch the disk.

`Decided` and `Blamed` say what `pc` implies of the arguments and the machine, and
with which bridge the pipeline was built.
`Sized` carries the monitor's size into the stream's; the lemmas on quotients
(`Quotient`, `ScaledSides`) hold whichever of its values `FloorOfFloats` takes.

`Patience` of `RecoveryProofs` is one inequality: the seconds a lost session may
still hold the slot (`Remaining`) and the seconds the tablet has waited since it
let go of its socket (`Elapsed`) are together at most four intervals. With its last
try the tablet has waited 30 s since a loss while streaming, and still 23 s since
the loss of a session that its third try had got.

### Only model-checked

The nine liveness properties (`HandshakeEnds`, `LimitLifted`, `ReconnectingEnds`,
`LossIsNoticed`, `OfferSettles`, `BreakdownEnds`, `PipelinesAreReleased`,
`SignalEndsService`, `ErrorEndsPreview`): they rest on fairness,
and the proof system does not reason about ENABLED. The three violations are
counterexamples, which TLC gives. `Preview` by itself has no theorem; its actions
are covered as part of `HostProcess`. No module uses RECURSIVE.

Two conditions of the models were rewritten, without a change of meaning, into a
form the provers can use: the type of `bus` in `Negotiation` and the range of the
bit rate in `Setup`.

## 6. Not modelled, and the plan

To be proved, should a run come to ask for it: the same theorems of a variant of
the controller in which the attempts are reset by the first frame instead of the
track, with the bound on reconnections that finding 1 says is missing.

To be modelled, if at all: `fail()` on WebRTC's thread assignment by assignment,
and attaching and detaching the renderer against the life of the track. Both need
what the libraries do inside a call, which the source does not show.

Not modelled for good: the JSON encoding of messages and the layout of screens
(no control); the wording of GStreamer's descriptions (their elements are in
`Setup`); media itself; `wss://` endpoints (the tablet's parser of URIs decides);
build files, scripts and the vendored `zbus` (not the program's own logic).
