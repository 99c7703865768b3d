--------------------------- MODULE TabletController ---------------------------
(***************************************************************************)
(* The connection controller of the Android client                         *)
(* (AuxScreenController.kt) with the screens that call it                  *)
(* (MainActivity.kt).                                                      *)
(*                                                                         *)
(* The controller runs on the main looper.  OkHttp and WebRTC call back on *)
(* threads of their own, and most callbacks post a runnable to the looper. *)
(* A runnable posted through onMain is dropped when the generation has     *)
(* moved on meanwhile; the runnables of the ICE state, of the tracks and   *)
(* of the statistics are posted without that check.  A failure of the SDP  *)
(* exchange calls fail() from WebRTC's own thread.                         *)
(*                                                                         *)
(* Every connectTransport and every loss takes a new generation, so a      *)
(* socket, and the peer connection created for an offer that arrived on    *)
(* it, are named by the generation they belong to; 0 is null.              *)
(*                                                                         *)
(* Assumed of the libraries: OkHttp ends every socket with                 *)
(* one onFailure or onClosed; close() and dispose() of a peer connection   *)
(* return when its callbacks have returned, and no callback begins later;  *)
(* what was posted to the looper before still runs, and a track whose peer *)
(* was disposed throws when it is used, which ends the app.                *)
(*                                                                         *)
(* Assumed of time: the looper runs what is due in the order of time, so a *)
(* delayed runnable comes behind everything that was posted before it was  *)
(* due; and the screen is drawn again, and its effect runs, before a delay *)
(* of a second is over and before a session that begins has a track.  A    *)
(* click therefore meets a screen that may be a frame behind the state,    *)
(* but never a session behind it.                                          *)
(***************************************************************************)
EXTENDS Integers, Sequences

CONSTANTS
  MaxAttempts,     \* reconnections with a delay: ReconnectPolicy has 5
  DebugExtras,     \* the app was started with an endpoint and a token to try
  MaxGeneration,   \* bound: nothing new happens outside from then on
  MaxQueue         \* bound: runnables waiting in the looper

ASSUME TabletAssumption == /\ MaxAttempts \in Nat
                           /\ DebugExtras \in BOOLEAN
                           /\ MaxGeneration \in Nat
                           /\ MaxQueue \in Nat

VARIABLES
  state,             \* the ConnectionState
  screen,            \* the state the screen shows: composed a frame ago
  launch,            \* ConnectionScreen's LaunchedEffect is about to connect
  generation, reconnectAttempts, manualDisconnect, closed,
  webSocket, peerConnection,
  remoteVideo,       \* the peer whose track is shown
  remoteTrackIds,    \* the peers whose track is registered
  lastStats,         \* the peer the last* counters were read from
  statsArmed,        \* statsRunnable is posted
  timers,            \* generations of the delayed reconnections that have not run
  queue,             \* the main looper's runnables
  sockets,           \* sockets that have not called onFailure or onClosed
  opened,            \* those of them that called onOpen
  closing,           \* those of them that were told to close
  greeted,           \* the hello has gone out on webSocket
  peers,             \* peer connections that are not disposed
  answering,         \* those with an SDP exchange under way
  tracked,           \* those that have announced their track
  statsCalls,        \* those with a getStats under way
  alive              \* the app has not crashed

control == <<state, generation, reconnectAttempts, timers>>
fields == <<webSocket, greeted, peerConnection, remoteVideo, remoteTrackIds, lastStats>>
rtc == <<peers, answering, tracked, statsCalls>>
transport == <<fields, rtc, statsArmed, closing>>
ui == <<screen, launch>>
flags == <<manualDisconnect, closed, alive>>
network == <<sockets, opened>>
vars == <<control, transport, ui, flags, network, queue>>

State == {"Idle", "Connecting", "Streaming", "Reconnecting", "Error"}

\* Runnables that are dropped when their generation is over, and the others,
\* among them a delayed reconnection that is due, which has a check of its own.
\* "gone" is onFailure or onClosed; the messages of the host are an offer, an
\* error that may or may not be retried ("fatal" also when it cannot be parsed
\* or the protocol differs), and those that change nothing here.
Guarded == {"open", "offer", "retryable", "fatal", "gone"}
Unguarded == {"ice", "track", "report", "due"}
Runnable == [kind : Guarded \cup Unguarded, of : Nat]

Init ==
  /\ state = "Idle" /\ generation = 0 /\ reconnectAttempts = 0 /\ timers = {}
  /\ webSocket = 0 /\ peerConnection = 0 /\ remoteVideo = 0
  /\ remoteTrackIds = {} /\ lastStats = 0 /\ statsArmed = FALSE
  /\ closing = {} /\ peers = {} /\ answering = {} /\ statsCalls = {}
  /\ screen = "Idle" /\ launch = DebugExtras
  /\ manualDisconnect = FALSE /\ closed = FALSE /\ alive = TRUE
  /\ sockets = {} /\ opened = {} /\ greeted = FALSE /\ tracked = {}
  /\ queue = << >>

-----------------------------------------------------------------------------
(* The private operations: what they leave of the transport and the state. *)

\* Mutant: the peer connection is left alone.
DisconnectTransportKeepingPeer(socket) ==
  /\ statsArmed' = FALSE
  /\ remoteVideo' = 0
  /\ remoteTrackIds' = {}
  /\ closing' = closing \cup ({webSocket} \cap sockets)
  /\ webSocket' = socket
  /\ greeted' = FALSE
  /\ lastStats' = 0
  /\ UNCHANGED <<peerConnection, rtc>>

\* disconnectTransport, followed by the assignment of a socket, or null.
DisconnectTransport(socket) ==
  /\ statsArmed' = FALSE
  /\ remoteVideo' = 0
  /\ peers' = peers \ {peerConnection}
  /\ answering' = answering \ {peerConnection}
  /\ tracked' = tracked \ {peerConnection}
  /\ statsCalls' = statsCalls \ {peerConnection}
  /\ peerConnection' = 0
  /\ remoteTrackIds' = {}
  /\ closing' = closing \cup ({webSocket} \cap sockets)
  /\ webSocket' = socket
  /\ greeted' = FALSE
  /\ lastStats' = 0

\* Mutant: the previous transport is not disconnected.
ConnectTransportOnTop ==
  /\ generation' = generation + 1
  /\ webSocket' = generation + 1
  /\ sockets' = sockets \cup {generation + 1}
  /\ greeted' = FALSE
  /\ UNCHANGED <<peerConnection, remoteVideo, remoteTrackIds, lastStats, rtc, statsArmed,
                 closing, opened>>

\* Mutant: the callbacks get the generation from before the increment.
ConnectTransportLate ==
  /\ generation' = generation + 1
  /\ DisconnectTransport(generation)
  /\ sockets' = sockets \cup {generation}
  /\ UNCHANGED opened

ConnectTransport ==
  /\ generation' = generation + 1
  /\ DisconnectTransport(generation + 1)
  /\ sockets' = sockets \cup {generation + 1}
  /\ UNCHANGED opened

\* Mutant: one delay more than there are.
ScheduleReconnectOnceMore ==
  /\ ~manualDisconnect /\ ~closed
  /\ generation' = generation + 1
  /\ DisconnectTransport(0)
  /\ reconnectAttempts <= MaxAttempts
  /\ reconnectAttempts' = reconnectAttempts + 1
  /\ state' = "Reconnecting"
  /\ timers' = timers \cup {generation + 1}

\* Mutant: "Desconectar" does not stop it.
ScheduleReconnectAlways ==
  /\ generation' = generation + 1
  /\ DisconnectTransport(0)
  /\ reconnectAttempts' = reconnectAttempts + 1
  /\ reconnectAttempts < MaxAttempts
  /\ state' = "Reconnecting"
  /\ timers' = timers \cup {generation + 1}

\* Mutant: the timer gets the generation from before the increment.
ScheduleReconnectStale ==
  /\ ~manualDisconnect /\ ~closed
  /\ generation' = generation + 1
  /\ DisconnectTransport(0)
  /\ reconnectAttempts < MaxAttempts
  /\ reconnectAttempts' = reconnectAttempts + 1
  /\ state' = "Reconnecting"
  /\ timers' = timers \cup {generation}

ScheduleReconnect ==
  \/ /\ manualDisconnect \/ closed
     /\ UNCHANGED <<control, transport>>
  \/ /\ ~manualDisconnect /\ ~closed
     /\ generation' = generation + 1
     /\ DisconnectTransport(0)
     /\ \/ /\ reconnectAttempts >= MaxAttempts
           /\ state' = "Error"
           /\ UNCHANGED <<reconnectAttempts, timers>>
        \/ /\ reconnectAttempts < MaxAttempts
           /\ reconnectAttempts' = reconnectAttempts + 1
           /\ state' = "Reconnecting"
           /\ timers' = timers \cup {generation + 1}

\* Mutant: the transport goes, the state stays.
FailQuietly ==
  /\ generation' = generation + 1
  /\ DisconnectTransport(0)
  /\ UNCHANGED <<state, reconnectAttempts, timers>>

\* fail(message, retryable = false)
Fail ==
  /\ generation' = generation + 1
  /\ DisconnectTransport(0)
  /\ state' = "Error"
  /\ UNCHANGED <<reconnectAttempts, timers>>

-----------------------------------------------------------------------------
(* What the user and the screens do. *)

\* The button "Usar como monitor" with an endpoint that EndpointPolicy accepts.
Connect ==
  /\ manualDisconnect' = FALSE
  /\ reconnectAttempts' = 0
  /\ state' = "Connecting"
  /\ ConnectTransport
  /\ UNCHANGED <<timers, closed, alive, queue>>

ConnectClicked ==
  /\ alive
  /\ screen \in {"Idle", "Error"}
  /\ ~closed
  /\ generation < MaxGeneration
  /\ Connect
  /\ UNCHANGED ui

\* The endpoint is not accepted: nothing but the state changes.  On a screen
\* that is a frame behind, a reconnection may just have been scheduled.
ConnectRefused ==
  /\ alive
  /\ screen \in {"Idle", "Error"}
  /\ state \in {"Idle", "Error", "Reconnecting"}
  /\ ~closed
  /\ state' = "Error"
  /\ UNCHANGED <<generation, reconnectAttempts, timers, transport, ui, flags,
                 network, queue>>

\* LaunchedEffect of ConnectionScreen, with the endpoint of the intent.
AutoConnect ==
  /\ alive
  /\ launch /\ ~closed
  /\ launch' = FALSE
  /\ Connect
  /\ UNCHANGED screen

Disconnect ==
  /\ manualDisconnect' = TRUE
  /\ generation' = generation + 1
  /\ DisconnectTransport(0)
  /\ state' = "Idle"
  /\ UNCHANGED <<reconnectAttempts, timers, alive, network, queue>>

\* "Desconectar"
DisconnectClicked ==
  /\ alive
  /\ screen = "Streaming"
  /\ ~closed
  /\ generation < MaxGeneration
  /\ Disconnect
  /\ UNCHANGED <<ui, closed>>

\* The activity is finished for good.
OnCleared ==
  /\ alive
  /\ ~closed
  /\ closed' = TRUE
  /\ Disconnect
  /\ UNCHANGED ui

\* A frame.  The effect is launched when ConnectionScreen enters the
\* composition, and runs before the next frame.
Compose ==
  /\ alive
  /\ ~launch
  /\ screen # state
  /\ screen' = state
  /\ launch' = (DebugExtras /\ screen = "Streaming")
  /\ UNCHANGED <<control, transport, flags, network, queue>>

-----------------------------------------------------------------------------
(* What happens on the threads of OkHttp and WebRTC. *)

Post(kind, g) ==
  /\ alive
  /\ Len(queue) < MaxQueue
  /\ queue' = Append(queue, [kind |-> kind, of |-> g])

SocketOpens(g) ==
  /\ generation < MaxGeneration
  /\ g \in sockets \ opened
  /\ opened' = opened \cup {g}
  /\ Post("open", g)
  /\ UNCHANGED <<control, transport, ui, flags, sockets>>

\* Before the hello the host only says "busy" or "rate_limited"; afterwards it
\* may refuse the hello, offer (again, after a rebuild), or fail.
HostSpeaks(g, kind) ==
  /\ generation < MaxGeneration
  /\ g \in sockets \cap opened
  /\ kind = "offer" /\ g = webSocket => greeted
  /\ Post(kind, g)
  /\ UNCHANGED <<control, transport, ui, flags, network>>

\* onFailure or onClosed, also the answer to close().
SocketEnds(g) ==
  /\ g \in sockets
  /\ sockets' = sockets \ {g}
  /\ opened' = opened \ {g}
  /\ closing' = closing \ {g}
  /\ Post("gone", g)
  /\ UNCHANGED <<control, fields, rtc, statsArmed, ui, flags>>

\* ICE is DISCONNECTED or FAILED.
IceBreaks(p) ==
  /\ generation < MaxGeneration
  /\ p \in peers
  /\ Post("ice", p)
  /\ UNCHANGED <<control, transport, ui, flags, network>>

\* The screen shows the state, and has no effect to run.
Drawn == screen = state /\ ~launch

\* onAddTrack and onTrack, while the offer is being applied: a session, from
\* connecting to here, takes longer than a frame.
TrackArrives(p) ==
  /\ alive
  /\ p \in answering \ tracked
  /\ Drawn
  /\ Len(queue) + 2 <= MaxQueue
  /\ queue' = queue \o [i \in 1..2 |-> [kind |-> "track", of |-> p]]
  /\ tracked' = tracked \cup {p}
  /\ UNCHANGED <<control, fields, peers, answering, statsCalls, statsArmed, closing, ui,
                 flags, network>>

\* The answer is created, set, and sent on the socket in webSocket.
AnswerSent(p) ==
  /\ alive
  /\ p \in answering
  /\ answering' = answering \ {p}
  /\ UNCHANGED <<control, fields, peers, tracked, statsCalls, statsArmed, closing, ui,
                 flags, network, queue>>

\* A step of the exchange fails: fail() runs on WebRTC's thread.
SdpFails(p) ==
  /\ alive
  /\ generation < MaxGeneration
  /\ p \in answering
  /\ Fail
  /\ UNCHANGED <<ui, flags, network, queue>>

\* The report of a getStats call.
StatsArrive(p) ==
  /\ p \in statsCalls
  /\ statsCalls' = statsCalls \ {p}
  /\ Post("report", p)
  /\ UNCHANGED <<control, fields, peers, answering, tracked, statsArmed, closing, ui,
                 flags, network>>

\* The delay of a reconnection is over.
DelayElapses(g) ==
  /\ g \in timers
  /\ \A i \in DOMAIN queue : queue[i] # [kind |-> "due", of |-> g]
  /\ Drawn
  /\ Post("due", g)
  /\ UNCHANGED <<control, transport, ui, flags, network>>

-----------------------------------------------------------------------------
(* What the looper runs. *)

Take(kind) ==
  /\ alive
  /\ queue # << >>
  /\ Head(queue).kind = kind
  /\ queue' = Tail(queue)

\* The check of onMain for the runnable at the head of the queue.
Current == ~closed /\ generation = Head(queue).of

Outdated ==
  /\ alive
  /\ queue # << >>
  /\ Head(queue).kind \in Guarded
  /\ ~Current
  /\ queue' = Tail(queue)
  /\ UNCHANGED <<control, transport, ui, flags, network>>

\* onOpen: the hello goes out on the socket that opened.
SendHello ==
  /\ Take("open") /\ Current
  /\ greeted' = TRUE
  /\ UNCHANGED <<control, webSocket, peerConnection, remoteVideo, remoteTrackIds,
                 lastStats, rtc, statsArmed, closing, ui, flags, network>>

\* The first offer of a transport creates its peer connection.
AcceptOffer ==
  /\ Take("offer") /\ Current
  /\ peerConnection' = IF peerConnection = 0 THEN generation ELSE peerConnection
  /\ peers' = peers \cup {peerConnection'}
  /\ answering' = answering \cup {peerConnection'}
  /\ UNCHANGED <<control, webSocket, greeted, remoteVideo, remoteTrackIds, lastStats,
                 tracked, statsCalls, statsArmed, closing, ui, flags, network>>

\* The factory returns null, or the host's error is final.
FatalError ==
  /\ \/ Take("fatal")
     \/ Take("offer") /\ peerConnection = 0
  /\ Current
  /\ Fail
  /\ UNCHANGED <<ui, flags, network>>

\* The socket is lost, or the host's error may be retried.
TransportLost ==
  /\ Take("retryable") \/ Take("gone")
  /\ Current
  /\ ScheduleReconnect
  /\ UNCHANGED <<ui, flags, network>>

\* Posted without the check of the generation.
IceLost ==
  /\ Take("ice")
  /\ ScheduleReconnect
  /\ UNCHANGED <<ui, flags, network>>

\* attachRemoteTrack, which resets the attempts, and startStats.
AttachRemoteTrack ==
  /\ Take("track")
  /\ Head(queue).of \in peers
  /\ Head(queue).of \notin remoteTrackIds
  /\ remoteTrackIds' = remoteTrackIds \cup {Head(queue).of}
  /\ remoteVideo' = Head(queue).of
  /\ reconnectAttempts' = 0
  /\ state' = "Streaming"
  /\ statsArmed' = TRUE
  /\ UNCHANGED <<generation, timers, webSocket, greeted, peerConnection, lastStats,
                 rtc, closing, ui, flags, network>>

\* The other callback has attached it already.
TrackKnown ==
  /\ Take("track")
  /\ Head(queue).of \in peers
  /\ Head(queue).of \in remoteTrackIds
  /\ UNCHANGED <<control, transport, ui, flags, network>>

\* The track went with its peer: using it throws on the main thread.
TrackDisposed ==
  /\ Take("track")
  /\ Head(queue).of \notin peers
  /\ alive' = FALSE
  /\ UNCHANGED <<control, transport, ui, manualDisconnect, closed, network>>

\* statsRunnable asks for a report and posts itself again in a second, or ends.
StatsRun ==
  /\ alive
  /\ statsArmed
  /\ statsArmed' = (peerConnection # 0 /\ state = "Streaming")
  /\ statsCalls' = IF statsArmed' THEN statsCalls \cup {peerConnection} ELSE statsCalls
  /\ UNCHANGED <<control, fields, peers, answering, tracked, closing, ui, flags,
                 network, queue>>

\* consumeStats keeps the counters of the report, if it has any, whatever the
\* state is; only while streaming are the differences shown and sent.
ConsumeStats ==
  /\ Take("report")
  /\ lastStats' \in {lastStats, Head(queue).of}
  /\ UNCHANGED <<control, webSocket, greeted, peerConnection, remoteVideo,
                 remoteTrackIds, rtc, statsArmed, closing, ui, flags, network>>

\* Mutant: a delayed reconnection is never overtaken.
ReconnectUnchecked ==
  /\ Take("due")
  /\ timers' = timers \ {Head(queue).of}
  /\ state' = "Connecting"
  /\ ConnectTransport
  /\ UNCHANGED <<reconnectAttempts, ui, flags>>

\* A delayed reconnection that is not overtaken by a newer generation.
Reconnect ==
  /\ Take("due")
  /\ timers' = timers \ {Head(queue).of}
  /\ Current /\ ~manualDisconnect
  /\ state' = "Connecting"
  /\ ConnectTransport
  /\ UNCHANGED <<reconnectAttempts, ui, flags>>

ReconnectOvertaken ==
  /\ Take("due")
  /\ timers' = timers \ {Head(queue).of}
  /\ ~Current \/ manualDisconnect
  /\ UNCHANGED <<state, generation, reconnectAttempts, transport, ui, flags, network>>

-----------------------------------------------------------------------------
User == ConnectClicked \/ ConnectRefused \/ AutoConnect \/ DisconnectClicked
        \/ OnCleared \/ Compose

Callbacks ==
  \/ \E g \in sockets : \/ SocketOpens(g) \/ SocketEnds(g)
                         \/ \E kind \in {"offer", "retryable", "fatal"} :
                              HostSpeaks(g, kind)
  \/ \E p \in peers : \/ IceBreaks(p) \/ TrackArrives(p) \/ AnswerSent(p)
                       \/ SdpFails(p) \/ StatsArrive(p)

Looper == Outdated \/ SendHello \/ AcceptOffer \/ FatalError \/ TransportLost
          \/ IceLost \/ AttachRemoteTrack \/ TrackKnown \/ TrackDisposed
          \/ ConsumeStats \/ Reconnect \/ ReconnectOvertaken

Timer == \E g \in timers : DelayElapses(g)

Next == User \/ Callbacks \/ Looper \/ StatsRun \/ Timer

Spec == Init /\ [][Next]_vars

\* The looper runs what is posted, and what is due, and draws.  That the queue is
\* full again and again, which is a bound of the model, does not hold up what
\* is due.
FairSpec == /\ Spec
            /\ WF_vars(Looper)
            /\ WF_vars(Compose) /\ WF_vars(AutoConnect)
            /\ SF_vars(Timer)

-----------------------------------------------------------------------------
\* Types; every name in use is of a generation that has begun, and what is
\* known of a peer connection does not outlive it.
TypeOK ==
  /\ state \in State /\ screen \in State
  /\ generation \in Nat /\ reconnectAttempts \in 0..MaxAttempts
  /\ {manualDisconnect, closed, launch, statsArmed, greeted, alive} \subseteq BOOLEAN
  /\ {webSocket, peerConnection, remoteVideo, lastStats} \subseteq 0..generation
  /\ queue \in Seq(Runnable) /\ Len(queue) <= MaxQueue
  /\ timers \cup sockets \cup peers \subseteq 1..generation
  /\ opened \cup closing \subseteq sockets
  /\ remoteTrackIds \subseteq tracked
  /\ answering \cup tracked \cup statsCalls \subseteq peers

\* However losses, errors, clicks and late callbacks interleave, no socket and
\* no peer connection is left behind: what is neither closed nor disposed is
\* what the fields refer to (disconnectTransport, 421-435).
OneTransport ==
  /\ sockets \ closing \subseteq {webSocket}
  /\ peers = {peerConnection} \ {0}

\* WebRTC's thread sends answers and candidates on whatever the field webSocket
\* refers to (226, 259): it is always the socket of the peer's own session,
\* and the hello has gone out on it before.
AnswersReachTheirHost ==
  \A p \in peers : webSocket = p /\ greeted

\* "Reconectando" is shown only while a delayed reconnection is pending that
\* will not be dropped: the client is never stuck in it (385-403).
ReconnectingIsArmed ==
  state = "Reconnecting" => /\ generation \in timers
                            /\ ~manualDisconnect /\ ~closed
                            /\ webSocket = 0

\* While the client connects or streams, its socket can still report its end,
\* or has, in a runnable that onMain will not drop (157-193).
LossIsReported ==
  state \in {"Connecting", "Streaming"} =>
    /\ webSocket = generation
    /\ \/ webSocket \in sockets \ closing
       \/ \E i \in DOMAIN queue : queue[i] = [kind |-> "gone", of |-> generation]

\* The streaming screen shows a registered track of the living peer (276-289).
StreamingHasVideo ==
  state = "Streaming" => /\ remoteVideo = peerConnection
                         /\ remoteVideo \in peers \cap remoteTrackIds

\* After "Desconectar", in an error, and after onCleared, there is no transport,
\* and after "Desconectar" nothing is pending that would bring one back
\* (405-446).
QuietWhenOff ==
  /\ manualDisconnect \/ closed => state \in {"Idle", "Error"}
  /\ state \in {"Idle", "Error"} => /\ webSocket = 0 /\ peerConnection = 0
                                   /\ remoteVideo = 0 /\ ~statsArmed
  /\ state = "Idle" => generation \notin timers

\* The delayed reconnection comes.
ReconnectingEnds == state = "Reconnecting" ~> state # "Reconnecting" \/ ~alive

\* A socket that has ended is let go: the state that relies on it ends.
LossIsNoticed ==
  webSocket \notin sockets \cup {0} ~> webSocket \in sockets \cup {0} \/ ~alive

\* An error is left because the user connects, or leaves, or by the ICE
\* runnable of the failed session, the only one posted without onMain's check,
\* or, when the error is a click that connect() refused, by the reconnection
\* it did not cancel (138-143); never by a timer or a callback of a transport
\* that is over (246-253, 385-412).
ErrorIsLeftByUserOrIce ==
  [][state = "Error" /\ state' # "Error" =>
       \/ state' = "Connecting" /\ reconnectAttempts' = 0
       \/ manualDisconnect'
       \/ queue # << >> /\ Head(queue).kind = "ice"
       \/ /\ queue # << >> /\ Head(queue) = [kind |-> "due", of |-> generation]
          /\ state' = "Connecting"]_vars
=============================================================================
