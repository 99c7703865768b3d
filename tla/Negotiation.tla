----------------------------- MODULE Negotiation -----------------------------
(***************************************************************************)
(* The media session of one connection and its signalling: the part of     *)
(* handle_socket (linux/host/src/server.rs) that starts, relays for and    *)
(* rebuilds a MediaSession (linux/host/src/media.rs), and the tablet's one *)
(* peer connection.                                                        *)
(*                                                                         *)
(* There are at most two media sessions: 1, and 2, its replacement with    *)
(* the OpenGL bridge.  Each has callbacks that run one after the other on  *)
(* a thread of its webrtcbin, at any time between steps of the task.  A    *)
(* callback upgrades a weak reference first, and for its length the media  *)
(* session lives on even if the task has let go of it.  The offer's        *)
(* promise runs before the candidates that its local description brings.   *)
(***************************************************************************)
EXTENDS Integers, Sequences, FiniteSets

CONSTANTS
  UseGl,           \* serve --use-gl-fallback
  Others,          \* kinds of message, beside answers and candidates, that
                   \* the client sends
  MaxCandidates,   \* bound: candidates of each side per offer
  MaxBus           \* bound: messages waiting on a pipeline's bus

ASSUME NegotiationAssumption ==
  /\ UseGl \in BOOLEAN
  /\ Others \subseteq {"ping", "pong", "client_stats", "client_hello",
                       "binary", "not json"}
  /\ MaxCandidates \in Nat /\ MaxBus \in Nat \ {0}

VARIABLES
  pc,              \* the task: "start", "restart", "select", "drain" (in the
                   \* bus arm), "rebuild" (in it, replacement built), "over"
  media,           \* the media session the loop talks to
  held,            \* the media sessions the task owns
  playing,         \* those whose pipeline is in state Playing
  call,            \* per session, what its thread is in the middle of
  offer,           \* "none", "asked" (create-offer emitted), "made", "failed"
  remote,          \* whose offer the accepted answer answers, 0 before
  gathered,        \* local candidates it has found
  bus,             \* messages on its pipeline's bus
  broken,          \* those whose caps did not negotiate
  outbound,        \* the unbounded channel from the callbacks to the task
  down, up,        \* the WebSocket, each way
  pending,         \* offers the tablet is applying, in order
  answered,        \* offers it has answered, in order
  trickled,        \* candidates it has sent since
  late             \* a rebuild began when the replaced session had offered

task == <<pc, media, held, late>>
threads == <<call, offer, gathered, broken>>
tablet == <<pending, answered, trickled>>
vars == <<task, playing, threads, remote, bus, outbound, down, up, tablet>>

Session == {1, 2}
UsesGl(m) == UseGl \/ m = 2
Message(kind, m) == [kind |-> kind, of |-> m]
Error(code) == Message("error", 0)

Init ==
  /\ pc = "start" /\ media = 1 /\ held = {1} /\ late = FALSE
  /\ playing = {} /\ broken = {}
  /\ call = [m \in Session |-> "none"] /\ offer = [m \in Session |-> "none"]
  /\ remote = [m \in Session |-> 0] /\ gathered = [m \in Session |-> 0]
  /\ bus = [m \in Session |-> << >>]
  /\ outbound = << >> /\ down = << >> /\ up = << >>
  /\ pending = << >> /\ answered = << >> /\ trickled = 0

-----------------------------------------------------------------------------
(* Ownership.  Dropping the last reference sets the pipeline to Null.      *)

\* Mutant: the callbacks own what they belong to, a cycle.
KeptByCallbacks(S, owned, running) == S

Kept(S, owned, running) == {m \in S : m \in owned \/ running[m] # "none"}

\* Mutant: the media session is handed to a task that nobody ends.
EndLeaking ==
  /\ pc' = "over"
  /\ outbound' = << >>
  /\ UNCHANGED <<media, held, late, playing>>

\* handle_socket returns: its media sessions and the receiver are dropped.
End ==
  /\ pc' = "over" /\ held' = {}
  /\ playing' = Kept(playing, {}, call)
  /\ outbound' = << >>
  /\ UNCHANGED <<media, late>>

-----------------------------------------------------------------------------
(* The threads of the pipelines.                                           *)

\* The first buffer's caps reach webrtcbin: on-negotiation-needed asks it to
\* create an offer.
NegotiationNeeded(m) ==
  /\ m \in playing \ broken /\ call[m] = "none" /\ offer[m] = "none"
  /\ offer' = [offer EXCEPT ![m] = "asked"]
  /\ UNCHANGED <<task, playing, call, gathered, broken, remote, bus, outbound,
                 down, up, tablet>>

\* The offer's promise is answered, or a candidate is found: the callback has
\* upgraded its reference.
CallbackBegins(m) ==
  /\ m \in playing /\ call[m] = "none"
  /\ \/ /\ offer[m] = "asked"
        /\ call' = [call EXCEPT ![m] = "offer"]
        /\ UNCHANGED gathered
     \/ /\ offer[m] = "made" /\ gathered[m] < MaxCandidates
        /\ call' = [call EXCEPT ![m] = "candidate"]
        /\ gathered' = [gathered EXCEPT ![m] = @ + 1]
  /\ UNCHANGED <<task, playing, offer, broken, remote, bus, outbound, down, up,
                 tablet>>

\* What the callback sends; with the receiver gone it is lost.
Send(message) ==
  outbound' = IF pc = "over" THEN << >> ELSE Append(outbound, message)

\* Mutant: create-offer is emitted and forgotten.
CallbackEndsSilently(m) ==
  /\ call[m] # "none"
  /\ call' = [call EXCEPT ![m] = "none"]
  /\ playing' = Kept(playing, held, call')
  /\ offer' = [offer EXCEPT ![m] = IF call[m] = "offer" THEN "made" ELSE @]
  /\ UNCHANGED <<task, gathered, broken, remote, bus, outbound, down, up, tablet>>

\* offer_created sets the local description and sends the offer, or says why
\* there is none; a candidate is sent.  The reference is given back.
CallbackEnds(m) ==
  /\ call[m] # "none"
  /\ call' = [call EXCEPT ![m] = "none"]
  /\ playing' = Kept(playing, held, call')
  /\ \/ /\ call[m] = "offer"
        /\ offer' = [offer EXCEPT ![m] = "made"]
        /\ Send(Message("offer", m))
     \/ /\ call[m] = "offer"
        /\ offer' = [offer EXCEPT ![m] = "failed"]
        /\ Send(Error("offer_failed"))
     \/ /\ call[m] = "candidate"
        /\ Send(Message("candidate", m))
        /\ UNCHANGED offer
  /\ UNCHANGED <<task, gathered, broken, remote, bus, down, up, tablet>>

\* The pipeline posts "not-negotiated", when its caps fail at the start or later
\* when the monitor changes, another error or something harmless.
Post(m, what) ==
  /\ m \in playing /\ Len(bus[m]) < MaxBus
  /\ bus' = [bus EXCEPT ![m] = Append(@, what)]
  /\ broken' = IF what = "not-negotiated" THEN broken \cup {m} ELSE broken
  /\ UNCHANGED <<task, playing, call, offer, gathered, remote, outbound, down,
                 up, tablet>>

-----------------------------------------------------------------------------
(* The task.                                                               *)

\* Mutant: the loop forgets which pipeline it has already replaced.
MayRebuildAlways(m, what) == what = "not-negotiated"

\* Mutant: any error is taken for a failed negotiation.
MayRebuildOnAnyError(m, what) == what # "other" /\ ~UsesGl(m)

\* is_negotiation_failure, and not on the OpenGL bridge already.
MayRebuild(m, what) == what = "not-negotiated" /\ ~UsesGl(m)

\* handle_bus_message makes an error of error messages only.
Fails(what) == what # "other"

\* new_with_gl(.., true) succeeds; the replacement is yet to be started.
Build(where) ==
  /\ pc' = where
  /\ held' = held \cup {2}
  /\ late' = (offer[1] # "none")
  /\ UNCHANGED <<media, playing, outbound>>

\* The replacement starts, and what it replaces is dropped.
Replace(where) ==
  /\ pc' = where /\ media' = 2 /\ held' = {2}
  /\ playing' = Kept(playing \cup {2}, {2}, call)
  /\ UNCHANGED <<outbound, late>>

\* media.start(); on a negotiation failure once more, with OpenGL.
Start ==
  /\ pc = "start"
  /\ \/ /\ pc' = "select" /\ playing' = {1}
        /\ UNCHANGED <<media, held, outbound, late>>
     \/ MayRebuild(1, "not-negotiated") /\ Build("restart")
     \/ End
  /\ UNCHANGED <<threads, remote, bus, down, up, tablet>>

StartReplacement ==
  /\ \/ pc = "restart" /\ Replace("select")
     \/ pc = "rebuild" /\ Replace("drain")
     \/ pc \in {"restart", "rebuild"} /\ End
  /\ UNCHANGED <<threads, remote, bus, down, up, tablet>>

\* webrtcbin takes an answer while it has a local offer without one, and
\* nobody looks at the promise that would say otherwise.
TakesAnswer(m) == offer[m] = "made" /\ remote[m] = 0

\* What the host replies to a message at once, past the outbound channel.
Reply(kind) ==
  CASE kind = "ping"         -> <<Message("pong", 0)>>
    [] kind = "client_hello" -> <<Error("duplicate_hello")>>
    [] kind = "binary"       -> <<Error("text_only")>>
    [] OTHER                 -> << >>

\* A message is received and handled; what is not JSON, and an answer that is
\* not SDP, end the session.
Incoming ==
  /\ pc = "select" /\ up # << >>
  /\ up' = Tail(up)
  /\ down' = down \o Reply(Head(up).kind)
  /\ remote' = IF Head(up).kind = "answer" /\ TakesAnswer(media)
               THEN [remote EXCEPT ![media] = Head(up).of] ELSE remote
  /\ IF Head(up).kind \in {"not json", "close"}
     THEN End
     ELSE UNCHANGED <<task, playing, outbound>>
  /\ UNCHANGED <<threads, bus, tablet>>

\* Mutant: the newest message is relayed first.
OutgoingNewestFirst ==
  /\ pc = "select" /\ outbound # << >>
  /\ down' = Append(down, outbound[Len(outbound)])
  /\ outbound' = SubSeq(outbound, 1, Len(outbound) - 1)
  /\ UNCHANGED <<task, playing, threads, remote, bus, up, tablet>>

\* A callback's message is relayed.
Outgoing ==
  /\ pc = "select" /\ outbound # << >>
  /\ down' = Append(down, Head(outbound))
  /\ outbound' = Tail(outbound)
  /\ UNCHANGED <<task, playing, threads, remote, bus, up, tablet>>

BusTick ==
  /\ pc = "select" /\ bus[media] # << >>
  /\ pc' = "drain"
  /\ UNCHANGED <<media, held, late, playing, threads, remote, bus, outbound, down,
                 up, tablet>>

\* A message of the bus is handled, or there is none left.
Drain ==
  /\ pc = "drain"
  /\ IF bus[media] = << >>
     THEN pc' = "select" /\ UNCHANGED <<media, held, late, playing, outbound, down, bus>>
     ELSE LET what == Head(bus[media]) IN
          /\ bus' = [bus EXCEPT ![media] = Tail(@)]
          /\ \/ /\ ~Fails(what)
                /\ UNCHANGED <<task, playing, outbound, down>>
             \/ /\ Fails(what) /\ MayRebuild(media, what)
                /\ Build("rebuild") \/ End
                /\ UNCHANGED down
             \/ /\ Fails(what) /\ ~MayRebuild(media, what)
                /\ down' = Append(down, Error("media_pipeline"))
                /\ End
  /\ UNCHANGED <<threads, remote, up, tablet>>

\* A send or the heartbeat fails, or the connection is lost.
LoopFails ==
  /\ pc = "select"
  /\ End
  /\ UNCHANGED <<threads, remote, bus, down, up, tablet>>

-----------------------------------------------------------------------------
(* The tablet.                                                             *)

\* handleHostMessage: an offer is applied to the one peer connection, an error
\* closes the socket.
TabletReads ==
  /\ down # << >>
  /\ down' = Tail(down)
  /\ pending' = IF Head(down).kind = "offer" THEN Append(pending, Head(down).of)
                                             ELSE pending
  /\ up' = IF Head(down).kind \in {"offer", "candidate", "pong"} \/ pc = "over"
           THEN up ELSE Append(up, Message("close", 0))
  /\ UNCHANGED <<task, playing, threads, remote, bus, outbound, answered, trickled>>

\* The local description is set: the answer is sent.
TabletAnswers ==
  /\ pending # << >>
  /\ pending' = Tail(pending)
  /\ answered' = Append(answered, Head(pending))
  /\ trickled' = 0
  /\ up' = Append(up, Message("answer", Head(pending)))
  /\ UNCHANGED <<task, playing, threads, remote, bus, outbound, down>>

TabletTrickles ==
  /\ answered # << >> /\ trickled < MaxCandidates
  /\ trickled' = trickled + 1
  /\ up' = Append(up, Message("candidate", answered[Len(answered)]))
  /\ UNCHANGED <<task, playing, threads, remote, bus, outbound, down, pending, answered>>

\* Anything else a client may say (bound: once the last is dealt with).
ClientSays(kind) ==
  /\ pc # "over"
  /\ \A i \in DOMAIN up : up[i].kind \notin Others \cup {"close"}
  /\ \A i \in DOMAIN down : down[i].kind \notin {"pong", "error"}
  /\ up' = Append(up, Message(kind, 0))
  /\ UNCHANGED <<task, playing, threads, remote, bus, outbound, down, tablet>>

-----------------------------------------------------------------------------
Threads == \E m \in Session :
  \/ NegotiationNeeded(m) \/ CallbackBegins(m) \/ CallbackEnds(m)
  \/ \E what \in {"not-negotiated", "error", "other"} : Post(m, what)

Task == Start \/ StartReplacement \/ Incoming \/ Outgoing \/ BusTick \/ Drain
        \/ LoopFails

Tablet == TabletReads \/ TabletAnswers \/ TabletTrickles
          \/ \E kind \in Others : ClientSays(kind)

Next == Threads \/ Task \/ Tablet

Spec == Init /\ [][Next]_vars

\* The callbacks and the tablet's looper run; the task runs, an arm of select!
\* that is ready again and again is polled first some time, and messages do not
\* come faster than the bus is read.
FairSpec ==
  /\ Spec
  /\ WF_vars(Start \/ StartReplacement \/ Drain)
  /\ SF_vars(Drain /\ pc' = "select")
  /\ SF_vars(Incoming) /\ SF_vars(Outgoing) /\ SF_vars(BusTick)
  /\ \A m \in Session : WF_vars(CallbackBegins(m)) /\ WF_vars(CallbackEnds(m))
  /\ WF_vars(TabletReads) /\ WF_vars(TabletAnswers)

-----------------------------------------------------------------------------
Kinds == {"offer", "candidate", "answer", "pong", "error", "close"} \cup Others

\* Types; the task owns the media session it talks to until it returns.
TypeOK ==
  /\ pc \in {"start", "restart", "select", "drain", "rebuild", "over"}
  /\ media \in Session /\ held \subseteq Session /\ late \in BOOLEAN
  /\ media \in held <=> pc # "over"
  /\ playing \subseteq Session /\ broken \subseteq Session
  /\ call \in [Session -> {"none", "offer", "candidate"}]
  /\ offer \in [Session -> {"none", "asked", "made", "failed"}]
  /\ remote \in [Session -> {0} \cup Session]
  /\ gathered \in [Session -> 0..MaxCandidates] /\ trickled \in 0..MaxCandidates
  /\ bus \in [Session -> Seq({"not-negotiated", "error", "other"})]
  /\ {outbound, down, up} \subseteq Seq([kind : Kinds, of : {0} \cup Session])
  /\ {pending, answered} \subseteq Seq(Session)

Exchange == INSTANCE OfferAnswer WITH
  Session  <- Session,
  offered  <- {m \in Session : offer[m] = "made"},
  answered <- {answered[i] : i \in DOMAIN answered},
  agreed   <- {<<m, remote[m]>> : m \in {k \in Session : remote[k] # 0}},
  hasty    <- late

\* Each offer is made, answered and agreed on in this order.  The host takes the
\* answer to another offer only after a rebuild that came when the replaced
\* pipeline had begun to offer: then nothing tells the old answer from the new
\* one (media.rs:175-220, server.rs:281-298, 328-337, 367, kt:217-236).
ExchangeSpec == Exchange!Spec

\* The same holds of the tablet's candidates, each of which the host gives to
\* the pipeline it talks to by then (server.rs:336, 368-372).
MixUpNeedsLateRebuild ==
  pc = "select" /\ up # << >> /\ Head(up).kind = "candidate" =>
    late \/ Head(up).of = media

\* A candidate of the host reaches the tablet after its offer, so the peer
\* connection it is for exists and does not drop it (media.rs:191-208, 127-143,
\* server.rs:322, kt:206).
CandidatesFindTheirPeer ==
  down # << >> /\ Head(down).kind = "candidate" =>
    \E i \in DOMAIN (answered \o pending) : (answered \o pending)[i] = Head(down).of

\* An offer that was asked for comes to an answer the host accepts, unless its
\* media session is given up: no send is forgotten and no arm of the loop keeps
\* the others from running (media.rs:175-208, server.rs:305-344).
OfferSettles ==
  \A m \in Session : offer[m] = "asked" ~> remote[m] # 0 \/ m \notin held

\* A pipeline whose caps do not negotiate is replaced once, and when its
\* replacement fails as well the session ends (server.rs:323-344).
BreakdownEnds ==
  \A m \in Session : m \in broken /\ m \in held ~> m \notin held

\* No pipeline, with its PipeWire node and its ICE ports, outlives its session
\* for good: callbacks refer to it weakly (media.rs:28-35, 110-144, 295-299).
PipelinesAreReleased == pc = "over" ~> playing = {}
=============================================================================
