----------------------------- MODULE HostSession -----------------------------
(***************************************************************************)
(* The WebSocket service of the Linux host (linux/host/src/server.rs): the *)
(* one session slot, the limiter of failed logins and the handshake, as    *)
(* run by one handle_socket task per connection on the worker threads of   *)
(* the tokio runtime.                                                      *)
(*                                                                         *)
(* A task runs on a worker thread from one await to the next.  The only    *)
(* place where a state shared with other tasks is read, and acted on later *)
(* in the same stretch, is the start of handle_socket: is_limited, then,   *)
(* with no await between them, the compare-and-swap.  A task between the   *)
(* two ("checked") keeps its worker busy, so there are never more of them  *)
(* than workers, and while every worker is busy no other task takes a      *)
(* step.                                                                   *)
(*                                                                         *)
(* A failed login is kept as its age in ticks of the clock, WINDOW meaning *)
(* "at least WINDOW".                                                      *)
(***************************************************************************)
EXTENDS Integers, Sequences, FiniteSets

CONSTANTS
  Conn,            \* connections that can be open at the same time
  Peer,            \* IP addresses they come from
  NoPeer,          \* not an address: the connection is not open
  MAX_FAILURES,    \* AuthLimiter::MAX_FAILURES (5)
  WINDOW,          \* AuthLimiter::WINDOW (60 s), in ticks
  Workers,         \* worker threads of the runtime
  NoAuth           \* TRUE: serve --no-auth, expected_token is None

ASSUME ConnAssumption == IsFiniteSet(Conn)
ASSUME PeerAssumption == NoPeer \notin Peer
ASSUME LimitAssumption == /\ MAX_FAILURES \in Nat \ {0}
                          /\ WINDOW \in Nat \ {0}
                          /\ Workers \in Nat \ {0}
                          /\ NoAuth \in BOOLEAN

VARIABLES
  pc,              \* where each connection's task is in handle_socket
  peer_ip,         \* the address it came from
  connected,       \* ServerState.connected, the AtomicBool
  failed_auth      \* ServerState.failed_auth: per address, ages, oldest first

vars == <<pc, peer_ip, connected, failed_auth>>

(***************************************************************************)
(* idle: no task.  accepted: upgraded, not yet looked at.  checked: past   *)
(* is_limited.  rejected: being told "rate_limited" or "busy".  hello:     *)
(* waiting for the client's hello.  refused: being told why the hello was  *)
(* not accepted.  starting: hello accepted, media session being built.     *)
(* streaming: in the select loop.                                          *)
(***************************************************************************)
Phase == {"idle", "accepted", "checked", "rejected",
          "hello", "refused", "starting", "streaming"}

\* The phases in which the task owns the ConnectionGuard.
Guarded == {"hello", "refused", "starting", "streaming"}

At(phase) == {c \in Conn : pc[c] = phase}
holders == {c \in Conn : pc[c] \in Guarded}

\* Some worker thread is not inside the limiter check.
FreeWorker == Cardinality(At("checked")) < Workers

-----------------------------------------------------------------------------
(* The limiter.  Entries are pushed at the back as they happen, so the     *)
(* expired ones are a prefix, and retain() drops that prefix.              *)

Expired(ages) == {i \in DOMAIN ages : ages[i] >= WINDOW}

\* Mutant: the limiter never forgets.
RetainAll(ages) == ages

Retain(ages) == SubSeq(ages, Cardinality(Expired(ages)) + 1, Len(ages))

\* Mutant: failures are pushed at the front.
RecordFailureInFront(ages) == <<0>> \o Retain(ages)

RecordFailure(ages) == Append(Retain(ages), 0)

\* Mutant: one attempt too many.
LimitedOffByOne(ages) == Len(Retain(ages)) > MAX_FAILURES

Limited(ages) == Len(Retain(ages)) >= MAX_FAILURES

Older(ages) == [i \in DOMAIN ages |-> IF ages[i] < WINDOW THEN ages[i] + 1
                                                          ELSE WINDOW]

(* The first message of a client, as far as validate_client_hello looks at *)
(* it, and its verdict.                                                    *)
FirstMessage == [type : {"client_hello", "other"}, token : {"right", "wrong"},
                 protocol : {"ours", "other"}]

ValidateClientHello(m) ==
  CASE m.type # "client_hello"              -> "hello_required"
    [] ~NoAuth /\ m.token # "right"         -> "unauthorized"
    [] m.protocol # "ours"                  -> "protocol_mismatch"
    [] OTHER                                -> "ok"

-----------------------------------------------------------------------------
Init ==
  /\ pc = [c \in Conn |-> "idle"]
  /\ peer_ip = [c \in Conn |-> NoPeer]
  /\ connected = FALSE
  /\ failed_auth = [p \in Peer |-> << >>]

\* Mutant: the address outlives its connection.
GotoKeepingPeer(c, phase) ==
  /\ pc' = [pc EXCEPT ![c] = phase]
  /\ UNCHANGED peer_ip

\* The task of connection c goes on to another phase, and ends in "idle".
Goto(c, phase) ==
  /\ pc' = [pc EXCEPT ![c] = phase]
  /\ peer_ip' = [peer_ip EXCEPT ![c] = IF phase = "idle" THEN NoPeer ELSE @]

\* A client's HTTP request is upgraded: axum spawns the task.
Upgrade(c, p) ==
  /\ pc[c] = "idle"
  /\ FreeWorker
  /\ pc' = [pc EXCEPT ![c] = "accepted"]
  /\ peer_ip' = [peer_ip EXCEPT ![c] = p]
  /\ UNCHANGED <<connected, failed_auth>>

\* is_limited: forgets the peer's old failures and counts the rest.
IsLimited(c) ==
  /\ pc[c] = "accepted"
  /\ FreeWorker
  /\ failed_auth' = [failed_auth EXCEPT ![peer_ip[c]] = Retain(@)]
  /\ Goto(c, IF Limited(failed_auth[peer_ip[c]]) THEN "rejected" ELSE "checked")
  /\ UNCHANGED connected

\* Mutant: the flag is read with the limiter and only stored here.
TakeSlotUnchecked(c) ==
  /\ pc[c] = "checked"
  /\ connected' = TRUE
  /\ Goto(c, "hello")
  /\ UNCHANGED failed_auth

\* compare_exchange(false, true) succeeds: the guard now owns the slot.
TakeSlot(c) ==
  /\ pc[c] = "checked"
  /\ ~connected
  /\ connected' = TRUE
  /\ Goto(c, "hello")
  /\ UNCHANGED failed_auth

\* compare_exchange fails: "busy".
Busy(c) ==
  /\ pc[c] = "checked"
  /\ connected
  /\ Goto(c, "rejected")
  /\ UNCHANGED <<connected, failed_auth>>

\* "rate_limited" or "busy" is sent, or cannot be, and the task returns.
Rejected(c) ==
  /\ pc[c] = "rejected"
  /\ FreeWorker
  /\ Goto(c, "idle")
  /\ UNCHANGED <<connected, failed_auth>>

\* The task returns, with or without an error: ConnectionGuard is dropped.
DropGuard(c) ==
  /\ Goto(c, "idle")
  /\ connected' = FALSE

\* Mutant: the early return comes before the guard exists.
HelloLostKeepingSlot(c) ==
  /\ pc[c] = "hello"
  /\ FreeWorker
  /\ Goto(c, "idle")
  /\ UNCHANGED <<connected, failed_auth>>

\* No hello in ten seconds, the client went away, or it sent no JSON text.
HelloLost(c) ==
  /\ pc[c] = "hello"
  /\ FreeWorker
  /\ DropGuard(c)
  /\ UNCHANGED failed_auth

\* The hello is not acceptable.  Only a wrong token counts as a failure.
HelloRefused(c, m) ==
  /\ pc[c] = "hello"
  /\ FreeWorker
  /\ ValidateClientHello(m) # "ok"
  /\ Goto(c, "refused")
  /\ failed_auth' = IF ValidateClientHello(m) = "unauthorized"
                    THEN [failed_auth EXCEPT ![peer_ip[c]] = RecordFailure(@)]
                    ELSE failed_auth
  /\ UNCHANGED connected

\* The reason is sent, or cannot be, the socket is closed, the task returns.
Refused(c) ==
  /\ pc[c] = "refused"
  /\ FreeWorker
  /\ DropGuard(c)
  /\ UNCHANGED failed_auth

HelloAccepted(c, m) ==
  /\ pc[c] = "hello"
  /\ FreeWorker
  /\ ValidateClientHello(m) = "ok"
  /\ Goto(c, "starting")
  /\ UNCHANGED <<connected, failed_auth>>

\* MediaSession::new, hello_ack, stream_config and media.start (the last
\* perhaps on the second try, with OpenGL) all succeed.
Started(c) ==
  /\ pc[c] = "starting"
  /\ FreeWorker
  /\ Goto(c, "streaming")
  /\ UNCHANGED <<connected, failed_auth>>

\* Mutant: when the media session fails the client may send another hello.
StartFailedAsksAgain(c) ==
  /\ pc[c] = "starting"
  /\ FreeWorker
  /\ Goto(c, "hello")
  /\ UNCHANGED <<connected, failed_auth>>

\* One of them fails.
StartFailed(c) ==
  /\ pc[c] = "starting"
  /\ FreeWorker
  /\ DropGuard(c)
  /\ UNCHANGED failed_auth

\* The select loop ends: the client closes or is lost, its message does not
\* parse, the pipeline fails or the heartbeat times out.
SessionEnded(c) ==
  /\ pc[c] = "streaming"
  /\ FreeWorker
  /\ DropGuard(c)
  /\ UNCHANGED failed_auth

\* Time passes for every recorded failure.
Tick ==
  /\ failed_auth' = [p \in Peer |-> Older(failed_auth[p])]
  /\ UNCHANGED <<pc, peer_ip, connected>>

HelloEnds(c) ==
  \/ HelloLost(c)
  \/ \E m \in FirstMessage : HelloRefused(c, m) \/ HelloAccepted(c, m)

StartEnds(c) == Started(c) \/ StartFailed(c)

\* What a task does next unless its client decides when.
Proceeds(c) ==
  \/ IsLimited(c) \/ TakeSlot(c) \/ Busy(c) \/ Rejected(c)
  \/ HelloEnds(c) \/ Refused(c) \/ StartEnds(c)

Step(c) ==
  \/ \E p \in Peer : Upgrade(c, p)
  \/ Proceeds(c)
  \/ SessionEnded(c)

Next == (\E c \in Conn : Step(c)) \/ Tick

Spec == Init /\ [][Next]_vars

(***************************************************************************)
(* The clock advances, and a task that is ready again and again gets a     *)
(* worker in the end, as tokio's scheduler guarantees, even when other     *)
(* tasks keep the workers busy (hence strong fairness).  The wait for a    *)
(* hello ends because of its timeout, the other phases because what they   *)
(* send fits the socket buffer.  No client has to connect, and no session  *)
(* has to end.                                                             *)
(***************************************************************************)
FairSpec ==
  /\ Spec
  /\ WF_vars(Tick)
  /\ \A c \in Conn : SF_vars(Proceeds(c))

-----------------------------------------------------------------------------
\* Types; that the ages in a queue are ordered is OldestFirst.
TypeOK ==
  /\ pc \in [Conn -> Phase]
  /\ peer_ip \in [Conn -> Peer \cup {NoPeer}]
  /\ \A c \in Conn : peer_ip[c] = NoPeer <=> pc[c] = "idle"
  /\ connected \in BOOLEAN
  /\ failed_auth \in [Peer -> Seq(0..WINDOW)]

\* The failures of a peer are in the order they happened, oldest first: the
\* prefix that Retain drops is all that retain() would remove.
OldestFirst ==
  \A p \in Peer : \A i, j \in DOMAIN failed_auth[p] :
    i < j => failed_auth[p][i] >= failed_auth[p][j]

\* The flag is up exactly while one task owns the guard: no error path of the
\* handshake leaks the slot, and none hands it to two tablets
\* (server.rs:215-234, the early returns up to 298).
SlotAccurate ==
  /\ connected <=> holders # {}
  /\ \A c, d \in holders : c = d

\* However the checks of several connections interleave with the failures of
\* another, a peer gets at most Workers - 1 wrong tokens beyond the limit: on
\* one worker exactly MAX_FAILURES in a window (server.rs:203-217, 244).
FailureBound ==
  \A p \in Peer : Len(failed_auth[p]) <= MAX_FAILURES + Workers - 1

\* The slot flag implements the abstract session slot.
Slot == INSTANCE SessionSlot WITH Conn <- Conn, holders <- holders

SlotSpec == Slot!Spec

\* A connection that won the slot gives it back or gets a stream: a client
\* that says nothing, lies or disappears cannot keep others "busy"
\* (server.rs:236-250).
HandshakeEnds ==
  \A c \in Conn : pc[c] \in {"hello", "refused", "starting"}
                     ~> pc[c] \in {"idle", "streaming"}

\* A peer that has used up its attempts may try again once the window has
\* passed: rejected attempts do not prolong it (server.rs:122-127).
LimitLifted ==
  \A p \in Peer : Limited(failed_auth[p]) ~> ~Limited(failed_auth[p])
=============================================================================
