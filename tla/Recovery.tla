------------------------------ MODULE Recovery ------------------------------
(***************************************************************************)
(* Tablet and host together when the network fails, in seconds: the host   *)
(* finds out by its heartbeat (linux/host/src/server.rs) and is "busy"     *)
(* with the lost session until then; the tablet (AuxScreenController and   *)
(* ReconnectPolicy) tries again after growing delays, each try being told  *)
(* "busy", let in, or timed out.                                           *)
(*                                                                         *)
(* Either side may learn of a loss early, the tablet from ICE, the host    *)
(* from a close frame that got through in the end.                         *)
(***************************************************************************)
EXTENDS Integers, Sequences

CONSTANTS
  Interval,        \* between the host's pings (5)
  HelloTimeout,    \* how long the host waits for a client_hello (10)
  MaxBlind,        \* OkHttp's ping interval twice (20): a loss is noticed
  ConnectTimeout,  \* of the HTTP client (5)
  MaxOutages       \* bound: how often the network fails

ASSUME RecoveryAssumption ==
  /\ Interval \in Nat \ {0} /\ HelloTimeout \in Nat \ {0} /\ MaxBlind \in Nat
  /\ ConnectTimeout \in Nat \ {0} /\ MaxOutages \in Nat

VARIABLES
  up, outages,     \* the network
  holder,          \* of the host's slot: "none", "current" (the tablet's
                   \* socket) or "stale" (one it has given up)
  hello,           \* the holder's client_hello has been read
  due, missed,     \* the holder's heartbeat; until then, its time to say hello
  tablet,          \* "streaming", "waiting", "connecting", "admitted" (it has
                   \* a session and no video yet) or "error"
  timer,           \* until the delay or the connect timeout is over
  blind,           \* how long the tablet has had a session that is dead
  attempts,        \* reconnectAttempts
  met,             \* the last try had the network all along
  unplayed         \* the last try since there was video to get a session and
                   \* lose it; 0 if none has

vars == <<up, outages, holder, hello, due, missed, tablet, timer, blind,
          attempts, met, unplayed>>
host == <<holder, hello, due, missed>>
network == <<up, outages>>

\* Mutant: the last delay is left out.
DelaysWithoutLast == <<1, 2, 4, 8>>

Delays == <<1, 2, 4, 8, 15>>

\* A test saw what comes of "busy" being final
\* (docs/test-results/2026-07-18-sm-x400.md:78).
Retryable(code) == code \in {"busy", "heartbeat_timeout"}

HasSession == tablet \in {"admitted", "streaming"}
Alive == up /\ holder = "current" /\ HasSession

Init ==
  /\ up = TRUE /\ outages = 0
  /\ holder = "current" /\ hello = TRUE /\ due \in 0..Interval /\ missed = 0
  /\ tablet = "streaming" /\ timer = 0 /\ blind = 0
  /\ attempts = 0 /\ met = TRUE /\ unplayed = 0

-----------------------------------------------------------------------------
Lose ==
  /\ up /\ outages < MaxOutages
  /\ up' = FALSE /\ outages' = outages + 1
  /\ met' = FALSE
  /\ UNCHANGED <<host, tablet, timer, blind, attempts, unplayed>>

Return ==
  /\ ~up
  /\ up' = TRUE
  /\ UNCHANGED <<outages, host, tablet, timer, blind, attempts, met, unplayed>>

-----------------------------------------------------------------------------
\* The slot is free again: ConnectionGuard is dropped.
Free == holder' = "none" /\ hello' = FALSE /\ due' = 0 /\ missed' = 0

\* The heartbeat arm: a ping, or the session is over.
Heartbeat ==
  /\ holder # "none" /\ hello /\ due = 0
  /\ IF missed >= 3
     THEN Free
     ELSE /\ due' = Interval
          /\ missed' = IF Alive THEN 0 ELSE missed + 1
          /\ UNCHANGED <<holder, hello>>
  /\ UNCHANGED <<network, tablet, timer, blind, attempts, met, unplayed>>

\* timeout(10 s, socket.recv()).
HelloTimesOut ==
  /\ holder # "none" /\ ~hello /\ due = 0
  /\ Free
  /\ UNCHANGED <<network, tablet, timer, blind, attempts, met, unplayed>>

\* The close frame, or a reset, of a socket the tablet has given up arrives.
StaleSocketEnds ==
  /\ holder = "stale" /\ up
  /\ Free
  /\ UNCHANGED <<network, tablet, timer, blind, attempts, met, unplayed>>

-----------------------------------------------------------------------------
\* Mutant: the last delay is used again and again.
ScheduleReconnectForever ==
  /\ tablet' = "waiting"
  /\ timer' = Delays[IF attempts < Len(Delays) THEN attempts + 1 ELSE Len(Delays)]
  /\ attempts' = attempts + 1
  /\ blind' = 0

\* scheduleReconnect, and delayForAttempt.
ScheduleReconnect ==
  /\ IF attempts < Len(Delays)
     THEN /\ tablet' = "waiting" /\ timer' = Delays[attempts + 1]
          /\ attempts' = attempts + 1
     ELSE /\ tablet' = "error" /\ timer' = 0
          /\ UNCHANGED attempts
  /\ blind' = 0

\* ICE is disconnected, OkHttp misses a pong, or the socket has ended.
NoticeLoss ==
  /\ HasSession /\ outages > 0
  /\ ScheduleReconnect
  /\ holder' = IF holder = "current" THEN "stale" ELSE holder
  /\ unplayed' = IF tablet = "admitted" THEN attempts ELSE unplayed
  /\ UNCHANGED <<network, hello, due, missed, met>>

Connect ==
  /\ tablet = "waiting" /\ timer = 0
  /\ tablet' = "connecting" /\ timer' = ConnectTimeout
  /\ met' = up
  /\ UNCHANGED <<network, host, blind, attempts, unplayed>>

\* The host takes the slot for the new socket.
Admitted ==
  /\ tablet = "connecting" /\ up /\ holder = "none"
  /\ holder' = "current" /\ hello' = FALSE /\ due' = HelloTimeout /\ missed' = 0
  /\ tablet' = "admitted" /\ timer' = 0
  /\ UNCHANGED <<network, blind, attempts, met, unplayed>>

\* onOpen's client_hello is read: the session begins with a ping.
Hello ==
  /\ tablet = "admitted" /\ Alive /\ ~hello
  /\ hello' = TRUE /\ due' = 0
  /\ UNCHANGED <<network, holder, missed, tablet, timer, blind, attempts, met,
                 unplayed>>

\* attachRemoteTrack, after the offer and the answer.
Track ==
  /\ tablet = "admitted" /\ Alive /\ hello
  /\ tablet' = "streaming" /\ attempts' = 0 /\ unplayed' = 0
  /\ UNCHANGED <<network, host, timer, blind, met>>

\* The slot is taken.
Busy ==
  /\ tablet = "connecting" /\ up /\ holder # "none"
  /\ IF Retryable("busy") THEN ScheduleReconnect
     ELSE tablet' = "error" /\ timer' = 0 /\ UNCHANGED <<attempts, blind>>
  /\ UNCHANGED <<network, host, met, unplayed>>

TimedOut ==
  /\ tablet = "connecting" /\ timer = 0 /\ ~met
  /\ ScheduleReconnect
  /\ UNCHANGED <<network, host, met, unplayed>>

-----------------------------------------------------------------------------
\* A second passes; what is due comes first.
Tick ==
  /\ holder # "none" => due > 0
  /\ tablet \in {"waiting", "connecting"} => timer > 0
  /\ HasSession /\ ~Alive => blind < MaxBlind
  /\ due' = IF due > 0 THEN due - 1 ELSE 0
  /\ timer' = IF timer > 0 THEN timer - 1 ELSE 0
  /\ blind' = IF HasSession /\ ~Alive THEN blind + 1 ELSE 0
  /\ UNCHANGED <<network, holder, hello, missed, tablet, attempts, met, unplayed>>

Next == \/ Lose \/ Return \/ Heartbeat \/ HelloTimesOut \/ StaleSocketEnds
        \/ NoticeLoss \/ Connect \/ Admitted \/ Hello \/ Track \/ Busy
        \/ TimedOut \/ Tick

Spec == Init /\ [][Next]_vars

-----------------------------------------------------------------------------
\* Types; as many tries as there are delays.
TypeOK ==
  /\ up \in BOOLEAN /\ hello \in BOOLEAN /\ met \in BOOLEAN
  /\ outages \in 0..MaxOutages
  /\ holder \in {"none", "current", "stale"}
  /\ due \in Nat
  /\ hello => due <= Interval
  /\ ~hello => due <= HelloTimeout
  /\ missed \in 0..3
  /\ tablet \in {"streaming", "waiting", "connecting", "admitted", "error"}
  /\ timer \in Nat /\ blind \in 0..MaxBlind
  /\ attempts \in 0..Len(Delays) /\ unplayed \in 0..Len(Delays)

\* After outages, also one on the heels of another, the tablet gives up only if
\* the network was not there for the whole of its last try, or its fourth or
\* fifth try had got a session and lost it again before the video: otherwise the
\* host has freed the slot of the lost session before the last try, whoever of
\* the two noticed first (server.rs:65, 234, 345-350 against
\* ConnectionPolicies.kt:4-8).  The exception is there because the attempts are
\* set back by the track and not by the session (AuxScreenController.kt:282):
\* after the fourth try there are 15 seconds left, and the host may need 20.
GivesUpOnlyWhenCutOff == tablet = "error" => ~met \/ unplayed >= 4
=============================================================================
