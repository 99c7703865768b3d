------------------------------ MODULE Heartbeat ------------------------------
(***************************************************************************)
(* The heartbeat of a streaming session (HeartbeatState and the heartbeat  *)
(* arm of the select loop in linux/host/src/server.rs), in discrete time.  *)
(*                                                                         *)
(* The loop sends a ping at every tick of an interval and reads pongs in   *)
(* between.  While it is busy elsewhere (rebuilding the pipeline, waiting  *)
(* for a send) it does neither; what became ready meanwhile is then served *)
(* in any order.  The tablet answers every ping it receives, in order; a   *)
(* pong is back after at most MaxRtt.  When the tablet is lost, no further *)
(* answer is sent.                                                         *)
(***************************************************************************)
EXTENDS Integers, Sequences

CONSTANTS
  Interval,        \* ticks between pings (5 s)
  MaxRtt,          \* bound on the time from a ping to its pong
  MaxStall,        \* bound on the time the loop is busy elsewhere
  MaxStalls,       \* bound: how often it is
  Nonces           \* nonces wrap around at this number (2^64)

ASSUME HeartbeatAssumption ==
  /\ Interval \in Nat \ {0} /\ MaxRtt \in Nat /\ MaxRtt < Interval
  /\ MaxStall \in Nat /\ MaxStalls \in Nat
  /\ Nonces \in Nat /\ Nonces > 3

VARIABLES
  nonce, missed,   \* HeartbeatState
  due,             \* time to the interval's next tick; 0 or less: ready
  echo,            \* pings whose pong is still to be read: nonce and age
  busy,            \* time the loop is still busy elsewhere
  stalls,          \* how often it has been
  reachable,       \* the tablet answers
  silence,         \* time since it does not
  open             \* the session has not been ended by the heartbeat

vars == <<nonce, missed, due, echo, busy, stalls, reachable, silence, open>>

Init ==
  /\ nonce = 0 /\ missed = 0 /\ due = 0 /\ echo = << >>
  /\ busy = 0 /\ stalls = 0
  /\ reachable = TRUE /\ silence = 0 /\ open = TRUE

\* Mutant: MissedTickBehavior::Burst, the default of the interval.
NextDeadlineBurst(d) == d + Interval

\* MissedTickBehavior::Skip: ticks that were missed are not made up for.
NextDeadline(d) == Interval - ((-d) % Interval)

\* Mutant: the nonce does not wrap around.
NextNonceUnwrapped == nonce + 1

NextNonce == (nonce + 1) % Nonces

\* Mutant: one ping more.
TimedOutLate == missed > 3

TimedOut == missed >= 3

\* next_ping returns None: the client is told, if it can be, and dropped.
HeartbeatTimeout ==
  /\ open /\ busy = 0 /\ due <= 0
  /\ TimedOut
  /\ open' = FALSE
  /\ UNCHANGED <<nonce, missed, due, echo, busy, stalls, reachable, silence>>

\* next_ping returns a new nonce.
SendPing ==
  /\ open /\ busy = 0 /\ due <= 0
  /\ ~TimedOut
  /\ nonce' = NextNonce
  /\ missed' = missed + 1
  /\ echo' = IF reachable THEN Append(echo, [nonce |-> nonce', age |-> 0]) ELSE echo
  /\ due' = NextDeadline(due)
  /\ UNCHANGED <<busy, stalls, reachable, silence, open>>

\* Mutant: any pong will do.
AcknowledgeAny(n) == missed' = 0

Acknowledge(n) == missed' = IF n = nonce THEN 0 ELSE missed

\* A pong is read and handed to acknowledge.
ReadPong ==
  /\ open /\ busy = 0
  /\ echo # << >>
  /\ Acknowledge(Head(echo).nonce)
  /\ echo' = Tail(echo)
  /\ UNCHANGED <<nonce, due, busy, stalls, reachable, silence, open>>

\* Another arm of the select loop keeps it busy.
Stall ==
  /\ open /\ busy = 0
  /\ stalls < MaxStalls
  /\ stalls' = stalls + 1
  /\ busy' \in 1..MaxStall
  /\ UNCHANGED <<nonce, missed, due, echo, reachable, silence, open>>

\* The tablet is gone; only pongs that are on their way already still arrive.
Lost ==
  /\ reachable
  /\ reachable' = FALSE
  /\ \E k \in 0..Len(echo) : echo' = SubSeq(echo, 1, k)
  /\ UNCHANGED <<nonce, missed, due, busy, stalls, silence, open>>

\* Time passes.  A loop that is not busy serves what is ready at once, and a
\* pong that has been on its way for MaxRtt is ready.
Tick ==
  /\ open
  /\ busy = 0 => due > 0 /\ \A i \in DOMAIN echo : echo[i].age < MaxRtt
  /\ due' = due - 1
  /\ echo' = [i \in DOMAIN echo |->
                [echo[i] EXCEPT !.age = IF @ < MaxRtt THEN @ + 1 ELSE @]]
  /\ busy' = IF busy > 0 THEN busy - 1 ELSE 0
  /\ silence' = IF reachable THEN 0 ELSE silence + 1
  /\ UNCHANGED <<nonce, missed, stalls, reachable, open>>

Next == HeartbeatTimeout \/ SendPing \/ ReadPong \/ Stall \/ Lost \/ Tick

Spec == Init /\ [][Next]_vars

-----------------------------------------------------------------------------
\* Types and bounds; at most three pings are unanswered.
TypeOK ==
  /\ nonce \in 0..(Nonces - 1) /\ missed \in 0..3
  /\ due \in (-(MaxStalls * MaxStall))..Interval
  /\ echo \in Seq([nonce : 0..(Nonces - 1), age : 0..MaxRtt])
  /\ busy \in 0..MaxStall /\ stalls \in 0..MaxStalls
  /\ reachable \in BOOLEAN /\ open \in BOOLEAN /\ silence \in Nat

\* Only the pong of the newest ping clears the count: a late pong of an older
\* one, or one whose nonce has wrapped around, never does, so there is never
\* more unanswered than the count says (server.rs:68-77).
CountCoversUnanswered == Len(echo) <= missed

\* A tablet whose answers take less than an interval is not given up because
\* the host's own loop was held up, however long, the one time it can be by a
\* rebuild with OpenGL (server.rs:303, 328-337, 345-351).
ResponsiveTabletIsKept == ~open => ~reachable

\* A lost tablet holds the session for four intervals at most, and as long as
\* the loop was held up.
LostTabletIsDropped ==
  open => silence <= 4 * Interval + MaxStalls * MaxStall
=============================================================================
