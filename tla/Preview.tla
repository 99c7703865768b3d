------------------------------- MODULE Preview -------------------------------
(***************************************************************************)
(* The preview command of the Linux host (linux/host/src/preview.rs): a    *)
(* loop that waits for a shutdown signal or the next 50 ms tick, at which  *)
(* it reads the messages of the GStreamer bus.                             *)
(*                                                                         *)
(* tokio delivers a signal to the listeners that exist when it arrives.    *)
(* shutdown::wait() registers one when it is first polled, and the select  *)
(* of every turn makes a new wait() and drops it when the tick comes       *)
(* first.  Before the very first registration a signal kills the process;  *)
(* afterwards the handler stays installed.                                 *)
(***************************************************************************)
EXTENDS Integers, Sequences

CONSTANT MaxMessages   \* bound: messages waiting on the bus

VARIABLES
  pc,              \* "select": about to poll; "wait": both futures pending;
                   \* "drain": in the tick's arm; "done": the process is gone
  handler,         \* a handler is installed for the signal
  listening,       \* the listener of this turn is registered
  notified,        \* and the signal has reached it
  ticked,          \* the interval's tick is ready
  bus,             \* messages on the bus: "error", "eos" or "other"
  asked            \* somebody has sent the signal

vars == <<pc, handler, listening, notified, ticked, bus, asked>>

Message == {"error", "eos", "other"}

Init ==
  /\ pc = "select" /\ handler = FALSE /\ listening = FALSE /\ notified = FALSE
  /\ ticked = TRUE /\ bus = << >> /\ asked = FALSE

-----------------------------------------------------------------------------
\* SIGTERM or Ctrl+C, once.
Signal ==
  /\ pc # "done" /\ ~asked
  /\ asked' = TRUE
  /\ IF handler
     THEN /\ notified' = listening
          /\ UNCHANGED pc
     ELSE /\ pc' = "done"
          /\ UNCHANGED notified
  /\ UNCHANGED <<handler, listening, ticked, bus>>

\* 50 ms are over.
Elapse ==
  /\ ~ticked
  /\ ticked' = TRUE
  /\ UNCHANGED <<pc, handler, listening, notified, bus, asked>>

\* The pipeline posts a message.
Post(m) ==
  /\ Len(bus) < MaxMessages
  /\ bus' = Append(bus, m)
  /\ UNCHANGED <<pc, handler, listening, notified, ticked, asked>>

\* select! polls its branches in random order.  A new wait() is registered
\* now and cannot be ready; if the tick is polled first, and is ready, it is
\* not even registered.
Select ==
  /\ pc = "select"
  /\ \/ /\ handler' = TRUE /\ listening' = TRUE /\ pc' = "wait"
        /\ UNCHANGED ticked
     \/ /\ ticked /\ ticked' = FALSE /\ pc' = "drain"
        /\ UNCHANGED <<handler, listening>>
  /\ UNCHANGED <<notified, bus, asked>>

\* The signal's branch wins: the pipeline is set to Null and run returns.
Stop ==
  /\ pc = "wait" /\ notified
  /\ pc' = "done"
  /\ UNCHANGED <<handler, listening, notified, ticked, bus, asked>>

\* Mutant: what the dropped wait() knew survives it.
TickWinsKeepingNotice ==
  /\ pc = "wait" /\ ticked
  /\ ticked' = FALSE
  /\ listening' = FALSE
  /\ pc' = "drain"
  /\ UNCHANGED <<handler, notified, bus, asked>>

\* The tick's branch wins, and this turn's wait() is dropped with what it knew.
TickWins ==
  /\ pc = "wait" /\ ticked
  /\ ticked' = FALSE
  /\ listening' = FALSE /\ notified' = FALSE
  /\ pc' = "drain"
  /\ UNCHANGED <<handler, bus, asked>>

\* Mutant: the end of a stream is the last thing that is read.
DrainUpToEos ==
  /\ pc = "drain"
  /\ \/ /\ bus # << >> /\ Head(bus) = "other"
        /\ bus' = Tail(bus) /\ UNCHANGED pc
     \/ /\ bus # << >> /\ Head(bus) = "error"
        /\ bus' = Tail(bus) /\ pc' = "done"
     \/ /\ bus # << >> => Head(bus) = "eos"
        /\ pc' = "select" /\ UNCHANGED bus
  /\ UNCHANGED <<handler, listening, notified, ticked, asked>>

\* Messages are read up to an error, which ends the preview, or an end of
\* stream, which only ends the reading.
Drain ==
  /\ pc = "drain"
  /\ \/ /\ bus # << >> /\ Head(bus) = "other"
        /\ bus' = Tail(bus) /\ UNCHANGED pc
     \/ /\ bus # << >> /\ Head(bus) = "eos"
        /\ bus' = Tail(bus) /\ pc' = "select"
     \/ /\ bus # << >> /\ Head(bus) = "error"
        /\ bus' = Tail(bus) /\ pc' = "done"
     \/ /\ bus = << >>
        /\ pc' = "select" /\ UNCHANGED bus
  /\ UNCHANGED <<handler, listening, notified, ticked, asked>>

Next == \/ Signal \/ Elapse \/ Select \/ Stop \/ TickWins \/ Drain
        \/ \E m \in Message : Post(m)

Spec == Init /\ [][Next]_vars

\* The timer and the task run; a branch that is ready again and again is
\* polled first in the end.
FairSpec == /\ Spec
            /\ WF_vars(Elapse) /\ WF_vars(Select \/ Drain)
            /\ SF_vars(Stop) /\ SF_vars(TickWins)

-----------------------------------------------------------------------------
\* Types; only a registered listener can have heard the signal.
TypeOK ==
  /\ pc \in {"select", "wait", "drain", "done"}
  /\ {handler, listening, notified, ticked, asked} \subseteq BOOLEAN
  /\ bus \in Seq(Message) /\ Len(bus) <= MaxMessages
  /\ notified => listening

\* "Press Ctrl+C or send SIGTERM to stop." (preview.rs:35)
SignalStopsPreview == asked ~> pc = "done"
=============================================================================
