---------------------------- MODULE RecoveryProofs ----------------------------
(***************************************************************************)
(* Proofs about Recovery, for any number of outages, any time in which a   *)
(* loss is noticed and any connect timeout.                                *)
(***************************************************************************)
EXTENDS Recovery, TLAPS

-----------------------------------------------------------------------------
\* Every reachable state is well typed; in particular there are never more
\* tries than delays.
THEOREM TypeCorrect == Spec => []TypeOK
<1> USE RecoveryAssumption DEF TypeOK, Delays
<1>1. Init => TypeOK
  BY DEF Init
<1>2. TypeOK /\ [Next]_vars => TypeOK'
  <2> SUFFICES ASSUME TypeOK, [Next]_vars
               PROVE  TypeOK'
    OBVIOUS
  <2>1. CASE Lose \/ Return
    <3>1. {up', met'} \subseteq BOOLEAN
      BY <2>1 DEF Lose, Return
    <3>2. outages' \in 0..MaxOutages
      BY <2>1 DEF Lose, Return
    <3> QED
      BY <2>1, <3>1, <3>2 DEF Lose, Return, host
  <2>2. CASE Heartbeat
    <3>1. /\ hello /\ UNCHANGED <<up, outages, tablet, timer, blind, attempts, met, unplayed>>
          /\ \/ Free
             \/ /\ due' = Interval /\ missed' \in {0, missed + 1} /\ ~(missed >= 3)
                /\ holder' = holder /\ hello' = hello
      BY <2>2, Zenon DEF Heartbeat, network
    <3>2. CASE Free
      <4>1. up' \in BOOLEAN /\ hello' \in BOOLEAN /\ met' \in BOOLEAN
        BY <3>1, <3>2 DEF Free
      <4>2. due' \in Nat /\ due' <= Interval /\ due' <= HelloTimeout /\ missed' \in 0..3
        BY <3>2 DEF Free
      <4> QED
        BY <3>1, <3>2, <4>1, <4>2 DEF Free
    <3>3. CASE /\ due' = Interval /\ missed' \in {0, missed + 1} /\ ~(missed >= 3)
               /\ holder' = holder /\ hello' = hello
      <4>1. up' \in BOOLEAN /\ hello' \in BOOLEAN /\ met' \in BOOLEAN
        BY <3>1, <3>3
      <4>2. due' \in Nat /\ due' <= Interval /\ hello' /\ missed' \in 0..3
        BY <3>1, <3>3
      <4> QED
        BY <3>1, <3>3, <4>1, <4>2
    <3> QED
      BY <3>1, <3>2, <3>3, Zenon
  <2>3. CASE HelloTimesOut \/ StaleSocketEnds
    <3>1. Free /\ UNCHANGED <<up, outages, tablet, timer, blind, attempts, met, unplayed>>
      BY <2>3 DEF HelloTimesOut, StaleSocketEnds, network
    <3>2. up' \in BOOLEAN /\ hello' \in BOOLEAN /\ met' \in BOOLEAN
      BY <3>1 DEF Free
    <3>3. due' \in Nat /\ due' <= Interval /\ due' <= HelloTimeout /\ missed' \in 0..3
      BY <3>1 DEF Free
    <3> QED
      BY <3>1, <3>2, <3>3 DEF Free
  <2>4. CASE NoticeLoss
    BY <2>4 DEF NoticeLoss, HasSession, ScheduleReconnect, network
  <2>5. CASE Connect
    BY <2>5 DEF Connect, network, host
  <2>6. CASE Admitted \/ Hello \/ Track
    <3>1. up' \in BOOLEAN /\ hello' \in BOOLEAN /\ met' \in BOOLEAN
      BY <2>6 DEF Admitted, Hello, Track, network, host
    <3>2. /\ due' \in Nat
          /\ hello' => due' <= Interval
          /\ ~hello' => due' <= HelloTimeout
      BY <2>6 DEF Admitted, Hello, Track, host
    <3> QED
      BY <2>6, <3>1, <3>2 DEF Admitted, Hello, Track, network, host
  <2>7. CASE Busy
    BY <2>7 DEF Busy, Retryable, ScheduleReconnect, network, host
  <2>8. CASE TimedOut
    BY <2>8 DEF TimedOut, ScheduleReconnect, network, host
  <2>9. CASE Tick
    BY <2>9 DEF Tick, network
  <2>10. CASE UNCHANGED vars
    BY <2>10 DEF vars
  <2> QED
    BY <2>1, <2>2, <2>3, <2>4, <2>5, <2>6, <2>7, <2>8, <2>9, <2>10 DEF Next
<1> QED
  BY <1>1, <1>2, PTL DEF Spec

-----------------------------------------------------------------------------
(***************************************************************************)
(* Why the tablet outlasts the host: the seconds a lost session may still  *)
(* hold the slot and the seconds the tablet has waited since it let go of  *)
(* its socket are together no more than four intervals.                    *)
(***************************************************************************)

\* The delays up to and with that of the n-th try.
Waited == [n \in 0..5 |-> CASE n = 0 -> 0 [] n = 1 -> 1 [] n = 2 -> 3
                              [] n = 3 -> 7 [] n = 4 -> 15 [] n = 5 -> 30]

\* How long the tablet has waited since it lost its last session, at least.
Elapsed ==
  Waited[attempts] - Waited[unplayed] - (IF tablet = "waiting" THEN timer ELSE 0)

\* How long that session may hold the slot.
Remaining == IF hello THEN due + (3 - missed) * Interval ELSE due

Patience ==
  /\ tablet = "streaming" => attempts = 0 /\ unplayed = 0
  /\ tablet = "admitted" => attempts \in 1..5
  /\ tablet \in {"waiting", "connecting"} =>
       /\ holder # "current"
       /\ attempts \in 1..5
       /\ unplayed < attempts
       /\ tablet = "waiting" => timer <= Delays[attempts]
       /\ holder = "stale" => Remaining + Elapsed <= 4 * Interval
  /\ tablet = "error" => ~met \/ unplayed >= 4

\* With intervals of up to five seconds (the code's are five) the tablet is told
\* "busy" by the session it has lost, with no try left, only if that was a session
\* of one of the last two tries: else it gives up only if the network failed it.
THEOREM GivesUpOnlyWhenLost ==
  ASSUME 4 * Interval < 23, HelloTimeout <= 4 * Interval
  PROVE  Spec => []GivesUpOnlyWhenCutOff
<1> USE RecoveryAssumption DEF TypeOK, Patience, Elapsed, Remaining
<1>0. /\ Delays = <<1, 2, 4, 8, 15>> /\ Len(Delays) = 5
      /\ \A n \in 1..5 : Delays[n] \in Nat
      /\ \A n \in 0..5 : Waited[n] \in Nat
      /\ \A n \in 0..4 : Waited[n + 1] = Waited[n] + Delays[n + 1]
      /\ Waited[5] = 30 /\ \A n \in 0..3 : Waited[n] <= 7
  BY DEF Delays, Waited
<1>1. Init => Patience
  BY DEF Init
<1>2. TypeOK /\ Patience /\ [Next]_vars => Patience'
  <2> SUFFICES ASSUME TypeOK, Patience, [Next]_vars
               PROVE  Patience'
    OBVIOUS
  <2>1. CASE Lose \/ Return
    <3>1. UNCHANGED <<holder, hello, due, missed, tablet, timer, attempts, unplayed>>
      BY <2>1 DEF Lose, Return, host
    <3>2. met' = met \/ ~met'
      BY <2>1 DEF Lose, Return
    <3>3. Remaining' = Remaining /\ Elapsed' = Elapsed
      BY <3>1
    <3> QED
      BY <3>1, <3>2, <3>3
  <2>2. CASE Heartbeat
    <3>1. CASE missed >= 3
      BY <2>2, <3>1 DEF Heartbeat, Free, network
    <3>2. CASE ~(missed >= 3) /\ tablet \in {"waiting", "connecting"}
      <4>1. /\ hello /\ due = 0 /\ due' = Interval /\ missed' = missed + 1
            /\ UNCHANGED <<holder, hello, tablet, timer, attempts, met, unplayed>>
        BY <2>2, <3>2 DEF Heartbeat, network, Alive, HasSession
      <4>2. (3 - missed') * Interval = (3 - missed) * Interval - Interval
        BY <4>1
      <4> QED
        BY <1>0, <3>2, <4>1, <4>2
    <3>3. CASE ~(missed >= 3) /\ tablet \notin {"waiting", "connecting"}
      BY <2>2, <3>3 DEF Heartbeat, network
    <3> QED
      BY <3>1, <3>2, <3>3
  <2>3. CASE HelloTimesOut \/ StaleSocketEnds
    BY <2>3 DEF HelloTimesOut, StaleSocketEnds, Free, network
  <2>4. CASE NoticeLoss
    <3>1. /\ attempts \in 0..5 /\ tablet \in {"admitted", "streaming"}
          /\ unplayed' = attempts /\ holder' \in {"none", "stale"}
          /\ UNCHANGED <<hello, due, missed, met>>
      BY <1>0, <2>4 DEF NoticeLoss, HasSession
    <3>2. CASE attempts = 5
      BY <1>0, <2>4, <3>1, <3>2 DEF NoticeLoss, ScheduleReconnect
    <3>3. CASE attempts \in 0..4
      <4>1. /\ tablet' = "waiting" /\ attempts' = attempts + 1
            /\ timer' = Delays[attempts + 1]
        BY <1>0, <2>4, <3>3 DEF NoticeLoss, ScheduleReconnect
      <4>2. Waited[attempts'] - Waited[unplayed'] - timer' = 0
        BY <1>0, <3>1, <3>3, <4>1
      <4>3. Remaining <= 4 * Interval
        <5>1. (3 - missed) * Interval <= 3 * Interval
          BY DEF TypeOK
        <5> QED
          BY <5>1
      <4>4. Remaining' = Remaining
        BY <3>1
      <4> QED
        BY <1>0, <3>1, <3>3, <4>1, <4>2, <4>3, <4>4
    <3> QED
      BY <3>1, <3>2, <3>3
  <2>5. CASE Connect
    BY <1>0, <2>5 DEF Connect, network, host
  <2>6. CASE Admitted \/ Hello \/ Track
    BY <2>6 DEF Admitted, Hello, Track, network, host
  <2>7. CASE Busy
    <3>1. /\ holder = "stale" /\ tablet = "connecting" /\ ScheduleReconnect
          /\ UNCHANGED <<host, met, unplayed>>
      BY <2>7 DEF Busy, Retryable
    <3>2. CASE attempts \in 1..4
      <4>1. /\ tablet' = "waiting" /\ attempts' = attempts + 1
            /\ timer' = Delays[attempts + 1]
        BY <1>0, <3>1, <3>2 DEF ScheduleReconnect
      <4>2. Waited[attempts'] - timer' = Waited[attempts]
        BY <1>0, <3>2, <4>1
      <4>3. Remaining' = Remaining
        BY <3>1 DEF host
      <4>5. Elapsed' = Elapsed
        <5>1. Elapsed = Waited[attempts] - Waited[unplayed]
          BY <1>0, <3>1, <3>2
        <5>2. Elapsed' = Waited[attempts'] - Waited[unplayed] - timer'
          BY <3>1, <4>1
        <5>3. {attempts, attempts', unplayed} \subseteq 0..5 /\ timer' \in Nat
          BY <1>0, <3>2, <4>1
        <5> QED
          BY <1>0, <4>2, <5>1, <5>2, <5>3
      <4> QED
        BY <1>0, <3>1, <3>2, <4>1, <4>3, <4>5 DEF host
    <3>3. CASE attempts = 5
      <4>1. unplayed >= 4
        <5> SUFFICES ASSUME unplayed \in 0..3
                     PROVE  FALSE
          BY <1>0
        <5>1. Elapsed >= 23
          BY <1>0, <3>1, <3>3
        <5>2. Remaining >= 0
          <6>1. (3 - missed) * Interval >= 0
            OBVIOUS
          <6> QED
            BY <6>1
        <5>3. Remaining + Elapsed <= 4 * Interval /\ Remaining \in Int /\ Elapsed \in Int
          BY <1>0, <3>1
        <5> HIDE DEF Remaining, Elapsed
        <5> QED
          BY <5>1, <5>2, <5>3
      <4> QED
        BY <1>0, <3>1, <3>3, <4>1 DEF ScheduleReconnect
    <3> QED
      BY <3>1, <3>2, <3>3
  <2>8. CASE TimedOut
    <3>1. CASE attempts \in 1..4
      <4>1. /\ tablet' = "waiting" /\ attempts' = attempts + 1
            /\ timer' = Delays[attempts + 1] /\ UNCHANGED <<host, met, unplayed>>
            /\ tablet = "connecting"
        BY <1>0, <2>8, <3>1 DEF TimedOut, ScheduleReconnect
      <4>2. Waited[attempts'] - timer' = Waited[attempts]
        BY <1>0, <3>1, <4>1
      <4>3. Remaining' = Remaining
        BY <4>1 DEF host
      <4>5. Elapsed' = Elapsed
        <5>1. Elapsed = Waited[attempts] - Waited[unplayed]
          BY <1>0, <3>1, <4>1
        <5>2. Elapsed' = Waited[attempts'] - Waited[unplayed] - timer'
          BY <4>1
        <5>3. {attempts, attempts', unplayed} \subseteq 0..5 /\ timer' \in Nat
          BY <1>0, <3>1, <4>1
        <5> QED
          BY <1>0, <4>2, <5>1, <5>2, <5>3
      <4> QED
        BY <1>0, <3>1, <4>1, <4>3, <4>5 DEF host
    <3>2. CASE attempts = 5
      BY <1>0, <2>8, <3>2 DEF TimedOut, ScheduleReconnect
    <3> QED
      BY <2>8, <3>1, <3>2 DEF TimedOut
  <2>9. CASE Tick
    <3>1. /\ timer' \in {timer, timer - 1} /\ timer' <= timer
          /\ tablet = "waiting" => timer' = timer - 1
          /\ UNCHANGED <<holder, hello, missed, tablet, attempts, met, unplayed>>
      BY <2>9 DEF Tick
    <3>2. holder = "stale" => due' = due - 1
      BY <2>9 DEF Tick
    <3>3. holder = "stale" => Remaining' = Remaining - 1
      <4>1. (3 - missed') * Interval = (3 - missed) * Interval
            /\ (3 - missed) * Interval \in Int
        BY <3>1
      <4> QED
        BY <3>1, <3>2, <4>1
    <3>5. /\ holder = "stale" => Remaining \in Int
          /\ tablet \in {"waiting", "connecting"} => Elapsed \in Int /\ Elapsed' \in Int
      <4>1. (3 - missed) * Interval \in Int /\ timer \in Int /\ timer' \in Int
        BY <3>1
      <4>2. Waited[attempts] \in Int /\ Waited[unplayed] \in Int
        BY <1>0
      <4>3. Remaining \in Int
        BY <4>1
      <4>4. Elapsed \in Int
        BY <4>1, <4>2
      <4>5. Elapsed' \in Int
        BY <3>1, <4>1, <4>2
      <4> QED
        BY <4>3, <4>4, <4>5
    <3>4. tablet \in {"waiting", "connecting"} => Elapsed' <= Elapsed + 1
      <4> DEFINE w == Waited[attempts] - Waited[unplayed]
      <4>1. w \in Int /\ timer \in Int
        BY <1>0
      <4>2. Waited[attempts'] - Waited[unplayed'] = w
        BY <3>1
      <4>3. CASE tablet = "waiting"
        <5>1. Elapsed = w - timer /\ Elapsed' = w - (timer - 1)
          BY <3>1, <4>2, <4>3
        <5> QED
          BY <4>1, <5>1
      <4>4. CASE tablet = "connecting"
        <5>1. Elapsed = w - 0 /\ Elapsed' = w - 0
          BY <3>1, <4>2, <4>4
        <5> QED
          BY <4>1, <5>1
      <4> QED
        BY <4>3, <4>4
    <3>6. tablet \in {"waiting", "connecting"} /\ holder = "stale"
            => Remaining' + Elapsed' <= 4 * Interval
      <4> HIDE DEF Remaining, Elapsed
      <4> QED
        BY <3>3, <3>4, <3>5
    <3> QED
      BY <1>0, <3>1, <3>6
  <2>10. CASE UNCHANGED vars
    BY <2>10 DEF vars
  <2> QED
    BY <2>1, <2>2, <2>3, <2>4, <2>5, <2>6, <2>7, <2>8, <2>9, <2>10 DEF Next
<1>3. Patience => GivesUpOnlyWhenCutOff
  BY DEF GivesUpOnlyWhenCutOff
<1> QED
  BY <1>1, <1>2, <1>3, TypeCorrect, PTL DEF Spec
=============================================================================
