--------------------------- MODULE HeartbeatProofs ---------------------------
(***************************************************************************)
(* Proofs about Heartbeat, for any interval, round trip, stall and number  *)
(* of nonces.                                                              *)
(***************************************************************************)
EXTENDS Heartbeat, SequenceTheorems, TLAPS

Pong == [nonce : 0..(Nonces - 1), age : 0..MaxRtt]

-----------------------------------------------------------------------------
(* Arithmetic. *)

\* The next nonce is one more, or 0 after the last.
LEMMA NextNonceValue ==
  ASSUME nonce \in 0..(Nonces - 1)
  PROVE  NextNonce = IF nonce = Nonces - 1 THEN 0 ELSE nonce + 1
BY HeartbeatAssumption DEF NextNonce

\* After a tick that is late, or on time, the next one is due within one interval, and
\* a whole interval later if it was on time.
LEMMA NextDeadlineRange ==
  ASSUME NEW d \in Int, d <= 0
  PROVE  /\ NextDeadline(d) \in 1..Interval
         /\ d = 0 => NextDeadline(d) = Interval
BY HeartbeatAssumption DEF NextDeadline

\* The time that the stalls may have taken so far.
Slack == stalls * MaxStall - busy

\* One more stall is that much more time; all together are within the bound.
LEMMA SlackValue ==
  ASSUME stalls \in 0..MaxStalls, busy \in 0..MaxStall
  PROVE  /\ stalls * MaxStall \in Nat /\ MaxStalls * MaxStall \in Nat
         /\ (stalls + 1) * MaxStall = stalls * MaxStall + MaxStall
         /\ stalls * MaxStall <= MaxStalls * MaxStall
         /\ Slack \in Int
BY HeartbeatAssumption DEF Slack

-----------------------------------------------------------------------------
(* Types. *)

\* What becomes of the pongs on their way: one more, one less, the first of
\* them, or all of them older.
LEMMA EchoType ==
  ASSUME echo \in Seq(Pong)
  PROVE  /\ \A n \in 0..(Nonces - 1) :
              Append(echo, [nonce |-> n, age |-> 0]) \in Seq(Pong)
         /\ echo # << >> => /\ Tail(echo) \in Seq(Pong)
                            /\ Head(echo) \in Pong /\ Head(echo) = echo[1]
         /\ \A k \in 0..Len(echo) :
              /\ SubSeq(echo, 1, k) \in Seq(Pong)
              /\ Len(SubSeq(echo, 1, k)) = k
              /\ \A i \in 1..k : SubSeq(echo, 1, k)[i] = echo[i]
         /\ Tick => /\ echo' \in Seq(Pong) /\ Len(echo') = Len(echo)
                    /\ \A i \in 1..Len(echo) :
                         /\ echo'[i].nonce = echo[i].nonce
                         /\ echo'[i].age = IF echo[i].age < MaxRtt
                                           THEN echo[i].age + 1 ELSE echo[i].age
<1>1. Len(echo) \in Nat /\ DOMAIN echo = 1..Len(echo)
      /\ \A i \in 1..Len(echo) : echo[i] \in Pong
  OBVIOUS
<1>2. ASSUME NEW n \in 0..(Nonces - 1)
      PROVE  Append(echo, [nonce |-> n, age |-> 0]) \in Seq(Pong)
  <2>1. 0 \in 0..MaxRtt
    BY HeartbeatAssumption
  <2>2. [nonce |-> n, age |-> 0] \in Pong
    BY <2>1, Zenon DEF Pong
  <2> QED
    BY <2>2, AppendProperties
<1>3. ASSUME echo # << >>
      PROVE  Tail(echo) \in Seq(Pong) /\ Head(echo) \in Pong /\ Head(echo) = echo[1]
  BY <1>3, HeadTailProperties, EmptySeq
<1>4. ASSUME NEW k \in 0..Len(echo)
      PROVE  /\ SubSeq(echo, 1, k) \in Seq(Pong)
             /\ Len(SubSeq(echo, 1, k)) = k
             /\ \A i \in 1..k : SubSeq(echo, 1, k)[i] = echo[i]
  <2>1. \A i \in 1..k : echo[i] \in Pong
    BY <1>1
  <2>2. /\ SubSeq(echo, 1, k) \in Seq(Pong)
        /\ Len(SubSeq(echo, 1, k)) = IF 1 <= k THEN k - 1 + 1 ELSE 0
        /\ \A i \in 1..(k - 1 + 1) : SubSeq(echo, 1, k)[i] = echo[1 + i - 1]
    BY <1>1, <2>1, SubSeqProperties
  <2> QED
    BY <1>1, <2>2
<1>5. ASSUME Tick
      PROVE  /\ echo' \in Seq(Pong) /\ Len(echo') = Len(echo)
             /\ \A i \in 1..Len(echo) :
                  /\ echo'[i].nonce = echo[i].nonce
                  /\ echo'[i].age = IF echo[i].age < MaxRtt
                                    THEN echo[i].age + 1 ELSE echo[i].age
  <2> DEFINE Aged(p) == [p EXCEPT !.age = IF @ < MaxRtt THEN @ + 1 ELSE @]
  <2>1. ASSUME NEW p \in Pong
        PROVE  /\ Aged(p) \in Pong /\ Aged(p).nonce = p.nonce
               /\ Aged(p).age = IF p.age < MaxRtt THEN p.age + 1 ELSE p.age
    <3>1. p.age \in 0..MaxRtt /\ p.nonce \in 0..(Nonces - 1)
      BY <2>1 DEF Pong
    <3>2. (IF p.age < MaxRtt THEN p.age + 1 ELSE p.age) \in 0..MaxRtt
      BY <3>1, HeartbeatAssumption
    <3> QED
      BY <2>1, <3>1, <3>2 DEF Pong
  <2>2. echo' = [i \in 1..Len(echo) |-> Aged(echo[i])]
    BY <1>1, <1>5 DEF Tick
  <2> HIDE DEF Aged
  <2>3. echo' \in Seq(Pong) /\ Len(echo') = Len(echo)
    BY <1>1, <2>1, <2>2
  <2> QED
    BY <1>1, <2>1, <2>2, <2>3
<1> QED
  BY <1>2, <1>3, <1>4, <1>5

\* How far behind the next ping may be.
Behind == Slack >= 0 /\ due + Slack >= 0

\* The types hold in every reachable state, together with Behind: the interval's
\* next tick is never further in the past than the loop has been held up.
LEMMA Typed == Spec => [](TypeOK /\ Behind)
<1> USE HeartbeatAssumption
<1>1. Init => TypeOK /\ Behind
  <2> SUFFICES ASSUME Init
               PROVE  TypeOK /\ Behind
    OBVIOUS
  <2>1. 0 * MaxStall = 0 /\ MaxStalls * MaxStall \in Nat
    OBVIOUS
  <2> QED
    BY <2>1 DEF Init, TypeOK, Behind, Slack
<1>2. TypeOK /\ Behind /\ [Next]_vars => (TypeOK /\ Behind)'
  <2> SUFFICES ASSUME TypeOK, Behind, [Next]_vars
               PROVE  TypeOK' /\ Behind'
    OBVIOUS
  <2>0. /\ stalls * MaxStall \in Nat /\ MaxStalls * MaxStall \in Nat
        /\ (stalls + 1) * MaxStall = stalls * MaxStall + MaxStall
        /\ stalls * MaxStall <= MaxStalls * MaxStall
    BY SlackValue DEF TypeOK
  <2>1. CASE HeartbeatTimeout
    BY <2>1 DEF HeartbeatTimeout, TypeOK, Behind, Slack
  <2>2. CASE SendPing
    <3>1. nonce' \in 0..(Nonces - 1) /\ missed' \in 0..3 /\ due' \in 1..Interval
      BY <2>2, NextNonceValue, NextDeadlineRange DEF SendPing, TimedOut, TypeOK
    <3>2. echo' \in Seq(Pong)
      BY <2>2, <3>1, EchoType DEF SendPing, TypeOK, Pong
    <3> QED
      BY <2>0, <2>2, <3>1, <3>2 DEF SendPing, TypeOK, Behind, Slack, Pong
  <2>3. CASE ReadPong
    <3>1. echo' \in Seq(Pong)
      BY <2>3, EchoType DEF ReadPong, TypeOK, Pong
    <3> QED
      BY <2>3, <3>1 DEF ReadPong, Acknowledge, TypeOK, Behind, Slack, Pong
  <2>4. CASE Stall
    <3>1. /\ busy = 0 /\ busy' \in 0..MaxStall
          /\ stalls' = stalls + 1 /\ stalls' \in 0..MaxStalls /\ due' = due
      BY <2>4 DEF Stall, TypeOK
    <3>2. stalls' * MaxStall = stalls * MaxStall + MaxStall
      BY <2>0, <3>1
    <3>3. Slack' >= Slack
      BY <2>0, <3>1, <3>2 DEF Slack
    <3>4. Slack \in Int /\ Slack' \in Int /\ due \in Int
      BY <2>0, <3>1, <3>2 DEF TypeOK, Slack
    <3>5. Behind'
      BY <2>0, <3>1, <3>2, <3>4 DEF Behind, Slack
    <3> QED
      BY <2>4, <3>1, <3>5 DEF Stall, TypeOK
  <2>5. CASE Lost
    <3>1. echo' \in Seq(Pong)
      BY <2>5, EchoType DEF Lost, TypeOK, Pong
    <3> QED
      BY <2>5, <3>1 DEF Lost, TypeOK, Behind, Slack, Pong
  <2>6. CASE Tick
    <3>1. echo' \in Seq(Pong)
      BY <2>6, EchoType DEF TypeOK, Pong
    <3>2. /\ stalls' = stalls /\ due' = due - 1 /\ busy' \in 0..MaxStall
          /\ busy' = IF busy > 0 THEN busy - 1 ELSE 0
          /\ busy = 0 => due > 0
          /\ busy \in Nat /\ due \in Int
      <4>1. busy \in 0..MaxStall /\ due \in (-(MaxStalls * MaxStall))..Interval
        BY DEF TypeOK
      <4>2. /\ stalls' = stalls /\ due' = due - 1
            /\ busy' = IF busy > 0 THEN busy - 1 ELSE 0
            /\ busy = 0 => due > 0
        BY <2>6 DEF Tick
      <4> QED
        BY <4>1, <4>2, HeartbeatAssumption
    <3>3. stalls' * MaxStall = stalls * MaxStall
      BY <3>2
    <3>4. /\ Slack' = IF busy > 0 THEN Slack + 1 ELSE Slack
          /\ Slack \in Int /\ Slack' \in Int /\ due \in Int /\ due <= Interval
          /\ Slack' <= MaxStalls * MaxStall
      BY <2>0, <3>2, <3>3 DEF TypeOK, Slack
    <3>5. Behind'
      BY <2>0, <3>2, <3>3 DEF Behind, Slack
    <3>6. due' \in (-(MaxStalls * MaxStall))..Interval
      BY <2>0, <3>2, <3>4, <3>5 DEF Behind
    <3>7. silence' \in Nat
      <4>1. silence \in Nat /\ silence' = IF reachable THEN 0 ELSE silence + 1
        BY <2>6 DEF Tick, TypeOK
      <4> QED
        BY <4>1
    <3> QED
      BY <2>6, <3>1, <3>2, <3>5, <3>6, <3>7 DEF Tick, TypeOK, Pong
  <2>7. CASE UNCHANGED vars
    BY <2>7 DEF vars, TypeOK, Behind, Slack
  <2> QED
    BY <2>1, <2>2, <2>3, <2>4, <2>5, <2>6, <2>7 DEF Next
<1> QED
  BY <1>1, <1>2, PTL DEF Spec

\* Every reachable state is well typed and within its bounds: at most three
\* pings are counted, and the deadline is not left behind by more than the
\* stalls.
THEOREM TypeCorrect == Spec => []TypeOK
BY Typed, PTL

-----------------------------------------------------------------------------
(***************************************************************************)
(* The count.  That the pongs on their way are no more than the count says *)
(* is not inductive: if any of them could clear it, the others would       *)
(* remain.  They are the answers to consecutive pings, the last of them to *)
(* the d-th newest one, or to the newest itself as long as the tablet      *)
(* answers; with more than three nonces only the newest ping has the       *)
(* current one.                                                            *)
(***************************************************************************)

\* The nonce of j pings ago.
Before(j) == IF nonce >= j THEN nonce - j ELSE nonce - j + Nonces

\* The pongs answer the pings from d - 1 ago to d - Len(echo) ago.
AnswersFrom(d) == \A i \in 1..Len(echo) : echo[i].nonce = Before(d - i)

Consecutive ==
  \E d \in 0..missed : /\ Len(echo) <= d
                       /\ reachable => d = Len(echo)
                       /\ AnswersFrom(d)

\* A ping makes the others one older.
LEMMA BeforeStep ==
  ASSUME nonce \in 0..(Nonces - 1), nonce' = NextNonce
  PROVE  \A j \in 0..2 : Before(j + 1)' = Before(j)
BY HeartbeatAssumption, NextNonceValue DEF Before

\* Only the newest of the last four pings has the current nonce.
LEMMA OnlyNewest ==
  ASSUME nonce \in 0..(Nonces - 1)
  PROVE  \A j \in 0..3 : Before(j) = nonce <=> j = 0
BY HeartbeatAssumption DEF Before

\* The pongs on their way stay consecutive.
LEMMA StaysConsecutive ==
  ASSUME TypeOK, Consecutive, [Next]_vars
  PROVE  Consecutive'
<1>0. /\ echo \in Seq(Pong) /\ Len(echo) \in Nat /\ missed \in 0..3
      /\ nonce \in 0..(Nonces - 1)
  BY DEF TypeOK, Pong
<1>1. PICK d \in 0..missed : /\ Len(echo) <= d
                             /\ reachable => d = Len(echo)
                             /\ AnswersFrom(d)
  BY DEF Consecutive
<1>2. d \in Int /\ d >= 0 /\ d <= missed /\ missed <= 3
  BY <1>0
<1>3. CASE HeartbeatTimeout \/ Stall \/ UNCHANGED vars
  <2>1. UNCHANGED <<echo, nonce, missed, reachable>>
    BY <1>3 DEF HeartbeatTimeout, Stall, vars
  <2>2. AnswersFrom(d)'
    BY <1>1, <2>1 DEF AnswersFrom, Before
  <2> QED
    BY <1>1, <2>1, <2>2 DEF Consecutive
<1>4. CASE SendPing
  <2>1. /\ missed' = missed + 1 /\ missed <= 2 /\ reachable' = reachable
        /\ nonce' = NextNonce
    BY <1>0, <1>4 DEF SendPing, TimedOut
  <2>2. d + 1 \in 0..missed'
    BY <1>0, <1>2, <2>1
  <2>3. ASSUME NEW i \in 1..Len(echo)
        PROVE  echo[i].nonce = Before((d + 1) - i)'
    <3>1. d - i \in 0..2 /\ (d - i) + 1 = (d + 1) - i
      BY <1>0, <1>1, <1>2, <2>1
    <3>2. Before((d - i) + 1)' = Before(d - i)
      BY <1>0, <2>1, <3>1, BeforeStep
    <3> QED
      BY <1>1, <3>1, <3>2 DEF AnswersFrom
  <2>4. CASE reachable
    <3>1. /\ echo' = Append(echo, [nonce |-> nonce', age |-> 0])
          /\ Len(echo') = Len(echo) + 1
          /\ \A i \in 1..Len(echo) : echo'[i] = echo[i]
          /\ echo'[Len(echo) + 1] = [nonce |-> nonce', age |-> 0]
      BY <1>0, <1>4, <2>4 DEF SendPing
    <3>2. d = Len(echo)
      BY <1>1, <2>4
    <3>3. nonce' = Before(0)'
      BY <1>0, <2>1, NextNonceValue, HeartbeatAssumption DEF Before
    <3>4. \A i \in 1..Len(echo') : echo'[i].nonce = Before((d + 1) - i)'
      <4> SUFFICES ASSUME NEW i \in 1..Len(echo')
                   PROVE  echo'[i].nonce = Before((d + 1) - i)'
        OBVIOUS
      <4>1. CASE i \in 1..Len(echo)
        BY <2>3, <3>1, <4>1
      <4>2. CASE i = Len(echo) + 1
        <5>1. (d + 1) - i = 0
          BY <1>2, <3>2, <4>2
        <5> QED
          BY <3>1, <3>3, <4>2, <5>1
      <4> QED
        BY <1>0, <3>1, <4>1, <4>2
    <3>5. AnswersFrom(d + 1)'
      BY <3>4 DEF AnswersFrom
    <3> QED
      BY <1>0, <2>2, <3>1, <3>2, <3>5 DEF Consecutive
  <2>5. CASE ~reachable
    <3>1. echo' = echo
      BY <1>4, <2>5 DEF SendPing
    <3>2. AnswersFrom(d + 1)'
      BY <2>3, <3>1 DEF AnswersFrom
    <3> QED
      BY <1>0, <1>1, <1>2, <2>1, <2>2, <2>5, <3>1, <3>2 DEF Consecutive
  <2> QED
    BY <2>4, <2>5
<1>5. CASE ReadPong
  <2>1. /\ echo # << >> /\ echo' = Tail(echo) /\ nonce' = nonce
        /\ reachable' = reachable
        /\ missed' = IF Head(echo).nonce = nonce THEN 0 ELSE missed
    BY <1>5 DEF ReadPong, Acknowledge
  <2>2. /\ Head(echo) = echo[1] /\ Len(echo) >= 1 /\ Len(echo') = Len(echo) - 1
        /\ \A i \in 1..Len(echo') : echo'[i] = echo[i + 1]
    BY <1>0, <2>1, HeadTailProperties
  <2>3. Head(echo).nonce = nonce <=> d = 1
    <3>1. echo[1].nonce = Before(d - 1) /\ d - 1 \in 0..3
      BY <1>0, <1>1, <1>2, <2>2 DEF AnswersFrom
    <3> QED
      BY <1>0, <1>2, <2>2, <3>1, OnlyNewest
  <2>4. d - 1 \in 0..missed'
    <3>1. d >= 1
      BY <1>0, <1>1, <1>2, <2>2
    <3>2. missed' = IF d = 1 THEN 0 ELSE missed
      BY <2>1, <2>3
    <3> QED
      BY <1>0, <1>2, <3>1, <3>2
  <2>5. Len(echo') <= d - 1
    BY <1>0, <1>1, <1>2, <2>2
  <2>6. ASSUME reachable'
        PROVE  d - 1 = Len(echo')
    BY <1>0, <1>1, <2>1, <2>2, <2>6
  <2>7. AnswersFrom(d - 1)'
    <3> SUFFICES ASSUME NEW i \in 1..Len(echo')
                 PROVE  echo'[i].nonce = Before((d - 1) - i)'
      BY DEF AnswersFrom
    <3>1. /\ i + 1 \in 1..Len(echo) /\ echo'[i] = echo[i + 1]
          /\ d - (i + 1) = (d - 1) - i
      BY <1>0, <1>2, <2>2
    <3>2. echo[i + 1].nonce = Before((d - 1) - i)
      BY <1>1, <3>1 DEF AnswersFrom
    <3> QED
      BY <2>1, <3>1, <3>2 DEF Before
  <2> QED
    BY <2>4, <2>5, <2>6, <2>7 DEF Consecutive
<1>6. CASE Lost
  <2>1. PICK k \in 0..Len(echo) : echo' = SubSeq(echo, 1, k)
    BY <1>6 DEF Lost
  <2>2. /\ Len(echo') = k /\ \A i \in 1..k : echo'[i] = echo[i]
        /\ reachable' = FALSE /\ missed' = missed /\ nonce' = nonce
    BY <1>0, <1>6, <2>1, EchoType DEF Lost
  <2>3. AnswersFrom(d)'
    BY <1>0, <1>1, <2>2 DEF AnswersFrom, Before
  <2> QED
    BY <1>0, <1>1, <2>2, <2>3 DEF Consecutive
<1>7. CASE Tick
  <2>1. /\ Len(echo') = Len(echo)
        /\ \A i \in 1..Len(echo) : echo'[i].nonce = echo[i].nonce
        /\ reachable' = reachable /\ missed' = missed /\ nonce' = nonce
    BY <1>0, <1>7, EchoType DEF Tick
  <2>2. AnswersFrom(d)'
    BY <1>1, <2>1 DEF AnswersFrom, Before
  <2> QED
    BY <1>1, <2>1, <2>2 DEF Consecutive
<1> QED
  BY <1>3, <1>4, <1>5, <1>6, <1>7 DEF Next

\* In every reachable state the pongs on their way are consecutive.
LEMMA AlwaysConsecutive == Spec => []Consecutive
<1>1. Init => Consecutive
  BY DEF Init, Consecutive, AnswersFrom
<1> QED
  BY <1>1, StaysConsecutive, TypeCorrect, PTL DEF Spec

\* There is never more unanswered than the count says, whatever pongs arrive
\* late and however often the nonce has wrapped around: a late pong never
\* clears the count.
THEOREM CountIsRight == Spec => []CountCoversUnanswered
<1>1. TypeOK /\ Consecutive => CountCoversUnanswered
  BY DEF TypeOK, Consecutive, CountCoversUnanswered
<1> QED
  BY <1>1, AlwaysConsecutive, TypeCorrect, PTL

-----------------------------------------------------------------------------
(***************************************************************************)
(* A lost tablet.  Count the silence, the time to the next ping and a full *)
(* interval for each ping that may still be sent: together they are four   *)
(* intervals, and what the stalls have taken.  A pong that was on its way  *)
(* when the tablet was lost can give pings back, but only the newest       *)
(* ping's can, and that was sent within the last interval.                 *)
(***************************************************************************)

\* The pong of the newest ping is on its way.
Fresh == echo # << >> /\ echo[Len(echo)].nonce = nonce

ToNext == IF due > 0 THEN due ELSE 0

Patience ==
  /\ reachable => silence = 0
  /\ Fresh => silence + ToNext <= Interval + Slack
  /\ silence + ToNext + (3 - missed) * Interval <= 4 * Interval + Slack

\* Patience is kept: Slack and silence grow together while the loop is held up,
\* otherwise time brings the next ping nearer.
LEMMA StaysPatient ==
  ASSUME TypeOK, Behind, Consecutive, Patience, [Next]_vars
  PROVE  Patience'
<1> USE HeartbeatAssumption
<1>0. /\ Interval \in Nat /\ Interval > 0
      /\ echo \in Seq(Pong) /\ Len(echo) \in Nat /\ missed \in 0..3
      /\ due \in Int /\ due <= Interval /\ silence \in Nat
      /\ nonce \in 0..(Nonces - 1) /\ stalls \in 0..MaxStalls /\ busy \in 0..MaxStall
  BY DEF TypeOK, Pong
<1>1. /\ stalls * MaxStall \in Nat
      /\ (stalls + 1) * MaxStall = stalls * MaxStall + MaxStall
      /\ (3 - missed) * Interval \in Int /\ (3 - missed) * Interval <= 3 * Interval
      /\ (3 - (missed + 1)) * Interval = (3 - missed) * Interval - Interval
  <2>1. (3 - missed) * Interval \in {0, Interval, 2 * Interval, 3 * Interval}
    BY <1>0
  <2>2. (3 - (missed + 1)) * Interval = (3 - missed) * Interval - Interval
    BY <1>0
  <2> QED
    BY <1>0, <2>1, <2>2, SlackValue
<1>2. Slack >= 0 /\ Slack \in Int
  BY <1>0, SlackValue DEF Behind
<1>3. CASE HeartbeatTimeout \/ UNCHANGED vars
  BY <1>3 DEF HeartbeatTimeout, vars, Patience, Fresh, ToNext, Slack
<1>4. CASE SendPing
  <2>1. /\ due <= 0 /\ due' \in 1..Interval /\ missed' = missed + 1
        /\ UNCHANGED <<busy, stalls, reachable, silence>> /\ nonce' = NextNonce
        /\ Slack' = Slack
    BY <1>0, <1>4, NextDeadlineRange DEF SendPing, Slack
  <2>2. PICK next \in 1..Interval : due' = next
    BY <2>1
  <2>7. ToNext = 0 /\ ToNext' = next /\ next \in Int /\ next <= Interval
    BY <1>0, <2>1, <2>2 DEF ToNext
  <2>3. Fresh' => silence' + ToNext' <= Interval + Slack'
    <3>1. CASE reachable
      <4>1. silence' = 0
        BY <2>1, <3>1 DEF Patience
      <4> QED
        BY <1>0, <1>2, <2>1, <2>7, <4>1
    <3>2. CASE ~reachable
      <4>1. echo' = echo
        BY <1>4, <3>2 DEF SendPing
      <4>2. PICK d \in 0..missed : Len(echo) <= d /\ AnswersFrom(d)
        BY DEF Consecutive
      <4>3. CASE echo # << >>
        <5>1. /\ Len(echo) \in 1..Len(echo) /\ d - Len(echo) \in 0..2
          BY <1>0, <1>4, <4>2, <4>3 DEF SendPing, TimedOut
        <5>2. echo[Len(echo)].nonce = Before(d - Len(echo))
          BY <4>2, <5>1 DEF AnswersFrom
        <5>3. Before(d - Len(echo)) # nonce'
          BY <1>0, <2>1, <5>1, NextNonceValue DEF Before
        <5> QED
          BY <4>1, <5>2, <5>3 DEF Fresh
      <4> QED
        BY <4>1, <4>3 DEF Fresh
    <3> QED
      BY <3>1, <3>2
  <2>4. (3 - missed') * Interval = (3 - missed) * Interval - Interval
    BY <1>1, <2>1
  <2>5. silence' + ToNext' + (3 - missed') * Interval <= 4 * Interval + Slack'
    <3>1. silence + 0 + (3 - missed) * Interval <= 4 * Interval + Slack
      BY <2>7 DEF Patience
    <3> QED
      BY <1>0, <1>1, <1>2, <2>1, <2>7, <2>4, <3>1
  <2>6. reachable' => silence' = 0
    BY <2>1 DEF Patience
  <2> QED
    BY <2>3, <2>5, <2>6 DEF Patience
<1>5. CASE ReadPong
  <2>1. /\ echo # << >> /\ echo' = Tail(echo)
        /\ missed' = IF Head(echo).nonce = nonce THEN 0 ELSE missed
        /\ UNCHANGED <<nonce, due, busy, stalls, reachable, silence>>
    BY <1>5 DEF ReadPong, Acknowledge
  <2>2. /\ Head(echo) = echo[1] /\ Len(echo) >= 1 /\ Len(echo') = Len(echo) - 1
        /\ \A i \in 1..Len(echo') : echo'[i] = echo[i + 1]
        /\ echo' \in Seq(Pong)
    BY <1>0, <2>1, HeadTailProperties
  <2>3. Fresh' => Fresh
    <3> SUFFICES ASSUME Fresh'
                 PROVE  Fresh
      OBVIOUS
    <3>1. Len(echo') \in 1..Len(echo')
      BY <1>0, <2>2, EmptySeq DEF Fresh
    <3> QED
      BY <1>0, <2>1, <2>2, <3>1 DEF Fresh
  <2>4. CASE Head(echo).nonce # nonce
    BY <2>1, <2>3, <2>4 DEF Patience, ToNext, Slack
  <2>5. CASE Head(echo).nonce = nonce
    <3>1. PICK d \in 0..missed : Len(echo) <= d /\ AnswersFrom(d)
      BY DEF Consecutive
    <3>2. d - 1 \in 0..3 /\ echo[1].nonce = Before(d - 1)
      BY <1>0, <2>2, <3>1 DEF AnswersFrom
    <3>3. d = 1
      BY <1>0, <2>2, <2>5, <3>2, OnlyNewest
    <3>4. Fresh
      BY <1>0, <2>1, <2>2, <2>5, <3>1, <3>3 DEF Fresh
    <3>5. silence + ToNext <= Interval + Slack
      BY <3>4 DEF Patience
    <3>6. (3 - missed') * Interval = 3 * Interval
      BY <1>0, <2>1, <2>5
    <3> QED
      BY <1>0, <2>1, <2>3, <3>5, <3>6 DEF Patience, ToNext, Slack
  <2> QED
    BY <2>4, <2>5
<1>6. CASE Stall
  <2>1. /\ busy = 0 /\ busy' \in 1..MaxStall /\ stalls' = stalls + 1
        /\ UNCHANGED <<nonce, missed, due, echo, reachable, silence>>
    BY <1>6 DEF Stall
  <2>2. PICK more \in Nat : Slack' = Slack + more
    <3>1. PICK b \in 1..MaxStall : busy' = b
      BY <2>1
    <3>2. Slack' = Slack + (MaxStall - b) /\ MaxStall - b \in Nat
      BY <1>0, <1>1, <2>1, <3>1 DEF Slack
    <3> QED
      BY <3>2
  <2>4. Fresh' = Fresh /\ ToNext' = ToNext /\ ToNext \in Int
    BY <1>0, <2>1 DEF Fresh, ToNext
  <2>5. Fresh => silence + ToNext <= Interval + (Slack + more)
    BY <1>0, <1>2, <2>2, <2>4 DEF Patience
  <2>6. silence + ToNext + (3 - missed) * Interval <= 4 * Interval + (Slack + more)
    BY <1>0, <1>1, <1>2, <2>2, <2>4 DEF Patience
  <2> QED
    BY <2>1, <2>2, <2>4, <2>5, <2>6 DEF Patience
<1>7. CASE Lost
  <2>1. /\ reachable /\ reachable' = FALSE
        /\ UNCHANGED <<nonce, missed, due, busy, stalls, silence>>
    BY <1>7 DEF Lost
  <2>2. silence = 0 /\ ToNext <= Interval /\ ToNext \in Nat
    BY <1>0, <2>1 DEF Patience, ToNext
  <2> QED
    BY <1>0, <1>1, <1>2, <2>1, <2>2 DEF Patience, ToNext, Slack
<1>8. CASE Tick
  <2>1. /\ due' = due - 1 /\ busy' = (IF busy > 0 THEN busy - 1 ELSE 0)
        /\ busy = 0 => due > 0
        /\ silence' = (IF reachable THEN 0 ELSE silence + 1)
        /\ UNCHANGED <<nonce, missed, stalls, reachable>>
    BY <1>8 DEF Tick
  <2>2. Fresh' => Fresh
    <3>1. /\ Len(echo') = Len(echo) /\ echo' \in Seq(Pong)
          /\ \A i \in 1..Len(echo) : echo'[i].nonce = echo[i].nonce
      BY <1>0, <1>8, EchoType
    <3> SUFFICES ASSUME Fresh'
                 PROVE  Fresh
      OBVIOUS
    <3>2. Len(echo) \in 1..Len(echo)
      BY <1>0, <3>1, EmptySeq DEF Fresh
    <3> QED
      BY <1>0, <2>1, <3>1, <3>2 DEF Fresh
  <2>3. Slack' = IF busy > 0 THEN Slack + 1 ELSE Slack
    BY <1>0, <1>1, <2>1 DEF Slack
  <2>4. reachable \in BOOLEAN
    BY DEF TypeOK
  <2>5. silence' + ToNext' <= silence + ToNext + (Slack' - Slack)
    BY <1>0, <1>2, <2>1, <2>3, <2>4 DEF ToNext, Slack
  <2> QED
    BY <1>0, <1>1, <1>2, <2>1, <2>2, <2>3, <2>5 DEF Patience, ToNext, Slack
<1> QED
  BY <1>3, <1>4, <1>5, <1>6, <1>7, <1>8 DEF Next

\* A lost tablet is dropped: it holds the session for at most four intervals
\* and the time the loop was held up, whatever pongs were on their way.
THEOREM LostIsDropped == Spec => []LostTabletIsDropped
<1>1. Init => Patience
  <2> SUFFICES ASSUME Init
               PROVE  Patience
    OBVIOUS
  <2>1. 0 * MaxStall = 0 /\ 3 * Interval <= 4 * Interval /\ Interval \in Nat
    BY HeartbeatAssumption
  <2> QED
    BY <2>1 DEF Init, Patience, Fresh, ToNext, Slack
<1>2. TypeOK /\ Patience => LostTabletIsDropped
  <2> SUFFICES ASSUME TypeOK, Patience
               PROVE  silence <= 4 * Interval + MaxStalls * MaxStall
    BY DEF LostTabletIsDropped
  <2>1. /\ stalls * MaxStall \in Nat /\ MaxStalls * MaxStall \in Nat
        /\ stalls * MaxStall <= MaxStalls * MaxStall
    BY SlackValue DEF TypeOK
  <2>2. (3 - missed) * Interval \in Nat
    BY HeartbeatAssumption DEF TypeOK
  <2> QED
    BY <2>1, <2>2, HeartbeatAssumption DEF TypeOK, Patience, ToNext, Slack
<1> QED
  BY <1>1, <1>2, StaysPatient, Typed, AlwaysConsecutive, PTL DEF Spec

-----------------------------------------------------------------------------
(***************************************************************************)
(* A tablet that answers.  As long as the loop was never held up, the pong *)
(* of a ping is read before the next one is sent.  After the one time it   *)
(* was, up to three pings may be unanswered: the one before, the late one, *)
(* and the next, which may follow at once; but that one is followed by     *)
(* nothing for a whole interval, in which its pong arrives.                *)
(***************************************************************************)

\* The newest pong will be there before the next ping is due.
InTime ==
  /\ due > 0
  /\ echo[Len(echo)].age = MaxRtt \/ echo[Len(echo)].age + due >= Interval

NotHeldUp ==
  /\ busy = 0 /\ due >= 0 /\ missed <= 1
  /\ missed = 1 => InTime

HeldUpOnce ==
  /\ busy > 0 => missed <= 1
  /\ busy = 0 => /\ due < 0 => missed <= 1
                 /\ due = 0 => missed <= 2
                 /\ missed = 3 => InTime

Responsive ==
  /\ open
  /\ missed > 0 => echo # << >>
  /\ stalls = 0 => NotHeldUp
  /\ stalls = 1 => HeldUpOnce

\* A responsive tablet stays so until it is lost, if the loop is held up at most
\* once.
LEMMA StaysResponsive ==
  ASSUME MaxStalls <= 1,
         TypeOK, Consecutive, reachable => Responsive, [Next]_vars
  PROVE  (reachable => Responsive)'
<1> USE HeartbeatAssumption
<1>0. /\ echo \in Seq(Pong) /\ Len(echo) \in Nat /\ missed \in 0..3
      /\ due \in Int /\ due <= Interval /\ stalls \in {0, 1} /\ busy \in Nat
      /\ \A i \in 1..Len(echo) : echo[i].age \in 0..MaxRtt
  <2>1. stalls \in {0, 1}
    BY DEF TypeOK
  <2>2. echo \in Seq(Pong)
    BY DEF TypeOK, Pong
  <2>3. ASSUME NEW i \in 1..Len(echo)
        PROVE  echo[i].age \in 0..MaxRtt
    <3>1. echo[i] \in Pong
      BY <2>2
    <3> QED
      BY <3>1, Zenon DEF Pong
  <2> QED
    BY <2>1, <2>2, <2>3 DEF TypeOK
<1>1. CASE ~reachable'
  BY <1>1
<1>2. CASE reachable'
  <2>1. reachable /\ Responsive
    BY <1>2 DEF Next, HeartbeatTimeout, SendPing, ReadPong, Stall, Lost, Tick, vars
  <2>2. ~(busy = 0 /\ due <= 0 /\ TimedOut)
    BY <1>0, <2>1 DEF Responsive, NotHeldUp, HeldUpOnce, InTime, TimedOut
  <2>3. CASE UNCHANGED vars
    BY <2>1, <2>3 DEF vars, Responsive, NotHeldUp, HeldUpOnce, InTime
  <2>4. CASE SendPing
    <3>1. /\ busy = 0 /\ due <= 0 /\ missed <= 2 /\ missed' = missed + 1
          /\ echo' = Append(echo, [nonce |-> nonce', age |-> 0])
          /\ UNCHANGED <<busy, stalls, open>>
      BY <1>0, <2>1, <2>4 DEF SendPing, TimedOut
    <3>2. /\ Len(echo') = Len(echo) + 1 /\ echo' # << >>
          /\ echo'[Len(echo')].age = 0
      BY <1>0, <3>1
    <3>3. PICK next \in 1..Interval : due' = next /\ (due = 0 => next = Interval)
      BY <1>0, <2>4, NextDeadlineRange DEF SendPing
    <3>4. due = 0 => InTime'
      BY <3>2, <3>3 DEF InTime
    <3>5. CASE stalls = 0
      <4>1. due = 0 /\ missed = 0
        BY <1>0, <2>1, <3>1, <3>5 DEF Responsive, NotHeldUp, InTime
      <4> QED
        BY <2>1, <3>1, <3>2, <3>3, <3>4, <3>5, <4>1 DEF Responsive, NotHeldUp
    <3>6. CASE stalls = 1
      <4>1. HeldUpOnce
        BY <2>1, <3>6 DEF Responsive
      <4>2. due < 0 => missed' <= 2
        BY <1>0, <3>1, <4>1 DEF HeldUpOnce
      <4>3. HeldUpOnce'
        BY <1>0, <3>1, <3>3, <3>4, <4>2 DEF HeldUpOnce
      <4> QED
        BY <2>1, <3>1, <3>2, <3>6, <4>3 DEF Responsive
    <3> QED
      BY <1>0, <3>5, <3>6
  <2>5. CASE ReadPong
    <3>1. /\ echo # << >> /\ echo' = Tail(echo) /\ missed' \in {0, missed}
          /\ missed' = IF Head(echo).nonce = nonce THEN 0 ELSE missed
          /\ UNCHANGED <<due, busy, stalls, open>>
      BY <2>5 DEF ReadPong, Acknowledge
    <3>2. /\ Head(echo) = echo[1] /\ Len(echo) >= 1 /\ Len(echo') = Len(echo) - 1
          /\ \A i \in 1..Len(echo') : echo'[i] = echo[i + 1]
          /\ echo' \in Seq(Pong)
      BY <1>0, <3>1, HeadTailProperties
    <3>3. missed' > 0 => echo' # << >>
      <4>1. CASE Len(echo) > 1
        BY <1>0, <3>2, <4>1, EmptySeq
      <4>2. CASE Len(echo) = 1
        <5>1. echo[1].nonce = Before(0)
          BY <2>1, <4>2 DEF Consecutive, AnswersFrom
        <5>2. Before(0) = nonce
          BY DEF Before, TypeOK
        <5> QED
          BY <1>0, <3>1, <3>2, <5>1, <5>2
      <4> QED
        BY <1>0, <3>2, <4>1, <4>2
    <3>4. missed' > 0 => missed' = missed /\ echo'[Len(echo')] = echo[Len(echo)]
      <4> SUFFICES ASSUME missed' > 0
                   PROVE  missed' = missed /\ echo'[Len(echo')] = echo[Len(echo)]
        OBVIOUS
      <4>1. Len(echo') \in 1..Len(echo')
        BY <1>0, <3>2, <3>3, EmptySeq
      <4> QED
        BY <1>0, <3>1, <3>2, <4>1
    <3>5. InTime /\ missed' > 0 => InTime'
      BY <3>1, <3>4 DEF InTime
    <3>6. ASSUME stalls = 0
          PROVE  NotHeldUp'
      BY <1>0, <2>1, <3>1, <3>5, <3>6 DEF Responsive, NotHeldUp
    <3>7. ASSUME stalls = 1
          PROVE  HeldUpOnce'
      BY <1>0, <2>1, <3>1, <3>5, <3>7 DEF Responsive, HeldUpOnce
    <3> QED
      BY <2>1, <3>1, <3>3, <3>6, <3>7 DEF Responsive
  <2>6. CASE Stall
    <3>1. /\ stalls = 0 /\ stalls' = 1 /\ busy' \in 1..MaxStall
          /\ UNCHANGED <<missed, echo, open>>
      BY <1>0, <2>6 DEF Stall, TypeOK
    <3>2. missed <= 1
      BY <2>1, <3>1 DEF Responsive, NotHeldUp
    <3>3. busy' # 0
      BY <3>1
    <3>4. HeldUpOnce'
      BY <3>1, <3>2, <3>3 DEF HeldUpOnce
    <3> QED
      BY <2>1, <3>1, <3>4 DEF Responsive
  <2>7. CASE Tick
    <3>1. /\ due' = due - 1 /\ busy' = (IF busy > 0 THEN busy - 1 ELSE 0)
          /\ busy = 0 => due > 0 /\ \A i \in 1..Len(echo) : echo[i].age < MaxRtt
          /\ UNCHANGED <<missed, stalls, open>>
      BY <1>0, <2>7 DEF Tick
    <3>2. /\ Len(echo') = Len(echo) /\ echo' \in Seq(Pong)
          /\ \A i \in 1..Len(echo) :
               echo'[i].age = IF echo[i].age < MaxRtt
                              THEN echo[i].age + 1 ELSE echo[i].age
      BY <1>0, <2>7, EchoType
    <3>3. missed' > 0 => echo' # << >>
      BY <1>0, <2>1, <3>1, <3>2, EmptySeq DEF Responsive
    <3>4. ASSUME busy = 0, missed > 0, InTime
          PROVE  InTime'
      <4>1. Len(echo) \in 1..Len(echo)
        BY <1>0, <2>1, <3>4, EmptySeq DEF Responsive
      <4>2. echo[Len(echo)].age < MaxRtt /\ echo[Len(echo)].age \in Int
        BY <1>0, <3>1, <3>4, <4>1
      <4>3. echo'[Len(echo')].age = echo[Len(echo)].age + 1
        BY <3>2, <4>1, <4>2
      <4>4. echo[Len(echo)].age + due >= Interval /\ due > 0
        BY <3>4, <4>2 DEF InTime
      <4>5. due' > 0
        BY <1>0, <3>1, <4>2, <4>4
      <4> QED
        BY <1>0, <3>1, <4>2, <4>3, <4>4, <4>5 DEF InTime
    <3>5. ASSUME stalls = 0
          PROVE  NotHeldUp'
      <4>1. NotHeldUp
        BY <2>1, <3>5 DEF Responsive
      <4>2. missed = 1 => InTime'
        BY <3>4, <4>1 DEF NotHeldUp
      <4> QED
        BY <1>0, <3>1, <4>1, <4>2 DEF NotHeldUp
    <3>6. ASSUME stalls = 1
          PROVE  HeldUpOnce'
      <4>1. HeldUpOnce
        BY <2>1, <3>6 DEF Responsive
      <4>2. CASE busy = 0
        <5>1. missed = 3 => InTime /\ InTime'
          BY <3>4, <4>1, <4>2 DEF HeldUpOnce
        <5>2. missed = 3 => due' > 0
          BY <5>1 DEF InTime
        <5> QED
          BY <1>0, <3>1, <4>2, <5>1, <5>2 DEF HeldUpOnce
      <4>3. CASE busy > 0
        BY <1>0, <3>1, <4>1, <4>3 DEF HeldUpOnce
      <4> QED
        BY <1>0, <4>2, <4>3
    <3> QED
      BY <2>1, <3>1, <3>3, <3>5, <3>6 DEF Responsive
  <2> QED
    BY <1>2, <2>1, <2>2, <2>3, <2>4, <2>5, <2>6, <2>7 DEF Next, HeartbeatTimeout, Lost
<1> QED
  BY <1>1, <1>2

\* A tablet that answers within an interval is never given up by the heartbeat,
\* however long the loop was held up, if that happens at most once: the one
\* rebuild with OpenGL that a session can have.
THEOREM ResponsiveIsKept ==
  ASSUME MaxStalls <= 1
  PROVE  Spec => []ResponsiveTabletIsKept
<1>1. Init => (reachable => Responsive)
  BY DEF Init, Responsive, NotHeldUp
<1>2. TypeOK /\ Consecutive /\ (reachable => Responsive) /\ [Next]_vars
      => (reachable => Responsive)'
  BY StaysResponsive
<1>3. (reachable => Responsive) => ResponsiveTabletIsKept
  BY DEF Responsive, ResponsiveTabletIsKept
<1> QED
  BY <1>1, <1>2, <1>3, TypeCorrect, AlwaysConsecutive, PTL DEF Spec
=============================================================================
