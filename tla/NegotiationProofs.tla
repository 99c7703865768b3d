-------------------------- MODULE NegotiationProofs --------------------------
(***************************************************************************)
(* Proofs about Negotiation, for any numbers of candidates and of messages *)
(* on a bus, with and without --use-gl-fallback: its types, the exchange   *)
(* of offers and answers it implements, and what a late answer or          *)
(* candidate can meet.                                                     *)
(***************************************************************************)
EXTENDS Negotiation, SequenceTheorems, TLAPS

-----------------------------------------------------------------------------
(* The messages in a channel.                                              *)

Members(q) == {q[i] : i \in DOMAIN q}

Distinct(q) == \A i, j \in DOMAIN q : q[i] = q[j] => i = j

\* The media sessions whose offers are in the channel s.
OffersIn(s) == {s[i].of : i \in {k \in DOMAIN s : s[k].kind = "offer"}}

\* None makes two offers.
Single(s) ==
  \A i, j \in DOMAIN s :
    s[i].kind = "offer" /\ s[j].kind = "offer" /\ s[i].of = s[j].of => i = j

\* A candidate is led by its offer, which is ahead of it in s or one of K.
Led(s, K) ==
  \A i \in DOMAIN s : s[i].kind = "candidate" =>
    \/ s[i].of \in K
    \/ \E j \in 1..(i - 1) : s[j].kind = "offer" /\ s[j].of = s[i].of

\* What a queue of media sessions holds when one more is put at its end.
LEMMA Enqueue ==
  ASSUME NEW S, NEW q \in Seq(S), NEW x \in S
  PROVE  /\ Append(q, x) \in Seq(S)
         /\ Members(Append(q, x)) = Members(q) \cup {x}
         /\ Distinct(q) /\ x \notin Members(q) => Distinct(Append(q, x))
<1>1. /\ Append(q, x) \in Seq(S) /\ DOMAIN q = 1..Len(q) /\ Len(q) \in Nat
      /\ DOMAIN Append(q, x) = 1..(Len(q) + 1)
      /\ \A i \in 1..Len(q) : Append(q, x)[i] = q[i]
      /\ Append(q, x)[Len(q) + 1] = x
  BY AppendProperties
<1> QED
  BY <1>1 DEF Members, Distinct

\* What it holds when its first is taken.
LEMMA Dequeue ==
  ASSUME NEW S, NEW q \in Seq(S), q # << >>
  PROVE  /\ Tail(q) \in Seq(S) /\ Head(q) \in S
         /\ Members(q) = Members(Tail(q)) \cup {Head(q)}
         /\ Distinct(q) => Distinct(Tail(q)) /\ Head(q) \notin Members(Tail(q))
<1>1. /\ Tail(q) \in Seq(S) /\ Head(q) \in S /\ Head(q) = q[1]
      /\ DOMAIN q = 1..Len(q) /\ Len(q) \in Nat /\ Len(q) >= 1
      /\ DOMAIN Tail(q) = 1..(Len(q) - 1)
      /\ \A i \in 1..(Len(q) - 1) : Tail(q)[i] = q[i + 1]
  BY HeadTailProperties, EmptySeq
<1>2. ASSUME NEW i \in 1..Len(q), i # 1
      PROVE  i - 1 \in 1..(Len(q) - 1) /\ q[i] = Tail(q)[i - 1]
  BY <1>1, <1>2
<1>3. Members(q) = Members(Tail(q)) \cup {Head(q)}
  <2>1. ASSUME NEW i \in 1..Len(q)
        PROVE  q[i] \in Members(Tail(q)) \cup {Head(q)}
    <3>1. CASE i = 1
      BY <1>1, <3>1
    <3>2. CASE i # 1
      BY <1>1, <1>2, <3>2 DEF Members
    <3> QED
      BY <3>1, <3>2
  <2>2. Members(Tail(q)) \cup {Head(q)} \subseteq Members(q)
    BY <1>1 DEF Members
  <2> QED
    BY <1>1, <2>1, <2>2 DEF Members
<1>4. ASSUME Distinct(q)
      PROVE  Distinct(Tail(q)) /\ Head(q) \notin Members(Tail(q))
  BY <1>1, <1>4 DEF Members, Distinct
<1> QED
  BY <1>1, <1>3, <1>4

Messages == [kind : Kinds, of : {0} \cup Session]

\* A message of the channels.
LEMMA MessageType ==
  ASSUME NEW k \in Kinds, NEW m \in {0} \cup Session
  PROVE  /\ Message(k, m) \in Messages
         /\ Message(k, m).kind = k /\ Message(k, m).of = m
BY DEF Message, Messages

\* What a message is that was written as one.
LEMMA MessageFields ==
  ASSUME NEW w \in Messages
  PROVE  w.kind \in Kinds /\ w.of \in {0} \cup Session
BY DEF Messages

\* A reply is at most one message, neither an offer nor a candidate.
LEMMA ReplyType ==
  ASSUME NEW s \in Seq(Messages), NEW kind
  PROVE  \/ s \o Reply(kind) = s
         \/ \E w \in Messages : /\ w.kind \in {"pong", "error"}
                               /\ s \o Reply(kind) = Append(s, w)
<1>1. CASE Reply(kind) = << >>
  BY <1>1
<1>2. ASSUME NEW k \in {"pong", "error"}, Reply(kind) = <<Message(k, 0)>>
      PROVE  \E w \in Messages : /\ w.kind \in {"pong", "error"}
                               /\ s \o Reply(kind) = Append(s, w)
  <2>1. Message(k, 0) \in Messages /\ Message(k, 0).kind = k
    BY MessageType DEF Kinds
  <2> QED
    BY <1>2, <2>1
<1> QED
  BY <1>1, <1>2 DEF Reply, Error

\* What is written to a channel: it comes after all that is in it.
LEMMA Written ==
  ASSUME NEW s \in Seq(Messages), NEW w \in Messages, NEW K
  PROVE  /\ OffersIn(Append(s, w)) =
              OffersIn(s) \cup (IF w.kind = "offer" THEN {w.of} ELSE {})
         /\ Single(s) /\ (w.kind = "offer" => w.of \notin OffersIn(s))
              => Single(Append(s, w))
         /\ Led(s, K) /\ (w.kind = "candidate" => w.of \in K \cup OffersIn(s))
              => Led(Append(s, w), K)
<1> DEFINE t == Append(s, w)
<1>1. /\ DOMAIN s = 1..Len(s) /\ Len(s) \in Nat /\ DOMAIN t = 1..(Len(s) + 1)
      /\ \A i \in 1..Len(s) : t[i] = s[i]
      /\ t[Len(s) + 1] = w
  BY AppendProperties
<1> HIDE DEF t
<1>2. OffersIn(t) = OffersIn(s) \cup (IF w.kind = "offer" THEN {w.of} ELSE {})
  BY <1>1 DEF OffersIn
<1>3. ASSUME Single(s), w.kind = "offer" => w.of \notin OffersIn(s)
      PROVE  Single(t)
  BY <1>1, <1>3 DEF Single, OffersIn
<1>4. ASSUME Led(s, K), w.kind = "candidate" => w.of \in K \cup OffersIn(s)
      PROVE  Led(t, K)
  <2> SUFFICES ASSUME NEW i \in 1..(Len(s) + 1), t[i].kind = "candidate", t[i].of \notin K
               PROVE  \E j \in 1..(i - 1) : t[j].kind = "offer" /\ t[j].of = t[i].of
    BY <1>1 DEF Led
  <2>1. CASE i \in 1..Len(s)
    BY <1>1, <1>4, <2>1 DEF Led
  <2>2. CASE i = Len(s) + 1
    BY <1>1, <1>4, <2>2 DEF OffersIn
  <2> QED
    BY <1>1, <2>1, <2>2
<1> QED
  BY <1>2, <1>3, <1>4 DEF t

\* What is read from a channel: the offers of what is left are the others, and
\* its candidates are led by them or by what was read.
LEMMA ReadFrom ==
  ASSUME NEW s \in Seq(Messages), s # << >>, NEW K, NEW L, Led(s, K), Single(s),
         K \subseteq L, Head(s).kind = "offer" => Head(s).of \in L
  PROVE  /\ OffersIn(s) = OffersIn(Tail(s)) \cup
                          (IF Head(s).kind = "offer" THEN {Head(s).of} ELSE {})
         /\ Head(s).kind = "offer" => Head(s).of \notin OffersIn(Tail(s))
         /\ Head(s).kind = "candidate" => Head(s).of \in K
         /\ Single(Tail(s)) /\ Led(Tail(s), L)
<1> DEFINE t == Tail(s)
           h == Head(s)
<1>1. /\ h = s[1] /\ DOMAIN s = 1..Len(s) /\ Len(s) \in Nat /\ Len(s) >= 1
      /\ DOMAIN t = 1..(Len(s) - 1)
      /\ \A i \in 1..(Len(s) - 1) : t[i] = s[i + 1]
  BY HeadTailProperties, EmptySeq
<1> HIDE DEF t, h
<1>2. ASSUME NEW i \in 1..Len(s), i # 1
      PROVE  i - 1 \in 1..(Len(s) - 1) /\ s[i] = t[i - 1]
  BY <1>1, <1>2
<1>3. OffersIn(s) = OffersIn(t) \cup (IF h.kind = "offer" THEN {h.of} ELSE {})
  <2>1. OffersIn(s) \subseteq OffersIn(t) \cup (IF h.kind = "offer" THEN {h.of} ELSE {})
    BY <1>1, <1>2 DEF OffersIn
  <2>2. OffersIn(t) \cup (IF h.kind = "offer" THEN {h.of} ELSE {}) \subseteq OffersIn(s)
    BY <1>1 DEF OffersIn
  <2> QED
    BY <2>1, <2>2
<1>4. ASSUME h.kind = "offer", NEW i \in 1..(Len(s) - 1), t[i].kind = "offer"
      PROVE  t[i].of # h.of
  <2>1. /\ i + 1 \in DOMAIN s /\ 1 \in DOMAIN s /\ i + 1 # 1
        /\ s[i + 1] = t[i] /\ s[1] = h
    BY <1>1
  <2> QED
    BY <1>4, <2>1 DEF Single
<1>5. h.kind = "candidate" => h.of \in K
  BY <1>1 DEF Led
<1>6. Single(t)
  <2> SUFFICES ASSUME NEW i \in 1..(Len(s) - 1), NEW j \in 1..(Len(s) - 1),
                      t[i].kind = "offer", t[j].kind = "offer", t[i].of = t[j].of
               PROVE  i = j
    BY <1>1 DEF Single
  <2>1. /\ i + 1 \in DOMAIN s /\ j + 1 \in DOMAIN s
        /\ s[i + 1] = t[i] /\ s[j + 1] = t[j]
    BY <1>1
  <2>2. i + 1 = j + 1
    BY <2>1 DEF Single
  <2> QED
    BY <2>2
<1>7. Led(t, L)
  <2> SUFFICES ASSUME NEW i \in 1..(Len(s) - 1), t[i].kind = "candidate", t[i].of \notin L
               PROVE  \E j \in 1..(i - 1) : t[j].kind = "offer" /\ t[j].of = t[i].of
    BY <1>1 DEF Led
  <2>1. i + 1 \in 1..Len(s) /\ s[i + 1] = t[i]
    BY <1>1
  <2>2. PICK j \in 1..i : s[j].kind = "offer" /\ s[j].of = t[i].of
    BY <1>1, <2>1 DEF Led
  <2>3. j # 1
    BY <1>1, <2>2 DEF h
  <2>4. j - 1 \in 1..(i - 1) /\ s[j] = t[j - 1]
    BY <1>1, <1>2, <2>2, <2>3
  <2> QED
    BY <2>2, <2>4
<1>8. h.kind = "offer" => h.of \notin OffersIn(t)
  BY <1>1, <1>4 DEF OffersIn
<1> QED
  BY <1>3, <1>5, <1>6, <1>7, <1>8 DEF t, h

\* A candidate stays led when more offers are known to be ahead.
LEMMA LedByMore ==
  ASSUME NEW s, NEW K, NEW L, Led(s, K), K \subseteq L
  PROVE  Led(s, L)
BY DEF Led

\* An empty channel.
LEMMA Silent ==
  ASSUME NEW K
  PROVE  OffersIn(<< >>) = {} /\ Single(<< >>) /\ Led(<< >>, K)
BY DEF OffersIn, Single, Led

-----------------------------------------------------------------------------
(* The inductive invariant.                                                *)

\* A callback runs only where its cause is.
Callbacks ==
  \A m \in Session : /\ call[m] = "offer" => offer[m] = "asked"
                     /\ call[m] = "candidate" => offer[m] = "made"

\* The bus tells of failed negotiations only.
Notices ==
  \A m \in Session : \A i \in DOMAIN bus[m] :
    bus[m][i] = "not-negotiated" => m \in broken

Replacing == pc \in {"restart", "rebuild"} \/ media = 2

\* A media session that is being replaced, or has been, makes no further offer,
\* and one it had begun is remembered.
Replacement ==
  /\ pc = "start" => media = 1 /\ playing = {} /\ offer[1] = "none"
  /\ media = 1 => 2 \notin playing /\ offer[2] = "none"
  /\ Replacing => /\ 1 \notin playing \/ 1 \in broken
                  /\ offer[1] # "none" => late
  /\ late => Replacing \/ pc = "over"

Made == {m \in Session : offer[m] = "made"}
Read == Members(pending) \cup Members(answered)

\* Every offer goes through the outbound channel, the WebSocket and the tablet's
\* queue once, and its candidates come after it.
Relayed ==
  /\ Single(outbound) /\ Single(down) /\ Distinct(pending)
  /\ OffersIn(outbound) \cap (OffersIn(down) \cup Read) = {}
  /\ OffersIn(down) \cap Read = {}
  /\ Members(pending) \cap Members(answered) = {}
  /\ OffersIn(outbound) \cup OffersIn(down) \cup Read \subseteq Made
  /\ pc # "over" => Made \subseteq OffersIn(outbound) \cup OffersIn(down) \cup Read
  /\ Led(down, Read) /\ Led(outbound, OffersIn(down) \cup Read)

\* The tablet answers, and sends candidates for, what it was offered.
Returned ==
  \A i \in DOMAIN up :
    up[i].kind \in {"answer", "candidate"} => up[i].of \in Members(answered)

Inv == Callbacks /\ Notices /\ Replacement /\ Relayed /\ Returned

-----------------------------------------------------------------------------
(* Types.                                                                  *)

TaskType ==
  /\ pc \in {"start", "restart", "select", "drain", "rebuild", "over"}
  /\ media \in Session /\ held \subseteq Session /\ late \in BOOLEAN
  /\ media \in held <=> pc # "over"
  /\ playing \subseteq Session /\ broken \subseteq Session

ThreadType ==
  /\ call \in [Session -> {"none", "offer", "candidate"}]
  /\ offer \in [Session -> {"none", "asked", "made", "failed"}]
  /\ remote \in [Session -> {0} \cup Session]
  /\ gathered \in [Session -> 0..MaxCandidates] /\ trickled \in 0..MaxCandidates
  /\ bus \in [Session -> Seq({"not-negotiated", "error", "other"})]

ChannelType ==
  /\ outbound \in Seq(Messages) /\ down \in Seq(Messages) /\ up \in Seq(Messages)
  /\ pending \in Seq(Session) /\ answered \in Seq(Session)

\* An offer names the media session that made it.
Named == OffersIn(outbound) \cup OffersIn(down) \subseteq Session

\* The parts of the type invariant.
LEMMA TypeParts == TypeOK <=> TaskType /\ ThreadType /\ ChannelType
BY DEF TypeOK, TaskType, ThreadType, ChannelType, Messages

\* What handle_socket leaves when it returns.
LEMMA Ended ==
  ASSUME End
  PROVE  /\ pc' = "over" /\ held' = {} /\ outbound' = << >>
         /\ playing' \subseteq playing /\ UNCHANGED <<media, late>>
BY DEF End, Kept

\* A message is handled, and the session may end.
LEMMA Handled ==
  ASSUME Incoming
  PROVE  /\ pc = "select" /\ up # << >> /\ up' = Tail(up)
         /\ down' = down \o Reply(Head(up).kind)
         /\ \/ remote' = remote
            \/ /\ Head(up).kind = "answer" /\ TakesAnswer(media)
               /\ remote' = [remote EXCEPT ![media] = Head(up).of]
         /\ UNCHANGED <<threads, bus, tablet>>
         /\ End \/ UNCHANGED <<task, playing, outbound>>
BY Zenon DEF Incoming

\* The bus arm goes on, or it ends the session, or it rebuilds the pipeline.
LEMMA Drained ==
  ASSUME Drain
  PROVE  /\ pc = "drain" /\ UNCHANGED <<threads, remote, up, tablet>>
         /\ \/ bus' = bus
            \/ bus[media] # << >> /\ bus' = [bus EXCEPT ![media] = Tail(@)]
         /\ \/ /\ pc' \in {"select", "drain"}
               /\ UNCHANGED <<media, held, late, playing, outbound, down>>
            \/ /\ End
               /\ down' \in {down, Append(down, Error("media_pipeline"))}
            \/ /\ bus[media] # << >> /\ MayRebuild(media, Head(bus[media]))
               /\ Build("rebuild") /\ UNCHANGED down
<1>1. CASE bus[media] = << >>
  BY <1>1 DEF Drain
<1>2. CASE bus[media] # << >>
  BY <1>2 DEF Drain, task
<1> QED
  BY <1>1, <1>2

\* Every step of the task keeps the types of what the task works with.
LEMMA TaskTypeKept ==
  ASSUME TaskType, [Next]_vars
  PROVE  TaskType'
<1>1. CASE Start
  BY <1>1, Ended DEF Start, Build, TaskType, Session, threads
<1>2. CASE StartReplacement
  BY <1>2, Ended DEF StartReplacement, Replace, Kept, TaskType, Session, threads
<1>3. CASE Incoming
  BY <1>3, Ended, Handled DEF TaskType, threads, task
<1>4. CASE Drain
  BY <1>4, Ended, Drained DEF Build, TaskType, Session, threads
<1>5. CASE LoopFails
  BY <1>5, Ended DEF LoopFails, TaskType, threads
<1>6. CASE Outgoing \/ BusTick \/ Tablet \/ UNCHANGED vars
  BY <1>6 DEF Outgoing, BusTick, Tablet, TabletReads, TabletAnswers, TabletTrickles,
     ClientSays, TaskType, vars, threads, task
<1>7. CASE Threads
  BY <1>7 DEF Threads, NegotiationNeeded, CallbackBegins, CallbackEnds, Post, Kept,
     TaskType, task
<1> QED
  BY <1>1, <1>2, <1>3, <1>4, <1>5, <1>6, <1>7 DEF Next, Task

\* Every step keeps the types of what the callbacks work with.
LEMMA ThreadTypeKept ==
  ASSUME TaskType, ThreadType, ChannelType, [Next]_vars
  PROVE  ThreadType'
<1>0. MaxCandidates \in Nat
  BY NegotiationAssumption
<1>1. CASE Threads
  <2> SUFFICES ASSUME NEW m \in Session,
                      \/ NegotiationNeeded(m) \/ CallbackBegins(m) \/ CallbackEnds(m)
                      \/ \E what \in {"not-negotiated", "error", "other"} : Post(m, what)
               PROVE  ThreadType'
    BY <1>1 DEF Threads
  <2>1. CASE NegotiationNeeded(m)
    BY <2>1 DEF NegotiationNeeded, ThreadType, tablet
  <2>2. CASE CallbackBegins(m)
    <3>1. gathered' \in [Session -> 0..MaxCandidates]
      <4>1. CASE gathered' = gathered
        BY <4>1 DEF ThreadType
      <4>2. CASE /\ gathered[m] < MaxCandidates
                 /\ gathered' = [gathered EXCEPT ![m] = gathered[m] + 1]
        <5>1. gathered[m] \in 0..MaxCandidates
          BY DEF ThreadType
        <5>2. gathered[m] + 1 \in 0..MaxCandidates
          BY <1>0, <4>2, <5>1
        <5> QED
          BY <4>2, <5>2 DEF ThreadType
      <4> QED
        BY <2>2, <4>1, <4>2 DEF CallbackBegins
    <3>2. call' \in [Session -> {"none", "offer", "candidate"}]
      BY <2>2 DEF CallbackBegins, ThreadType
    <3>3. UNCHANGED <<offer, remote, bus, trickled>>
      BY <2>2 DEF CallbackBegins, tablet
    <3> QED
      BY <3>1, <3>2, <3>3 DEF ThreadType
  <2>3. CASE CallbackEnds(m)
    BY <2>3 DEF CallbackEnds, ThreadType, tablet
  <2>4. ASSUME NEW what \in {"not-negotiated", "error", "other"}, Post(m, what)
        PROVE  ThreadType'
    <3>1. Append(bus[m], what) \in Seq({"not-negotiated", "error", "other"})
      BY AppendProperties DEF ThreadType
    <3> QED
      BY <2>4, <3>1 DEF Post, ThreadType, tablet
  <2> QED
    BY <2>1, <2>2, <2>3, <2>4
<1>2. CASE Start \/ StartReplacement \/ LoopFails \/ Outgoing \/ BusTick
  BY <1>2 DEF Start, StartReplacement, LoopFails, Outgoing, BusTick, ThreadType, threads,
     tablet
<1>3. CASE Incoming
  <2>1. Head(up).of \in {0} \cup Session
    BY <1>3, Handled, HeadTailProperties, EmptySeq, MessageFields DEF ChannelType
  <2> QED
    BY <1>3, <2>1, Handled DEF ThreadType, threads, tablet
<1>4. CASE Drain
  <2>1. bus[media] # << >> => Tail(bus[media]) \in Seq({"not-negotiated", "error", "other"})
    BY HeadTailProperties, EmptySeq DEF TaskType, ThreadType
  <2>2. /\ UNCHANGED <<threads, remote, tablet>>
        /\ \/ bus' = bus
           \/ bus[media] # << >> /\ bus' = [bus EXCEPT ![media] = Tail(bus[media])]
    BY <1>4, Drained
  <2>3. bus' \in [Session -> Seq({"not-negotiated", "error", "other"})]
    BY <2>1, <2>2 DEF TaskType, ThreadType
  <2> QED
    BY <2>2, <2>3 DEF ThreadType, threads, tablet
<1>5. CASE Tablet \/ UNCHANGED vars
  <2>1. trickled' \in 0..MaxCandidates
    <3>1. CASE TabletTrickles
      BY <1>0, <3>1 DEF TabletTrickles, ThreadType
    <3>2. CASE ~TabletTrickles
      BY <1>0, <1>5, <3>2 DEF Tablet, TabletReads, TabletAnswers, ClientSays, ThreadType, vars,
         tablet
    <3> QED
      BY <3>1, <3>2
  <2> QED
    BY <1>5, <2>1 DEF Tablet, TabletReads, TabletAnswers, TabletTrickles, ClientSays,
       ThreadType, vars, threads
<1> QED
  BY <1>1, <1>2, <1>3, <1>4, <1>5 DEF Next, Task

\* Every step keeps the types of the channels.
LEMMA ChannelTypeKept ==
  ASSUME TaskType, ThreadType, ChannelType, Named, [Next]_vars
  PROVE  ChannelType'
<1> USE DEF ChannelType
<1>0. << >> \in Seq(Messages)
  BY EmptySeq
<1>1. \A k \in Kinds, m \in {0} \cup Session, s \in Seq(Messages) :
        Append(s, Message(k, m)) \in Seq(Messages)
  BY MessageType, AppendProperties
<1>2. \A s \in Seq(Messages) : s # << >> => Head(s) \in Messages /\ Tail(s) \in Seq(Messages)
  BY HeadTailProperties, EmptySeq
<1>3. {"offer", "candidate", "answer", "pong", "error", "close"} \cup Others \subseteq Kinds
  BY DEF Kinds
<1>4. CASE Threads
  <2>1. ASSUME NEW m \in Session, CallbackEnds(m)
        PROVE  outbound' \in Seq(Messages) /\ UNCHANGED <<down, up, tablet>>
    <3>1. \/ outbound' = << >>
          \/ \E k \in Kinds, n \in {0} \cup Session : outbound' = Append(outbound, Message(k, n))
      BY <1>3, <2>1 DEF CallbackEnds, Send, Error
    <3>2. outbound' \in Seq(Messages)
      BY <1>0, <1>1, <3>1
    <3> QED
      BY <2>1, <3>2 DEF CallbackEnds
  <2> QED
    BY <1>4, <2>1 DEF Threads, NegotiationNeeded, CallbackBegins, Post, tablet
<1>5. CASE Start \/ StartReplacement \/ LoopFails \/ BusTick
  BY <1>0, <1>5, Ended DEF Start, StartReplacement, LoopFails, BusTick, Build, Replace, tablet
<1>6. CASE Incoming
  <2>1. down' = down \o Reply(Head(up).kind)
    BY <1>6, Handled
  <2>2. down' \in Seq(Messages)
    <3>1. down' = down \/ \E w \in Messages : down' = Append(down, w)
      BY <2>1, ReplyType, Zenon
    <3>2. ASSUME NEW w \in Messages, down' = Append(down, w)
          PROVE  down' \in Seq(Messages)
      BY <3>2, AppendProperties
    <3> QED
      BY <3>1, <3>2
  <2> QED
    BY <1>0, <1>2, <1>6, <2>2, Ended, Handled DEF tablet
<1>7. CASE Outgoing
  <2>1. Append(down, Head(outbound)) \in Seq(Messages)
    BY <1>2, <1>7, AppendProperties DEF Outgoing
  <2> QED
    BY <1>2, <1>7, <2>1 DEF Outgoing, tablet
<1>8. CASE Drain
  <2>1. Append(down, Error("media_pipeline")) \in Seq(Messages)
    BY <1>1, <1>3 DEF Error
  <2> QED
    BY <1>0, <1>8, <2>1, Ended, Drained DEF Build, tablet
<1>9. CASE TabletReads
  <2>1. Head(down).kind = "offer" => Head(down).of \in Session
    <3>1. Head(down).kind = "offer" => Head(down).of \in OffersIn(down)
      BY <1>9, HeadTailProperties, EmptySeq DEF TabletReads, OffersIn
    <3> QED
      BY <3>1 DEF Named
  <2> QED
    BY <1>1, <1>2, <1>3, <1>9, <2>1, AppendProperties DEF TabletReads
<1>10. CASE TabletAnswers
  <2>1. Head(pending) \in Session /\ Tail(pending) \in Seq(Session)
    BY <1>10, HeadTailProperties, EmptySeq DEF TabletAnswers
  <2> QED
    BY <1>1, <1>3, <1>10, <2>1, AppendProperties DEF TabletAnswers
<1>11. CASE TabletTrickles
  <2>1. answered[Len(answered)] \in Session
    <3>1. Len(answered) \in 1..Len(answered)
      BY <1>11, EmptySeq DEF TabletTrickles
    <3> QED
      BY <3>1
  <2> QED
    BY <1>1, <1>3, <1>11, <2>1 DEF TabletTrickles
<1>12. ASSUME NEW kind \in Others, ClientSays(kind)
       PROVE  ChannelType'
  BY <1>1, <1>3, <1>12 DEF ClientSays, tablet
<1>13. CASE UNCHANGED vars
  BY <1>13 DEF vars, tablet
<1> QED
  BY <1>4, <1>5, <1>6, <1>7, <1>8, <1>9, <1>10, <1>11, <1>12, <1>13 DEF Next, Task, Tablet

-----------------------------------------------------------------------------
(* Each part of the invariant.                                             *)

\* An offer is known to its media session.
LEMMA NamedByRelayed == Relayed => Named
BY DEF Relayed, Made, Named

\* What a callback may do to the offers.
LEMMA OfferSteps ==
  ASSUME TaskType, ThreadType, Callbacks, [Next]_vars
  PROVE  \/ UNCHANGED <<call, offer>>
         \/ \E m \in Session :
              /\ call[m] = "none" /\ UNCHANGED offer
              /\ \/ offer[m] = "asked" /\ call' = [call EXCEPT ![m] = "offer"]
                 \/ offer[m] = "made" /\ call' = [call EXCEPT ![m] = "candidate"]
         \/ \E m \in Session :
              /\ m \in playing \ broken /\ call[m] = "none" /\ offer[m] = "none"
              /\ offer' = [offer EXCEPT ![m] = "asked"]
              /\ UNCHANGED <<call, outbound, pc>>
         \/ \E m \in Session : CallbackEnds(m)
<1>1. CASE Threads
  BY <1>1 DEF Threads, NegotiationNeeded, CallbackBegins, Post, task
<1>2. CASE Task
  BY <1>2, Handled, Drained DEF Task, Start, StartReplacement, Outgoing, BusTick,
     LoopFails, threads
<1>3. CASE Tablet \/ UNCHANGED vars
  BY <1>3 DEF Tablet, TabletReads, TabletAnswers, TabletTrickles, ClientSays, vars, threads
<1> QED
  BY <1>1, <1>2, <1>3 DEF Next

\* A callback runs only where its cause is, whatever else happens meanwhile.
LEMMA CallbacksKept ==
  ASSUME TaskType, ThreadType, Callbacks, [Next]_vars
  PROVE  Callbacks'
<1>1. CASE UNCHANGED <<call, offer>>
  BY <1>1 DEF Callbacks
<1>2. ASSUME NEW m \in Session, call[m] = "none", UNCHANGED offer,
             \/ offer[m] = "asked" /\ call' = [call EXCEPT ![m] = "offer"]
             \/ offer[m] = "made" /\ call' = [call EXCEPT ![m] = "candidate"]
      PROVE  Callbacks'
  BY <1>2 DEF Callbacks, ThreadType
<1>3. ASSUME NEW m \in Session, call[m] = "none", offer[m] = "none",
             offer' = [offer EXCEPT ![m] = "asked"], UNCHANGED call
      PROVE  Callbacks'
  BY <1>3 DEF Callbacks, ThreadType
<1>4. ASSUME NEW m \in Session, CallbackEnds(m)
      PROVE  Callbacks'
  BY <1>4 DEF Callbacks, ThreadType, CallbackEnds
<1> QED
  BY <1>1, <1>2, <1>3, <1>4, OfferSteps

\* A message that a negotiation failed stays true: nothing mends a pipeline.
LEMMA NoticesKept ==
  ASSUME TaskType, ThreadType, Notices, [Next]_vars
  PROVE  Notices'
<1>1. CASE bus' = bus /\ broken' = broken
  BY <1>1 DEF Notices
<1>2. ASSUME NEW m \in Session, NEW what \in {"not-negotiated", "error", "other"},
             Post(m, what)
      PROVE  Notices'
  <2>1. /\ bus' = [bus EXCEPT ![m] = Append(bus[m], what)] /\ broken \subseteq broken'
        /\ what = "not-negotiated" => m \in broken'
    BY <1>2 DEF Post
  <2>2. ASSUME NEW i \in DOMAIN Append(bus[m], what),
               Append(bus[m], what)[i] = "not-negotiated"
        PROVE  m \in broken'
    BY <2>1, <2>2 DEF Notices, ThreadType
  <2>3. \A n \in Session : bus'[n] = IF n = m THEN Append(bus[m], what) ELSE bus[n]
    BY <2>1 DEF ThreadType
  <2> QED
    BY <2>1, <2>2, <2>3 DEF Notices
<1>3. ASSUME broken' = broken, bus[media] # << >>,
             bus' = [bus EXCEPT ![media] = Tail(@)]
      PROVE  Notices'
  <2>1. media \in Session /\ bus[media] \in Seq({"not-negotiated", "error", "other"})
    BY DEF TaskType, ThreadType
  <2>2. ASSUME NEW i \in DOMAIN Tail(bus[media])
        PROVE  i + 1 \in DOMAIN bus[media] /\ Tail(bus[media])[i] = bus[media][i + 1]
    BY <1>3, <2>1
  <2>3. \A n \in Session : bus'[n] = IF n = media THEN Tail(bus[media]) ELSE bus[n]
    BY <1>3 DEF ThreadType
  <2> QED
    BY <1>3, <2>1, <2>2, <2>3 DEF Notices
<1>4. CASE Drain
  BY <1>1, <1>3, <1>4, Drained DEF threads
<1>5. CASE Threads
  BY <1>1, <1>2, <1>5 DEF Threads, NegotiationNeeded, CallbackBegins, CallbackEnds
<1>6. CASE Task /\ ~Drain
  BY <1>1, <1>6, Handled DEF Task, Start, StartReplacement, Outgoing, BusTick,
     LoopFails, threads
<1>7. CASE Tablet \/ UNCHANGED vars
  BY <1>1, <1>7 DEF Tablet, TabletReads, TabletAnswers, TabletTrickles, ClientSays, vars,
     threads
<1> QED
  BY <1>4, <1>5, <1>6, <1>7 DEF Next

\* No media session begins an offer once its replacement is under way, and only
\* the first is ever replaced.
LEMMA ReplacementKept ==
  ASSUME TaskType, ThreadType, Callbacks, Notices, Replacement, [Next]_vars
  PROVE  Replacement'
<1> USE DEF Replacement, Replacing
<1>0. media \in {1, 2} /\ pc # "over" => media \in held
  BY DEF TaskType, Session
<1>1. ASSUME End, UNCHANGED <<offer, broken>>
      PROVE  Replacement'
  BY <1>1, Ended
<1>2. ASSUME Build("restart"), pc = "start", UNCHANGED <<offer, broken>>
      PROVE  Replacement'
  BY <1>2 DEF Build
<1>3. ASSUME Build("rebuild"), pc = "drain", media = 1, 1 \in broken,
             UNCHANGED <<offer, broken>>
      PROVE  Replacement'
  BY <1>3 DEF Build
<1>4. ASSUME NEW m \in Session, NegotiationNeeded(m)
      PROVE  Replacement'
  BY <1>0, <1>4 DEF NegotiationNeeded, ThreadType, task, Session
<1>5. ASSUME NEW m \in Session, CallbackEnds(m)
      PROVE  Replacement'
  <2>1. /\ UNCHANGED <<pc, media, late, broken>> /\ playing' \subseteq playing
        /\ offer[m] # "none"
        /\ offer' = offer \/ \E o \in {"made", "failed"} : offer' = [offer EXCEPT ![m] = o]
    BY <1>5 DEF CallbackEnds, Callbacks, ThreadType, Kept, task
  <2>2. \A n \in Session : offer'[n] = "none" <=> offer[n] = "none"
    BY <2>1 DEF ThreadType
  <2> QED
    BY <2>1, <2>2 DEF Session
<1>6. CASE Start
  BY <1>1, <1>2, <1>6 DEF Start, threads
<1>7. CASE StartReplacement
  <2>1. ASSUME NEW where \in {"select", "drain"}, Replace(where), Replacing,
               UNCHANGED <<offer, broken>>
        PROVE  Replacement'
    BY <2>1 DEF Replace, Kept
  <2> QED
    BY <1>1, <1>7, <2>1 DEF StartReplacement, threads
<1>8. CASE Drain
  <2>1. ASSUME bus[media] # << >>, MayRebuild(media, Head(bus[media]))
        PROVE  media = 1 /\ 1 \in broken
    <3>1. media # 2 /\ Head(bus[media]) = "not-negotiated"
      BY <2>1, Zenon DEF MayRebuild, UsesGl
    <3>3. media = 1
      BY <3>1 DEF TaskType, Session
    <3>2. 1 \in DOMAIN bus[1] /\ Head(bus[1]) = bus[1][1]
      BY <2>1, <3>3, EmptySeq DEF ThreadType, Session
    <3> QED
      BY <3>1, <3>2, <3>3 DEF Notices, Session
  <2> QED
    BY <1>1, <1>3, <1>8, <2>1, Drained DEF threads
<1>9. CASE Incoming \/ LoopFails \/ Outgoing \/ BusTick
  BY <1>1, <1>9, Handled DEF LoopFails, Outgoing, BusTick, threads, task
<1>10. CASE Tablet \/ UNCHANGED vars
  BY <1>10 DEF Tablet, TabletReads, TabletAnswers, TabletTrickles, ClientSays, vars,
     threads, task
<1>11. ASSUME NEW m \in Session,
              \/ CallbackBegins(m)
              \/ \E what \in {"not-negotiated", "error", "other"} : Post(m, what)
       PROVE  Replacement'
  BY <1>11 DEF CallbackBegins, Post, task
<1> QED
  BY <1>4, <1>5, <1>6, <1>7, <1>8, <1>9, <1>10, <1>11 DEF Next, Threads, Task

\* What the tablet sends back is about offers it has answered.
LEMMA ReturnedKept ==
  ASSUME ChannelType, Returned, [Next]_vars
  PROVE  Returned'
<1>1. CASE UNCHANGED <<up, answered>>
  BY <1>1 DEF Returned
<1>2. ASSUME NEW k, NEW m, up' = Append(up, Message(k, m)),
             Members(answered) \subseteq Members(answered'),
             k \in {"answer", "candidate"} => m \in Members(answered')
      PROVE  Returned'
  <2>1. /\ DOMAIN up' = 1..(Len(up) + 1) /\ DOMAIN up = 1..Len(up) /\ Len(up) \in Nat
        /\ \A i \in 1..Len(up) : up'[i] = up[i]
        /\ up'[Len(up) + 1].kind = k /\ up'[Len(up) + 1].of = m
    BY <1>2, AppendProperties DEF ChannelType, Message
  <2>2. ASSUME NEW i \in DOMAIN up', up'[i].kind \in {"answer", "candidate"}
        PROVE  up'[i].of \in Members(answered')
    <3>1. CASE i \in DOMAIN up
      BY <1>2, <2>1, <2>2, <3>1 DEF Returned
    <3>2. CASE i = Len(up) + 1
      BY <1>2, <2>1, <2>2, <3>2
    <3> QED
      BY <2>1, <3>1, <3>2
  <2> QED
    BY <2>2 DEF Returned
<1>3. CASE Incoming
  <2>1. up # << >> /\ up' = Tail(up) /\ answered' = answered
    BY <1>3, Handled DEF tablet
  <2>2. \A i \in DOMAIN up' : i + 1 \in DOMAIN up /\ up'[i] = up[i + 1]
    BY <2>1 DEF ChannelType
  <2> QED
    BY <2>1, <2>2 DEF Returned
<1>4. CASE TabletReads
  BY <1>1, <1>2, <1>4 DEF TabletReads
<1>5. CASE TabletAnswers
  <2>1. Head(pending) \in Session
    BY <1>5 DEF TabletAnswers, ChannelType
  <2>2. Members(answered') = Members(answered) \cup {Head(pending)}
    BY <1>5, <2>1, Enqueue DEF TabletAnswers, ChannelType
  <2> QED
    BY <1>2, <1>5, <2>2 DEF TabletAnswers
<1>6. CASE TabletTrickles
  <2>1. Len(answered) \in DOMAIN answered
    BY <1>6, EmptySeq DEF TabletTrickles, ChannelType
  <2> QED
    BY <1>2, <1>6, <2>1 DEF TabletTrickles, Members
<1>7. ASSUME NEW kind \in Others, ClientSays(kind)
      PROVE  Returned'
  <2>1. kind \notin {"answer", "candidate"}
    BY NegotiationAssumption
  <2> QED
    BY <1>2, <1>7, <2>1 DEF ClientSays, tablet
<1>8. CASE Task /\ ~Incoming
  BY <1>1, <1>8, Drained DEF Task, Start, StartReplacement, Outgoing, BusTick, LoopFails,
     tablet
<1>9. CASE Threads \/ UNCHANGED vars
  BY <1>1, <1>9 DEF Threads, NegotiationNeeded, CallbackBegins, CallbackEnds, Post, tablet,
     vars
<1> QED
  BY <1>3, <1>4, <1>5, <1>6, <1>7, <1>8, <1>9 DEF Next, Tablet

\* Every offer goes its way once, and its candidates come after it.
LEMMA RelayedKept ==
  ASSUME TaskType, ThreadType, ChannelType, Callbacks, Relayed, [Next]_vars
  PROVE  Relayed'
<1>0. /\ outbound \in Seq(Messages) /\ down \in Seq(Messages)
      /\ pending \in Seq(Session) /\ answered \in Seq(Session)
  BY DEF ChannelType
<1>1. ASSUME UNCHANGED <<pending, answered, offer>>,
             \/ down' = down
             \/ \E w \in Messages : /\ w.kind \in {"pong", "error"}
                                  /\ down' = Append(down, w),
             \/ outbound' = outbound /\ (pc = "over" => pc' = "over")
             \/ outbound' = << >> /\ pc' = "over"
      PROVE  Relayed'
  <2>1. Read' = Read /\ Made' = Made
    BY <1>1 DEF Read, Made
  <2>2. OffersIn(down') = OffersIn(down) /\ Single(down') /\ Led(down', Read)
    <3>1. CASE down' = down
      BY <3>1 DEF Relayed
    <3>2. ASSUME NEW w \in Messages, w.kind \in {"pong", "error"}, down' = Append(down, w)
          PROVE  OffersIn(down') = OffersIn(down) /\ Single(down') /\ Led(down', Read)
      <4>1. w.kind # "offer" /\ w.kind # "candidate"
        BY <3>2
      <4>2. Single(down) /\ Led(down, Read)
        BY DEF Relayed
      <4> QED
        BY <1>0, <3>2, <4>1, <4>2, Written
    <3> QED
      BY <1>1, <3>1, <3>2
  <2>3. /\ OffersIn(outbound') \subseteq OffersIn(outbound) /\ Single(outbound')
        /\ Led(outbound', OffersIn(down) \cup Read)
        /\ pc' # "over" => outbound' = outbound /\ pc # "over"
    BY <1>1, Silent DEF Relayed
  <2> QED
    BY <1>1, <2>1, <2>2, <2>3 DEF Relayed
<1>2. ASSUME NEW m \in Session, CallbackEnds(m)
      PROVE  Relayed'
  <2>1. UNCHANGED <<pc, down, pending, answered>>
    BY <1>2 DEF CallbackEnds, task, tablet
  <2>2. Read' = Read /\ OffersIn(down') = OffersIn(down)
    BY <2>1 DEF Read
  <2>3. PICK w \in Messages :
          /\ outbound' = IF pc = "over" THEN << >> ELSE Append(outbound, w)
          /\ w.kind = "offer" => w.of \notin Made
          /\ w.kind = "candidate" => w.of \in Made
          /\ Made' = Made \cup (IF w.kind = "offer" THEN {w.of} ELSE {})
    <3>1. CASE /\ call[m] = "offer" /\ offer' = [offer EXCEPT ![m] = "made"]
               /\ Send(Message("offer", m))
      <4>1. offer[m] = "asked"
        BY <3>1 DEF Callbacks
      <4>2. Made' = Made \cup {m} /\ m \notin Made
        BY <3>1, <4>1 DEF Made, ThreadType
      <4>3. /\ Message("offer", m) \in Messages
            /\ Message("offer", m).kind = "offer" /\ Message("offer", m).of = m
        BY MessageType DEF Kinds
      <4> QED
        BY <3>1, <4>2, <4>3 DEF Send
    <3>2. CASE /\ call[m] = "offer" /\ offer' = [offer EXCEPT ![m] = "failed"]
               /\ Send(Error("offer_failed"))
      <4>1. offer[m] = "asked"
        BY <3>2 DEF Callbacks
      <4>2. Made' = Made
        BY <3>2, <4>1 DEF Made, ThreadType
      <4>3. /\ Message("error", 0) \in Messages
            /\ Message("error", 0).kind = "error"
        BY MessageType DEF Kinds
      <4> QED
        BY <3>2, <4>2, <4>3 DEF Send, Error
    <3>3. CASE /\ call[m] = "candidate" /\ UNCHANGED offer
               /\ Send(Message("candidate", m))
      <4>1. m \in Made /\ Made' = Made
        BY <3>3 DEF Callbacks, Made
      <4>2. /\ Message("candidate", m) \in Messages
            /\ Message("candidate", m).kind = "candidate" /\ Message("candidate", m).of = m
        BY MessageType DEF Kinds
      <4> QED
        BY <3>3, <4>1, <4>2 DEF Send
    <3> QED
      BY <1>2, <3>1, <3>2, <3>3 DEF CallbackEnds
  <2>4. CASE pc = "over"
    BY <2>1, <2>2, <2>3, <2>4, Silent DEF Relayed
  <2>5. CASE pc # "over"
    <3>1. outbound' = Append(outbound, w)
      BY <2>3, <2>5
    <3>2. w.kind = "offer" => w.of \notin OffersIn(outbound) \cup OffersIn(down) \cup Read
      BY <2>3 DEF Relayed
    <3>3. w.kind = "candidate" => w.of \in (OffersIn(down) \cup Read) \cup OffersIn(outbound)
      BY <2>3, <2>5 DEF Relayed
    <3>4. Single(outbound) /\ Led(outbound, OffersIn(down) \cup Read)
      BY DEF Relayed
    <3>5. /\ OffersIn(outbound') =
                OffersIn(outbound) \cup (IF w.kind = "offer" THEN {w.of} ELSE {})
          /\ Single(outbound') /\ Led(outbound', OffersIn(down) \cup Read)
      BY <1>0, <3>1, <3>2, <3>3, <3>4, Written
    <3> QED
      BY <2>1, <2>2, <2>3, <3>2, <3>5 DEF Relayed
  <2> QED
    BY <2>4, <2>5
<1>3. CASE Outgoing
  <2> DEFINE w == Head(outbound)
             K == OffersIn(down) \cup Read
             L == OffersIn(down') \cup Read
  <2>1. /\ outbound # << >> /\ outbound' = Tail(outbound) /\ down' = Append(down, w)
        /\ UNCHANGED <<pc, offer, pending, answered>>
    BY <1>3 DEF Outgoing, task, threads, tablet
  <2>2. Read' = Read /\ Made' = Made /\ w \in Messages
    BY <1>0, <2>1, HeadTailProperties DEF Read, Made
  <2>3. OffersIn(down') = OffersIn(down) \cup (IF w.kind = "offer" THEN {w.of} ELSE {})
    BY <1>0, <2>1, <2>2, Written
  <2>4. /\ OffersIn(outbound) =
              OffersIn(outbound') \cup (IF w.kind = "offer" THEN {w.of} ELSE {})
        /\ w.kind = "offer" => w.of \notin OffersIn(outbound')
        /\ w.kind = "candidate" => w.of \in K
        /\ Single(outbound') /\ Led(outbound', L)
    <3>1. Led(outbound, K) /\ Single(outbound)
      BY DEF Relayed
    <3>2. K \subseteq L /\ (w.kind = "offer" => w.of \in L)
      BY <2>3
    <3> HIDE DEF K, L
    <3> QED
      BY <1>0, <2>1, <3>1, <3>2, ReadFrom
  <2>5. Single(down') /\ Led(down', Read)
    <3>1. Single(down) /\ Led(down, Read)
      BY DEF Relayed
    <3>2. w.kind = "offer" => w.of \notin OffersIn(down)
      BY <2>4 DEF Relayed
    <3>3. w.kind = "candidate" => w.of \in Read \cup OffersIn(down)
      BY <2>4
    <3> QED
      BY <1>0, <2>1, <2>2, <3>1, <3>2, <3>3, Written
  <2> HIDE DEF w
  <2> QED
    BY <2>1, <2>2, <2>3, <2>4, <2>5 DEF Relayed
<1>4. CASE TabletReads
  <2> DEFINE w == Head(down)
  <2>1. /\ down # << >> /\ down' = Tail(down) /\ UNCHANGED <<pc, offer, outbound, answered>>
        /\ pending' = IF w.kind = "offer" THEN Append(pending, w.of) ELSE pending
    BY <1>4 DEF TabletReads, task, threads
  <2>2. w \in Messages /\ Made' = Made /\ Single(down) /\ Led(down, Read)
    BY <1>0, <2>1, HeadTailProperties DEF Made, Relayed
  <2>3. w.kind = "offer" => w.of \in OffersIn(down)
    BY <1>0, <2>1, HeadTailProperties, EmptySeq DEF OffersIn
  <2>4. w.kind = "offer" => w.of \in Session /\ w.of \notin Read
    BY <2>3 DEF Relayed, Made
  <2>5. /\ Members(pending') =
              Members(pending) \cup (IF w.kind = "offer" THEN {w.of} ELSE {})
        /\ Distinct(pending')
    BY <1>0, <2>1, <2>4, Enqueue DEF Relayed, Read
  <2>6. Read' = Read \cup (IF w.kind = "offer" THEN {w.of} ELSE {})
    BY <2>1, <2>5 DEF Read
  <2>7. /\ OffersIn(down) =
              OffersIn(down') \cup (IF w.kind = "offer" THEN {w.of} ELSE {})
        /\ w.kind = "offer" => w.of \notin OffersIn(down')
        /\ Single(down') /\ Led(down', Read')
    <3>1. Read \subseteq Read' /\ (w.kind = "offer" => w.of \in Read')
      BY <2>6
    <3> QED
      BY <1>0, <2>1, <2>2, <3>1, ReadFrom
  <2>8. Led(outbound', OffersIn(down') \cup Read')
    <3>1. OffersIn(down) \cup Read \subseteq OffersIn(down') \cup Read'
      BY <2>6, <2>7
    <3> QED
      BY <2>1, <3>1, LedByMore DEF Relayed
  <2> HIDE DEF w
  <2>9. Members(pending') \cap Members(answered') = {}
    BY <2>1, <2>4, <2>5 DEF Relayed, Read
  <2> QED
    BY <2>1, <2>2, <2>4, <2>5, <2>6, <2>7, <2>8, <2>9 DEF Relayed
<1>5. CASE TabletAnswers
  <2> DEFINE m == Head(pending)
  <2>1. /\ pending # << >> /\ pending' = Tail(pending) /\ answered' = Append(answered, m)
        /\ UNCHANGED <<pc, offer, outbound, down>>
    BY <1>5 DEF TabletAnswers, task, threads
  <2>2. /\ m \in Session /\ Members(pending) = Members(pending') \cup {m}
        /\ Distinct(pending') /\ m \notin Members(pending')
    BY <1>0, <2>1, Dequeue DEF Relayed
  <2>3. Members(answered') = Members(answered) \cup {m}
    BY <1>0, <2>1, <2>2, Enqueue
  <2>4. Read' = Read /\ Made' = Made
    BY <2>1, <2>2, <2>3 DEF Read, Made
  <2>5. Members(pending') \cap Members(answered') = {}
    BY <2>2, <2>3 DEF Relayed
  <2> QED
    BY <2>1, <2>2, <2>4, <2>5 DEF Relayed
<1>6. CASE Incoming
  <2>1. /\ down' = down \o Reply(Head(up).kind) /\ UNCHANGED <<pending, answered, offer>>
        /\ \/ outbound' = outbound /\ pc' = pc
           \/ outbound' = << >> /\ pc' = "over"
    BY <1>6, Handled, Ended DEF threads, tablet, task
  <2>2. \/ down' = down
        \/ \E w \in Messages : w.kind \in {"pong", "error"} /\ down' = Append(down, w)
    BY <1>0, <2>1, ReplyType, Zenon
  <2> QED
    BY <1>1, <2>1, <2>2
<1>7. CASE Drain
  <2>1. Error("media_pipeline") \in Messages /\ Error("media_pipeline").kind = "error"
    BY MessageType DEF Error, Kinds
  <2> QED
    BY <1>1, <1>7, <2>1, Drained, Ended DEF Build, threads, tablet
<1>8. CASE Start \/ StartReplacement \/ LoopFails \/ BusTick
  BY <1>1, <1>8, Ended DEF Start, StartReplacement, LoopFails, BusTick, Build, Replace,
     threads, tablet
<1>9. CASE TabletTrickles \/ UNCHANGED vars
  BY <1>1, <1>9 DEF TabletTrickles, vars, task, threads, tablet
<1>10. ASSUME NEW kind \in Others, ClientSays(kind)
       PROVE  Relayed'
  BY <1>1, <1>10 DEF ClientSays, task, threads, tablet
<1>11. ASSUME NEW m \in Session,
              \/ NegotiationNeeded(m) \/ CallbackBegins(m)
              \/ \E what \in {"not-negotiated", "error", "other"} : Post(m, what)
       PROVE  Relayed'
  <2>1. /\ UNCHANGED <<pc, outbound, down, pending, answered>>
        /\ offer' = offer \/ (offer[m] = "none" /\ offer' = [offer EXCEPT ![m] = "asked"])
    BY <1>11 DEF NegotiationNeeded, CallbackBegins, Post, task, tablet
  <2>2. Made' = Made /\ Read' = Read
    BY <2>1 DEF Made, Read, ThreadType
  <2> QED
    BY <2>1, <2>2 DEF Relayed
<1> QED
  BY <1>2, <1>3, <1>4, <1>5, <1>6, <1>7, <1>8, <1>9, <1>10, <1>11 DEF Next, Threads, Task,
     Tablet

-----------------------------------------------------------------------------
(* Theorems.                                                               *)

\* The invariant holds in every reachable state.
LEMMA Invariant == Spec => [](TypeOK /\ Inv)
<1>1. Init => TypeOK /\ Inv
  <2> SUFFICES ASSUME Init
               PROVE  TypeOK /\ Inv
    OBVIOUS
  <2>1. TaskType
    BY DEF Init, TaskType, Session
  <2>2. ThreadType
    <3>1. 0 \in 0..MaxCandidates
      <4>1. MaxCandidates \in Nat
        BY NegotiationAssumption
      <4> QED
        BY <4>1
    <3> QED
      BY <3>1, EmptySeq DEF Init, ThreadType
  <2>3. ChannelType
    BY EmptySeq DEF Init, ChannelType
  <2>4. Members(pending) = {} /\ Members(answered) = {} /\ Distinct(pending)
    BY DEF Init, Members, Distinct
  <2>5. Relayed
    BY <2>4, Silent DEF Init, Relayed, Read, Made
  <2>6. Callbacks /\ Notices /\ Replacement /\ Returned
    BY DEF Init, Callbacks, Notices, Replacement, Replacing, Returned, Session
  <2> QED
    BY <2>1, <2>2, <2>3, <2>5, <2>6, TypeParts DEF Inv
<1>2. TypeOK /\ Inv /\ [Next]_vars => (TypeOK /\ Inv)'
  <2> SUFFICES ASSUME TypeOK, Inv, [Next]_vars
               PROVE  TypeOK' /\ Inv'
    OBVIOUS
  <2>1. TaskType /\ ThreadType /\ ChannelType /\ Named
    BY TypeParts, NamedByRelayed DEF Inv
  <2>2. TaskType' /\ ThreadType' /\ ChannelType'
    BY <2>1, TaskTypeKept, ThreadTypeKept, ChannelTypeKept
  <2>3. Callbacks' /\ Notices' /\ Replacement'
    BY <2>1, CallbacksKept, NoticesKept, ReplacementKept DEF Inv
  <2>4. Relayed' /\ Returned'
    BY <2>1, RelayedKept, ReturnedKept DEF Inv
  <2>5. TypeOK'
    BY <2>2 DEF TypeOK, TaskType, ThreadType, ChannelType, Messages
  <2> QED
    BY <2>3, <2>4, <2>5 DEF Inv
<1> QED
  BY <1>1, <1>2, PTL DEF Spec

\* The types hold, whatever the number of candidates and of messages waiting.
THEOREM TypeCorrect == Spec => []TypeOK
BY Invariant, PTL

\* What was answered before the replacement is of the first media session, and
\* that had begun its offer when it was replaced.
LEMMA OldAnswersAreLate ==
  ASSUME TypeOK, Inv, NEW n \in Members(answered), n # media
  PROVE  late
<1>1. n \in Session /\ offer[n] = "made"
  BY DEF Inv, Relayed, Read, Made
<1>2. media \in {1, 2} /\ n \in {1, 2}
  BY <1>1 DEF TypeOK, Session
<1>3. media = 2 /\ n = 1
  BY <1>1, <1>2 DEF Inv, Replacement
<1> QED
  BY <1>1, <1>3 DEF Inv, Replacement, Replacing

\* Only after a rebuild that came when the replaced pipeline had begun to offer
\* does the host give a candidate to another pipeline than it is for.
THEOREM CandidatesAreNotMixedUp == Spec => []MixUpNeedsLateRebuild
<1>1. TypeOK /\ Inv => MixUpNeedsLateRebuild
  <2> SUFFICES ASSUME TypeOK, Inv, up # << >>, Head(up).kind = "candidate"
               PROVE  late \/ Head(up).of = media
    BY DEF MixUpNeedsLateRebuild
  <2>1. 1 \in DOMAIN up /\ Head(up) = up[1]
    BY TypeParts, EmptySeq DEF ChannelType
  <2>2. Head(up).of \in Members(answered)
    BY <2>1 DEF Inv, Returned
  <2> QED
    BY <2>2, OldAnswersAreLate
<1> QED
  BY <1>1, Invariant, PTL

\* A candidate of the host never reaches a tablet that does not know its offer.
THEOREM CandidatesAreLed == Spec => []CandidatesFindTheirPeer
<1>1. TypeOK /\ Inv => CandidatesFindTheirPeer
  <2> SUFFICES ASSUME TypeOK, Inv, down # << >>, Head(down).kind = "candidate"
               PROVE  \E i \in DOMAIN (answered \o pending) :
                        (answered \o pending)[i] = Head(down).of
    BY DEF CandidatesFindTheirPeer
  <2>1. ChannelType
    BY TypeParts
  <2>2. Head(down).of \in Read
    BY <2>1, ReadFrom DEF ChannelType, Inv, Relayed
  <2>3. /\ DOMAIN (answered \o pending) = 1..(Len(answered) + Len(pending))
        /\ \A i \in DOMAIN answered : (answered \o pending)[i] = answered[i]
        /\ \A i \in DOMAIN pending :
             (answered \o pending)[i + Len(answered)] = pending[i]
        /\ DOMAIN answered = 1..Len(answered) /\ DOMAIN pending = 1..Len(pending)
        /\ Len(answered) \in Nat /\ Len(pending) \in Nat
    BY <2>1, ConcatProperties DEF ChannelType
  <2>4. CASE Head(down).of \in Members(answered)
    BY <2>3, <2>4 DEF Members
  <2>5. CASE Head(down).of \in Members(pending)
    <3>1. PICK i \in DOMAIN pending : pending[i] = Head(down).of
      BY <2>5 DEF Members
    <3>2. i + Len(answered) \in DOMAIN (answered \o pending)
      BY <2>3
    <3> QED
      BY <2>3, <3>1, <3>2
  <2> QED
    BY <2>2, <2>4, <2>5 DEF Read
<1> QED
  BY <1>1, Invariant, PTL

-----------------------------------------------------------------------------
(* The exchange of offers and answers that the media session implements.   *)

Agreed == {<<m, remote[m]>> : m \in {k \in Session : remote[k] # 0}}

\* A step that is none of the exchange's.
LEMMA NoExchange ==
  ASSUME Made' = Made, Members(answered') = Members(answered), remote' = remote,
         late' = late
  PROVE  UNCHANGED <<Made, Members(answered), Agreed, late>>
BY DEF Agreed

\* An offer is made.
LEMMA OfferIsMade ==
  ASSUME ThreadType, Callbacks, NEW m \in Session, CallbackEnds(m)
  PROVE  /\ Made' = Made \/ (m \notin Made /\ Made' = Made \cup {m})
         /\ UNCHANGED <<answered, remote, late>>
<1>1. UNCHANGED <<answered, remote, late>>
  BY DEF CallbackEnds, task, tablet
<1>2. CASE call[m] = "candidate"
  BY <1>1, <1>2 DEF CallbackEnds, Made
<1>3. CASE call[m] = "offer"
  <2>1. offer[m] = "asked"
    BY <1>3 DEF Callbacks
  <2> QED
    BY <1>1, <1>3, <2>1 DEF CallbackEnds, Made, ThreadType
<1> QED
  BY <1>1, <1>2, <1>3 DEF CallbackEnds, ThreadType

\* An answer is taken.
LEMMA AnswerIsTaken ==
  ASSUME TypeOK, Inv, up # << >>, Head(up).kind = "answer", TakesAnswer(media),
         remote' = [remote EXCEPT ![media] = Head(up).of]
  PROVE  /\ media \in Made /\ Head(up).of \in Members(answered)
         /\ \A k \in Session : <<media, k>> \notin Agreed
         /\ Head(up).of # media => late
         /\ Agreed' = Agreed \cup {<<media, Head(up).of>>}
<1>1. TaskType /\ ThreadType /\ ChannelType
  BY TypeParts
<1>2. media \in Made /\ remote[media] = 0
  BY <1>1 DEF TakesAnswer, Made, TaskType
<1>3. Head(up).of \in Members(answered)
  <2>1. 1 \in DOMAIN up /\ Head(up) = up[1]
    BY <1>1, EmptySeq DEF ChannelType
  <2> QED
    BY <2>1 DEF Inv, Returned
<1>4. Head(up).of # media => late
  BY <1>3, OldAnswersAreLate
<1>5. Head(up).of # 0
  BY <1>3 DEF Inv, Relayed, Read, Made, Session
<1>6. \A m \in Session : remote'[m] = IF m = media THEN Head(up).of ELSE remote[m]
  BY <1>1 DEF ThreadType
<1>7. Agreed' = Agreed \cup {<<media, Head(up).of>>}
  BY <1>1, <1>2, <1>5, <1>6 DEF Agreed, TaskType
<1>8. \A k \in Session : <<media, k>> \notin Agreed
  BY <1>2 DEF Agreed
<1> QED
  BY <1>2, <1>3, <1>4, <1>7, <1>8

\* Every step of the program is a step of the exchange, or none.
LEMMA ExchangeStep ==
  ASSUME TypeOK, Inv, [Next]_vars
  PROVE  Exchange!Next \/ UNCHANGED <<Made, Members(answered), Agreed, late>>
<1> USE DEF Exchange!Next, Exchange!Hurry, Exchange!Offer, Exchange!Answer, Exchange!Agree
<1>0. TaskType /\ ThreadType /\ ChannelType /\ Callbacks /\ Relayed /\ Replacement
  BY TypeParts DEF Inv
<1>1. ASSUME UNCHANGED <<offer, answered, remote, late>>
      PROVE  UNCHANGED <<Made, Members(answered), Agreed, late>>
  BY <1>1 DEF Made, Agreed
<1>2. ASSUME NEW m \in Session, CallbackEnds(m)
      PROVE  Exchange!Next \/ UNCHANGED <<Made, Members(answered), Agreed, late>>
  <2>1. CASE Made' = Made
    BY <1>0, <1>2, <2>1, OfferIsMade, NoExchange
  <2>2. CASE m \notin Made /\ Made' = Made \cup {m}
    <3>1. Exchange!Offer(m)
      BY <1>0, <1>2, <2>2, OfferIsMade DEF Made, Members
    <3> QED
      BY <3>1
  <2> QED
    BY <1>0, <1>2, <2>1, <2>2, OfferIsMade
<1>3. CASE TabletAnswers
  <2> DEFINE m == Head(pending)
  <2>1. /\ m \in Session /\ m \in Members(pending)
        /\ Members(answered') = Members(answered) \cup {m}
        /\ UNCHANGED <<offer, remote, late>>
    BY <1>0, <1>3, Dequeue, Enqueue DEF TabletAnswers, ChannelType, task, threads
  <2>2. m \in Made \ Members(answered)
    BY <1>0, <2>1 DEF Relayed, Read
  <2>3. Exchange!Answer(m)
    BY <2>1, <2>2 DEF Made, Members
  <2> QED
    BY <2>1, <2>3
<1>4. CASE Incoming
  <2>1. UNCHANGED <<offer, answered, late>>
    BY <1>4, Handled, Ended DEF threads, tablet, task
  <2>2. CASE remote' = remote
    BY <1>1, <2>1, <2>2
  <2>3. CASE /\ Head(up).kind = "answer" /\ TakesAnswer(media)
             /\ remote' = [remote EXCEPT ![media] = Head(up).of]
    <3>1. /\ media \in Made /\ Head(up).of \in Members(answered)
          /\ \A k \in Session : <<media, k>> \notin Agreed
          /\ Head(up).of # media => late
          /\ Agreed' = Agreed \cup {<<media, Head(up).of>>}
      BY <1>4, <2>3, Handled, AnswerIsTaken
    <3>2. Exchange!Agree(media, Head(up).of)
      BY <2>1, <3>1 DEF Made, Members, Agreed
    <3>3. media \in Session /\ Head(up).of \in Session
      BY <1>0, <3>1 DEF Relayed, Read, Made
    <3> QED
      BY <3>2, <3>3
  <2> QED
    BY <1>4, <2>2, <2>3, Handled
<1>5. ASSUME NEW where, Build(where), pc = "start" \/ (pc = "drain" /\ media = 1),
             UNCHANGED <<offer, answered, remote>>
      PROVE  Exchange!Next \/ UNCHANGED <<Made, Members(answered), Agreed, late>>
  <2>1. late = FALSE /\ late' \in BOOLEAN
    BY <1>0, <1>5 DEF Replacement, Replacing, TaskType, Build
  <2>2. CASE late' = FALSE
    BY <1>1, <1>5, <2>1, <2>2
  <2>3. CASE late' = TRUE
    BY <1>5, <2>3 DEF Made, Members, Agreed
  <2> QED
    BY <2>1, <2>2, <2>3
<1>6. CASE Start
  BY <1>1, <1>5, <1>6, Ended DEF Start, threads, tablet
<1>7. CASE Drain
  <2>1. MayRebuild(media, Head(bus[media])) => media # 2
    BY Zenon DEF MayRebuild, UsesGl
  <2>2. media # 2 => media = 1
    BY <1>0 DEF TaskType, Session
  <2> QED
    BY <1>1, <1>5, <1>7, <2>1, <2>2, Drained, Ended DEF threads, tablet
<1>8. CASE StartReplacement \/ LoopFails \/ Outgoing \/ BusTick
  BY <1>1, <1>8, Ended DEF StartReplacement, Replace, LoopFails, Outgoing, BusTick, threads,
     tablet, task
<1>9. CASE TabletReads \/ TabletTrickles \/ (\E kind \in Others : ClientSays(kind))
           \/ UNCHANGED vars
  BY <1>1, <1>9 DEF TabletReads, TabletTrickles, ClientSays, vars, task, threads, tablet
<1>10. ASSUME NEW m \in Session,
              \/ NegotiationNeeded(m) \/ CallbackBegins(m)
              \/ \E what \in {"not-negotiated", "error", "other"} : Post(m, what)
       PROVE  UNCHANGED <<Made, Members(answered), Agreed, late>>
  <2>1. /\ UNCHANGED <<answered, remote, late>>
        /\ offer' = offer \/ (offer[m] = "none" /\ offer' = [offer EXCEPT ![m] = "asked"])
    BY <1>10 DEF NegotiationNeeded, CallbackBegins, Post, task, tablet
  <2>2. Made' = Made
    BY <1>0, <2>1 DEF Made, ThreadType
  <2> QED
    BY <2>1, <2>2, NoExchange
<1> QED
  BY <1>2, <1>3, <1>4, <1>6, <1>7, <1>8, <1>9, <1>10 DEF Next, Threads, Task, Tablet

\* The host, its callbacks and the tablet implement the exchange: each offer is
\* made and answered once, and a media session agrees on the answer to another
\* one's offer only after a hasty replacement.
THEOREM ExchangeIsImplemented == Spec => ExchangeSpec
<1>1. Init => Exchange!Init
  BY DEF Init, Exchange!Init
<1>2. TypeOK /\ Inv /\ [Next]_vars
      => [Exchange!Next]_<<Made, Members(answered), Agreed, late>>
  BY ExchangeStep
<1> QED
  BY <1>1, <1>2, Invariant, PTL DEF Spec, ExchangeSpec, Exchange!Spec, Made, Members, Agreed
=============================================================================
