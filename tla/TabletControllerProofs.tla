------------------------- MODULE TabletControllerProofs -------------------------
(***************************************************************************)
(* Proofs about TabletController, for any number of attempts, generations  *)
(* and waiting runnables: its types, its safety invariants, and how an     *)
(* error is left.                                                          *)
(*                                                                         *)
(* The argument rests on the generations.  A generation has one socket at  *)
(* most and one peer at most, both go when the next one begins, and a      *)
(* runnable says which generation it is of: one that passes onMain's check *)
(* is of the transport in the fields.                                      *)
(***************************************************************************)
EXTENDS TabletController, SequenceTheorems, TLAPS

\* The runnables that wait, in whatever order.
Queued == {queue[i] : i \in DOMAIN queue}

-----------------------------------------------------------------------------
(* Types, in parts.                                                        *)

ModeType ==
  /\ state \in State /\ screen \in State
  /\ generation \in Nat /\ reconnectAttempts \in 0..MaxAttempts
  /\ manualDisconnect \in BOOLEAN /\ closed \in BOOLEAN /\ launch \in BOOLEAN
  /\ statsArmed \in BOOLEAN /\ greeted \in BOOLEAN /\ alive \in BOOLEAN

NameType ==
  /\ webSocket \in 0..generation /\ peerConnection \in 0..generation
  /\ remoteVideo \in 0..generation /\ lastStats \in 0..generation
  /\ timers \subseteq 1..generation /\ sockets \subseteq 1..generation
  /\ peers \subseteq 1..generation
  /\ opened \subseteq sockets /\ closing \subseteq sockets
  /\ remoteTrackIds \subseteq tracked
  /\ answering \subseteq peers /\ tracked \subseteq peers /\ statsCalls \subseteq peers

QueueType ==
  queue \in Seq(Runnable) /\ Len(queue) <= MaxQueue

\* The parts of the type invariant.
LEMMA TypeParts == TypeOK <=> ModeType /\ NameType /\ QueueType
BY Zenon DEF TypeOK, ModeType, NameType, QueueType

-----------------------------------------------------------------------------
(* The inductive invariant.                                                *)

\* The transport in the fields is the current generation's, and a socket of
\* the current generation is in its field and has not been told to close.
Bound ==
  /\ webSocket \in {0, generation}
  /\ webSocket \notin closing
  /\ generation \in sockets => webSocket = generation
  /\ peerConnection # 0 => peerConnection = webSocket /\ greeted

\* A runnable is of a generation that has begun.  One of the current generation
\* that onMain lets pass finds the socket it came from; an offer comes after
\* the hello, and a track from a peer that is alive.
Waiting ==
  \A r \in Queued :
    /\ r.of \in 1..generation
    /\ r.of = generation => /\ r.kind \in Guarded => webSocket = generation
                            /\ r.kind = "offer" => greeted
                            /\ r.kind = "track" => generation \in tracked

\* The states without a transport.
Off ==
  state \in {"Idle", "Error", "Reconnecting"} =>
    webSocket = 0 /\ peerConnection = 0 /\ remoteVideo = 0 /\ ~statsArmed

Transport == OneTransport /\ Bound /\ Waiting

Modes == Off /\ ReconnectingIsArmed /\ LossIsReported /\ StreamingHasVideo /\ QuietWhenOff

Inv == Transport /\ Modes

-----------------------------------------------------------------------------
(* The queue.                                                              *)

Reported ==
  state \in {"Connecting", "Streaming"} =>
    /\ webSocket = generation
    /\ \/ webSocket \in sockets \ closing
       \/ [kind |-> "gone", of |-> generation] \in Queued

\* The end of the current socket is queued, in the words of the set.
LEMMA ReportedIs == (LossIsReported <=> Reported) /\ (LossIsReported' <=> Reported')
<1>1. LossIsReported <=> Reported
  BY Zenon DEF LossIsReported, Reported, Queued
<1>2. LossIsReported' <=> Reported'
  BY Zenon DEF LossIsReported, Reported, Queued
<1> QED
  BY <1>1, <1>2

\* What is taken was queued, and everything else stays.
LEMMA Takes ==
  ASSUME QueueType, queue # << >>, queue' = Tail(queue)
  PROVE  /\ QueueType'
         /\ Head(queue) \in Queued /\ Head(queue) \in Runnable
         /\ Queued' \subseteq Queued /\ Queued \subseteq Queued' \cup {Head(queue)}
<1>1. queue \in Seq(Runnable) /\ Len(queue) \in Nat /\ DOMAIN queue = 1..Len(queue)
      /\ Len(queue) >= 1
  BY EmptySeq, LenProperties DEF QueueType
<1>2. /\ Head(queue) = queue[1] /\ Head(queue) \in Runnable
      /\ Tail(queue) \in Seq(Runnable) /\ Len(Tail(queue)) = Len(queue) - 1
      /\ \A i \in 1..Len(Tail(queue)) : Tail(queue)[i] = queue[i + 1]
  BY <1>1, HeadTailProperties
<1>3. DOMAIN queue' = 1..(Len(queue) - 1)
  BY <1>1, <1>2, LenProperties
<1>4. QueueType'
  <2>1. Len(queue) <= MaxQueue /\ MaxQueue \in Nat
    BY TabletAssumption DEF QueueType
  <2> QED
    BY <1>1, <1>2, <2>1 DEF QueueType
<1>5. \A i \in DOMAIN queue' : i + 1 \in DOMAIN queue /\ queue'[i] = queue[i + 1]
  BY <1>1, <1>2, <1>3
<1>6. \A i \in DOMAIN queue : i = 1 \/ (i - 1 \in DOMAIN queue' /\ queue'[i - 1] = queue[i])
  BY <1>1, <1>2, <1>3
<1>7. Head(queue) \in Queued
  BY <1>1, <1>2 DEF Queued
<1>8. Queued' \subseteq Queued
  BY Zenon, <1>5 DEF Queued
<1>9. Queued \subseteq Queued' \cup {Head(queue)}
  <2>1. ASSUME NEW i \in DOMAIN queue
        PROVE  queue[i] \in Queued' \cup {Head(queue)}
    <3>1. CASE i = 1
      BY <1>2, <3>1
    <3>2. CASE i - 1 \in DOMAIN queue' /\ queue'[i - 1] = queue[i]
      BY Zenon, <3>2 DEF Queued
    <3> QED
      BY <1>6, <3>1, <3>2
  <2> QED
    BY Zenon, <2>1 DEF Queued
<1> QED
  BY <1>2, <1>4, <1>7, <1>8, <1>9

\* What is posted comes to what is queued.
LEMMA Posts ==
  ASSUME QueueType, NEW kind \in Guarded \cup Unguarded, NEW g \in Nat, Post(kind, g)
  PROVE  QueueType' /\ Queued' = Queued \cup {[kind |-> kind, of |-> g]}
<1> DEFINE r == [kind |-> kind, of |-> g]
<1>1. r \in Runnable
  BY Zenon DEF Runnable
<1>2. queue' = Append(queue, r) /\ Len(queue) < MaxQueue /\ queue \in Seq(Runnable)
  BY Zenon DEF Post, QueueType
<1> HIDE DEF r
<1>3. Len(queue) \in Nat /\ DOMAIN queue = 1..Len(queue)
  BY <1>2, LenProperties
<1>4. /\ queue' \in Seq(Runnable) /\ Len(queue') = Len(queue) + 1
      /\ \A i \in 1..Len(queue) : queue'[i] = queue[i]
      /\ queue'[Len(queue) + 1] = r
  BY <1>1, <1>2, AppendProperties
<1>5. DOMAIN queue' = DOMAIN queue \cup {Len(queue) + 1}
  BY <1>3, <1>4, LenProperties
<1>6. QueueType'
  BY <1>2, <1>3, <1>4, TabletAssumption DEF QueueType
<1> QED
  BY <1>3, <1>4, <1>5, <1>6 DEF Queued, r

\* So it is with the two callbacks of a track.
LEMMA TrackPosts ==
  ASSUME QueueType, NEW p \in Nat, Len(queue) + 2 <= MaxQueue,
         queue' = queue \o [i \in 1..2 |-> [kind |-> "track", of |-> p]]
  PROVE  QueueType' /\ Queued' = Queued \cup {[kind |-> "track", of |-> p]}
<1> DEFINE r == [kind |-> "track", of |-> p]
           two == [i \in 1..2 |-> r]
<1>1. r \in Runnable
  BY Zenon DEF Runnable, Unguarded
<1>2. queue' = queue \o two /\ queue \in Seq(Runnable)
  BY Zenon DEF QueueType
<1> HIDE DEF r
<1>3. two \in Seq(Runnable) /\ Len(two) = 2 /\ two[1] = r /\ two[2] = r
  BY <1>1
<1> HIDE DEF two
<1>4. Len(queue) \in Nat /\ DOMAIN queue = 1..Len(queue)
  BY <1>2, LenProperties
<1>5. /\ queue' \in Seq(Runnable) /\ Len(queue') = Len(queue) + 2
      /\ \A i \in 1..Len(queue') :
           queue'[i] = IF i <= Len(queue) THEN queue[i] ELSE two[i - Len(queue)]
  BY <1>2, <1>3, ConcatProperties
<1>6. DOMAIN queue' = 1..(Len(queue) + 2)
  BY <1>5, LenProperties
<1>7. /\ \A i \in DOMAIN queue : i \in DOMAIN queue' /\ queue'[i] = queue[i]
      /\ \A i \in DOMAIN queue' : i \in DOMAIN queue \/ queue'[i] = r
      /\ Len(queue) + 1 \in DOMAIN queue' /\ queue'[Len(queue) + 1] = r
  <2>1. \A i \in DOMAIN queue : i \in DOMAIN queue' /\ queue'[i] = queue[i]
    BY <1>4, <1>5, <1>6
  <2>2. ASSUME NEW i \in DOMAIN queue', i \notin DOMAIN queue
        PROVE  queue'[i] = r
    <3>1. i - Len(queue) \in {1, 2} /\ queue'[i] = two[i - Len(queue)]
      BY <1>4, <1>5, <1>6, <2>2
    <3> QED
      BY <1>3, <3>1
  <2>3. Len(queue) + 1 \in DOMAIN queue' /\ Len(queue) + 1 \notin DOMAIN queue
    BY <1>4, <1>6
  <2> QED
    BY <2>1, <2>2, <2>3
<1>8. QueueType'
  BY <1>4, <1>5 DEF QueueType
<1> QED
  BY <1>7, <1>8 DEF Queued, r

-----------------------------------------------------------------------------
(* The transport.                                                          *)

\* What every connection, loss and error does: a generation begins, the
\* transport goes, and a socket may be opened.
Renews(socket) ==
  /\ socket \in {0, generation + 1}
  /\ generation' = generation + 1
  /\ DisconnectTransport(socket)
  /\ sockets' = sockets \cup ({socket} \ {0})
  /\ opened' = opened
  /\ timers' \subseteq timers \cup {generation + 1}
  /\ Queued' \subseteq Queued

\* A new generation begins without a peer, and nothing that waits is of it.
LEMMA Renewed ==
  ASSUME ModeType, NameType, Transport, NEW socket, Renews(socket)
  PROVE  /\ NameType' /\ Transport'
         /\ webSocket' = socket /\ peerConnection' = 0 /\ remoteVideo' = 0
         /\ statsArmed' = FALSE /\ greeted' = FALSE
<1> DEFINE g == generation
<1>1. g \in Nat /\ g + 1 \notin 0..g /\ 1..g \subseteq 1..(g + 1) /\ 0 \notin 1..g
      /\ g + 1 \in 1..(g + 1) /\ 0 \in 0..(g + 1) /\ g + 1 # 0 /\ g + 1 \in 0..(g + 1)
      /\ g + 1 \notin 1..g /\ generation' = g + 1
  BY DEF ModeType, Renews
<1>2. /\ webSocket' = socket /\ peerConnection' = 0 /\ remoteVideo' = 0 /\ lastStats' = 0
      /\ statsArmed' = FALSE /\ greeted' = FALSE /\ remoteTrackIds' = {}
      /\ peers' = peers \ {peerConnection} /\ answering' = answering \ {peerConnection}
      /\ tracked' = tracked \ {peerConnection}
      /\ statsCalls' = statsCalls \ {peerConnection}
      /\ closing' = closing \cup ({webSocket} \cap sockets)
      /\ socket \in {0, g + 1}
      /\ sockets' = sockets \cup ({socket} \ {0}) /\ opened' = opened
      /\ timers' \subseteq timers \cup {g + 1}
  BY DEF Renews, DisconnectTransport
<1> HIDE DEF g
<1>3. timers \subseteq 1..g /\ sockets \subseteq 1..g /\ opened \subseteq sockets
      /\ closing \subseteq sockets /\ peers = {peerConnection} \ {0}
      /\ answering \subseteq peers /\ tracked \subseteq peers /\ statsCalls \subseteq peers
      /\ sockets \ closing \subseteq {webSocket}
  BY DEF NameType, Transport, OneTransport, g
<1>4. peers' = {} /\ answering' = {} /\ tracked' = {} /\ statsCalls' = {}
  BY <1>2, <1>3
<1>5. NameType'
  <2>1. /\ webSocket' \in 0..(g + 1) /\ peerConnection' \in 0..(g + 1)
        /\ remoteVideo' \in 0..(g + 1) /\ lastStats' \in 0..(g + 1)
    BY <1>1, <1>2
  <2>2. timers' \subseteq 1..(g + 1) /\ sockets' \subseteq 1..(g + 1)
    BY <1>1, <1>2, <1>3
  <2>3. opened' \subseteq sockets' /\ closing' \subseteq sockets'
    BY <1>2, <1>3
  <2> QED
    BY <1>1, <1>2, <1>4, <2>1, <2>2, <2>3 DEF NameType
<1>6. OneTransport'
  BY <1>2, <1>3, <1>4 DEF OneTransport
<1>7. Bound'
  <2>1. g + 1 \notin closing' /\ 0 \notin closing'
    BY <1>1, <1>2, <1>3
  <2>2. g + 1 \in sockets' => socket = g + 1
    BY <1>1, <1>2, <1>3
  <2> QED
    BY <1>1, <1>2, <2>1, <2>2 DEF Bound
<1>8. Waiting'
  <2>1. \A r \in Queued' : r.of \in 1..g
    BY DEF Renews, Transport, Waiting, g
  <2> QED
    BY <1>1, <2>1 DEF Waiting
<1> QED
  BY <1>2, <1>5, <1>6, <1>7, <1>8 DEF Transport

\* A new generation connects, is off, failed, or waits for its delay.
Phases(socket) ==
  /\ screen' = screen /\ launch' \in BOOLEAN /\ alive' = alive /\ queue' \in {queue, Tail(queue)}
  /\ \/ /\ state' = "Connecting" /\ socket = generation + 1
        /\ manualDisconnect' = FALSE /\ closed' = FALSE
        /\ reconnectAttempts' \in {0, reconnectAttempts}
     \/ /\ state' = "Idle" /\ socket = 0
        /\ manualDisconnect' = TRUE /\ closed' \in {closed, TRUE}
        /\ UNCHANGED <<reconnectAttempts, timers>>
     \/ /\ state' = "Error" /\ socket = 0
        /\ UNCHANGED <<manualDisconnect, closed, reconnectAttempts, timers>>
     \/ /\ state' = "Reconnecting" /\ socket = 0
        /\ manualDisconnect' = FALSE /\ closed' = FALSE
        /\ reconnectAttempts < MaxAttempts /\ reconnectAttempts' = reconnectAttempts + 1
        /\ generation + 1 \in timers'

IInv == ModeType /\ NameType /\ QueueType /\ Inv

\* A step to a new generation keeps the invariant.
LEMMA RenewalKeeps ==
  ASSUME IInv, NEW socket, Renews(socket), Phases(socket), QueueType'
  PROVE  IInv'
<1> DEFINE g == generation + 1
<1>1. ModeType /\ NameType /\ Transport
  BY DEF IInv, Inv
<1>2. /\ NameType' /\ Transport'
      /\ webSocket' = socket /\ peerConnection' = 0 /\ remoteVideo' = 0
      /\ statsArmed' = FALSE /\ greeted' = FALSE
  BY <1>1, Renewed
<1>3. generation' = g /\ sockets' = sockets \cup ({socket} \ {0}) /\ g \in Nat /\ g # 0
      /\ timers \subseteq 1..generation /\ g \notin 1..generation
  BY <1>1 DEF Renews, ModeType, NameType
<1> HIDE DEF g
<1>4. ModeType'
  <2>1. state' \in State
    BY DEF Phases, State
  <2>2. manualDisconnect' \in BOOLEAN /\ closed' \in BOOLEAN
    BY Zenon, <1>1 DEF Phases, ModeType
  <2>3. reconnectAttempts' \in 0..MaxAttempts
    <3>1. reconnectAttempts \in 0..MaxAttempts /\ MaxAttempts \in Nat
      BY <1>1, TabletAssumption DEF ModeType
    <3>2. \/ reconnectAttempts' \in {0, reconnectAttempts}
          \/ reconnectAttempts < MaxAttempts /\ reconnectAttempts' = reconnectAttempts + 1
      BY DEF Phases
    <3> QED
      BY <3>1, <3>2
  <2> QED
    BY <1>1, <1>2, <1>3, <2>1, <2>2, <2>3 DEF ModeType, Phases
<1>5. CASE state' = "Connecting"
  <2>1. socket = g /\ manualDisconnect' = FALSE /\ closed' = FALSE
    BY <1>5 DEF Phases, g
  <2>2. webSocket' \in sockets' \ closing'
    BY <1>2, <1>3, <2>1 DEF Transport, Bound
  <2> QED
    BY <1>2, <1>3, <1>4, <1>5, <2>1, <2>2
       DEF IInv, Inv, Modes, Off, ReconnectingIsArmed, LossIsReported, StreamingHasVideo,
           QuietWhenOff
<1>6. CASE state' # "Connecting"
  <2>1. /\ socket = 0 /\ state' \in {"Idle", "Error", "Reconnecting"}
        /\ state' = "Reconnecting" => /\ manualDisconnect' = FALSE /\ closed' = FALSE
                                      /\ g \in timers'
        /\ state' = "Idle" => timers' = timers
    BY <1>6 DEF Phases, g
  <2> QED
    BY <1>2, <1>3, <1>4, <2>1
       DEF IInv, Inv, Modes, Off, ReconnectingIsArmed, LossIsReported, StreamingHasVideo,
           QuietWhenOff
<1> QED
  BY <1>5, <1>6

\* A callback that posts a runnable of a generation that has begun keeps it.
LEMMA PostingKeeps ==
  ASSUME IInv, QueueType', NEW r, Queued' = Queued \cup {r},
         UNCHANGED <<control, fields, peers, statsArmed, ui, flags>>,
         r.of \in 1..generation,
         r.of = generation => /\ r.kind \in Guarded => webSocket = generation
                              /\ r.kind = "offer" => greeted
                              /\ r.kind = "track" => generation \in tracked',
         tracked \subseteq tracked', tracked' \subseteq peers,
         answering' \subseteq peers, statsCalls' \subseteq peers,
         sockets' \subseteq sockets, opened' \subseteq sockets',
         closing' = closing \cap sockets',
         \/ sockets' = sockets
         \/ sockets' = sockets \ {r.of} /\ r = [kind |-> "gone", of |-> r.of]
  PROVE  IInv'
<1> USE DEF control, fields, ui, flags
<1>1. ModeType'
  BY DEF IInv, ModeType
<1>2. NameType'
  BY DEF IInv, NameType
<1>3. OneTransport' /\ Bound'
  BY DEF IInv, Inv, Transport, OneTransport, Bound
<1>4. Waiting'
  <2>1. ASSUME NEW q \in Queued
        PROVE  /\ q.of \in 1..generation
               /\ q.of = generation => /\ q.kind \in Guarded => webSocket = generation
                                       /\ q.kind = "offer" => greeted
                                       /\ q.kind = "track" => generation \in tracked'
    BY Zenon, <2>1 DEF IInv, Inv, Transport, Waiting
  <2>2. generation' = generation /\ webSocket' = webSocket /\ greeted' = greeted
    OBVIOUS
  <2> QED
    BY <2>1, <2>2 DEF Waiting
<1>5. LossIsReported'
  BY ReportedIs DEF IInv, Inv, Modes, Reported
<1>6. Off' /\ ReconnectingIsArmed' /\ QuietWhenOff'
  BY DEF IInv, Inv, Modes, Off, ReconnectingIsArmed, QuietWhenOff
<1>7. StreamingHasVideo'
  BY DEF IInv, Inv, Modes, StreamingHasVideo
<1> QED
  BY <1>1, <1>2, <1>3, <1>4, <1>5, <1>6, <1>7 DEF IInv, Inv, Transport, Modes
\* Removing runnables keeps what is known of the others.
LEMMA WaitingShrinks ==
  ASSUME Waiting, generation' = generation, webSocket' = webSocket,
         greeted => greeted', tracked' = tracked, Queued' \subseteq Queued
  PROVE  Waiting'
<1>1. \A r \in Queued' :
        /\ r.of \in 1..generation
        /\ r.of = generation => /\ r.kind \in Guarded => webSocket = generation
                                /\ r.kind = "offer" => greeted
                                /\ r.kind = "track" => generation \in tracked
  BY Zenon DEF Waiting
<1> QED
  BY <1>1 DEF Waiting

\* The end of a socket can be taken from the queue only where it is not awaited.
LEMMA ReportStays ==
  ASSUME LossIsReported, UNCHANGED <<state, generation, webSocket, sockets, closing>>,
         NEW r, Queued \subseteq Queued' \cup {r},
         r = [kind |-> "gone", of |-> generation] => state \notin {"Connecting", "Streaming"}
  PROVE  LossIsReported'
BY ReportedIs DEF Reported

\* A runnable that changes neither the state nor the transport keeps the
\* invariant, if the end of a socket is not what it was needed for.
LEMMA TakingKeeps ==
  ASSUME IInv, queue # << >>, queue' = Tail(queue),
         UNCHANGED <<control, webSocket, peerConnection, remoteVideo, remoteTrackIds, rtc,
                     statsArmed, closing, ui, manualDisconnect, closed, network>>,
         greeted' \in {greeted, TRUE}, lastStats' \in 0..generation, alive' \in BOOLEAN,
         Head(queue) = [kind |-> "gone", of |-> generation]
           => state \notin {"Connecting", "Streaming"}
  PROVE  IInv'
<1> USE DEF control, rtc, ui, network
<1>1. QueueType' /\ Queued' \subseteq Queued /\ Queued \subseteq Queued' \cup {Head(queue)}
  BY Takes DEF IInv
<1>2. ModeType'
  BY DEF IInv, ModeType
<1>3. NameType'
  BY DEF IInv, NameType
<1>4. OneTransport' /\ Bound'
  BY DEF IInv, Inv, Transport, OneTransport, Bound
<1>5. Waiting'
  <2>1. Waiting /\ generation' = generation /\ webSocket' = webSocket /\ tracked' = tracked
    BY DEF IInv, Inv, Transport
  <2>2. greeted => greeted'
    BY Zenon
  <2> QED
    BY <1>1, <2>1, <2>2, WaitingShrinks
<1>6. LossIsReported'
  BY <1>1, ReportStays DEF IInv, Inv, Modes
<1>7. Off' /\ ReconnectingIsArmed' /\ QuietWhenOff' /\ StreamingHasVideo'
  BY DEF IInv, Inv, Modes, Off, ReconnectingIsArmed, QuietWhenOff, StreamingHasVideo
<1> QED
  BY <1>1, <1>2, <1>3, <1>4, <1>5, <1>6, <1>7 DEF IInv, Inv, Transport, Modes

-----------------------------------------------------------------------------
(* The actions, in the words of the lemmas above.                          *)

\* What a queue that stays the same keeps.
LEMMA SameQueue ==
  ASSUME QueueType, queue' = queue
  PROVE  QueueType' /\ Queued' = Queued
BY DEF QueueType, Queued

\* A connection begins a generation with a socket.
LEMMA ConnectKeeps ==
  ASSUME IInv, screen' = screen, launch' \in BOOLEAN, ~closed, Connect
  PROVE  IInv'
<1>1. ModeType /\ QueueType /\ generation \in Nat /\ closed = FALSE
  BY DEF IInv, ModeType
<1>2. QueueType' /\ Queued' = Queued
  BY <1>1, SameQueue DEF Connect
<1>3. 0 # generation + 1
  BY <1>1
<1>4. Renews(generation + 1) /\ Phases(generation + 1)
  BY <1>1, <1>2, <1>3 DEF Connect, ConnectTransport, Renews, Phases
<1> QED
  BY <1>2, <1>4, RenewalKeeps

\* A disconnection begins one without.
LEMMA DisconnectKeeps ==
  ASSUME IInv, UNCHANGED ui, closed' \in {closed, TRUE}, Disconnect
  PROVE  IInv'
<1>1. ModeType /\ QueueType
  BY DEF IInv
<1>2. QueueType' /\ Queued' = Queued
  BY <1>1, SameQueue DEF Disconnect
<1>3. Renews(0) /\ Phases(0)
  BY <1>1, <1>2 DEF Disconnect, Renews, Phases, network, ui, ModeType
<1> QED
  BY <1>2, <1>3, RenewalKeeps

\* So does a failure.
LEMMA FailKeeps ==
  ASSUME IInv, UNCHANGED <<ui, flags, network>>, queue' \in {queue, Tail(queue)},
         QueueType', Queued' \subseteq Queued, Fail
  PROVE  IInv'
<1>1. ModeType
  BY DEF IInv
<1>2. Renews(0) /\ Phases(0)
  BY <1>1 DEF Fail, Renews, Phases, network, flags, ui, ModeType
<1> QED
  BY <1>2, RenewalKeeps

\* And so does a loss, unless the user or the activity is through with it: then
\* nothing is awaited any more.
LEMMA ScheduleKeeps ==
  ASSUME IInv, UNCHANGED <<ui, flags, network>>, queue # << >>, queue' = Tail(queue),
         ScheduleReconnect
  PROVE  IInv'
<1>1. ModeType /\ NameType /\ QueueType /\ Inv
  BY DEF IInv
<1>2. QueueType' /\ Queued' \subseteq Queued
  BY <1>1, Takes
<1>3. CASE manualDisconnect \/ closed
  <2>1. state \notin {"Connecting", "Streaming"}
    BY <1>1, <1>3 DEF Inv, Modes, QuietWhenOff
  <2>2. UNCHANGED <<control, transport>>
    BY <1>3 DEF ScheduleReconnect
  <2>3. /\ UNCHANGED <<control, webSocket, peerConnection, remoteVideo, remoteTrackIds, rtc,
                       statsArmed, closing, ui, manualDisconnect, closed, network>>
        /\ greeted' = greeted /\ lastStats' = lastStats /\ alive' = alive
    BY <2>2 DEF transport, fields, flags
  <2>4. lastStats \in 0..generation /\ alive \in BOOLEAN
    BY <1>1 DEF NameType, ModeType
  <2> QED
    BY <2>1, <2>3, <2>4, TakingKeeps
<1>4. CASE ~manualDisconnect /\ ~closed
  <2>1. manualDisconnect = FALSE /\ closed = FALSE /\ launch \in BOOLEAN
    BY <1>1, <1>4 DEF ModeType
  <2>2. /\ generation' = generation + 1 /\ DisconnectTransport(0)
        /\ \/ state' = "Error" /\ UNCHANGED <<reconnectAttempts, timers>>
           \/ /\ reconnectAttempts < MaxAttempts
              /\ reconnectAttempts' = reconnectAttempts + 1
              /\ state' = "Reconnecting" /\ timers' = timers \cup {generation + 1}
    BY <1>4 DEF ScheduleReconnect
  <2>3. Renews(0)
    BY <1>2, <2>2 DEF Renews, network
  <2>4. Phases(0)
    BY <2>1, <2>2 DEF Phases, flags, ui
  <2> QED
    BY <1>2, <2>3, <2>4, RenewalKeeps
<1> QED
  BY <1>3, <1>4
-----------------------------------------------------------------------------
(* Every step keeps the invariant.                                         *)

LEMMA UserKeeps ==
  ASSUME IInv, User
  PROVE  IInv'
<1>1. ModeType /\ NameType /\ QueueType /\ Inv
  BY DEF IInv
<1>2. CASE ConnectClicked \/ AutoConnect
  <2>1. ~closed /\ Connect /\ screen' = screen /\ launch' \in BOOLEAN
    BY <1>1, <1>2 DEF ConnectClicked, AutoConnect, ui, ModeType
  <2> QED
    BY <2>1, ConnectKeeps
<1>3. CASE DisconnectClicked \/ OnCleared
  <2>1. closed' \in {closed, TRUE} /\ Disconnect /\ UNCHANGED ui
    BY <1>3 DEF DisconnectClicked, OnCleared
  <2> QED
    BY <2>1, DisconnectKeeps
<1>4. CASE ConnectRefused
  <2>1. /\ state' = "Error" /\ state \in {"Idle", "Error", "Reconnecting"}
        /\ UNCHANGED <<generation, reconnectAttempts, timers, transport, ui, flags, network,
                       queue>>
    BY <1>4 DEF ConnectRefused
  <2>2. ModeType' /\ NameType' /\ QueueType' /\ Queued' = Queued
    BY <1>1, <2>1, SameQueue DEF ModeType, NameType, State, transport, fields, rtc, ui, flags,
       network
  <2>3. OneTransport' /\ Bound'
    BY <1>1, <2>1 DEF Inv, Transport, OneTransport, Bound, transport, fields, rtc, network
  <2>4. Waiting'
    BY <1>1, <2>1, <2>2, WaitingShrinks DEF Inv, Transport, transport, fields, rtc
  <2>5. Modes'
    BY <1>1, <2>1 DEF Inv, Modes, Off, ReconnectingIsArmed, LossIsReported,
       StreamingHasVideo, QuietWhenOff, transport, fields, flags
  <2> QED
    BY <2>2, <2>3, <2>4, <2>5 DEF IInv, Inv, Transport
<1>5. CASE Compose
  <2>1. /\ screen' \in State /\ launch' \in BOOLEAN
        /\ UNCHANGED <<control, transport, flags, network, queue>>
    BY <1>1, <1>5, TabletAssumption DEF Compose, ModeType
  <2>2. ModeType' /\ NameType' /\ QueueType' /\ Queued' = Queued
    BY <1>1, <2>1, SameQueue DEF ModeType, NameType, control, transport, fields, rtc, flags,
       network
  <2>3. OneTransport' /\ Bound'
    BY <1>1, <2>1 DEF Inv, Transport, OneTransport, Bound, control, transport, fields, rtc,
       network
  <2>4. Waiting'
    BY <1>1, <2>1, <2>2, WaitingShrinks DEF Inv, Transport, control, transport, fields, rtc
  <2>5. Modes'
    BY <1>1, <2>1 DEF Inv, Modes, Off, ReconnectingIsArmed, LossIsReported,
       StreamingHasVideo, QuietWhenOff, control, transport, fields, rtc, flags, network
  <2> QED
    BY <2>2, <2>3, <2>4, <2>5 DEF IInv, Inv, Transport
<1> QED
  BY <1>2, <1>3, <1>4, <1>5 DEF User

\* The sockets' callbacks name a generation, and one of the current generation
\* is of the socket in the field.
LEMMA SocketsKeep ==
  ASSUME IInv, NEW g \in sockets,
         \/ SocketOpens(g) \/ SocketEnds(g)
         \/ \E kind \in {"offer", "retryable", "fatal"} : HostSpeaks(g, kind)
  PROVE  IInv'
<1>1. NameType /\ QueueType /\ Inv
  BY DEF IInv
<1>2. g \in Nat /\ g \in 1..generation /\ (g = generation => webSocket = generation)
  BY <1>1 DEF NameType, Inv, Transport, Bound
<1>3. /\ tracked \subseteq peers /\ answering \subseteq peers /\ statsCalls \subseteq peers
      /\ opened \subseteq sockets /\ closing \subseteq sockets
  BY <1>1 DEF NameType
<1>4. CASE SocketOpens(g)
  <2> DEFINE r == [kind |-> "open", of |-> g]
  <2>1. QueueType' /\ Queued' = Queued \cup {r}
    BY <1>1, <1>2, <1>4, Posts DEF SocketOpens, Guarded
  <2>2. /\ UNCHANGED <<control, fields, peers, statsArmed, ui, flags>>
        /\ UNCHANGED <<rtc, closing, sockets>> /\ opened' = opened \cup {g}
    BY <1>4 DEF SocketOpens, transport, rtc
  <2>3. r.of = g /\ r.kind = "open"
    OBVIOUS
  <2> HIDE DEF r
  <2> QED
    BY <1>2, <1>3, <2>1, <2>2, <2>3, PostingKeeps DEF rtc
<1>5. CASE SocketEnds(g)
  <2> DEFINE r == [kind |-> "gone", of |-> g]
  <2>1. QueueType' /\ Queued' = Queued \cup {r}
    BY <1>1, <1>2, <1>5, Posts DEF SocketEnds, Guarded
  <2>2. /\ UNCHANGED <<control, fields, peers, statsArmed, ui, flags>>
        /\ UNCHANGED rtc /\ sockets' = sockets \ {g} /\ opened' = opened \ {g}
        /\ closing' = closing \ {g}
    BY <1>5 DEF SocketEnds, rtc
  <2>3. r.of = g /\ r.kind = "gone" /\ r = [kind |-> "gone", of |-> r.of]
    OBVIOUS
  <2> HIDE DEF r
  <2>4. closing' = closing \cap sockets' /\ opened' \subseteq sockets'
    BY <1>3, <2>2
  <2> QED
    BY <1>2, <1>3, <2>1, <2>2, <2>3, <2>4, PostingKeeps DEF rtc
<1>6. ASSUME NEW kind \in {"offer", "retryable", "fatal"}, HostSpeaks(g, kind)
      PROVE  IInv'
  <2> DEFINE r == [kind |-> kind, of |-> g]
  <2>1. QueueType' /\ Queued' = Queued \cup {r}
    BY <1>1, <1>2, <1>6, Posts DEF HostSpeaks, Guarded
  <2>2. /\ UNCHANGED <<control, fields, peers, statsArmed, ui, flags>>
        /\ UNCHANGED <<rtc, closing, sockets, opened>>
        /\ kind = "offer" /\ g = webSocket => greeted
    BY <1>6 DEF HostSpeaks, transport, rtc, network
  <2>3. r.of = g /\ r.kind = kind /\ r.kind # "track"
    OBVIOUS
  <2> HIDE DEF r
  <2> QED
    BY <1>2, <1>3, <2>1, <2>2, <2>3, PostingKeeps DEF rtc
<1> QED
  BY <1>4, <1>5, <1>6

\* So do those of the peer, which is of the current generation.
LEMMA PeersKeep ==
  ASSUME IInv, NEW p \in peers,
         IceBreaks(p) \/ TrackArrives(p) \/ AnswerSent(p) \/ SdpFails(p) \/ StatsArrive(p)
  PROVE  IInv'
<1>1. ModeType /\ NameType /\ QueueType /\ Inv
  BY DEF IInv
<1>2. p \in Nat /\ p \in 1..generation
  BY <1>1 DEF NameType
<1>3. /\ tracked \subseteq peers /\ answering \subseteq peers /\ statsCalls \subseteq peers
      /\ opened \subseteq sockets /\ closing \subseteq sockets
  BY <1>1 DEF NameType
<1>4. CASE IceBreaks(p)
  <2> DEFINE r == [kind |-> "ice", of |-> p]
  <2>1. QueueType' /\ Queued' = Queued \cup {r}
    BY <1>1, <1>2, <1>4, Posts DEF IceBreaks, Unguarded
  <2>2. /\ UNCHANGED <<control, fields, peers, statsArmed, ui, flags>>
        /\ UNCHANGED <<rtc, closing, sockets, opened>>
    BY <1>4 DEF IceBreaks, transport, rtc, network
  <2>3. r.of = p /\ r.kind \notin Guarded /\ r.kind \notin {"offer", "track"}
    BY DEF Guarded
  <2> HIDE DEF r
  <2> QED
    BY <1>2, <1>3, <2>1, <2>2, <2>3, PostingKeeps DEF rtc
<1>5. CASE TrackArrives(p)
  <2> DEFINE r == [kind |-> "track", of |-> p]
  <2>1. QueueType' /\ Queued' = Queued \cup {r}
    BY <1>1, <1>2, <1>5, TrackPosts DEF TrackArrives
  <2>2. /\ UNCHANGED <<control, fields, peers, statsArmed, ui, flags>>
        /\ UNCHANGED <<answering, statsCalls, closing, sockets, opened>>
        /\ tracked' = tracked \cup {p}
    BY <1>5 DEF TrackArrives, network
  <2>3. r.of = p /\ r.kind = "track" /\ r.kind \notin Guarded
    BY DEF Guarded
  <2> HIDE DEF r
  <2> QED
    BY <1>2, <1>3, <2>1, <2>2, <2>3, PostingKeeps
<1>6. CASE StatsArrive(p)
  <2> DEFINE r == [kind |-> "report", of |-> p]
  <2>1. QueueType' /\ Queued' = Queued \cup {r}
    BY <1>1, <1>2, <1>6, Posts DEF StatsArrive, Unguarded
  <2>2. /\ UNCHANGED <<control, fields, peers, statsArmed, ui, flags>>
        /\ UNCHANGED <<answering, tracked, closing, sockets, opened>>
        /\ statsCalls' = statsCalls \ {p}
    BY <1>6 DEF StatsArrive, network
  <2>3. r.of = p /\ r.kind \notin Guarded /\ r.kind \notin {"offer", "track"}
    BY DEF Guarded
  <2> HIDE DEF r
  <2> QED
    BY <1>2, <1>3, <2>1, <2>2, <2>3, PostingKeeps
<1>7. CASE AnswerSent(p)
  <2>1. /\ UNCHANGED <<control, fields, peers, statsArmed, ui, flags>>
        /\ UNCHANGED <<tracked, statsCalls, closing, sockets, opened, queue>>
        /\ answering' = answering \ {p}
    BY <1>7 DEF AnswerSent, network
  <2>2. ModeType' /\ NameType' /\ QueueType' /\ Queued' = Queued
    BY <1>1, <2>1, SameQueue DEF ModeType, NameType, control, fields, ui, flags
  <2>3. OneTransport' /\ Bound'
    BY <1>1, <2>1 DEF Inv, Transport, OneTransport, Bound, control, fields
  <2>4. Waiting'
    BY <1>1, <2>1, <2>2, WaitingShrinks DEF Inv, Transport, control, fields
  <2>5. Modes'
    <3>1. LossIsReported'
      BY <1>1, <2>1 DEF Inv, Modes, LossIsReported, control, fields
    <3>2. Off' /\ ReconnectingIsArmed' /\ QuietWhenOff'
      BY <1>1, <2>1 DEF Inv, Modes, Off, ReconnectingIsArmed, QuietWhenOff, control, fields,
         flags
    <3>3. StreamingHasVideo'
      BY <1>1, <2>1 DEF Inv, Modes, StreamingHasVideo, control, fields
    <3> QED
      BY <3>1, <3>2, <3>3 DEF Modes
  <2> QED
    BY <2>2, <2>3, <2>4, <2>5 DEF IInv, Inv, Transport
<1>8. CASE SdpFails(p)
  <2>1. Fail /\ UNCHANGED <<ui, flags, network, queue>>
    BY <1>8 DEF SdpFails
  <2>2. QueueType' /\ Queued' = Queued
    BY <1>1, <2>1, SameQueue
  <2> QED
    BY <2>1, <2>2, FailKeeps
<1> QED
  BY <1>4, <1>5, <1>6, <1>7, <1>8

\* A delayed reconnection connects, if its generation is still the current one.
LEMMA ReconnectKeeps ==
  ASSUME IInv, Reconnect \/ ReconnectOvertaken
  PROVE  IInv'
<1>1. ModeType /\ NameType /\ QueueType /\ Inv
  BY DEF IInv
<1> DEFINE g == Head(queue).of
<1>2. queue # << >> /\ queue' = Tail(queue) /\ timers' = timers \ {g}
  BY DEF Reconnect, ReconnectOvertaken, Take
<1>3. /\ QueueType' /\ Queued' \subseteq Queued /\ Queued \subseteq Queued' \cup {Head(queue)}
      /\ Head(queue).kind = "due"
  BY <1>1, <1>2, Takes DEF Reconnect, ReconnectOvertaken, Take
<1>4. CASE Reconnect
  <2>1. /\ ~closed /\ ~manualDisconnect
        /\ state' = "Connecting" /\ ConnectTransport
        /\ UNCHANGED <<reconnectAttempts, ui, flags>>
    BY <1>4 DEF Reconnect, Current
  <2>2. closed' = FALSE /\ manualDisconnect' = FALSE /\ launch' \in BOOLEAN
        /\ screen' = screen /\ alive' = alive
    BY <1>1, <2>1 DEF ModeType, flags, ui
  <2>3. Renews(generation + 1) /\ Phases(generation + 1)
    <3>1. generation + 1 # 0
      BY <1>1 DEF ModeType
    <3> HIDE DEF g
    <3> QED
      BY <1>2, <1>3, <2>1, <2>2, <3>1 DEF ConnectTransport, Renews, Phases
  <2> QED
    BY <1>3, <2>3, RenewalKeeps
<1>5. CASE ReconnectOvertaken
  <2>1. /\ closed \/ manualDisconnect \/ generation # g
        /\ UNCHANGED <<state, generation, reconnectAttempts, transport, ui, flags, network>>
    BY <1>5 DEF ReconnectOvertaken, Current
  <2>2. Head(queue) # [kind |-> "gone", of |-> generation]
    BY <1>3
  <2> HIDE DEF g
  <2>3. ModeType' /\ NameType'
    BY <1>1, <1>2, <2>1 DEF ModeType, NameType, transport, fields, rtc, ui, flags, network
  <2>4. OneTransport' /\ Bound'
    BY <1>1, <2>1 DEF Inv, Transport, OneTransport, Bound, transport, fields, rtc, network
  <2>5. Waiting'
    BY <1>1, <1>3, <2>1, WaitingShrinks DEF Inv, Transport, transport, fields, rtc
  <2>6. LossIsReported'
    BY <1>1, <1>3, <2>1, <2>2, ReportStays DEF Inv, Modes, transport, fields, network
  <2>7. ReconnectingIsArmed'
    BY <1>1, <1>2, <2>1 DEF Inv, Modes, ReconnectingIsArmed, transport, fields, flags
  <2>8. Off' /\ QuietWhenOff' /\ StreamingHasVideo'
    BY <1>1, <1>2, <2>1
       DEF Inv, Modes, Off, QuietWhenOff, StreamingHasVideo, transport, fields, rtc, flags
  <2> QED
    BY <1>3, <2>3, <2>4, <2>5, <2>6, <2>7, <2>8 DEF IInv, Inv, Transport, Modes
<1> QED
  BY <1>4, <1>5

\* The runnables that leave the generation alone, and those that end it.
LEMMA LooperKeeps ==
  ASSUME IInv, Looper
  PROVE  IInv'
<1>1. ModeType /\ NameType /\ QueueType /\ Inv
  BY DEF IInv
<1>2. queue # << >> /\ queue' = Tail(queue)
  BY DEF Looper, Outdated, SendHello, AcceptOffer, FatalError, TransportLost, IceLost,
     AttachRemoteTrack, TrackKnown, TrackDisposed, ConsumeStats, Reconnect,
     ReconnectOvertaken, Take
<1>3. /\ QueueType' /\ Head(queue) \in Queued /\ Head(queue) \in Runnable
      /\ Queued' \subseteq Queued /\ Queued \subseteq Queued' \cup {Head(queue)}
  BY <1>1, <1>2, Takes
<1>4. /\ Head(queue).of \in 1..generation
      /\ Head(queue).of = generation =>
           /\ Head(queue).kind \in Guarded => webSocket = generation
           /\ Head(queue).kind = "offer" => greeted
           /\ Head(queue).kind = "track" => generation \in tracked
  BY Zenon, <1>1, <1>3 DEF Inv, Transport, Waiting
<1>5. Head(queue) = [kind |-> "gone", of |-> generation]
        => Head(queue).kind = "gone" /\ Head(queue).of = generation
  OBVIOUS
<1>6. lastStats \in 0..generation /\ Head(queue).of \in 0..generation /\ alive \in BOOLEAN
      /\ generation \in Nat
  BY <1>1, <1>4 DEF NameType, ModeType
<1>7. CASE Outdated
  <2>1. /\ UNCHANGED <<control, transport, ui, flags, network>>
        /\ closed \/ generation # Head(queue).of
    BY <1>7 DEF Outdated, Current
  <2>2. closed => state \notin {"Connecting", "Streaming"}
    BY <1>1 DEF Inv, Modes, QuietWhenOff
  <2> QED
    BY <1>2, <1>5, <1>6, <2>1, <2>2, TakingKeeps DEF transport, fields, flags
<1>8. CASE SendHello \/ ConsumeStats
  <2>1. /\ UNCHANGED <<control, webSocket, peerConnection, remoteVideo, remoteTrackIds, rtc,
                       statsArmed, closing, ui, manualDisconnect, closed, network>>
        /\ greeted' \in {greeted, TRUE} /\ lastStats' \in {lastStats, Head(queue).of}
        /\ alive' = alive
    BY <1>8 DEF SendHello, ConsumeStats, flags
  <2>2. Head(queue).kind \in {"open", "report"}
    BY <1>8 DEF SendHello, ConsumeStats, Take
  <2> QED
    BY <1>2, <1>5, <1>6, <2>1, <2>2, TakingKeeps
<1>9. CASE TrackKnown \/ TrackDisposed
  <2>1. /\ UNCHANGED <<control, transport, ui, manualDisconnect, closed, network>>
        /\ alive' \in BOOLEAN /\ Head(queue).kind = "track"
    BY <1>6, <1>9 DEF TrackKnown, TrackDisposed, Take, flags
  <2> QED
    BY <1>2, <1>5, <1>6, <2>1, TakingKeeps DEF transport, fields
<1>10. CASE FatalError
  BY <1>2, <1>3, <1>10, FailKeeps DEF FatalError
<1>11. CASE TransportLost \/ IceLost
  BY <1>2, <1>11, ScheduleKeeps DEF TransportLost, IceLost
<1>12. CASE AcceptOffer
  <2> DEFINE p == IF peerConnection = 0 THEN generation ELSE peerConnection
  <2>1. /\ peerConnection' = p /\ peers' = peers \cup {p} /\ answering' = answering \cup {p}
        /\ UNCHANGED <<control, webSocket, greeted, remoteVideo, remoteTrackIds, lastStats,
                       tracked, statsCalls, statsArmed, closing, ui, flags, network>>
    BY <1>12 DEF AcceptOffer
  <2>2. Head(queue).kind = "offer" /\ Head(queue).of = generation /\ "offer" \in Guarded
    BY <1>12 DEF AcceptOffer, Take, Current, Guarded
  <2>3. webSocket = generation /\ greeted /\ generation \in 1..generation /\ generation # 0
    BY <1>4, <1>6, <2>2
  <2>4. p = generation /\ peerConnection \in {0, p} /\ p \in 1..generation
    BY <1>1, <2>3 DEF Inv, Transport, Bound
  <2> HIDE DEF p
  <2>5. ModeType'
    BY <1>1, <2>1 DEF ModeType, control, ui, flags
  <2>6. NameType'
    BY <1>1, <1>6, <2>1, <2>4 DEF NameType, control, network
  <2>7. OneTransport' /\ Bound'
    BY <1>1, <2>1, <2>3, <2>4 DEF Inv, Transport, OneTransport, Bound, control, network
  <2>8. Waiting'
    BY <1>1, <1>3, <2>1, WaitingShrinks DEF Inv, Transport, control
  <2>9. LossIsReported'
    <3>1. "offer" # "gone"
      OBVIOUS
    <3> QED
      BY <1>1, <1>3, <1>5, <2>1, <2>2, <3>1, ReportStays DEF Inv, Modes, control, network
  <2>10. Off' /\ ReconnectingIsArmed' /\ QuietWhenOff'
    BY <1>1, <2>1, <2>3 DEF Inv, Modes, Off, ReconnectingIsArmed, QuietWhenOff, control, flags
  <2>11. StreamingHasVideo'
    BY <1>1, <1>6, <2>1, <2>3, <2>4
       DEF Inv, Transport, OneTransport, Modes, StreamingHasVideo, control
  <2> QED
    BY <1>3, <2>5, <2>6, <2>7, <2>8, <2>9, <2>10, <2>11 DEF IInv, Inv, Transport, Modes
<1>13. CASE AttachRemoteTrack
  <2> DEFINE p == Head(queue).of
  <2>1. /\ p \in peers /\ remoteTrackIds' = remoteTrackIds \cup {p} /\ remoteVideo' = p
        /\ reconnectAttempts' = 0 /\ state' = "Streaming" /\ statsArmed' = TRUE
        /\ UNCHANGED <<generation, timers, webSocket, greeted, peerConnection, lastStats,
                       rtc, closing, ui, flags, network>>
        /\ Head(queue).kind = "track"
    BY <1>13 DEF AttachRemoteTrack, Take
  <2>2. p = peerConnection /\ p # 0 /\ webSocket = generation /\ p = generation
    BY <1>1, <2>1 DEF Inv, Transport, OneTransport, Bound
  <2>3. p \in tracked
    BY <1>4, <2>1, <2>2
  <2>4. p \in 0..generation
    BY <1>6
  <2> HIDE DEF p
  <2>5. state \in {"Connecting", "Streaming"} /\ ~manualDisconnect /\ ~closed
    BY <1>1, <2>2 DEF Inv, Modes, Off, QuietWhenOff, ModeType, State
  <2>6. ModeType'
    <3>1. reconnectAttempts' \in 0..MaxAttempts
      BY <2>1, TabletAssumption
    <3> QED
      BY <1>1, <2>1, <3>1 DEF ModeType, ui, flags, State
  <2>7. NameType'
    BY <1>1, <2>1, <2>3, <2>4 DEF NameType, rtc, network
  <2>8. OneTransport' /\ Bound'
    BY <1>1, <2>1 DEF Inv, Transport, OneTransport, Bound, rtc, network
  <2>9. Waiting'
    BY <1>1, <1>3, <2>1, WaitingShrinks DEF Inv, Transport, rtc
  <2>10. LossIsReported'
    <3>1. Head(queue) # [kind |-> "gone", of |-> generation]
      BY <1>5, <2>1
    <3> QED
      BY <1>1, <1>3, <2>1, <2>5, <3>1, ReportedIs DEF Inv, Modes, Reported, network
  <2>11. Off' /\ ReconnectingIsArmed' /\ QuietWhenOff'
    BY <2>1, <2>5 DEF Off, ReconnectingIsArmed, QuietWhenOff, flags
  <2>12. StreamingHasVideo'
    BY <2>1, <2>2 DEF StreamingHasVideo, rtc
  <2> QED
    BY <1>3, <2>6, <2>7, <2>8, <2>9, <2>10, <2>11, <2>12 DEF IInv, Inv, Transport, Modes
<1>14. CASE Reconnect \/ ReconnectOvertaken
  BY <1>14, ReconnectKeeps
<1> QED
  BY <1>7, <1>8, <1>9, <1>10, <1>11, <1>12, <1>13, <1>14 DEF Looper

\* The statistics ask the peer that streams.
LEMMA StatsKeep ==
  ASSUME IInv, StatsRun
  PROVE  IInv'
<1>1. ModeType /\ NameType /\ QueueType /\ Inv
  BY DEF IInv
<1>2. /\ statsArmed' = (peerConnection # 0 /\ state = "Streaming")
      /\ statsCalls' = IF statsArmed' THEN statsCalls \cup {peerConnection} ELSE statsCalls
      /\ UNCHANGED <<control, fields, peers, answering, tracked, closing, ui, flags,
                     network, queue>>
  BY DEF StatsRun
<1>3. statsArmed' \in BOOLEAN /\ (state \in {"Idle", "Error", "Reconnecting"} => ~statsArmed')
  BY <1>2
<1>4. statsCalls' \subseteq peers
  <2>1. statsCalls \subseteq peers /\ (peerConnection # 0 => peerConnection \in peers)
    BY <1>1 DEF NameType, Inv, Transport, OneTransport
  <2>2. CASE statsArmed'
    BY <1>2, <2>1, <2>2
  <2>3. CASE ~statsArmed'
    BY <1>2, <2>1, <2>3
  <2> QED
    BY <2>2, <2>3
<1>5. QueueType' /\ Queued' = Queued
  BY <1>1, <1>2, SameQueue
<1>6. ModeType'
  BY <1>1, <1>2, <1>3 DEF ModeType, control, fields, ui, flags
<1>7. NameType'
  BY <1>1, <1>2, <1>4 DEF NameType, control, fields, network
<1>8. OneTransport' /\ Bound'
  BY <1>1, <1>2 DEF Inv, Transport, OneTransport, Bound, control, fields, network
<1>9. Waiting'
  BY <1>1, <1>2, <1>5, WaitingShrinks DEF Inv, Transport, control, fields
<1>10. LossIsReported'
  BY <1>1, <1>2 DEF Inv, Modes, LossIsReported, control, fields, network
<1>11. Off' /\ ReconnectingIsArmed' /\ QuietWhenOff'
  BY <1>1, <1>2, <1>3
     DEF Inv, Modes, Off, ReconnectingIsArmed, QuietWhenOff, control, fields, flags
<1>12. StreamingHasVideo'
  BY <1>1, <1>2 DEF Inv, Modes, StreamingHasVideo, control, fields
<1> QED
  BY <1>5, <1>6, <1>7, <1>8, <1>9, <1>10, <1>11, <1>12 DEF IInv, Inv, Transport, Modes

\* A delay that is over is of a generation that has begun.
LEMMA TimerKeeps ==
  ASSUME IInv, NEW g \in timers, DelayElapses(g)
  PROVE  IInv'
<1>1. NameType /\ QueueType
  BY DEF IInv
<1>2. g \in Nat /\ g \in 1..generation
  BY <1>1 DEF NameType
<1>3. /\ tracked \subseteq peers /\ answering \subseteq peers /\ statsCalls \subseteq peers
      /\ opened \subseteq sockets /\ closing \subseteq sockets
  BY <1>1 DEF NameType
<1> DEFINE r == [kind |-> "due", of |-> g]
<1>4. QueueType' /\ Queued' = Queued \cup {r}
  BY <1>1, <1>2, Posts DEF DelayElapses, Unguarded
<1>5. /\ UNCHANGED <<control, fields, peers, statsArmed, ui, flags>>
      /\ UNCHANGED <<rtc, closing, sockets, opened>>
  BY DEF DelayElapses, transport, rtc, network
<1>6. r.of = g /\ r.kind \notin Guarded /\ r.kind \notin {"offer", "track"}
  BY DEF Guarded
<1> HIDE DEF r
<1> QED
  BY <1>2, <1>3, <1>4, <1>5, <1>6, PostingKeeps DEF rtc

\* A stutter keeps everything.
LEMMA StutterKeeps ==
  ASSUME IInv, UNCHANGED vars
  PROVE  IInv'
<1>1. ModeType /\ NameType /\ QueueType /\ Inv
  BY DEF IInv
<1> USE DEF vars, control, transport, fields, rtc, ui, flags, network
<1>2. ModeType' /\ NameType' /\ QueueType' /\ Queued' = Queued
  BY <1>1, SameQueue DEF ModeType, NameType
<1>3. OneTransport' /\ Bound'
  BY <1>1 DEF Inv, Transport, OneTransport, Bound
<1>4. Waiting'
  BY <1>1, <1>2, WaitingShrinks DEF Inv, Transport
<1>5. LossIsReported'
  BY <1>1 DEF Inv, Modes, LossIsReported
<1>6. Off' /\ ReconnectingIsArmed' /\ QuietWhenOff' /\ StreamingHasVideo'
  BY <1>1 DEF Inv, Modes, Off, ReconnectingIsArmed, QuietWhenOff, StreamingHasVideo
<1> QED
  BY <1>2, <1>3, <1>4, <1>5, <1>6 DEF IInv, Inv, Transport, Modes

-----------------------------------------------------------------------------
(* The theorems.                                                           *)

\* The invariant holds at the start and is kept by every step.
LEMMA Invariant == Spec => []IInv
<1>1. Init => IInv
  <2> SUFFICES ASSUME Init PROVE IInv
    OBVIOUS
  <2>1. queue = << >> /\ QueueType /\ Queued = {}
    BY TabletAssumption DEF Init, QueueType, Queued
  <2>2. ModeType /\ NameType
    <3>1. 0 \in 0..MaxAttempts /\ 0 \in 0..0 /\ 0 \in Nat /\ DebugExtras \in BOOLEAN
      BY TabletAssumption
    <3> QED
      BY <3>1 DEF Init, ModeType, NameType, State
  <2>3. Transport
    BY <2>1 DEF Init, Transport, OneTransport, Bound, Waiting
  <2>4. Modes
    BY DEF Init, Modes, Off, ReconnectingIsArmed, LossIsReported, StreamingHasVideo,
       QuietWhenOff
  <2> QED
    BY <2>1, <2>2, <2>3, <2>4 DEF IInv, Inv
<1>2. IInv /\ [Next]_vars => IInv'
  <2> SUFFICES ASSUME IInv, [Next]_vars PROVE IInv'
    OBVIOUS
  <2>1. CASE User
    BY <2>1, UserKeeps
  <2>2. CASE Callbacks
    BY <2>2, SocketsKeep, PeersKeep DEF Callbacks
  <2>3. CASE Looper
    BY <2>3, LooperKeeps
  <2>4. CASE StatsRun
    BY <2>4, StatsKeep
  <2>5. CASE Timer
    BY <2>5, TimerKeeps DEF Timer
  <2>6. CASE UNCHANGED vars
    BY <2>6, StutterKeeps
  <2> QED
    BY <2>1, <2>2, <2>3, <2>4, <2>5, <2>6 DEF Next
<1> QED
  BY <1>1, <1>2, PTL DEF Spec

\* The variables keep their types, every name is of a generation that has begun,
\* and what is known of a peer connection does not outlive it (54-91).
THEOREM TypeCorrect == Spec => []TypeOK
<1>1. IInv => TypeOK
  BY TypeParts DEF IInv
<1> QED
  BY <1>1, Invariant, PTL

\* No socket and no peer connection is left behind (disconnectTransport, 421-435).
THEOREM NothingIsLeftBehind == Spec => []OneTransport
<1>1. IInv => OneTransport
  BY DEF IInv, Inv, Transport
<1> QED
  BY <1>1, Invariant, PTL

\* What WebRTC's thread sends on the field webSocket, without a check, goes to
\* the host of its own session, which has been greeted (226, 259).
THEOREM AnswersArrive == Spec => []AnswersReachTheirHost
<1>1. IInv => AnswersReachTheirHost
  BY DEF IInv, Inv, Transport, OneTransport, Bound, AnswersReachTheirHost
<1> QED
  BY <1>1, Invariant, PTL

\* The client does not wait for a reconnection that was dropped (385-403).
THEOREM DelayIsPending == Spec => []ReconnectingIsArmed
<1>1. IInv => ReconnectingIsArmed
  BY DEF IInv, Inv, Modes
<1> QED
  BY <1>1, Invariant, PTL

\* The end of the socket in use is not missed (157-193).
THEOREM EndIsReported == Spec => []LossIsReported
<1>1. IInv => LossIsReported
  BY DEF IInv, Inv, Modes
<1> QED
  BY <1>1, Invariant, PTL

\* The streaming screen has a track of the living peer to show (276-289).
THEOREM VideoIsThere == Spec => []StreamingHasVideo
<1>1. IInv => StreamingHasVideo
  BY DEF IInv, Inv, Modes
<1> QED
  BY <1>1, Invariant, PTL

\* Off means off: no transport, and nothing pending after "Desconectar" (405-446).
THEOREM OffIsOff == Spec => []QuietWhenOff
<1>1. IInv => QuietWhenOff
  BY DEF IInv, Inv, Modes
<1> QED
  BY <1>1, Invariant, PTL

\* An error is left by the user, or by one of the two events that nothing
\* cancels: the ICE runnable of the failed session, and the delay that was
\* pending when the click was refused (138-143, 246-253, 385-412).
THEOREM ErrorStays == Spec => ErrorIsLeftByUserOrIce
<1> DEFINE Left == state = "Error" /\ state' # "Error" =>
                     \/ state' = "Connecting" /\ reconnectAttempts' = 0
                     \/ manualDisconnect'
                     \/ queue # << >> /\ Head(queue).kind = "ice"
                     \/ /\ queue # << >>
                        /\ Head(queue) = [kind |-> "due", of |-> generation]
                        /\ state' = "Connecting"
<1>1. IInv /\ [Next]_vars => [Left]_vars
  <2> SUFFICES ASSUME IInv, Next, state = "Error", state' # "Error"
               PROVE  \/ state' = "Connecting" /\ reconnectAttempts' = 0
                      \/ manualDisconnect'
                      \/ queue # << >> /\ Head(queue).kind = "ice"
                      \/ /\ queue # << >>
                         /\ Head(queue) = [kind |-> "due", of |-> generation]
                         /\ state' = "Connecting"
    BY Zenon
  <2>1. ModeType /\ NameType /\ QueueType /\ Inv
    BY DEF IInv
  <2>2. webSocket = 0 /\ peers = {}
    BY <2>1 DEF Inv, Transport, Modes, Off, OneTransport
  <2>3. CASE User
    BY <2>3 DEF User, ConnectClicked, AutoConnect, Connect, ConnectRefused, DisconnectClicked,
       OnCleared, Disconnect, Compose, control
  <2>4. CASE Callbacks
    <3>1. PICK g \in sockets : \/ SocketOpens(g) \/ SocketEnds(g)
                               \/ \E kind \in {"offer", "retryable", "fatal"} :
                                    HostSpeaks(g, kind)
      BY <2>2, <2>4 DEF Callbacks
    <3> QED
      BY <3>1 DEF SocketOpens, SocketEnds, HostSpeaks, control
  <2>5. CASE Looper
    <3>1. queue # << >> /\ queue' = Tail(queue)
      BY <2>5 DEF Looper, Outdated, SendHello, AcceptOffer, FatalError, TransportLost,
         IceLost, AttachRemoteTrack, TrackKnown, TrackDisposed, ConsumeStats, Reconnect,
         ReconnectOvertaken, Take
    <3>2. Head(queue) \in Queued
      BY <2>1, <3>1, Takes
    <3>3. ~(TransportLost \/ AttachRemoteTrack)
      <4>1. ~AttachRemoteTrack
        BY <2>2 DEF AttachRemoteTrack
      <4>2. ASSUME TransportLost PROVE FALSE
        <5>1. Head(queue).kind \in Guarded /\ Head(queue).of = generation
          BY <4>2 DEF TransportLost, Take, Current, Guarded
        <5>2. webSocket = generation /\ generation \in 1..generation
          BY Zenon, <2>1, <3>2, <5>1 DEF Inv, Transport, Waiting
        <5> QED
          BY <2>1, <2>2, <5>2 DEF ModeType
      <4> QED
        BY <4>1, <4>2
    <3>4. CASE Reconnect
      <4>1. /\ Head(queue).kind = "due" /\ Head(queue).of = generation
            /\ state' = "Connecting"
        BY <3>4 DEF Reconnect, Take, Current
      <4>2. Head(queue) \in Runnable
        BY <2>1, <3>1, Takes
      <4> QED
        BY <3>1, <4>1, <4>2 DEF Runnable
    <3> QED
      BY <2>5, <3>1, <3>3, <3>4 DEF Looper, Outdated, SendHello, AcceptOffer, FatalError, Fail,
         IceLost, TrackKnown, TrackDisposed, ConsumeStats, ReconnectOvertaken, Take, control
  <2>6. CASE StatsRun
    BY <2>6 DEF StatsRun, control
  <2>7. CASE Timer
    BY <2>7 DEF Timer, DelayElapses, control
  <2> QED
    BY <2>3, <2>4, <2>5, <2>6, <2>7 DEF Next
<1> QED
  BY <1>1, Invariant, PTL DEF Spec, ErrorIsLeftByUserOrIce
=============================================================================
