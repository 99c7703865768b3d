--------------------------- MODULE HostProcessProofs ---------------------------
(***************************************************************************)
(* Proofs about HostProcess, for any number of streams, clients and        *)
(* messages: its types, the monitor under every stream, and which          *)
(* selections can be refused without anybody having been asked.            *)
(***************************************************************************)
EXTENDS HostProcess, SequenceTheorems, TLAPS

Places == {"off", "connect", "select", "ask", "answer", "remote", "serve", "preview",
           "stop", "close", "exit"}

\* Where a signal has its handler, and a task of the service can be.
Listening == {"serve", "preview", "stop", "close", "exit"}

-----------------------------------------------------------------------------
(* Types, in parts that few actions touch.                                 *)

RunType ==
  /\ pc \in Places /\ command \in {"serve", "preview"} /\ source \in Source
  /\ handler \in BOOLEAN /\ signalled \in BOOLEAN
  /\ session \in BOOLEAN /\ prompted \in BOOLEAN
  /\ pc = "off" => ~session /\ ~handler
  /\ handler => pc \in Listening

DiskType ==
  /\ token \in [Source -> Selection \cup {None}] /\ chosen \in Selection \cup {None}
  /\ refused \in [Source -> BOOLEAN]

ServiceType ==
  /\ requests \in 0..MaxClients /\ streams \in 0..MaxClients
  /\ pc = "off" => requests = 0 /\ streams = 0

PreviewType ==
  /\ turn \in {"select", "wait", "drain", "done"}
  /\ listening \in BOOLEAN /\ notified \in BOOLEAN /\ ticked \in BOOLEAN
  /\ bus \in Seq(Loop!Message) /\ Len(bus) <= MaxMessages
  /\ notified => listening
  /\ pc # "preview" => NoPreview

\* The parts of the type invariant.
LEMMA TypeParts == TypeOK <=> RunType /\ DiskType /\ ServiceType /\ PreviewType
BY Zenon DEF TypeOK, Loop!TypeOK, RunType, DiskType, ServiceType, PreviewType, Places,
   Listening

\* Nobody takes part of the process with him but through Gone.
LEMMA RunTypeKept ==
  ASSUME RunType, [Next]_vars
  PROVE  RunType'
<1> USE DEF RunType, Places, Listening
<1>1. CASE Launch
  BY <1>1 DEF Launch
<1>2. ASSUME Gone, UNCHANGED <<run, prompted>>, signalled' \in BOOLEAN
      PROVE  RunType'
  BY <1>2 DEF Gone, run
<1>3. CASE Signal
  <2>1. CASE handler
    BY <1>3, <2>1 DEF Signal, run, portal
  <2>2. CASE ~handler
    BY <1>2, <1>3, <2>2 DEF Signal, run
  <2> QED
    BY <2>1, <2>2
<1>4. CASE Exit
  BY <1>2, <1>4 DEF Exit, run
<1>5. CASE Connect
  BY <1>5 DEF Connect, run
<1>6. CASE SelectSources \/ NotApproved \/ Response \/ (\E s \in Selection : Share(s))
  <2>1. /\ pc \in {"select", "ask", "answer"} /\ pc' \in {"ask", "answer", "remote", "exit"}
        /\ prompted' \in {prompted, TRUE}
        /\ UNCHANGED <<command, source, session, handler, signalled>>
    BY <1>6 DEF SelectSources, NotApproved, Response, Share, run, portal
  <2> QED
    BY <2>1
<1>7. CASE OpenRemote \/ PreviewEnds
  BY <1>7 DEF OpenRemote, PreviewEnds, run, portal
<1>8. CASE Close
  BY <1>8 DEF Close, run
<1>9. CASE PreviewTurns
  <2>1. pc = "preview" /\ UNCHANGED <<pc, run, portal>> /\ UNCHANGED signalled
        /\ handler' \in {handler, TRUE}
    BY <1>9 DEF PreviewTurns, LoopTask, Outside, Loop!Select, Loop!Drain, Loop!Stop,
       Loop!TickWins
  <2> QED
    BY <2>1 DEF run, portal
<1>10. CASE PreviewHears
  <2>1. UNCHANGED <<pc, run, portal, handler, signalled>>
    BY <1>10 DEF PreviewHears, Outside, Loop!Elapse, Loop!Post
  <2> QED
    BY <2>1 DEF run, portal
<1>11. CASE Listen \/ Accept \/ Served \/ StreamEnds \/ Stop \/ Shutdown
  <2>1. CASE Listen
    BY <2>1 DEF Listen, run, portal
  <2>2. CASE Accept \/ Served \/ StreamEnds
    BY <2>2 DEF Accept, Served, StreamEnds, run, portal
  <2>3. CASE Stop \/ Shutdown
    BY <2>3 DEF Stop, Shutdown, run, portal
  <2> QED
    BY <1>11, <2>1, <2>2, <2>3
<1>12. CASE UNCHANGED vars
  BY <1>12 DEF vars, run, portal
<1> QED
  BY <1>1, <1>3, <1>4, <1>5, <1>6, <1>7, <1>8, <1>9, <1>10, <1>11, <1>12 DEF Next, Capture

\* The steps that leave the selection, what is on disk and who was asked alone.
LEMMA DiskSteps ==
  ASSUME RunType, [Next]_vars
  PROVE  \/ /\ UNCHANGED <<disk, chosen>>
            /\ pc' \in {"ask", "answer"} => UNCHANGED <<pc, source, prompted>>
         \/ Gone /\ UNCHANGED <<disk, source>>
         \/ SelectSources \/ Response \/ \E s \in Selection : Share(s)
<1>1. CASE Launch \/ Signal
  BY <1>1 DEF Launch, Signal, portal, run
<1>2. CASE Exit
  BY <1>2 DEF Exit, run
<1>3. CASE Connect \/ NotApproved \/ Close \/ PreviewEnds
  BY <1>3 DEF Connect, NotApproved, Close, PreviewEnds, portal, run
<1>4. CASE OpenRemote
  <2>1. pc' \in {command, "close", "exit"} /\ UNCHANGED <<disk, chosen>>
    BY <1>4 DEF OpenRemote, portal
  <2> QED
    BY <2>1 DEF RunType
<1>5. CASE PreviewTurns \/ PreviewHears
  BY <1>5 DEF PreviewTurns, PreviewHears, Outside, portal, run
<1>6. CASE Listen \/ Accept \/ Served \/ StreamEnds \/ Stop \/ Shutdown
  BY <1>6 DEF Listen, Accept, Served, StreamEnds, Stop, Shutdown, portal, run
<1>7. CASE UNCHANGED vars
  BY <1>7 DEF vars, portal, run
<1> QED
  BY <1>1, <1>2, <1>3, <1>4, <1>5, <1>6, <1>7 DEF Next, Capture

\* A selection is saved, or none is.
LEMMA DiskTypeKept ==
  ASSUME RunType, DiskType, [Next]_vars
  PROVE  DiskType'
<1>1. CASE UNCHANGED <<disk, chosen>>
  BY <1>1 DEF DiskType, disk
<1>2. CASE Gone /\ UNCHANGED disk
  BY <1>2 DEF Gone, DiskType, disk
<1>3. CASE SelectSources
  <2>1. /\ token' \in {token, [token EXCEPT ![source] = None]} /\ refused' = refused
        /\ chosen' \in {chosen, token[source]}
    BY <1>3 DEF SelectSources, TokenPath
  <2> QED
    BY <2>1 DEF DiskType, RunType
<1>4. ASSUME NEW s \in Selection, Share(s)
      PROVE  DiskType'
  BY <1>4 DEF Share, DiskType, disk
<1>5. CASE Response
  <2>1. PICK t \in Saved(chosen, token[source]) : token' = [token EXCEPT ![source] = t]
    BY <1>5 DEF Response, TokenPath
  <2>2. t \in Selection \cup {None} /\ chosen' = chosen
    BY <1>5, <2>1 DEF Response, Saved, DiskType, RunType, portal
  <2>3. token' \in [Source -> Selection \cup {None}]
    BY <2>1, <2>2 DEF DiskType
  <2>4. refused' \in [Source -> BOOLEAN]
    <3>1. refused' = [refused EXCEPT ![source] = refused[source] \/ ~Accepts(chosen)]
      BY <1>5 DEF Response
    <3>2. (refused[source] \/ ~Accepts(chosen)) \in BOOLEAN
      OBVIOUS
    <3> QED
      BY <3>1, <3>2, Zenon DEF DiskType
  <2> QED
    BY <2>2, <2>3, <2>4 DEF DiskType
<1> QED
  BY <1>1, <1>2, <1>3, <1>4, <1>5, DiskSteps

\* Requests and streaming tasks are counted within their bound.
LEMMA ServiceTypeKept ==
  ASSUME ServiceType, RunType, [Next]_vars
  PROVE  ServiceType'
<1> USE DEF ServiceType
<1>1. CASE Gone
  BY <1>1, ProcessAssumption DEF Gone
<1>2. ASSUME UNCHANGED service, pc' = "off" => pc = "off"
      PROVE  ServiceType'
  BY <1>2 DEF service
<1>3. CASE Accept \/ Served \/ StreamEnds
  BY <1>3, ProcessAssumption DEF Accept, Served, StreamEnds
<1>4. CASE Launch \/ Signal \/ Exit
  BY <1>1, <1>2, <1>4 DEF Launch, Signal, Exit
<1>5. CASE Connect \/ SelectSources \/ NotApproved \/ Response \/ PreviewEnds \/ Close
           \/ (\E s \in Selection : Share(s))
  BY <1>2, <1>5 DEF Connect, SelectSources, NotApproved, Response, PreviewEnds, Close, Share
<1>6. CASE OpenRemote
  BY <1>2, <1>6 DEF OpenRemote, RunType
<1>7. CASE PreviewTurns \/ PreviewHears \/ Listen \/ Stop \/ Shutdown \/ UNCHANGED vars
  BY <1>2, <1>7 DEF PreviewTurns, PreviewHears, Outside, Listen, Stop, Shutdown, vars
<1> QED
  BY <1>3, <1>4, <1>5, <1>6, <1>7 DEF Next, Capture

\* The preview's loop keeps its own types, and there is none of it elsewhere.
LEMMA PreviewTypeKept ==
  ASSUME RunType, PreviewType, [Next]_vars
  PROVE  PreviewType'
<1> USE DEF PreviewType
<1>0. MaxMessages \in Nat /\ MaxMessages > 0
  BY ProcessAssumption
<1>1. ASSUME ForgetPreview
      PROVE  PreviewType'
  <2>1. << >> \in Seq(Loop!Message) /\ Len(<< >>) <= MaxMessages
    BY <1>0, EmptySeq
  <2> QED
    BY <1>1, <2>1 DEF ForgetPreview, NoPreview
<1>2. ASSUME UNCHANGED preview, pc = "preview" => pc' = "preview"
      PROVE  PreviewType'
  BY <1>2 DEF preview, NoPreview
<1>3. CASE Launch \/ Exit \/ PreviewEnds
  BY <1>1, <1>2, <1>3 DEF Launch, Exit, Gone, PreviewEnds
<1>4. CASE Signal
  <2>1. CASE handler
    BY <1>4, <2>1 DEF Signal, NoPreview
  <2>2. CASE ~handler
    BY <1>1, <1>4, <2>2 DEF Signal, Gone
  <2> QED
    BY <2>1, <2>2
<1>5. CASE Connect \/ SelectSources \/ NotApproved \/ Response \/ Close
           \/ (\E s \in Selection : Share(s))
  BY <1>2, <1>5 DEF Connect, SelectSources, NotApproved, Response, Close, Share
<1>6. CASE OpenRemote
  <2>1. /\ UNCHANGED <<listening, notified, ticked, bus>> /\ NoPreview
        /\ turn' \in {"select", "done"}
        /\ pc' # "preview" => turn' = "done"
    BY <1>6 DEF OpenRemote, NoPreview, RunType
  <2> QED
    BY <2>1 DEF NoPreview
<1>7. CASE PreviewTurns
  <2>1. pc = "preview" /\ pc' = "preview"
    BY <1>7 DEF PreviewTurns, Outside
  <2>2. bus # << >> => /\ Tail(bus) \in Seq(Loop!Message)
                      /\ Len(Tail(bus)) <= MaxMessages
    BY <1>0, HeadTailProperties, EmptySeq
  <2>3. bus' \in Seq(Loop!Message) /\ Len(bus') <= MaxMessages
    BY <1>7, <2>2 DEF PreviewTurns, LoopTask, Loop!Select, Loop!Drain, Loop!Stop, Loop!TickWins
  <2>4. CASE Loop!Select
    BY <2>1, <2>3, <2>4 DEF Loop!Select
  <2>5. CASE Loop!Drain
    BY <2>1, <2>3, <2>5 DEF Loop!Drain
  <2>6. CASE Loop!Stop \/ Loop!TickWins
    BY <2>1, <2>3, <2>6 DEF Loop!Stop, Loop!TickWins
  <2> QED
    BY <1>7, <2>4, <2>5, <2>6 DEF PreviewTurns, LoopTask
<1>8. CASE PreviewHears
  <2>1. pc = "preview" /\ pc' = "preview"
    BY <1>8 DEF PreviewHears, Outside
  <2>2. CASE Loop!Elapse
    BY <2>1, <2>2 DEF Loop!Elapse
  <2>3. ASSUME NEW what \in Loop!Message, Loop!Post(what)
        PROVE  PreviewType'
    <3>1. bus' \in Seq(Loop!Message) /\ Len(bus') <= MaxMessages
      BY <1>0, <2>3, AppendProperties DEF Loop!Post
    <3> QED
      BY <2>1, <2>3, <3>1 DEF Loop!Post
  <2> QED
    BY <1>8, <2>2, <2>3 DEF PreviewHears
<1>9. CASE Listen \/ Accept \/ Served \/ StreamEnds \/ Stop \/ Shutdown \/ UNCHANGED vars
  BY <1>2, <1>9 DEF Listen, Accept, Served, StreamEnds, Stop, Shutdown, vars
<1> QED
  BY <1>3, <1>4, <1>5, <1>6, <1>7, <1>8, <1>9 DEF Next, Capture

\* The types hold, whatever the user shares and the clients do.
THEOREM TypeCorrect == Spec => []TypeOK
<1> DEFINE Types == RunType /\ DiskType /\ ServiceType /\ PreviewType
<1>1. Init => Types
  <2> SUFFICES ASSUME Init
               PROVE  Types
    OBVIOUS
  <2>1. RunType /\ DiskType
    BY DEF Init, RunType, Places, Listening, Source, DiskType
  <2>2. ServiceType
    BY ProcessAssumption DEF Init, ServiceType
  <2>3. << >> \in Seq(Loop!Message) /\ Len(<< >>) <= MaxMessages
    BY ProcessAssumption, EmptySeq
  <2>4. PreviewType
    BY <2>3 DEF Init, NoPreview, PreviewType
  <2> QED
    BY <2>1, <2>2, <2>4
<1>2. Types /\ [Next]_vars => Types'
  BY RunTypeKept, DiskTypeKept, ServiceTypeKept, PreviewTypeKept
<1>3. Types => TypeOK
  BY TypeParts
<1> QED
  BY <1>1, <1>2, <1>3, PTL DEF Spec

-----------------------------------------------------------------------------
(* What is captured.                                                       *)

\* From its creation until main closes it, or returns, the session is there; and
\* streaming tasks are of a service that has been there.
Open ==
  /\ pc \notin {"off", "connect", "exit"} => session
  /\ streams > 0 => pc \in {"serve", "stop", "close", "exit"}

\* The portal session, and the monitor with it, outlives what is captured from
\* it, but for the moments in which main returns.
THEOREM MonitorIsThere == Spec => []StreamsHaveTheirMonitor
<1>1. Init => Open
  BY DEF Init, Open
<1>2. TypeOK /\ Open /\ [Next]_vars => Open'
  <2> SUFFICES ASSUME TypeOK, Open, [Next]_vars
               PROVE  Open'
    OBVIOUS
  <2> USE DEF Open
  <2>0. RunType /\ ServiceType /\ streams \in Nat
    BY TypeParts DEF ServiceType
  <2>1. CASE Gone
    BY <2>1 DEF Gone
  <2>2. CASE Launch
    BY <2>0, <2>2 DEF Launch, ServiceType, service
  <2>3. CASE Signal \/ Exit
    BY <2>1, <2>3 DEF Signal, Exit, portal, service
  <2>4. CASE Connect \/ SelectSources \/ NotApproved \/ Response
             \/ (\E s \in Selection : Share(s))
    BY <2>4 DEF Connect, SelectSources, NotApproved, Response, Share, portal, service
  <2>5. CASE OpenRemote
    BY <2>5 DEF OpenRemote, portal, service
  <2>6. CASE PreviewEnds \/ Close
    BY <2>6 DEF PreviewEnds, Close, portal, service
  <2>7. CASE PreviewTurns \/ PreviewHears \/ UNCHANGED vars
    BY <2>7 DEF PreviewTurns, PreviewHears, Outside, vars, portal, service
  <2>8. CASE Served \/ StreamEnds
    BY <2>0, <2>8 DEF Served, StreamEnds, portal
  <2>9. CASE Listen \/ Accept \/ Stop \/ Shutdown
    BY <2>9 DEF Listen, Accept, Stop, Shutdown, portal, service
  <2> QED
    BY <2>2, <2>3, <2>4, <2>5, <2>6, <2>7, <2>8, <2>9 DEF Next, Capture
<1>3. TypeOK /\ Open => StreamsHaveTheirMonitor
  BY TypeParts DEF RunType, Places, ServiceType, PreviewType, NoPreview, Open,
     StreamsHaveTheirMonitor
<1> QED
  BY <1>1, <1>2, <1>3, TypeCorrect, PTL DEF Spec

-----------------------------------------------------------------------------
(* Restore tokens.                                                         *)

\* A token on disk is good for a selection that its own source accepts, or one
\* was refused for that source; without the dialog the portal repeats it.
Remembered ==
  /\ \A s \in Source :
       token[s] # None /\ ~(token[s].count = 1 /\ token[s].type = s) => refused[s]
  /\ pc = "ask" => prompted
  /\ pc = "answer" /\ ~prompted /\ ~Accepts(chosen) => refused[source]

\* A selection that nobody was asked for is refused only when one for the same
\* source was refused before: one source's token never stands in for the other's,
\* whichever tokens are read, used up, saved or lost.
THEOREM RefusalsRepeat == Spec => []SilentRefusalIsARepetition
<1>1. Init => Remembered
  BY DEF Init, Remembered
<1>2. TypeOK /\ Remembered /\ [Next]_vars => Remembered'
  <2> SUFFICES ASSUME TypeOK, Remembered, [Next]_vars
               PROVE  Remembered'
    OBVIOUS
  <2>0. RunType /\ DiskType
    BY TypeParts
  <2>1. CASE Gone /\ UNCHANGED disk
    BY <2>1 DEF Gone, Remembered, disk
  <2>2. CASE SelectSources
    <3>1. /\ token' \in {token, [token EXCEPT ![source] = None]}
          /\ refused' = refused /\ source' = source /\ pc' \in {"ask", "answer", "exit"}
          /\ pc' = "ask" => prompted' = TRUE
          /\ pc' = "answer" => token[source] # None /\ chosen' = token[source]
      BY <2>2 DEF SelectSources, TokenPath, run
    <3>2. \A s \in Source : token'[s] \in {token[s], None}
      BY <2>0, <3>1 DEF DiskType
    <3>3. \A s \in Source :
            token'[s] # None /\ ~(token'[s].count = 1 /\ token'[s].type = s) => refused'[s]
      BY <3>1, <3>2 DEF Remembered
    <3>4. pc' = "answer" /\ ~Accepts(chosen)' => refused'[source']
      BY <2>0, <3>1 DEF Remembered, Accepts, RunType
    <3> QED
      BY <3>1, <3>3, <3>4 DEF Remembered
  <2>3. ASSUME NEW s \in Selection, Share(s)
        PROVE  Remembered'
    BY <2>3 DEF Share, Remembered, disk
  <2>4. CASE Response
    <3>1. PICK t \in Saved(chosen, token[source]) : token' = [token EXCEPT ![source] = t]
      BY <2>4 DEF Response, TokenPath
    <3>2. t \in {None, chosen, token[source]}
      BY <3>1 DEF Saved
    <3>3. /\ refused' = [refused EXCEPT ![source] = refused[source] \/ ~Accepts(chosen)]
          /\ pc' \notin {"ask", "answer"}
      BY <2>4 DEF Response
    <3>4. refused'[source] = (refused[source] \/ ~Accepts(chosen))
      BY <2>0, <3>3, Zenon DEF DiskType, RunType
    <3>5. ASSUME NEW s \in Source, token'[s] # None,
                 ~(token'[s].count = 1 /\ token'[s].type = s)
          PROVE  refused'[s]
      <4>1. CASE s = source
        <5>1. token'[s] = t
          BY <2>0, <3>1, <4>1 DEF DiskType
        <5>2. CASE t = token[source]
          BY <3>4, <3>5, <4>1, <5>1, <5>2 DEF Remembered
        <5>3. CASE t = chosen
          BY <3>4, <3>5, <4>1, <5>1, <5>3 DEF Accepts
        <5> QED
          BY <3>2, <3>5, <5>1, <5>2, <5>3
      <4>2. CASE s # source
        BY <2>0, <3>1, <3>3, <3>5, <4>2 DEF Remembered, DiskType
      <4> QED
        BY <4>1, <4>2
    <3> QED
      BY <3>3, <3>5 DEF Remembered
  <2>5. CASE /\ UNCHANGED <<disk, chosen>>
             /\ pc' \in {"ask", "answer"} => UNCHANGED <<pc, source, prompted>>
    BY <2>5 DEF Remembered, Accepts, disk
  <2> QED
    BY <2>0, <2>1, <2>2, <2>3, <2>4, <2>5, DiskSteps
<1>3. Remembered => SilentRefusalIsARepetition
  BY DEF Remembered, SilentRefusalIsARepetition
<1> QED
  BY <1>1, <1>2, <1>3, TypeCorrect, PTL DEF Spec
=============================================================================
