----------------------------- MODULE HostProcess -----------------------------
(***************************************************************************)
(* The life of auxscreen-host over several runs: main.rs, the portal       *)
(* session around serve or preview (with_capture in                        *)
(* linux/host/src/portal.rs), the service's listening and graceful         *)
(* shutdown (run in server.rs), the preview's loop (Preview) and the       *)
(* restore tokens, which outlive the process on disk.                      *)
(*                                                                         *)
(* The portal session ends when it is closed, or when the process and with *)
(* it the D-Bus connection goes.  A restore token stands for a selection   *)
(* and lets the portal repeat it without asking the user; showing it to    *)
(* the portal may use it up, with or without a dialog.  A signal that      *)
(* nobody has a handler for yet kills the process.                         *)
(***************************************************************************)
EXTENDS Naturals, Sequences

CONSTANTS
  MaxStreams,      \* bound: sources the user may tick in the dialog
  MaxClients,      \* bound: streaming tasks, and requests, at a time
  MaxMessages      \* bound: messages on the preview's bus

ASSUME ProcessAssumption ==
  MaxStreams \in Nat \ {0} /\ MaxClients \in Nat \ {0}
  /\ MaxMessages \in Nat \ {0}

VARIABLES
  pc,              \* where main is; "off" between the runs
  command, source, \* serve or preview, and what of
  session,         \* the portal session, with its monitor, is open
  token,           \* per source, the selection its token on disk is good for
  chosen,          \* the selection the portal has returned
  prompted,        \* the user has been asked in this run
  refused,         \* per source, a selection has been refused, in this or a past run
  handler,         \* shutdown::wait has been polled
  signalled,       \* SIGTERM or Ctrl+C has come
  requests,        \* connections with a request that is not answered, or not all sent
  streams,         \* tasks that on_upgrade spawned, with a playing pipeline
  turn, listening, notified, ticked, bus    \* of the preview's loop

run == <<command, source>>
disk == <<token, refused>>
portal == <<session, chosen, prompted>>
service == <<requests, streams>>
preview == <<turn, listening, notified, ticked, bus>>
vars == <<pc, run, disk, portal, handler, signalled, service, preview>>

Loop == INSTANCE Preview WITH pc <- turn, asked <- signalled

Source == {"virtual", "monitor"}
Selection == [count : 0..MaxStreams, type : Source]
None == [count |-> 0, type |-> "none"]

\* validate_stream_count, and the type of the one stream.
Accepts(s) == s.count = 1 /\ s.type = source

\* Mutant: one token for all sources.
TokenPathShared(s) == "virtual"

\* restore_token_path: each source has a token of its own.
TokenPath(s) == s

NoPreview ==
  /\ turn = "done" /\ listening = FALSE /\ notified = FALSE
  /\ ticked = TRUE /\ bus = << >>

ForgetPreview ==
  /\ turn' = "done" /\ listening' = FALSE /\ notified' = FALSE
  /\ ticked' = TRUE /\ bus' = << >>

Init ==
  /\ pc = "off" /\ command = "serve" /\ source = "virtual"
  /\ session = FALSE /\ chosen = None /\ prompted = FALSE
  /\ token = [s \in Source |-> None] /\ refused = [s \in Source |-> FALSE]
  /\ handler = FALSE /\ signalled = FALSE /\ requests = 0 /\ streams = 0
  /\ NoPreview

-----------------------------------------------------------------------------
Launch ==
  /\ pc = "off"
  /\ pc' = "connect"
  /\ command' \in {"serve", "preview"} /\ source' \in Source
  /\ prompted' = FALSE /\ signalled' = FALSE
  /\ UNCHANGED <<disk, session, chosen, handler, service, preview>>

\* The process is gone, its tasks and its D-Bus connection with it.
Gone ==
  /\ pc' = "off" /\ session' = FALSE /\ chosen' = None /\ handler' = FALSE
  /\ requests' = 0 /\ streams' = 0
  /\ ForgetPreview

\* main returns: the runtime drops the tasks that are left.  Every error of
\* with_capture comes here as well, with the portal session open.
Exit ==
  /\ pc = "exit"
  /\ Gone
  /\ UNCHANGED <<run, disk, prompted, signalled>>

\* A signal ends the process, or is heard by who listens for it.
Signal ==
  /\ pc # "off" /\ ~signalled
  /\ signalled' = TRUE
  /\ IF handler
     THEN /\ notified' = listening
          /\ UNCHANGED <<pc, portal, handler, service, turn, listening, ticked, bus>>
     ELSE Gone /\ UNCHANGED prompted
  /\ UNCHANGED <<run, disk>>

-----------------------------------------------------------------------------
(* with_capture.                                                           *)

\* The portal is there and offers the source: a session is created.
Connect ==
  /\ pc = "connect"
  /\ \/ pc' = "select" /\ session' = TRUE
     \/ pc' = "exit" /\ UNCHANGED session
  /\ UNCHANGED <<run, disk, chosen, prompted, handler, signalled, service, preview>>

\* select_sources, and start: with the restore token, if it can be read and is
\* good, nobody need be asked; otherwise there is the dialog.  A token that could
\* not be read stays good.
SelectSources ==
  /\ pc = "select"
  /\ \/ /\ pc' = "ask" /\ prompted' = TRUE
        /\ UNCHANGED chosen
     \/ /\ token[TokenPath(source)] # None
        /\ pc' = "answer" /\ chosen' = token[TokenPath(source)]
        /\ UNCHANGED prompted
     \/ /\ pc' = "exit"
        /\ UNCHANGED <<chosen, prompted>>
  /\ token' \in {token, [token EXCEPT ![TokenPath(source)] = None]}
  /\ UNCHANGED <<run, refused, session, handler, signalled, service, preview>>

\* The user shares what is ticked.
Share(s) ==
  /\ pc = "ask"
  /\ pc' = "answer" /\ chosen' = s
  /\ UNCHANGED <<run, disk, session, prompted, handler, signalled, service, preview>>

\* The user cancels, or a minute has passed.
NotApproved ==
  /\ pc = "ask"
  /\ pc' = "exit"
  /\ UNCHANGED <<run, disk, portal, handler, signalled, service, preview>>

\* What may be on disk after the response: the token of selection s; what was
\* there before, if none came with it or the file cannot be opened; or nothing,
\* if it is truncated and cannot be written.
Saved(s, before) == {before, None} \cup {t \in {s} : t.count > 0}

\* The token that came with the selection is saved, then the selection is looked
\* at.
Response ==
  /\ pc = "answer"
  /\ \E t \in Saved(chosen, token[TokenPath(source)]) :
       token' = [token EXCEPT ![TokenPath(source)] = t]
  /\ refused' = [refused EXCEPT ![source] = @ \/ ~Accepts(chosen)]
  /\ pc' = IF Accepts(chosen) THEN "remote" ELSE "exit"
  /\ UNCHANGED <<run, portal, handler, signalled, service, preview>>

\* The PipeWire remote is opened and the callback called: the service checks its
\* arguments and binds its address, the preview builds and starts its pipeline.
OpenRemote ==
  /\ pc = "remote"
  /\ \/ /\ pc' = command
        /\ turn' = IF command = "preview" THEN "select" ELSE "done"
     \/ pc' \in {"close", "exit"} /\ UNCHANGED turn
  /\ UNCHANGED <<run, disk, portal, handler, signalled, service,
                 listening, notified, ticked, bus>>

\* The callback has returned: the session is closed, or cannot be.
Close ==
  /\ pc = "close"
  /\ pc' = "exit"
  /\ session' \in {FALSE, session}
  /\ UNCHANGED <<run, disk, chosen, prompted, handler, signalled, service, preview>>

-----------------------------------------------------------------------------
(* preview::run.                                                           *)

LoopTask == \/ Loop!Select \/ Loop!Drain
Outside == UNCHANGED <<pc, run, disk, portal, service>>

PreviewTurns ==
  /\ pc = "preview"
  /\ LoopTask \/ Loop!Stop \/ Loop!TickWins
  /\ Outside

PreviewHears ==
  /\ pc = "preview" /\ turn # "done"
  /\ Loop!Elapse \/ \E what \in Loop!Message : Loop!Post(what)
  /\ Outside

PreviewEnds ==
  /\ pc = "preview" /\ turn = "done"
  /\ pc' = "close"
  /\ ForgetPreview
  /\ UNCHANGED <<run, disk, portal, handler, signalled, service>>

-----------------------------------------------------------------------------
(* server::run.                                                            *)

\* Mutant: the handler is there before anybody waits for the signal.
ListenEarly ==
  /\ pc # "off" /\ ~handler
  /\ handler' = TRUE
  /\ UNCHANGED <<pc, run, disk, portal, signalled, service, preview>>

\* The graceful shutdown's task polls shutdown::wait for the first time.
Listen ==
  /\ pc = "serve" /\ ~handler
  /\ handler' = TRUE
  /\ UNCHANGED <<pc, run, disk, portal, signalled, service, preview>>

Accept ==
  /\ pc = "serve"
  /\ requests < MaxClients
  /\ requests' = requests + 1
  /\ UNCHANGED <<pc, run, disk, portal, handler, signalled, streams, preview>>

\* A request is answered, or it is upgraded and becomes a task of its own.
Served ==
  /\ pc \in {"serve", "stop"} /\ requests > 0
  /\ requests' = requests - 1
  /\ streams' \in {streams} \cup (IF streams < MaxClients THEN {streams + 1} ELSE {})
  /\ UNCHANGED <<pc, run, disk, portal, handler, signalled, preview>>

StreamEnds ==
  /\ streams > 0
  /\ streams' = streams - 1
  /\ UNCHANGED <<pc, run, disk, portal, handler, signalled, requests, preview>>

\* Mutant: the portal session is closed as soon as the signal is there.
StopClosingFirst ==
  /\ pc = "serve" /\ signalled
  /\ pc' = "stop" /\ session' = FALSE
  /\ UNCHANGED <<run, disk, chosen, prompted, handler, signalled, service, preview>>

\* shutdown::wait returns: no connection is accepted any more.
Stop ==
  /\ pc = "serve" /\ signalled
  /\ pc' = "stop"
  /\ UNCHANGED <<run, disk, portal, handler, signalled, service, preview>>

\* Mutant: the upgraded connections are waited for.
ShutdownAfterStreams ==
  /\ pc = "stop"
  /\ requests = 0 /\ streams = 0
  /\ pc' = "close"
  /\ UNCHANGED <<run, disk, portal, handler, signalled, service, preview>>

\* The graceful shutdown is over when no request is left, however long a client
\* takes to send the rest of one; the tasks of upgraded connections are not waited
\* for.
Shutdown ==
  /\ pc = "stop"
  /\ requests = 0
  /\ pc' = "close"
  /\ UNCHANGED <<run, disk, portal, handler, signalled, service, preview>>

Capture == Connect \/ SelectSources \/ NotApproved \/ Response \/ OpenRemote
           \/ PreviewEnds \/ Close \/ Exit

Next == \/ Launch \/ Signal \/ Capture \/ PreviewTurns \/ PreviewHears
        \/ Listen \/ Accept \/ Served \/ StreamEnds \/ Stop \/ Shutdown
        \/ \E s \in Selection : Share(s)

Spec == Init /\ [][Next]_vars

\* The portal answers what needs no user, the dialog's minute passes and the
\* service runs; the preview's timer and task run, and a branch of its select!
\* that is ready again and again is polled first in the end.  Nobody has to share
\* anything, and no client has to finish its request: nothing limits the time it
\* takes.
FairSpec ==
  /\ Spec
  /\ WF_vars(Capture) /\ WF_vars(Listen)
  /\ WF_vars(Stop) /\ WF_vars(Shutdown)
  /\ WF_vars(PreviewHears /\ ticked') /\ WF_vars(PreviewTurns /\ LoopTask)
  /\ SF_vars(PreviewTurns /\ Loop!Stop) /\ SF_vars(PreviewTurns /\ Loop!TickWins)

-----------------------------------------------------------------------------
\* Types; nothing of a process is left when it is gone, and the handler comes
\* with the callback that waits for the signal.
TypeOK ==
  /\ pc \in {"off", "connect", "select", "ask", "answer", "remote", "serve",
             "preview", "stop", "close", "exit"}
  /\ command \in {"serve", "preview"} /\ source \in Source
  /\ {session, prompted} \subseteq BOOLEAN
  /\ token \in [Source -> Selection \cup {None}] /\ chosen \in Selection \cup {None}
  /\ refused \in [Source -> BOOLEAN]
  /\ requests \in 0..MaxClients /\ streams \in 0..MaxClients
  /\ Loop!TypeOK
  /\ pc # "preview" => NoPreview
  /\ pc = "off" => ~session /\ ~handler /\ requests = 0 /\ streams = 0
  /\ handler => pc \in {"serve", "preview", "stop", "close", "exit"}

\* What is captured is there: the portal session, and the monitor with it, goes
\* before a streaming task or the preview only in the moments in which main
\* returns (portal.rs:152-157, server.rs:170-183).
StreamsHaveTheirMonitor ==
  (streams > 0 \/ turn # "done") /\ ~session => pc = "exit"

\* A signal ends the service, in the dialog, while it serves, with tablets that
\* stay connected.  One thing can hold it: a client whose request is never
\* complete (portal.rs:107-157, server.rs:173-184).
SignalEndsService ==
  signalled /\ command = "serve"
    ~> (pc = "off" /\ ~session) \/ [](pc = "stop" /\ requests > 0)

\* "Encerre auxscreen-host com Ctrl+C ou SIGTERM; ambos fecham a sessao do
\* portal e removem o monitor" (docs/BUILD_AND_DEPLOY.md:124).
SignalClosesSession == signalled /\ command = "serve" ~> ~session

\* Who has always shared what the source asks for is never refused without having
\* been asked: a selection that the portal repeats is refused only if one for the
\* same source was refused before, whatever was captured from the other source
\* and whichever tokens were read, saved or lost (portal.rs:80-100, 117-129,
\* 159-197).
SilentRefusalIsARepetition ==
  pc = "answer" /\ ~prompted /\ ~Accepts(chosen) => refused[source]

\* An error of the pipeline ends the preview, even when it is on the bus behind
\* an end of stream: a turn that stops reading there does not lose the rest
\* (preview.rs:48-55).
ErrorEndsPreview ==
  (\E i \in DOMAIN bus : bus[i] = "error") ~> pc # "preview"
=============================================================================
