----------------------------- MODULE TabletRetries -----------------------------
(***************************************************************************)
(* TabletController with a history variable: the reconnections the client  *)
(* has started since the user asked for a connection or, in the current    *)
(* session, video was last received.  BUILD_AND_DEPLOY.md says that        *)
(* reconnecting is tried five times at most.                               *)
(***************************************************************************)
EXTENDS TabletController

VARIABLE retries

histVars == <<vars, retries>>

HInit == Init /\ retries = 0

\* ICE is connected and a frame of the peer's track arrives.
MediaFlows ==
  /\ peerConnection \in tracked \ answering
  /\ retries' = 0
  /\ UNCHANGED vars

\* A step of the controller, which may start a reconnection.
Counted ==
  /\ Next
  /\ retries' =
       CASE state' = "Reconnecting" /\ generation' # generation -> retries + 1
         [] state' = "Connecting" /\ reconnectAttempts' = 0     -> 0
         [] OTHER                                              -> retries

HNext == MediaFlows \/ Counted

HSpec == HInit /\ [][HNext]_histVars

\* "A reconexão tenta no máximo cinco vezes" (docs/BUILD_AND_DEPLOY.md:136):
\* without a frame of video in between there are at most MaxAttempts retries.
RetriesAreBounded == retries <= MaxAttempts
=============================================================================
