----------------------------- MODULE OfferAnswer -----------------------------
(***************************************************************************)
(* What signalling is for: each media session of the host makes an offer   *)
(* once, the tablet answers an offer that was made, once, and the media    *)
(* session takes one answer: the one to its own offer, unless it was put   *)
(* in the place of one that had begun to make its own.  Channels,          *)
(* callbacks and rebuilt pipelines are the business of Negotiation.        *)
(***************************************************************************)
CONSTANT Session       \* media sessions of one connection

VARIABLES
  offered,             \* those that have made their offer
  answered,            \* those whose offer the tablet has answered
  agreed,              \* pairs: who took an answer, and whose offer it answers
  hasty                \* a media session was replaced in mid-offer

Init == offered = {} /\ answered = {} /\ agreed = {} /\ hasty = FALSE

Offer(m) ==
  /\ m \notin offered
  /\ offered' = offered \cup {m}
  /\ UNCHANGED <<answered, agreed, hasty>>

Answer(m) ==
  /\ m \in offered \ answered
  /\ answered' = answered \cup {m}
  /\ UNCHANGED <<offered, agreed, hasty>>

Agree(m, n) ==
  /\ m \in offered /\ n \in answered
  /\ \A k \in Session : <<m, k>> \notin agreed
  /\ n # m => hasty
  /\ agreed' = agreed \cup {<<m, n>>}
  /\ UNCHANGED <<offered, answered, hasty>>

Hurry ==
  /\ hasty' = TRUE
  /\ UNCHANGED <<offered, answered, agreed>>

Next == Hurry \/ \E m \in Session :
          Offer(m) \/ Answer(m) \/ \E n \in Session : Agree(m, n)

Spec == Init /\ [][Next]_<<offered, answered, agreed, hasty>>
=============================================================================
