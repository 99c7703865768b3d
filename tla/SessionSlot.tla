----------------------------- MODULE SessionSlot -----------------------------
(***************************************************************************)
(* What the host promises about its single session: a tablet holds it from *)
(* the moment it acquires it until it releases it, and nobody acquires it  *)
(* while somebody holds it.  How the promise is kept (an AtomicBool, a     *)
(* compare-and-swap and a guard that resets the flag when it is dropped)   *)
(* is the business of HostSession.                                         *)
(***************************************************************************)
CONSTANT Conn          \* the client connections

VARIABLE holders       \* the connections that hold the session: none or one

Init == holders = {}

Acquire(c) == /\ holders = {}
              /\ holders' = {c}

Release(c) == /\ c \in holders
              /\ holders' = {}

Next == \E c \in Conn : Acquire(c) \/ Release(c)

Spec == Init /\ [][Next]_holders
=============================================================================
