-------------------------- MODULE HostSessionProofs --------------------------
(***************************************************************************)
(* Proofs about HostSession, for any number of connections, addresses and  *)
(* workers and any limit and window.                                       *)
(***************************************************************************)
EXTENDS HostSession, FiniteSetTheorems, SequenceTheorems, TLAPS

-----------------------------------------------------------------------------
(* The limiter's queue. *)

\* Counting the expired entries of a queue is well defined.
LEMMA ExpiredCount ==
  ASSUME NEW ages \in Seq(0..WINDOW)
  PROVE  /\ Cardinality(Expired(ages)) \in Nat
         /\ Cardinality(Expired(ages)) <= Len(ages)
<1>0. Len(ages) \in Nat /\ DOMAIN ages = 1..Len(ages)
  OBVIOUS
<1>1. /\ IsFiniteSet(1..Len(ages))
      /\ Cardinality(1..Len(ages)) = Len(ages)
  BY <1>0, FS_Interval
<1>2. Expired(ages) \in SUBSET (1..Len(ages))
  BY <1>0 DEF Expired
<1> QED
  BY <1>1, <1>2, FS_Subset, FS_CardinalityType

\* Retain returns a queue of ages that is no longer than its argument: it is
\* the argument without as many entries as are expired.
LEMMA RetainType ==
  ASSUME NEW ages \in Seq(0..WINDOW)
  PROVE  /\ Retain(ages) \in Seq(0..WINDOW)
         /\ Len(Retain(ages)) = Len(ages) - Cardinality(Expired(ages))
         /\ Len(Retain(ages)) <= Len(ages)
         /\ \A i \in 1..Len(Retain(ages)) :
              Retain(ages)[i] = ages[Cardinality(Expired(ages)) + i]
<1> DEFINE k == Cardinality(Expired(ages))
<1>0. /\ Len(ages) \in Nat
      /\ \A i \in 1..Len(ages) : ages[i] \in 0..WINDOW
  BY LimitAssumption
<1>1. k \in Nat /\ k <= Len(ages)
  BY ExpiredCount
<1> HIDE DEF k
<1>2. \A i \in (k+1)..Len(ages) : ages[i] \in 0..WINDOW
  BY <1>0, <1>1
<1>3. /\ SubSeq(ages, k+1, Len(ages)) \in Seq(0..WINDOW)
      /\ Len(SubSeq(ages, k+1, Len(ages)))
           = IF k+1 <= Len(ages) THEN Len(ages) - (k+1) + 1 ELSE 0
      /\ \A i \in 1..(Len(ages) - (k+1) + 1) :
           SubSeq(ages, k+1, Len(ages))[i] = ages[(k+1)+i-1]
  BY <1>1, <1>2, SubSeqProperties
<1>4. Len(SubSeq(ages, k+1, Len(ages))) = Len(ages) - k
  BY <1>1, <1>3
<1>5. \A i \in 1..(Len(ages) - k) : SubSeq(ages, k+1, Len(ages))[i] = ages[k+i]
  BY <1>1, <1>3
<1>6. Retain(ages) = SubSeq(ages, k+1, Len(ages))
  BY DEF Retain, k
<1> QED
  BY <1>1, <1>3, <1>4, <1>5, <1>6 DEF k

\* In a queue that is ordered oldest first the expired entries are exactly
\* the first ones, so Retain removes what the code's retain() removes.
LEMMA RetainRemovesTheExpired ==
  ASSUME NEW ages \in Seq(0..WINDOW),
         \A i, j \in DOMAIN ages : i < j => ages[i] >= ages[j],
         NEW i \in DOMAIN ages
  PROVE  i <= Cardinality(Expired(ages)) <=> ages[i] >= WINDOW
<1>0. /\ WINDOW \in Nat /\ Len(ages) \in Nat
      /\ DOMAIN ages = 1..Len(ages) /\ i \in 1..Len(ages)
      /\ \A j \in 1..Len(ages) : ages[j] \in 0..WINDOW
  BY LimitAssumption
<1>1. ASSUME ages[i] >= WINDOW
      PROVE  i <= Cardinality(Expired(ages))
  <2>1. 1..i \in SUBSET Expired(ages)
    BY <1>0, <1>1 DEF Expired
  <2>2. IsFiniteSet(1..Len(ages)) /\ Expired(ages) \in SUBSET (1..Len(ages))
    BY <1>0, FS_Interval DEF Expired
  <2>3. IsFiniteSet(Expired(ages))
    BY <2>2, FS_Subset
  <2>4. Cardinality(1..i) = i
    BY <1>0, FS_Interval
  <2> QED
    BY <2>1, <2>3, <2>4, FS_Subset
<1>2. ASSUME ~(ages[i] >= WINDOW)
      PROVE  ~(i <= Cardinality(Expired(ages)))
  <2>1. Expired(ages) \in SUBSET (1..(i-1))
    BY <1>0, <1>2 DEF Expired
  <2>2. IsFiniteSet(1..(i-1)) /\ Cardinality(1..(i-1)) = i - 1
    <3>1. i - 1 \in Int /\ 1 \in Int /\ i - 1 >= 0
      BY <1>0
    <3>2. Cardinality(1..(i-1)) = IF 1 > i - 1 THEN 0 ELSE (i - 1) - 1 + 1
      BY <3>1, FS_Interval
    <3> QED
      BY <3>1, <3>2, FS_Interval
  <2>3. Cardinality(Expired(ages)) <= i - 1
    BY <2>1, <2>2, FS_Subset
  <2> QED
    BY <1>0, <2>3, ExpiredCount
<1> QED
  BY <1>1, <1>2

\* RecordFailure adds one entry to what Retain leaves.
LEMMA RecordFailureType ==
  ASSUME NEW ages \in Seq(0..WINDOW)
  PROVE  /\ RecordFailure(ages) \in Seq(0..WINDOW)
         /\ Len(RecordFailure(ages)) <= Len(ages) + 1
<1>1. 0 \in 0..WINDOW
  BY LimitAssumption
<1> QED
  BY <1>1, RetainType, AppendProperties DEF RecordFailure

\* Growing older changes no queue's length.
LEMMA OlderType ==
  ASSUME NEW ages \in Seq(0..WINDOW)
  PROVE  /\ Older(ages) \in Seq(0..WINDOW)
         /\ Len(Older(ages)) = Len(ages)
         /\ DOMAIN Older(ages) = DOMAIN ages
         /\ \A i \in DOMAIN ages :
              Older(ages)[i] = IF ages[i] < WINDOW THEN ages[i] + 1 ELSE WINDOW
  BY LimitAssumption DEF Older

-----------------------------------------------------------------------------
(* Types. *)

\* Every reachable state is well typed, whatever the clients send and
\* whenever their connections come and go.
THEOREM TypeCorrect == Spec => []TypeOK
<1>1. Init => TypeOK
  <2>1. << >> \in Seq(0..WINDOW)
    OBVIOUS
  <2> QED
    BY <2>1, PeerAssumption DEF Init, TypeOK, Phase
<1>2. TypeOK /\ [Next]_vars => TypeOK'
  <2> SUFFICES ASSUME TypeOK, [Next]_vars
               PROVE  TypeOK'
    OBVIOUS
  <2> USE PeerAssumption DEF TypeOK, Phase
  <2>1. ASSUME NEW c \in Conn, NEW p \in Peer, Upgrade(c, p)
        PROVE  TypeOK'
    BY <2>1 DEF Upgrade
  <2>2. ASSUME NEW c \in Conn, IsLimited(c)
        PROVE  TypeOK'
    <3>1. peer_ip[c] \in Peer
      BY <2>2 DEF IsLimited
    <3>2. Retain(failed_auth[peer_ip[c]]) \in Seq(0..WINDOW)
      BY <3>1, RetainType
    <3> QED
      BY <2>2, <3>1, <3>2 DEF IsLimited, Goto
  <2>3. ASSUME NEW c \in Conn, TakeSlot(c) \/ Busy(c) \/ Rejected(c)
        PROVE  TypeOK'
    BY <2>3 DEF TakeSlot, Busy, Rejected, Goto
  <2>4. ASSUME NEW c \in Conn, HelloLost(c)
        PROVE  TypeOK'
    BY <2>4 DEF HelloLost, DropGuard, Goto
  <2>5. ASSUME NEW c \in Conn, NEW m \in FirstMessage, HelloRefused(c, m)
        PROVE  TypeOK'
    <3>1. peer_ip[c] \in Peer
      BY <2>5 DEF HelloRefused
    <3>2. RecordFailure(failed_auth[peer_ip[c]]) \in Seq(0..WINDOW)
      BY <3>1, RecordFailureType
    <3>3. failed_auth' \in [Peer -> Seq(0..WINDOW)]
      BY <2>5, <3>1, <3>2 DEF HelloRefused
    <3> QED
      BY <2>5, <3>3 DEF HelloRefused, Goto
  <2>6. ASSUME NEW c \in Conn, NEW m \in FirstMessage, HelloAccepted(c, m)
        PROVE  TypeOK'
    BY <2>6 DEF HelloAccepted, Goto
  <2>7. ASSUME NEW c \in Conn,
               Refused(c) \/ Started(c) \/ StartFailed(c) \/ SessionEnded(c)
        PROVE  TypeOK'
    BY <2>7 DEF Refused, Started, StartFailed, SessionEnded, DropGuard, Goto
  <2>8. CASE Tick
    <3>1. \A p \in Peer : Older(failed_auth[p]) \in Seq(0..WINDOW)
      BY OlderType
    <3> QED
      BY <2>8, <3>1 DEF Tick
  <2>9. CASE UNCHANGED vars
    BY <2>9 DEF vars
  <2> QED
    BY <2>1, <2>2, <2>3, <2>4, <2>5, <2>6, <2>7, <2>8, <2>9
       DEF Next, Step, Proceeds, HelloEnds, StartEnds
<1> QED
  BY <1>1, <1>2, PTL DEF Spec

-----------------------------------------------------------------------------
(* The slot. *)

\* The flag and the guard agree in every reachable state: the slot is never
\* leaked by an error path and never owned by two tasks.
THEOREM SlotIsAccurate == Spec => []SlotAccurate
<1>1. Init => SlotAccurate
  BY DEF Init, SlotAccurate, holders, Guarded
<1>2. TypeOK /\ SlotAccurate /\ [Next]_vars => SlotAccurate'
  <2> SUFFICES ASSUME TypeOK, SlotAccurate, [Next]_vars
               PROVE  SlotAccurate'
    OBVIOUS
  <2> USE DEF TypeOK, SlotAccurate, holders, Guarded
  <2>1. ASSUME NEW c \in Conn, NEW p \in Peer, Upgrade(c, p)
        PROVE  SlotAccurate'
    BY <2>1 DEF Upgrade
  <2>2. ASSUME NEW c \in Conn, IsLimited(c) \/ Busy(c) \/ Rejected(c)
        PROVE  SlotAccurate'
    BY <2>2 DEF IsLimited, Busy, Rejected, Goto
  <2>3. ASSUME NEW c \in Conn, TakeSlot(c)
        PROVE  SlotAccurate'
    BY <2>3 DEF TakeSlot, Goto
  <2>4. ASSUME NEW c \in Conn, HelloLost(c) \/ Refused(c) \/ StartFailed(c)
                              \/ SessionEnded(c)
        PROVE  SlotAccurate'
    BY <2>4 DEF HelloLost, Refused, StartFailed, SessionEnded, DropGuard, Goto
  <2>5. ASSUME NEW c \in Conn, NEW m \in FirstMessage,
               HelloRefused(c, m) \/ HelloAccepted(c, m)
        PROVE  SlotAccurate'
    BY <2>5 DEF HelloRefused, HelloAccepted, Goto
  <2>6. CASE Tick \/ UNCHANGED vars
    BY <2>6 DEF Tick, vars
  <2>7. ASSUME NEW c \in Conn, Started(c)
        PROVE  SlotAccurate'
    BY <2>7 DEF Started, Goto
  <2> QED
    BY <2>1, <2>2, <2>3, <2>4, <2>5, <2>6, <2>7
       DEF Next, Step, Proceeds, HelloEnds, StartEnds
<1> QED
  BY <1>1, <1>2, TypeCorrect, PTL DEF Spec

\* The handshake implements the abstract session slot: a step of the host
\* acquires the slot when nobody has it, releases it by its holder, or
\* leaves its holder alone.
THEOREM ImplementsSlot == Spec => SlotSpec
<1>1. Init => Slot!Init
  BY DEF Init, Slot!Init, holders, Guarded
<1>2. TypeOK /\ SlotAccurate /\ [Next]_vars => [Slot!Next]_holders
  <2> SUFFICES ASSUME TypeOK, SlotAccurate, [Next]_vars
               PROVE  Slot!Next \/ holders' = holders
    OBVIOUS
  <2> USE DEF TypeOK, Slot!Next, Slot!Acquire, Slot!Release
  <2>1. ASSUME NEW c \in Conn, NEW p \in Peer, Upgrade(c, p)
        PROVE  holders' = holders
    BY <2>1 DEF Upgrade, holders, Guarded
  <2>2. ASSUME NEW c \in Conn, IsLimited(c) \/ Busy(c) \/ Rejected(c)
        PROVE  holders' = holders
    BY <2>2 DEF IsLimited, Busy, Rejected, Goto, holders, Guarded
  <2>3. ASSUME NEW c \in Conn, TakeSlot(c)
        PROVE  Slot!Acquire(c)
    <3>1. holders = {}
      BY <2>3 DEF TakeSlot, SlotAccurate
    <3>2. holders' = {c}
      BY <2>3, <3>1 DEF TakeSlot, Goto, holders, Guarded
    <3> QED
      BY <3>1, <3>2
  <2>4. ASSUME NEW c \in Conn, HelloLost(c) \/ Refused(c) \/ StartFailed(c)
                              \/ SessionEnded(c)
        PROVE  Slot!Release(c)
    <3>1. c \in holders
      BY <2>4 DEF HelloLost, Refused, StartFailed, SessionEnded, holders, Guarded
    <3>2. \A d \in Conn \ {c} : pc[d] \notin Guarded
      BY <3>1 DEF SlotAccurate, holders
    <3>3. holders' = {}
      BY <2>4, <3>2 DEF HelloLost, Refused, StartFailed, SessionEnded, DropGuard,
                        Goto, holders, Guarded
    <3> QED
      BY <3>1, <3>3
  <2>5. ASSUME NEW c \in Conn, NEW m \in FirstMessage,
               HelloRefused(c, m) \/ HelloAccepted(c, m)
        PROVE  holders' = holders
    BY <2>5 DEF HelloRefused, HelloAccepted, Goto, holders, Guarded
  <2>6. ASSUME NEW c \in Conn, Started(c)
        PROVE  holders' = holders
    BY <2>6 DEF Started, Goto, holders, Guarded
  <2>7. CASE Tick \/ UNCHANGED vars
    BY <2>7 DEF Tick, vars, holders
  <2> QED
    BY <2>1, <2>2, <2>3, <2>4, <2>5, <2>6, <2>7
       DEF Next, Step, Proceeds, HelloEnds, StartEnds
<1> QED
  BY <1>1, <1>2, TypeCorrect, SlotIsAccurate, PTL DEF Spec, SlotSpec, Slot!Spec

-----------------------------------------------------------------------------
(* The limiter. *)

\* The queue of every peer is ordered oldest first, which makes Retain the
\* code's retain() (RetainRemovesTheExpired).
THEOREM QueuesAreOrdered == Spec => []OldestFirst
<1> DEFINE Ordered(ages) ==
      \A i, j \in DOMAIN ages : i < j => ages[i] >= ages[j]
<1>1. ASSUME NEW ages \in Seq(0..WINDOW), Ordered(ages)
      PROVE  Ordered(Retain(ages))
  <2> DEFINE k == Cardinality(Expired(ages))
             kept == Retain(ages)
  <2>1. k \in Nat
    BY ExpiredCount
  <2>2. /\ kept \in Seq(0..WINDOW)
        /\ Len(kept) = Len(ages) - k
        /\ \A i \in 1..Len(kept) : kept[i] = ages[k + i]
    BY RetainType
  <2> HIDE DEF k, kept
  <2>3. /\ DOMAIN kept = 1..Len(kept)
        /\ DOMAIN ages = 1..Len(ages)
        /\ Len(ages) \in Nat
    BY <2>2
  <2>4. \A i \in DOMAIN kept : k + i \in DOMAIN ages /\ i \in Int
    BY <2>1, <2>2, <2>3
  <2>5. Ordered(kept)
    <3> SUFFICES ASSUME NEW i \in DOMAIN kept, NEW j \in DOMAIN kept, i < j
                 PROVE  kept[i] >= kept[j]
      OBVIOUS
    <3>1. k + i \in DOMAIN ages /\ k + j \in DOMAIN ages /\ k + i < k + j
      BY <2>1, <2>4
    <3>2. ages[k + i] >= ages[k + j]
      BY <1>1, <3>1
    <3> QED
      BY <2>2, <2>3, <3>2
  <2> QED
    BY <2>5 DEF kept
<1>2. ASSUME NEW ages \in Seq(0..WINDOW), Ordered(ages)
      PROVE  Ordered(RecordFailure(ages))
  <2> DEFINE kept == Retain(ages)
  <2>1. kept \in Seq(0..WINDOW) /\ Ordered(kept)
    BY <1>1, <1>2, RetainType
  <2> HIDE DEF kept
  <2>2. /\ Append(kept, 0) \in Seq(0..WINDOW)
        /\ Len(Append(kept, 0)) = Len(kept) + 1
        /\ \A i \in 1..Len(kept) : Append(kept, 0)[i] = kept[i]
        /\ Append(kept, 0)[Len(kept) + 1] = 0
    BY <2>1, LimitAssumption, AppendProperties, 0 \in 0..WINDOW
  <2>3. Len(kept) \in Nat /\ \A i \in 1..Len(kept) : kept[i] \in 0..WINDOW
    BY <2>1, LimitAssumption
  <2>4. DOMAIN Append(kept, 0) = 1..(Len(kept) + 1) /\ DOMAIN kept = 1..Len(kept)
    BY <2>1, <2>2
  <2>5. Ordered(Append(kept, 0))
    BY <2>1, <2>2, <2>3, <2>4, LimitAssumption
  <2> QED
    BY <2>5 DEF RecordFailure, kept
<1>3. ASSUME NEW ages \in Seq(0..WINDOW), Ordered(ages)
      PROVE  Ordered(Older(ages))
  <2>1. \A i \in DOMAIN ages : ages[i] \in 0..WINDOW
    BY LimitAssumption
  <2> QED
    BY <1>3, <2>1, OlderType, LimitAssumption
<1> HIDE DEF Ordered
<1>4. OldestFirst <=> \A p \in Peer : Ordered(failed_auth[p])
  BY DEF OldestFirst, Ordered
<1>5. OldestFirst' <=> \A p \in Peer : Ordered(failed_auth'[p])
  BY DEF OldestFirst, Ordered
<1>6. Init => OldestFirst
  BY DEF Init, OldestFirst
<1>7. TypeOK /\ OldestFirst /\ [Next]_vars => OldestFirst'
  <2> SUFFICES ASSUME TypeOK, OldestFirst, [Next]_vars, NEW p \in Peer
               PROVE  Ordered(failed_auth'[p])
    BY <1>5
  <2>1. failed_auth \in [Peer -> Seq(0..WINDOW)] /\ Ordered(failed_auth[p])
    BY <1>4 DEF TypeOK
  <2>2. ASSUME NEW c \in Conn, IsLimited(c)
        PROVE  Ordered(failed_auth'[p])
    <3>1. failed_auth'[p] \in {failed_auth[p], Retain(failed_auth[p])}
      BY <2>1, <2>2 DEF IsLimited
    <3> QED
      BY <1>1, <2>1, <3>1
  <2>3. ASSUME NEW c \in Conn, NEW m \in FirstMessage, HelloRefused(c, m)
        PROVE  Ordered(failed_auth'[p])
    <3>1. failed_auth'[p] \in {failed_auth[p], RecordFailure(failed_auth[p])}
      BY <2>1, <2>3 DEF HelloRefused
    <3> QED
      BY <1>2, <2>1, <3>1
  <2>4. CASE Tick
    <3>1. failed_auth'[p] = Older(failed_auth[p])
      BY <2>4 DEF Tick
    <3> QED
      BY <1>3, <2>1, <3>1
  <2>5. CASE UNCHANGED failed_auth
    BY <2>1, <2>5
  <2> QED
    BY <2>2, <2>3, <2>4, <2>5
       DEF Next, vars, Step, Proceeds, HelloEnds, StartEnds, Upgrade, TakeSlot,
           Busy, Rejected, HelloLost, HelloAccepted, Refused, Started,
           StartFailed, SessionEnded
<1> QED
  BY <1>6, <1>7, TypeCorrect, PTL DEF Spec

(***************************************************************************)
(* FailureBound is not inductive: it says nothing of the connections that  *)
(* have passed is_limited and may still fail.  Count them with the         *)
(* failures.  The sum stays within the bound, except when every worker is  *)
(* between is_limited and the compare-and-swap while the slot is taken; no *)
(* failure can be recorded then, and the first of these workers to move    *)
(* finds the host busy.                                                    *)
(***************************************************************************)
InFlight(p) == {c \in Conn : peer_ip[c] = p /\ pc[c] \in {"checked", "hello"}}

Counted(p) ==
  \/ Len(failed_auth[p]) + Cardinality(InFlight(p)) <= MAX_FAILURES + Workers - 1
  \/ /\ Len(failed_auth[p]) <= MAX_FAILURES - 1
     /\ ~FreeWorker
     /\ connected

FailureInv ==
  /\ Cardinality(At("checked")) <= Workers
  /\ \A p \in Peer : Counted(p)

\* Sets of connections are finite and their sizes are natural numbers.
LEMMA ConnSets ==
  ASSUME NEW S \in SUBSET Conn
  PROVE  /\ IsFiniteSet(S)
         /\ Cardinality(S) \in Nat
         /\ \A T \in SUBSET S : Cardinality(T) <= Cardinality(S)
         /\ \A c \in S : Cardinality(S \ {c}) = Cardinality(S) - 1
         /\ \A c \in Conn \ S : Cardinality(S \cup {c}) = Cardinality(S) + 1
  BY ConnAssumption, FS_Subset, FS_CardinalityType, FS_AddElement, FS_RemoveElement

\* At most one connection is waiting for a hello, so those in flight are at
\* most one more than those between the check and the compare-and-swap, and
\* none more when the slot is free.
LEMMA InFlightBound ==
  ASSUME TypeOK, SlotAccurate, NEW p \in Peer
  PROVE  /\ Cardinality(InFlight(p)) <= Cardinality(At("checked")) + 1
         /\ ~connected => Cardinality(InFlight(p)) <= Cardinality(At("checked"))
<1> USE ConnSets DEF InFlight, At
<1>1. At("checked") \in SUBSET Conn /\ InFlight(p) \in SUBSET Conn
  OBVIOUS
<1>2. CASE \E c \in Conn : pc[c] = "hello"
  <2>1. PICK c \in Conn : pc[c] = "hello"
    BY <1>2
  <2>2. \A d \in Conn : pc[d] = "hello" => d = c
    BY <2>1 DEF SlotAccurate, holders, Guarded
  <2>3. connected
    BY <2>1 DEF SlotAccurate, holders, Guarded
  <2>4. InFlight(p) \in SUBSET (At("checked") \cup {c})
    BY <2>2
  <2>5. /\ c \in Conn \ At("checked")
        /\ At("checked") \cup {c} \in SUBSET Conn
    BY <2>1
  <2>6. Cardinality(At("checked") \cup {c}) = Cardinality(At("checked")) + 1
    BY <1>1, <2>5
  <2> QED
    BY <2>3, <2>4, <2>5, <2>6
<1>3. CASE \A c \in Conn : pc[c] # "hello"
  <2>1. InFlight(p) \in SUBSET At("checked")
    BY <1>3
  <2>2. Cardinality(InFlight(p)) <= Cardinality(At("checked"))
    BY <1>1, <2>1
  <2> QED
    BY <1>1, <2>2
<1> QED
  BY <1>2, <1>3

\* A step that adds nobody to those in flight, records nothing, and finds a
\* free worker, keeps the invariant.
LEMMA CountedStays ==
  ASSUME TypeOK, TypeOK', FailureInv, FreeWorker,
         At("checked")' \subseteq At("checked"),
         \A p \in Peer : /\ InFlight(p)' \subseteq InFlight(p)
                        /\ Len(failed_auth'[p]) <= Len(failed_auth[p])
  PROVE  FailureInv'
<1>1. At("checked") \in SUBSET Conn
  BY DEF At
<1>2. Cardinality(At("checked")') <= Cardinality(At("checked"))
  BY <1>1, ConnSets
<1>3. ASSUME NEW p \in Peer
      PROVE  Counted(p)'
  <2>1. /\ InFlight(p) \in SUBSET Conn /\ InFlight(p)' \in SUBSET InFlight(p)
        /\ InFlight(p)' \in SUBSET Conn
    BY DEF InFlight
  <2>2. /\ Cardinality(InFlight(p)') <= Cardinality(InFlight(p))
        /\ Cardinality(InFlight(p)') \in Nat
        /\ Cardinality(InFlight(p)) \in Nat
    BY <2>1, ConnSets
  <2>3. /\ Len(failed_auth[p]) \in Nat /\ Len(failed_auth'[p]) \in Nat
        /\ Len(failed_auth'[p]) <= Len(failed_auth[p])
    BY DEF TypeOK
  <2>4. Len(failed_auth[p]) + Cardinality(InFlight(p)) <= MAX_FAILURES + Workers - 1
    BY DEF FailureInv, Counted
  <2>5. Len(failed_auth'[p]) + Cardinality(InFlight(p)') <= MAX_FAILURES + Workers - 1
    BY <2>2, <2>3, <2>4, LimitAssumption
  <2> QED
    BY <2>5 DEF Counted
<1>4. Cardinality(At("checked")') <= Workers
  <2>1. Cardinality(At("checked")) \in Nat /\ Cardinality(At("checked")') \in Nat
    BY <1>1, ConnSets
  <2> QED
    BY <1>2, <2>1, LimitAssumption DEF FailureInv
<1> QED
  BY <1>3, <1>4 DEF FailureInv

\* The invariant survives the check itself: the peer has at most
\* MAX_FAILURES - 1 failures when the connection passes.
LEMMA CheckKeepsCount ==
  ASSUME TypeOK, SlotAccurate, FailureInv,
         NEW c \in Conn, IsLimited(c), pc'[c] = "checked"
  PROVE  FailureInv'
<1> DEFINE ip == peer_ip[c]
<1>1. /\ pc[c] = "accepted" /\ ip \in Peer /\ FreeWorker
      /\ pc' = [pc EXCEPT ![c] = "checked"] /\ peer_ip' = peer_ip
      /\ failed_auth' = [failed_auth EXCEPT ![ip] = Retain(@)]
      /\ connected' = connected
  BY DEF IsLimited, Goto, TypeOK, Phase
<1>2. /\ At("checked")' = At("checked") \cup {c}
      /\ c \in Conn \ At("checked")
      /\ At("checked") \in SUBSET Conn
  BY <1>1 DEF At, TypeOK
<1>3. /\ Cardinality(At("checked")') = Cardinality(At("checked")) + 1
      /\ Cardinality(At("checked")) \in Nat
  BY <1>2, ConnSets
<1>4. Cardinality(At("checked")') <= Workers
  BY <1>1, <1>3, LimitAssumption DEF FreeWorker
<1>5. ASSUME NEW p \in Peer, p # ip
      PROVE  Counted(p)'
  <2>1. InFlight(p)' = InFlight(p)
    BY <1>1, <1>5 DEF InFlight, TypeOK
  <2>2. failed_auth'[p] = failed_auth[p]
    BY <1>1, <1>5 DEF TypeOK
  <2> QED
    BY <1>1, <2>1, <2>2 DEF FailureInv, Counted
<1>6. ASSUME NEW p \in Peer, p = ip
      PROVE  Counted(p)'
  <2>1. Len(failed_auth'[p]) <= MAX_FAILURES - 1 /\ Len(failed_auth'[p]) \in Nat
    <3>1. failed_auth'[p] = Retain(failed_auth[p])
      BY <1>1, <1>6 DEF TypeOK
    <3>2. ~Limited(failed_auth[p])
      BY <1>6 DEF IsLimited, Goto, TypeOK
    <3>3. Len(Retain(failed_auth[p])) \in Nat
      BY RetainType DEF TypeOK
    <3> QED
      BY <3>1, <3>2, <3>3, LimitAssumption DEF Limited
  <2>2. /\ InFlight(p)' = InFlight(p) \cup {c}
        /\ c \in Conn \ InFlight(p)
        /\ InFlight(p) \in SUBSET Conn
    BY <1>1, <1>6 DEF InFlight, TypeOK
  <2>3. /\ Cardinality(InFlight(p)') = Cardinality(InFlight(p)) + 1
        /\ Cardinality(InFlight(p)) \in Nat
    BY <2>2, ConnSets
  <2>4. /\ Cardinality(InFlight(p)') <= Cardinality(At("checked")') + 1
        /\ ~connected' => Cardinality(InFlight(p)') <= Cardinality(At("checked")')
    <3>1. /\ Cardinality(InFlight(p)) <= Cardinality(At("checked")) + 1
          /\ ~connected => Cardinality(InFlight(p)) <= Cardinality(At("checked"))
      BY InFlightBound
    <3> QED
      BY <1>1, <1>3, <2>3, <3>1
  <2>5. CASE FreeWorker' \/ ~connected'
    <3>1. Cardinality(InFlight(p)') <= Workers
      BY <1>3, <1>4, <2>3, <2>4, <2>5, LimitAssumption DEF FreeWorker
    <3>2. Len(failed_auth'[p]) + Cardinality(InFlight(p)') <= MAX_FAILURES + Workers - 1
      BY <2>1, <2>3, <3>1, LimitAssumption
    <3> QED
      BY <3>2 DEF Counted
  <2>6. CASE ~FreeWorker' /\ connected'
    BY <2>1, <2>6 DEF Counted
  <2> QED
    BY <2>5, <2>6
<1> QED
  BY <1>4, <1>5, <1>6 DEF FailureInv

\* The connection that finds the host busy was in flight: when it was the one
\* that kept the last worker, those left are few enough to be counted.
LEMMA BusyKeepsCount ==
  ASSUME TypeOK, SlotAccurate, FailureInv, NEW c \in Conn, Busy(c)
  PROVE  FailureInv'
<1>1. /\ pc[c] = "checked" /\ pc' = [pc EXCEPT ![c] = "rejected"]
      /\ peer_ip' = peer_ip /\ failed_auth' = failed_auth
  BY DEF Busy, Goto, TypeOK
<1>2. /\ At("checked")' = At("checked") \ {c}
      /\ c \in At("checked")
      /\ At("checked") \in SUBSET Conn
  BY <1>1 DEF At, TypeOK
<1>3. /\ Cardinality(At("checked")') = Cardinality(At("checked")) - 1
      /\ Cardinality(At("checked")) \in Nat
      /\ Cardinality(At("checked")) <= Workers
  BY <1>2, ConnSets DEF FailureInv
<1>4. ASSUME NEW p \in Peer
      PROVE  Counted(p)'
  <2>1. /\ InFlight(p) \in SUBSET Conn
        /\ InFlight(p)' = InFlight(p) \ {c}
        /\ c \in InFlight(p) <=> peer_ip[c] = p
    BY <1>1 DEF InFlight, TypeOK
  <2>2. /\ Cardinality(InFlight(p)) \in Nat
        /\ Cardinality(InFlight(p)') \in Nat
        /\ Cardinality(InFlight(p)') <= Cardinality(InFlight(p))
        /\ c \in InFlight(p) => Cardinality(InFlight(p)') = Cardinality(InFlight(p)) - 1
    BY <2>1, ConnSets
  <2>3. Len(failed_auth[p]) \in Nat
    BY DEF TypeOK
  <2>4. CASE Len(failed_auth[p]) + Cardinality(InFlight(p)) <= MAX_FAILURES + Workers - 1
    BY <1>1, <2>2, <2>3, <2>4, LimitAssumption DEF Counted
  <2>5. CASE Len(failed_auth[p]) <= MAX_FAILURES - 1 /\ peer_ip[c] = p
    <3>1. Cardinality(InFlight(p)') <= Workers
      BY <1>3, <2>1, <2>2, <2>5, InFlightBound, LimitAssumption
    <3> QED
      BY <1>1, <2>2, <2>3, <2>5, <3>1, LimitAssumption DEF Counted
  <2>6. CASE Len(failed_auth[p]) <= MAX_FAILURES - 1 /\ peer_ip[c] # p
    \* c itself is between the check and the compare-and-swap, but not of p.
    <3>1. PICK h \in holders : TRUE
      BY DEF SlotAccurate, Busy
    <3>2. InFlight(p) \in SUBSET ((At("checked") \ {c}) \cup {h})
      BY <2>6, <3>1 DEF InFlight, At, SlotAccurate, holders, Guarded
    <3>3. /\ h \in Conn \ (At("checked") \ {c})
          /\ (At("checked") \ {c}) \in SUBSET Conn
          /\ (At("checked") \ {c}) \cup {h} \in SUBSET Conn
      BY <3>1 DEF At, holders, Guarded
    <3>4. Cardinality((At("checked") \ {c}) \cup {h})
            = Cardinality(At("checked") \ {c}) + 1
      BY <3>3, ConnSets
    <3>5. Cardinality(InFlight(p)) <= Cardinality((At("checked") \ {c}) \cup {h})
      BY <3>2, <3>3, ConnSets
    <3>6. Cardinality(InFlight(p)') <= Workers
      BY <1>2, <1>3, <2>2, <3>4, <3>5, LimitAssumption
    <3> QED
      BY <1>1, <2>2, <2>3, <2>6, <3>6, LimitAssumption DEF Counted
  <2> QED
    BY <2>4, <2>5, <2>6 DEF FailureInv, Counted
<1>5. Cardinality(At("checked")') <= Workers
  BY <1>3, LimitAssumption
<1> QED
  BY <1>4, <1>5 DEF FailureInv

\* A recorded failure takes its connection out of flight.
LEMMA RecordKeepsCount ==
  ASSUME TypeOK, FailureInv,
         NEW c \in Conn, NEW m \in FirstMessage, HelloRefused(c, m)
  PROVE  FailureInv'
<1>1. /\ pc[c] = "hello" /\ pc' = [pc EXCEPT ![c] = "refused"]
      /\ peer_ip' = peer_ip /\ FreeWorker /\ peer_ip[c] \in Peer
  BY DEF HelloRefused, Goto, TypeOK
<1>2. At("checked")' = At("checked")
  BY <1>1 DEF At, TypeOK
<1>3. ASSUME NEW p \in Peer
      PROVE  Counted(p)'
  <2>1. /\ InFlight(p) \in SUBSET Conn
        /\ InFlight(p)' = InFlight(p) \ {c}
        /\ c \in InFlight(p) <=> peer_ip[c] = p
    BY <1>1 DEF InFlight, TypeOK
  <2>2. /\ Cardinality(InFlight(p)) \in Nat
        /\ Cardinality(InFlight(p)') \in Nat
        /\ Cardinality(InFlight(p)') <= Cardinality(InFlight(p))
        /\ c \in InFlight(p) => Cardinality(InFlight(p)') = Cardinality(InFlight(p)) - 1
    BY <2>1, ConnSets
  <2>3. Len(failed_auth[p]) \in Nat
    BY DEF TypeOK
  <2>4. Len(failed_auth[p]) + Cardinality(InFlight(p)) <= MAX_FAILURES + Workers - 1
    BY <1>1 DEF FailureInv, Counted
  <2>5. CASE failed_auth'[p] = failed_auth[p]
    BY <2>2, <2>3, <2>4, <2>5, LimitAssumption DEF Counted
  <2>6. CASE p = peer_ip[c] /\ failed_auth'[p] = RecordFailure(failed_auth[p])
    <3>1. Len(failed_auth'[p]) <= Len(failed_auth[p]) + 1 /\ Len(failed_auth'[p]) \in Nat
      <4>1. failed_auth[p] \in Seq(0..WINDOW)
        BY DEF TypeOK
      <4> QED
        BY <2>6, <4>1, RecordFailureType
    <3> QED
      BY <2>1, <2>2, <2>3, <2>4, <2>6, <3>1, LimitAssumption DEF Counted
  <2>7. \/ failed_auth'[p] = failed_auth[p]
        \/ p = peer_ip[c] /\ failed_auth'[p] = RecordFailure(failed_auth[p])
    BY <1>1 DEF HelloRefused, TypeOK
  <2> QED
    BY <2>5, <2>6, <2>7
<1> QED
  BY <1>2, <1>3 DEF FailureInv

\* However the limiter's checks interleave with the failures they should
\* see, no peer records more than Workers - 1 failures beyond the limit.
THEOREM FailuresAreBounded == Spec => []FailureBound
<1>1. Init => FailureInv
  <2> SUFFICES ASSUME Init
               PROVE  FailureInv
    OBVIOUS
  <2>1. At("checked") = {} /\ \A p \in Peer : InFlight(p) = {}
    BY DEF Init, At, InFlight
  <2>2. Cardinality(At("checked")) = 0 /\ \A p \in Peer : Cardinality(InFlight(p)) = 0
    BY <2>1, FS_EmptySet
  <2>3. \A p \in Peer : Len(failed_auth[p]) = 0
    BY DEF Init
  <2> QED
    BY <2>2, <2>3, LimitAssumption DEF FailureInv, Counted
<1>2. TypeOK /\ TypeOK' /\ SlotAccurate /\ FailureInv /\ [Next]_vars => FailureInv'
  <2> SUFFICES ASSUME TypeOK, TypeOK', SlotAccurate, FailureInv, [Next]_vars
               PROVE  FailureInv'
    OBVIOUS
  <2>1. ASSUME NEW c \in Conn, NEW p \in Peer, Upgrade(c, p)
        PROVE  FailureInv'
    <3>1. FreeWorker /\ failed_auth' = failed_auth
      BY <2>1 DEF Upgrade
    <3>2. At("checked")' \subseteq At("checked")
      BY <2>1 DEF Upgrade, At, TypeOK
    <3>3. \A q \in Peer : InFlight(q)' \subseteq InFlight(q)
      BY <2>1 DEF Upgrade, InFlight, TypeOK
    <3>4. \A q \in Peer : Len(failed_auth'[q]) <= Len(failed_auth[q])
      BY <3>1 DEF TypeOK
    <3> QED
      BY <3>1, <3>2, <3>3, <3>4, CountedStays
  <2>2. ASSUME NEW c \in Conn, IsLimited(c)
        PROVE  FailureInv'
    <3>1. CASE pc'[c] = "checked"
      BY <2>2, <3>1, CheckKeepsCount
    <3>2. CASE pc'[c] # "checked"
      <4>1. FreeWorker /\ pc' = [pc EXCEPT ![c] = "rejected"] /\ peer_ip' = peer_ip
        BY <2>2, <3>2 DEF IsLimited, Goto, TypeOK
      <4>2. At("checked")' \subseteq At("checked")
        BY <4>1 DEF At, TypeOK
      <4>3. \A q \in Peer : InFlight(q)' \subseteq InFlight(q)
        BY <4>1 DEF InFlight, TypeOK
      <4>4. ASSUME NEW q \in Peer
            PROVE  Len(failed_auth'[q]) <= Len(failed_auth[q])
        <5>1. failed_auth'[q] \in {failed_auth[q], Retain(failed_auth[q])}
          BY <2>2 DEF IsLimited, TypeOK
        <5>2. failed_auth[q] \in Seq(0..WINDOW)
          BY DEF TypeOK
        <5>3. Len(failed_auth[q]) \in Nat
          BY <5>2
        <5> QED
          BY <5>1, <5>2, <5>3, RetainType
      <4> QED
        BY <4>1, <4>2, <4>3, <4>4, CountedStays
    <3> QED
      BY <3>1, <3>2
  <2>3. ASSUME NEW c \in Conn, TakeSlot(c)
        PROVE  FailureInv'
    <3>1. /\ pc[c] = "checked" /\ pc' = [pc EXCEPT ![c] = "hello"]
          /\ peer_ip' = peer_ip /\ failed_auth' = failed_auth /\ ~connected
      BY <2>3 DEF TakeSlot, Goto, TypeOK
    <3>2. At("checked") \in SUBSET Conn /\ At("checked")' \in SUBSET At("checked")
      BY <3>1 DEF At, TypeOK
    <3>3. Cardinality(At("checked")') <= Workers
      BY <3>2, ConnSets, LimitAssumption DEF FailureInv
    <3>4. \A p \in Peer : InFlight(p)' = InFlight(p)
      BY <3>1 DEF InFlight, TypeOK
    <3> QED
      BY <3>1, <3>3, <3>4 DEF FailureInv, Counted
  <2>4. ASSUME NEW c \in Conn, Busy(c)
        PROVE  FailureInv'
    BY <2>4, BusyKeepsCount
  <2>5. ASSUME NEW c \in Conn, NEW m \in FirstMessage, HelloRefused(c, m)
        PROVE  FailureInv'
    BY <2>5, RecordKeepsCount
  <2>6. ASSUME NEW c \in Conn, NEW m \in FirstMessage,
               \/ Rejected(c) \/ HelloLost(c) \/ Refused(c) \/ HelloAccepted(c, m)
               \/ Started(c) \/ StartFailed(c) \/ SessionEnded(c)
        PROVE  FailureInv'
    <3>1. FreeWorker /\ failed_auth' = failed_auth
      BY <2>6 DEF Rejected, HelloLost, Refused, HelloAccepted, Started,
                  StartFailed, SessionEnded
    <3>2. \E phase \in {"idle", "starting", "streaming"} : Goto(c, phase)
      BY <2>6 DEF Rejected, HelloLost, Refused, HelloAccepted, Started,
                  StartFailed, SessionEnded, DropGuard
    <3>3. At("checked")' \subseteq At("checked")
      BY <3>2 DEF Goto, At, TypeOK
    <3>4. \A q \in Peer : InFlight(q)' \subseteq InFlight(q)
      BY <3>2, PeerAssumption DEF Goto, InFlight, TypeOK
    <3>5. \A q \in Peer : Len(failed_auth'[q]) <= Len(failed_auth[q])
      BY <3>1 DEF TypeOK
    <3> QED
      BY <3>1, <3>3, <3>4, <3>5, CountedStays
  <2>7. CASE Tick
    <3>1. ASSUME NEW p \in Peer
          PROVE  Len(failed_auth'[p]) = Len(failed_auth[p])
      <4>1. failed_auth[p] \in Seq(0..WINDOW) /\ failed_auth'[p] = Older(failed_auth[p])
        BY <2>7 DEF Tick, TypeOK
      <4> QED
        BY <4>1, OlderType
    <3>2. pc' = pc /\ peer_ip' = peer_ip /\ connected' = connected
      BY <2>7 DEF Tick
    <3> QED
      BY <3>1, <3>2 DEF FailureInv, Counted, InFlight, At, FreeWorker
  <2>8. CASE UNCHANGED vars
    BY <2>8 DEF vars, FailureInv, Counted, InFlight, At, FreeWorker
  <2>9. FirstMessage # {}
    <3>1. [type |-> "other", token |-> "wrong", protocol |-> "other"] \in FirstMessage
      BY DEF FirstMessage
    <3> QED
      BY <3>1
  <2> QED
    BY <2>1, <2>2, <2>3, <2>4, <2>5, <2>6, <2>7, <2>8, <2>9
       DEF Next, Step, Proceeds, HelloEnds, StartEnds
<1>3. TypeOK /\ FailureInv => FailureBound
  <2> SUFFICES ASSUME TypeOK, FailureInv, NEW p \in Peer
               PROVE  Len(failed_auth[p]) <= MAX_FAILURES + Workers - 1
    BY DEF FailureBound
  <2>1. Len(failed_auth[p]) \in Nat
    BY DEF TypeOK
  <2>2. Cardinality(InFlight(p)) \in Nat
    BY ConnSets DEF InFlight
  <2> QED
    BY <2>1, <2>2, LimitAssumption DEF FailureInv, Counted
<1> QED
  BY <1>1, <1>2, <1>3, TypeCorrect, SlotIsAccurate, PTL DEF Spec
=============================================================================
