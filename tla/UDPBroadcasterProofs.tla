------------------------ MODULE UDPBroadcasterProofs ------------------------
(* Proofs about the broadcaster for any set of callers and any bound.        *)
EXTENDS UDPBroadcaster, TLAPS

\* While no two calls have overlapped, a call in progress is the only one, and
\* what it may rely on of the flag, the handle and the beacon is known.
OneAtATime ==
    \A c, d \in Callers : Idle(c) \/ Idle(d) \/ c = d

Phase ==
    /\ (\A c \in Callers : Idle(c)) =>
          /\ running => live = {handle}
          /\ ~running => handle = 0 /\ live = {}
    /\ \A c \in Callers :
          /\ call[c] = "assign" => running /\ handle = 0 /\ live = {}
          /\ call[c] \in {"joinable", "join"} =>
                ~running /\ handle # 0 /\ live \subseteq {handle}

BroadcasterInv ==
    /\ BroadcasterTypeOK
    /\ ~overlapped => object # "terminated" /\ OneAtATime /\ Phase

\* The broadcaster's variables keep their types, and the inductive invariant
\* holds in every state of the object (UDPBroadcaster.cpp).
THEOREM BroadcasterInvariance == BroadcasterSpec => []BroadcasterInv
<1> USE DEF BroadcasterTypeOK, Idle, Usable, Overlaps
<1>1. BroadcasterInit => BroadcasterInv
  <2> SUFFICES ASSUME BroadcasterInit PROVE BroadcasterInv
    OBVIOUS
  <2> USE DEF BroadcasterInit
  <2>1. BroadcasterTypeOK
    <3>1. spawned \in Nat /\ handle \in 0..spawned /\ live \subseteq 1..spawned
      OBVIOUS
    <3>2. call \in [Callers -> {"idle", "assign", "joinable", "join"}]
      OBVIOUS
    <3>3. running \in BOOLEAN /\ overlapped \in BOOLEAN
      OBVIOUS
    <3> QED
      BY <3>1, <3>2, <3>3
  <2>2. object # "terminated" /\ OneAtATime /\ Phase
    <3>1. ~running /\ handle = 0 /\ live = {} /\ \A c \in Callers : call[c] = "idle"
      OBVIOUS
    <3> QED
      BY <3>1 DEF OneAtATime, Phase
  <2> QED
    BY <2>1, <2>2 DEF BroadcasterInv
<1>2. BroadcasterInv /\ [BroadcasterNext]_bvars => BroadcasterInv'
  <2> SUFFICES ASSUME BroadcasterInv, [BroadcasterNext]_bvars
               PROVE  BroadcasterInv'
    OBVIOUS
  <2> USE DEF BroadcasterInv, OneAtATime, Phase
  <2>1. ASSUME NEW c \in Callers, StartCall(c) PROVE BroadcasterInv'
    <3> USE <2>1 DEF StartCall
    <3>1. BroadcasterTypeOK'
      OBVIOUS
    <3>2. overlapped => overlapped'
      OBVIOUS
    <3>3. ~overlapped' => \A d \in Callers : Idle(d)
      OBVIOUS
    <3>4. ~overlapped' => object' # "terminated" /\ OneAtATime' /\ Phase'
      BY <3>2, <3>3
    <3> QED
      BY <3>1, <3>4
  <2>2. ASSUME NEW c \in Callers, StopCall(c) PROVE BroadcasterInv'
    <3> USE <2>2 DEF StopCall
    <3>1. BroadcasterTypeOK'
      OBVIOUS
    <3>2. overlapped => overlapped'
      OBVIOUS
    <3>3. ~overlapped' => \A d \in Callers : Idle(d)
      OBVIOUS
    <3>4. ~overlapped' => object' # "terminated" /\ OneAtATime' /\ Phase'
      BY <3>2, <3>3
    <3> QED
      BY <3>1, <3>4
  <2>3. ASSUME NEW c \in Callers, StartAssign(c) PROVE BroadcasterInv'
    <3> USE <2>3 DEF StartAssign
    <3>1. CASE handle # 0
      BY <3>1
    <3>2. CASE handle = 0
      <4>1. BroadcasterTypeOK'
        <5>1. spawned' \in Nat /\ handle' \in 0..spawned'
          BY <3>2
        <5>2. spawned' = spawned + 1 /\ spawned \in Nat /\ live \subseteq 1..spawned
              /\ live' = live \cup {spawned + 1}
          BY <3>2
        <5>3. live' \subseteq 1..spawned'
          BY ONLY <5>2
        <5>4. call' \in [Callers -> {"idle", "assign", "joinable", "join"}]
          BY <3>2
        <5>5. running' \in BOOLEAN /\ overlapped' \in BOOLEAN
              /\ object' \in {"alive", "destroyed", "terminated"}
          BY <3>2
        <5> QED
          BY <5>1, <5>3, <5>4, <5>5
      <4>2. ~overlapped => /\ running /\ live' = {handle'}
                           /\ \A d \in Callers : call'[d] = "idle"
        BY <3>2
      <4>3. ~overlapped => object' # "terminated"
        BY <3>2
      <4>4. overlapped' = overlapped /\ running' = running
        OBVIOUS
      <4>5. ~overlapped => OneAtATime' /\ Phase'
        BY <4>2, <4>4
      <4> QED
        BY <4>1, <4>3, <4>4, <4>5
    <3> QED
      BY <3>1, <3>2
  <2>4. ASSUME NEW c \in Callers, StopJoinable(c) PROVE BroadcasterInv'
    BY <2>4 DEF StopJoinable
  <2>5. ASSUME NEW c \in Callers, StopJoin(c) PROVE BroadcasterInv'
    <3> USE <2>5 DEF StopJoin
    <3>1. CASE /\ handle \notin live
               /\ handle' = 0
               /\ call' = [call EXCEPT ![c] = "idle"]
               /\ UNCHANGED object
      <4>1. BroadcasterTypeOK'
        BY <3>1
      <4>2. ~overlapped => /\ ~running /\ live = {}
                           /\ \A d \in Callers : call'[d] = "idle"
        BY <3>1
      <4> QED
        BY <3>1, <4>1, <4>2
    <3>2. CASE /\ handle = 0 \/ \E d \in Callers \ {c} : call[d] = "join"
               /\ object' = "terminated"
               /\ UNCHANGED <<handle, call>>
      BY <3>2
    <3> QED
      BY <3>1, <3>2
  <2>6. ASSUME \A d \in Callers : Idle(d), NEW c \in Callers, Destroy(c)
        PROVE BroadcasterInv'
    BY <2>6 DEF Destroy
  <2>7. ASSUME NEW b \in live, BeaconExit(b) PROVE BroadcasterInv'
    BY <2>7 DEF BeaconExit
  <2>8. ASSUME UNCHANGED bvars PROVE BroadcasterInv'
    BY <2>8 DEF bvars
  <2> QED
    BY <2>1, <2>2, <2>3, <2>4, <2>5, <2>6, <2>7, <2>8 DEF BroadcasterNext, CallStep
<1> QED
  BY <1>1, <1>2, PTL DEF BroadcasterSpec

\* Start and Stop are safe for every number of callers as long as no two calls
\* overlap (UDPBroadcaster::Start and UDPBroadcaster::Stop).
THEOREM BroadcasterSafety == BroadcasterSpec => []SafeUnlessOverlapped
<1>1. BroadcasterInv => SafeUnlessOverlapped
  BY DEF BroadcasterInv, SafeUnlessOverlapped, Phase
<1> QED
  BY <1>1, BroadcasterInvariance, PTL

\* Whatever calls overlap, a switched-on flag is backed by a thread that sends
\* or by a Start that is about to create one.
OnIsBacked == running => live # {} \/ \E c \in Callers : call[c] = "assign"

\* No Start is swallowed, for every number of callers (UDPBroadcaster::Start).
THEOREM BroadcasterSends == BroadcasterSpec => []OnMeansSending
<1>1. BroadcasterInit => OnIsBacked
  BY DEF BroadcasterInit, OnIsBacked
<1>2. BroadcasterTypeOK /\ OnIsBacked /\ [BroadcasterNext]_bvars => OnIsBacked'
  <2> SUFFICES ASSUME BroadcasterTypeOK, OnIsBacked, [BroadcasterNext]_bvars
               PROVE  OnIsBacked'
    OBVIOUS
  <2> USE DEF BroadcasterTypeOK, OnIsBacked
  <2>1. ASSUME NEW c \in Callers, StartCall(c) PROVE OnIsBacked'
    BY <2>1 DEF StartCall
  <2>2. ASSUME NEW c \in Callers, StopCall(c) PROVE OnIsBacked'
    BY <2>2 DEF StopCall
  <2>3. ASSUME NEW c \in Callers, StartAssign(c) PROVE OnIsBacked'
    BY <2>3 DEF StartAssign
  <2>4. ASSUME NEW c \in Callers, StopJoinable(c) PROVE OnIsBacked'
    BY <2>4 DEF StopJoinable
  <2>5. ASSUME NEW c \in Callers, StopJoin(c) PROVE OnIsBacked'
    BY <2>5 DEF StopJoin
  <2>6. ASSUME NEW c \in Callers, Destroy(c) PROVE OnIsBacked'
    BY <2>6 DEF Destroy
  <2>7. ASSUME NEW b \in live, BeaconExit(b) PROVE OnIsBacked'
    BY <2>7 DEF BeaconExit
  <2>8. ASSUME UNCHANGED bvars PROVE OnIsBacked'
    BY <2>8 DEF bvars
  <2> QED
    BY <2>1, <2>2, <2>3, <2>4, <2>5, <2>6, <2>7, <2>8 DEF BroadcasterNext, CallStep
<1>3. OnIsBacked => OnMeansSending
  BY DEF OnIsBacked, OnMeansSending, Idle
<1>4. BroadcasterInv => BroadcasterTypeOK
  BY DEF BroadcasterInv
<1> QED
  BY <1>1, <1>2, <1>3, <1>4, BroadcasterInvariance, PTL DEF BroadcasterSpec
=============================================================================
