--------------------------- MODULE UDPBroadcaster ---------------------------
(***************************************************************************)
(* UDPBroadcaster: an object with one background thread that sends a       *)
(* beacon until it is told to stop.  m_IsRunning is an atomic; m_Thread is *)
(* an unprotected std::thread, so Start and Stop of different callers can  *)
(* interleave between the exchange of the flag and the use of the handle.  *)
(* The standard ends the process (std::terminate) when a std::thread that  *)
(* is still joinable is assigned over or destroyed, and join of a handle   *)
(* that is not joinable throws out of the calling thread.                  *)
(***************************************************************************)
EXTENDS Integers

CONSTANTS Callers,      \* the threads that call Start and Stop
          MaxBeacons    \* bound: no Start begins once so many threads exist

VARIABLES running,      \* m_IsRunning
          handle,       \* m_Thread: the beacon it can join, 0 when not joinable
          spawned,      \* number of beacon threads created so far
          live,         \* the beacons whose Run has not returned
          call,         \* per caller: where it is inside Start or Stop
          object,       \* "alive", "destroyed", or the process "terminated"
          overlapped    \* observation: two calls were in progress at once

bvars == <<running, handle, spawned, live, call, object, overlapped>>

BroadcasterTypeOK ==
    /\ running \in BOOLEAN
    /\ handle \in 0..spawned
    /\ spawned \in Nat
    /\ live \subseteq 1..spawned
    /\ call \in [Callers -> {"idle", "assign", "joinable", "join"}]
    /\ object \in {"alive", "destroyed", "terminated"}
    /\ overlapped \in BOOLEAN

BroadcasterInit ==
    /\ running = FALSE
    /\ handle = 0
    /\ spawned = 0
    /\ live = {}
    /\ call = [c \in Callers |-> "idle"]
    /\ object = "alive"
    /\ overlapped = FALSE

Idle(c) == call[c] = "idle"
Usable == object = "alive"

\* Whether a call by c overlaps the call of another thread.
Overlaps(c) == \E d \in Callers \ {c} : ~Idle(d)

\* Mutant: decides by the handle instead of the flag whether to start.
StartCallByHandle(c) ==
    /\ Usable
    /\ Idle(c)
    /\ spawned < MaxBeacons
    /\ running' = TRUE
    /\ call' = IF handle # 0 THEN call ELSE [call EXCEPT ![c] = "assign"]
    /\ overlapped' = (overlapped \/ Overlaps(c))
    /\ UNCHANGED <<handle, spawned, live, object>>

\* Start: m_IsRunning.exchange(true), and return when it was set already.
\* The bound on beacons only keeps the model finite.
StartCall(c) ==
    /\ Usable
    /\ Idle(c)
    /\ running \/ spawned < MaxBeacons
    /\ running' = TRUE
    /\ call' = IF running THEN call ELSE [call EXCEPT ![c] = "assign"]
    /\ overlapped' = (overlapped \/ Overlaps(c))
    /\ UNCHANGED <<handle, spawned, live, object>>

\* Start: create the thread and move it into m_Thread.
StartAssign(c) ==
    /\ Usable
    /\ call[c] = "assign"
    /\ IF handle # 0
       THEN /\ object' = "terminated"
            /\ UNCHANGED <<handle, spawned, live, call>>
       ELSE /\ spawned' = spawned + 1
            /\ handle' = spawned + 1
            /\ live' = live \cup {spawned + 1}
            /\ call' = [call EXCEPT ![c] = "idle"]
            /\ UNCHANGED object
    /\ UNCHANGED <<running, overlapped>>

\* Mutant: clears the flag and returns without joining the thread.
StopCallNoJoin(c) ==
    /\ Usable
    /\ Idle(c)
    /\ running' = FALSE
    /\ overlapped' = (overlapped \/ Overlaps(c))
    /\ UNCHANGED <<handle, spawned, live, call, object>>

\* Stop: m_IsRunning.exchange(false), and return when it was clear already.
StopCall(c) ==
    /\ Usable
    /\ Idle(c)
    /\ running' = FALSE
    /\ call' = IF running THEN [call EXCEPT ![c] = "joinable"] ELSE call
    /\ overlapped' = (overlapped \/ Overlaps(c))
    /\ UNCHANGED <<handle, spawned, live, object>>

\* Stop: m_Thread.joinable().
StopJoinable(c) ==
    /\ Usable
    /\ call[c] = "joinable"
    /\ call' = [call EXCEPT ![c] = IF handle = 0 THEN "idle" ELSE "join"]
    /\ UNCHANGED <<running, handle, spawned, live, object, overlapped>>

\* Stop: m_Thread.join() blocks until Run has returned.  When two Stops have
\* reached the join, the one that comes second either throws, which ends the
\* process, or finds the thread gone and returns: the platforms differ.
StopJoin(c) ==
    /\ Usable
    /\ call[c] = "join"
    /\ \/ /\ handle \notin live
          /\ handle' = 0
          /\ call' = [call EXCEPT ![c] = "idle"]
          /\ UNCHANGED object
       \/ /\ handle = 0 \/ \E d \in Callers \ {c} : call[d] = "join"
          /\ object' = "terminated"
          /\ UNCHANGED <<handle, call>>
    /\ UNCHANGED <<running, spawned, live, overlapped>>

\* The destructor, after its own Stop found the flag clear: destroying the
\* member m_Thread while it is joinable ends the process.
Destroy(c) ==
    /\ Usable
    /\ Idle(c)
    /\ ~running
    /\ object' = IF handle = 0 THEN "destroyed" ELSE "terminated"
    /\ UNCHANGED <<running, handle, spawned, live, call, overlapped>>

\* Run: leave the loop once the flag is seen clear.
BeaconExit(b) ==
    /\ Usable
    /\ ~running
    /\ live' = live \ {b}
    /\ UNCHANGED <<running, handle, spawned, call, object, overlapped>>

\* The steps a call takes after its first one, and the beacons' own steps.
CallStep(c) == StartAssign(c) \/ StopJoinable(c) \/ StopJoin(c)

-----------------------------------------------------------------------------
\* The object on its own: any caller may call Start and Stop at any time, and
\* the object is deleted when no call is in progress.

BroadcasterNext ==
    \/ \E c \in Callers : StartCall(c) \/ StopCall(c) \/ CallStep(c)
    \/ (\A d \in Callers : Idle(d)) /\ \E c \in Callers : Destroy(c)
    \/ \E b \in live : BeaconExit(b)

BroadcasterSpec == BroadcasterInit /\ [][BroadcasterNext]_bvars

\* Start and Stop are safe as long as no two calls overlap: the process is not
\* ended, and a caller outside the object finds the beacon either off, joined
\* and silent, or on with its own thread as the joinable one.
SafeUnlessOverlapped ==
    ~overlapped =>
        /\ object # "terminated"
        /\ (\A c \in Callers : Idle(c)) =>
              IF running THEN live = {handle} ELSE handle = 0 /\ live = {}

\* Whatever calls overlap, a beacon that is switched on is being sent once
\* every call has returned: no Start is swallowed.
OnMeansSending ==
    (Usable /\ running /\ \A c \in Callers : Idle(c)) => live # {}
=============================================================================
