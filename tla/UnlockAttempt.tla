---------------------------- MODULE UnlockAttempt ----------------------------
(***************************************************************************)
(* What an attempt to unlock promises, however it is carried: one answer   *)
(* counts for it, the first; its outcome is decided once; it is a success  *)
(* only if that answer is the user's approval of this very attempt, and    *)
(* "cancelled by the phone" only if it is a refusal.                       *)
(***************************************************************************)
CONSTANT Attempts
VARIABLES decision, outcome

avars == <<decision, outcome>>

Decisions == {"none", "approve", "deny"}
Outcomes  == {"UNKNOWN", "SUCCESS", "CANCELED", "FAILED"}

AttemptInit ==
    /\ decision = [a \in Attempts |-> "none"]
    /\ outcome = [a \in Attempts |-> "UNKNOWN"]

Decide(a, d) ==
    /\ decision[a] = "none"
    /\ decision' = [decision EXCEPT ![a] = d]
    /\ UNCHANGED outcome

Finish(a, o) ==
    /\ outcome[a] = "UNKNOWN"
    /\ o = "SUCCESS" => decision[a] = "approve"
    /\ o = "CANCELED" => decision[a] = "deny"
    /\ outcome' = [outcome EXCEPT ![a] = o]
    /\ UNCHANGED decision

AttemptNext ==
    \E a \in Attempts :
        \/ \E d \in {"approve", "deny"} : Decide(a, d)
        \/ \E o \in Outcomes \ {"UNKNOWN"} : Finish(a, o)

AttemptSpec == AttemptInit /\ [][AttemptNext]_avars
=============================================================================
