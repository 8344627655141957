------------------------ MODULE MCCredentialProvider ------------------------
(* Two users; what differs between PCs is drawn from a few settings. *)
EXTENDS CredentialProvider, TLC

CONSTANTS u1, u2

MCUsers == {u1, u2}

\* Fits a UNICODE_STRING only before CredProtectW has lengthened it.
LongPassword == 32767

Named   == [sep |-> TRUE, domain |-> 4, user |-> 5]
Unnamed == [sep |-> FALSE, domain |-> 0, user |-> 5]

Common == [devices      |-> u1 :> {"TCP"} @@ u2 :> {"CLOUD_TCP"},
           local        |-> {u1},
           names        |-> u1 :> Named @@ u2 :> Named,
           behavior     |-> "unlock_always",
           sessions     |-> {[user |-> u1, domain |-> "same", seconds |-> 15],
                             [user |-> u2, domain |-> "other", seconds |-> 15]},
           hidePassword |-> FALSE,
           password     |-> 8]

MCSettings ==
    {[Common EXCEPT !.devices = u1 :> {"BLUETOOTH"} @@ u2 :> {}, !.behavior = "key_press"],
     [Common EXCEPT !.names = u1 :> Named @@ u2 :> Unnamed, !.local = MCUsers,
                    !.behavior = "foreground_lock_only", !.password = LongPassword],
     [Common EXCEPT !.hidePassword = TRUE, !.behavior = "key_press_lock_only"]}
=============================================================================
