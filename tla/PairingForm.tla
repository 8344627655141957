----------------------------- MODULE PairingForm -----------------------------
(***************************************************************************)
(* PairingForm: the pages of the pairing assistant, and what it starts and *)
(* stops when the page changes: the pairing server and the beacon with     *)
(* which a phone finds it.  The window stands still while the form joins a *)
(* thread.  The threads that look for Bluetooth devices and pair with one  *)
(* only fill the page and press a button; they are left out.               *)
(***************************************************************************)
EXTENDS PairingServer, Sequences

VARIABLES
    step, stepStack,    \* m_CurrentStep, m_StepStack, top first
    method, legacy,     \* of m_PairingData: "UDP" stands for all methods but Bluetooth
    ui,                 \* "main" page, a page of the assistant, or in UpdateStepForm
    beacon,             \* the session m_DiscoveryBeacon announces
    session,            \* m_ServerId and m_EncKey: the session shown; started so far
    sessions

form == <<step, stepStack, method, legacy, ui, beacon, session, sessions>>
vars == <<form, svars>>

Steps == {"USER_PASSWORD_SELECT", "METHOD_TYPE_SELECT", "METHOD_SELECT",
          "BLUETOOTH_DEVICE_SELECT", "BLUETOOTH_PAIRING", "QR_SCAN", "NONE"}

TypeOK ==
    /\ ServerTypeOK
    /\ step \in Steps /\ stepStack \in Seq(Steps) /\ Len(stepStack) <= 5
    /\ method \in {"UDP", "BLUETOOTH"} /\ legacy \in BOOLEAN
    /\ ui \in {"main", "page", "join"}
    /\ {beacon, session} \subseteq Sessions \cup {None} /\ sessions \in 0..MaxSessions

Init ==
    /\ ServerInit
    /\ step = "USER_PASSWORD_SELECT" /\ stepStack = <<>>
    /\ method = "UDP" /\ legacy = FALSE
    /\ ui = "main" /\ beacon = None /\ session = None /\ sessions = 0

\* Only when the service is installed.
Show ==
    /\ ui = "main"
    /\ ui' = "page"
    /\ step' = "USER_PASSWORD_SELECT" /\ stepStack' = <<>>
    /\ method' = "UDP" /\ legacy' = FALSE
    /\ UNCHANGED <<beacon, session, sessions, svars>>

\* What the user picks on the pages.
SetData ==
    /\ ui = "page"
    /\ \/ step = "METHOD_TYPE_SELECT" /\ legacy' \in BOOLEAN /\ UNCHANGED method
       \/ step = "METHOD_SELECT" /\ method' \in {"UDP", "BLUETOOTH"} /\ UNCHANGED legacy
    /\ UNCHANGED <<step, stepStack, ui, beacon, session, sessions, svars>>

GetNextStep ==
    CASE step = "USER_PASSWORD_SELECT" -> "METHOD_TYPE_SELECT"
      [] step = "METHOD_TYPE_SELECT" -> "METHOD_SELECT"
      [] step = "METHOD_SELECT" -> IF method = "BLUETOOTH" THEN "BLUETOOTH_DEVICE_SELECT"
                                                           ELSE "QR_SCAN"
      [] step = "BLUETOOTH_DEVICE_SELECT" -> "BLUETOOTH_PAIRING"
      [] step = "BLUETOOTH_PAIRING" -> "QR_SCAN"
      [] step = "QR_SCAN" -> "NONE"
      [] OTHER -> "USER_PASSWORD_SELECT"

-----------------------------------------------------------------------------
\* UpdateStepForm, called with the new step

\* Mutant: closes the server without waiting for its threads.
StopClosesOnly == TRUE
ServerEnded == server.pc = "ended"

\* PairingServer::Stop closes the socket, if the accept thread has opened it.
UpdateStepForm ==
    /\ ui' = "join"
    /\ session' = IF step' = "QR_SCAN" THEN session ELSE None
    /\ server' = [server EXCEPT !.socket = IF @ = "open" THEN "closed" ELSE @]
    /\ UNCHANGED <<legacy, beacon, sessions, conns, phones, stored, excused>>

\* Stop has joined the accept thread and cleared the flag; the beacon is stopped
\* too.  The QR page starts a new server, with a new key, and a beacon.
Stopped ==
    /\ ui = "join" /\ ServerEnded
    /\ IF step = "QR_SCAN"
       THEN /\ sessions' = sessions + 1 /\ session' = sessions + 1
            /\ server' = [NoServer EXCEPT !.isRunning = TRUE, !.key = sessions + 1, !.pc = "start"]
            /\ beacon' = IF legacy THEN None ELSE sessions + 1
       ELSE /\ server' = [server EXCEPT !.isRunning = FALSE]
            /\ beacon' = None
            /\ UNCHANGED <<session, sessions>>
    /\ method' = IF step = "METHOD_SELECT" THEN "UDP" ELSE method
    /\ ui' = IF step = "NONE" THEN "main" ELSE "page"
    /\ UNCHANGED <<step, stepStack, legacy, conns, phones, stored, excused>>

-----------------------------------------------------------------------------
\* A click, or finishBluetoothPairing: with BLUETOOTH_PAIRING the buttons are off.
OnNextClicked ==
    /\ ui = "page"
    /\ step' = GetNextStep
    /\ stepStack' = IF step = "BLUETOOTH_PAIRING" THEN stepStack ELSE <<step>> \o stepStack
    /\ UNCHANGED method
    /\ UpdateStepForm

OnBackClicked ==
    /\ ui = "page"
    /\ UNCHANGED method
    /\ IF stepStack = <<>>
       THEN /\ ui' = "main"
            /\ UNCHANGED <<step, stepStack, legacy, beacon, session, sessions, svars>>
       ELSE /\ step' = Head(stepStack) /\ stepStack' = Tail(stepStack)
            /\ UpdateStepForm

-----------------------------------------------------------------------------
\* The code shown is scanned while the QR page is there: it names the session, and
\* the address of the PC if it is a legacy code.  The app refuses Bluetooth codes.
Scan(p) ==
    /\ ui = "page" /\ step = "QR_SCAN" /\ method # "BLUETOOTH"
    /\ phones[p].conn = None
    /\ phones' = [phones EXCEPT ![p].code = session, ![p].legacy = legacy]
    /\ UNCHANGED <<form, server, conns, stored, excused>>

\* Bound: after the last session the user only leaves its page.
User ==
    /\ sessions = MaxSessions => step = "QR_SCAN"
    /\ Show \/ SetData \/ OnNextClicked \/ OnBackClicked

Next ==
    \/ User \/ Stopped
    \/ ServerThreads /\ UNCHANGED form
    \/ \E p \in Phones : Scan(p) \/ (Phone(p, beacon) /\ UNCHANGED form)

Spec == Init /\ [][Next]_vars

\* The threads of the PC are scheduled.  Nothing is
\* assumed of the phones or of the user.
Fairness ==
    /\ WF_vars(Stopped) /\ WF_vars(AcceptThread /\ UNCHANGED form)
    /\ \A c \in Conns : WF_vars(ClientThread(c) /\ UNCHANGED form)
FairSpec == Spec /\ Fairness

-----------------------------------------------------------------------------
\* Properties

\* Unless an answer was lost, a save failed or two connections of a phone were
\* stored at once, phone and PC hold the same pairing once both have finished.
KeysAgree ==
    \A p \in Phones \ excused :
        (\A c \in Conns : conns[c].phone = p => conns[c].pc # "store"
                             /\ (phones[p].conn = c => conns[c].resp # "data"))
        => stored[p] = phones[p].paired

\* A device is stored only for a phone that has scanned the code of the session
\* on the screen, or while the form waits for that session to end.
StoredOnlyInSession ==
    [][\A p \in Phones : stored'[p] # stored[p] =>
          /\ conns[stored'[p]].key = server.key
          /\ ui = "join" \/ (step = "QR_SCAN" /\ session = server.key)]_vars

\* The window comes back after a change of page, unless the accept thread does
\* not look at the socket: it opened it after Stop, or it waits for a free place.
Unheard == server.pc = "loop" /\ (server.socket = "open" \/ Full)
WindowReturns ==
    ui = "join" ~> (ui # "join" \/ Unheard)

\* A phone that has sent its packet is told the outcome, or sees its connection
\* closed; only while it is still queued does it wait for a server that is full.
PhoneServed ==
    \A c \in Conns :
        (conns[c].pc # "none" /\ conns[c].sent)
            ~> (conns[c].pc = "done" \/ (conns[c].pc = "queued" /\ Full))
=============================================================================
