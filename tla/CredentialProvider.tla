------------------------- MODULE CredentialProvider -------------------------
(***************************************************************************)
(* CredentialProvider: what LogonUI's thread does with the tiles of the    *)
(* Windows credential provider (CSampleProvider, CUnlockCredential), and   *)
(* the listen thread of each tile (CUnlockListener), which asks the phone. *)
(*                                                                         *)
(* LogonUI is external: it makes one call at a time, handles posted        *)
(* CredentialsChanged events between calls, and drops its references to    *)
(* the tiles before it drops the provider or makes it enumerate anew.      *)
(* Messages on a tile and the fields that never change are left out.       *)
(***************************************************************************)
EXTENDS LogonPacking, FiniteSets

CONSTANTS
    Users,              \* with a tile, or without
    Settings,           \* of the PC, in Init: see SettingsAssumption
    MinLogonTime,       \* minLogonTimeSecs
    None

ASSUME SettingsAssumption ==
    /\ None \notin Users /\ MinLogonTime \in Nat
    /\ \A s \in Settings :
        /\ DOMAIN s = {"devices", "local", "names", "behavior", "sessions",
                       "hidePassword", "password"}
        /\ s.password \in Nat \ {0}     \* the length of all passwords
        /\ s.devices \in [Users -> SUBSET {"TCP", "UDP", "BLUETOOTH", "CLOUD_TCP"}]
        /\ s.local \subseteq Users
        /\ s.names \in [Users -> [sep : BOOLEAN, domain : Nat, user : Nat]]

VARIABLES
    setting,        \* does not change
    provider,       \* cpus, recreate (_fRecreateEnumeratedCredentials), events
    tiles,          \* the credential of each user, and its listener
    thread,         \* where the listen thread of a tile is
    ui,             \* what LogonUI's thread does: at, user, then
    selected,       \* the selected tile
    changed,        \* a CredentialsChanged that LogonUI has not handled
    retryShown,     \* the tiles that show Retry, as of the last enumeration
    serialization,  \* the one LogonUI got last
    spent,          \* history: tiles whose approval's password was handed over
    excused         \* history: tiles that know they have to be left; see TileUsable

vars == <<setting, provider, tiles, thread, ui, selected, changed, retryShown,
          serialization, spent, excused>>

Outcomes == {"UNKNOWN", "SUCCESS", "FAILED"}     \* FAILED: all the other states
ThreadPcs == {"none", "init", "network", "behavior", "key_press", "foreground",
              "unlock", "hung", "notify", "call", "ended"}

Tiles == [listed : BOOLEAN, cpus : Scenarios, running : BOOLEAN,
          ignoreWait : BOOLEAN, result : Outcomes, password : BOOLEAN]

TypeOK ==
    /\ setting \in Settings
    /\ provider \in [cpus : Scenarios, recreate : BOOLEAN, events : BOOLEAN]
    /\ tiles \in [Users -> Tiles]
    /\ thread \in [Users -> ThreadPcs]
    /\ ui \in [at : {"idle", "retry", "join", "logon", "submitted", "release", "gone"},
               user : Users \cup {None},
               then : {"none", "deselected", "retry", "list", "gone"}]
    /\ selected \in Users \cup {None}
    /\ changed \in BOOLEAN
    /\ retryShown \subseteq Users /\ spent \subseteq Users /\ excused \subseteq Users
    /\ serialization.finished \in BOOLEAN

Alive(u) == thread[u] \notin {"none", "ended"}
Idle     == [at |-> "idle", user |-> None, then |-> "none"]

\* CUnlockCredential() and Initialize; listed once it is in _pCredentials.
NewTile(listed, cpus) ==
    [listed |-> listed, cpus |-> cpus, running |-> FALSE, ignoreWait |-> FALSE,
     result |-> "UNKNOWN", password |-> FALSE]

\* LogonUI makes a provider and advises it; the first enumeration is to come.
NewProvider(cpus) ==
    /\ provider' = [cpus |-> cpus, recreate |-> TRUE, events |-> TRUE]
    /\ tiles' = [u \in Users |-> NewTile(FALSE, cpus)]
    /\ thread' = [u \in Users |-> "none"]
    /\ ui' = Idle /\ selected' = None /\ changed' = TRUE
    /\ retryShown' = {} /\ serialization' = NotFinished
    /\ spent' = {} /\ excused' = {}

Init ==
    /\ setting \in Settings
    /\ \E cpus \in Scenarios :
        /\ provider = [cpus |-> cpus, recreate |-> TRUE, events |-> TRUE]
        /\ tiles = [u \in Users |-> NewTile(FALSE, cpus)]
    /\ thread = [u \in Users |-> "none"]
    /\ ui = Idle /\ selected = None /\ changed = TRUE
    /\ retryShown = {} /\ serialization = NotFinished
    /\ spent = {} /\ excused = {}

-----------------------------------------------------------------------------
\* CUnlockListener, called by LogonUI's thread

Start(u, ignoreWait) ==
    IF tiles[u].running
    THEN UNCHANGED <<tiles, thread, excused>>
    ELSE /\ tiles' = [tiles EXCEPT ![u].running = TRUE, ![u].ignoreWait = ignoreWait]
         /\ thread' = [thread EXCEPT ![u] = "init"]
         /\ excused' = excused \ {u}

\* Mutant: clears the flags and forgets the thread.
StopUnjoined(u, then) ==
    /\ tiles' = [tiles EXCEPT ![u].running = FALSE, ![u].ignoreWait = FALSE]
    /\ ui' = IF then = "deselected" THEN Idle ELSE [at |-> "join", user |-> u, then |-> then]

\* Up to the join, which Joined ends.
Stop(u, then) ==
    /\ tiles' = [tiles EXCEPT ![u].running = FALSE, ![u].ignoreWait = FALSE]
    /\ ui' = [at |-> "join", user |-> u, then |-> then]

-----------------------------------------------------------------------------
\* CSampleProvider

Supported == Scenarios

\* E_NOTIMPL for any other changes nothing.
SetUsageScenario(cpus) ==
    /\ ui.at = "idle" /\ selected = None
    /\ cpus \in Supported
    /\ provider' = [provider EXCEPT !.cpus = cpus, !.recreate = TRUE]
    /\ changed' = TRUE
    /\ UNCHANGED <<setting, tiles, thread, ui, selected, retryShown, serialization,
                   spent, excused>>

IsUnlockSuccess(u) == tiles[u].result = "SUCCESS"

\* GetFieldState of the Retry link.
HasRetry(u) == tiles[u].listed /\ tiles[u].result \notin {"UNKNOWN", "SUCCESS"}

\* The rest of GetCredentialCount; LogonUI asks for the state of the fields then,
\* and for the credential of the default tile if that is to log on.
ListTiles(listed) ==
    /\ changed' = FALSE
    /\ retryShown' = {u \in Users : HasRetry(u)} \cap listed
    /\ IF \E u \in listed : IsUnlockSuccess(u)
       THEN \E u \in listed :
                IsUnlockSuccess(u) /\ ui' = [at |-> "logon", user |-> u, then |-> "none"]
       ELSE ui' = Idle

GetCredentialCount ==
    /\ ui.at = "idle" /\ changed
    /\ IF provider.recreate
       THEN /\ provider' = [provider EXCEPT !.recreate = FALSE]
            /\ ui' = [at |-> "release", user |-> None, then |-> "list"]
            /\ selected' = None
            /\ UNCHANGED <<changed, retryShown>>
       ELSE /\ ListTiles({u \in Users : tiles[u].listed})
            /\ UNCHANGED <<provider, selected>>
    /\ UNCHANGED <<setting, tiles, thread, serialization, spent, excused>>

\* cred->Release() deletes the tile: its destructor stops the listener.
ReleaseTile(u) ==
    /\ ui.at = "release" /\ tiles[u].listed
    /\ Stop(u, ui.then)
    /\ UNCHANGED <<setting, provider, thread, selected, changed, retryShown,
                   serialization, spent, excused>>

GetDevicesForUser(u) == setting.devices[u]

\* _EnumerateCredentials: a tile for each user with a device.
CreateTiles ==
    /\ ui.at = "release" /\ ui.then = "list"
    /\ \A u \in Users : ~tiles[u].listed
    /\ tiles' = [u \in Users |-> NewTile(GetDevicesForUser(u) # {}, provider.cpus)]
    /\ ui' = Idle
    /\ UNCHANGED <<setting, provider, thread, selected, changed, retryShown,
                   serialization, spent, excused>>

\* Mutant: the phone's answer goes unannounced.
UpdateCredsStatusSilent == UNCHANGED changed

\* CredentialsChanged, as posted to LogonUI.
UpdateCredsStatus == changed' = (changed \/ provider.events)

-----------------------------------------------------------------------------
\* CUnlockCredential, called by LogonUI's thread

SetSelected(u) ==
    /\ ui.at = "idle" /\ tiles[u].listed /\ selected \in {None, u}
    /\ selected' = u
    /\ Start(u, FALSE)
    /\ ui' = IF IsUnlockSuccess(u) THEN [at |-> "logon", user |-> u, then |-> "none"]
                                   ELSE ui
    /\ UNCHANGED <<setting, provider, changed, retryShown, serialization, spent>>

SetDeselected(u) ==
    /\ ui.at = "idle" /\ selected = u
    /\ selected' = None
    /\ Stop(u, "deselected")
    /\ UNCHANGED <<setting, provider, thread, changed, retryShown, serialization,
                   spent, excused>>

\* The password field, unless it is hidden.
SetStringValue(u, typed) ==
    /\ ui.at = "idle" /\ selected = u /\ ~setting.hidePassword
    /\ tiles' = [tiles EXCEPT ![u].password = typed]
    /\ UNCHANGED <<setting, provider, thread, ui, selected, changed, retryShown,
                   serialization, spent, excused>>

\* Retry clears the result first; until RetryStop the thread may store another.
CommandLinkClicked(u) ==
    /\ ui.at = "idle" /\ selected = u /\ u \in retryShown
    /\ tiles' = [tiles EXCEPT ![u].result = "UNKNOWN"]
    /\ ui' = [at |-> "retry", user |-> u, then |-> "none"]
    /\ UNCHANGED <<setting, provider, thread, selected, changed, retryShown,
                   serialization, spent, excused>>

\* Mutant: starts again without having stopped.
RetryUnstopped(u) ==
    /\ ui.at = "retry" /\ ui.user = u
    /\ ui' = [at |-> "join", user |-> u, then |-> "retry"]
    /\ UNCHANGED <<setting, provider, tiles, thread, selected, changed, retryShown,
                   serialization, spent, excused>>

RetryStop(u) ==
    /\ ui.at = "retry" /\ ui.user = u
    /\ Stop(u, "retry")
    /\ UNCHANGED <<setting, provider, thread, selected, changed, retryShown,
                   serialization, spent, excused>>

\* What follows the join: the end of SetDeselected (which clears the password),
\* of CommandLinkClicked, or of the destructor.
Joined(u) ==
    /\ ui.at = "join" /\ ui.user = u /\ ~Alive(u)
    /\ CASE ui.then = "deselected" ->
              /\ tiles' = [tiles EXCEPT ![u].password = FALSE]
              /\ thread' = [thread EXCEPT ![u] = "none"]
              /\ ui' = Idle
              /\ UNCHANGED <<changed, retryShown, spent, excused>>
         [] ui.then = "retry" ->
              /\ Start(u, TRUE)
              /\ ui' = Idle
              /\ UpdateCredsStatus
              /\ UNCHANGED <<retryShown, spent>>
         [] OTHER ->
              /\ tiles' = [tiles EXCEPT ![u] = NewTile(FALSE, provider.cpus)]
              /\ thread' = [thread EXCEPT ![u] = "none"]
              /\ ui' = [ui EXCEPT !.at = "release", !.user = None]
              /\ retryShown' = retryShown \ {u}
              /\ spent' = spent \ {u} /\ excused' = excused \ {u}
              /\ UNCHANGED changed
    /\ UNCHANGED <<setting, provider, selected, serialization>>

\* Mutant: the result stays SUCCESS.
TakeKept(u) == tiles[u]

\* The result is used up; its password is not read again.
Take(u) == [tiles[u] EXCEPT !.result = "UNKNOWN"]

\* The phone's password, else the typed one, else E_ABORT.
GetSerialization(u) ==
    /\ \/ ui.at = "idle" /\ selected = u       \* Submit
       \/ ui.at = "logon" /\ ui.user = u       \* *pbAutoLogon, *pbAutoLogonWithDefault
    /\ LET packed == Serializations(u \in setting.local, setting.names[u],
                                    setting.password, tiles[u].cpus)
           Return(s) ==
               /\ serialization' = s
               /\ ui' = IF s.finished THEN [at |-> "submitted", user |-> u, then |-> "none"]
                                      ELSE Idle
       IN  IF IsUnlockSuccess(u)
           THEN /\ tiles' = [tiles EXCEPT ![u] = Take(u)]
                /\ spent' = spent \cup {u} /\ excused' = excused \cup {u}
                /\ \E s \in packed : Return(s)
           ELSE /\ UNCHANGED <<tiles, spent, excused>>
                /\ IF tiles[u].password
                   THEN \E s \in packed : Return(s)
                   ELSE Return(NotFinished)
    /\ UNCHANGED <<setting, provider, thread, selected, changed, retryShown>>

\* After the logon.  Success ends LogonUI, which first revokes its callback.
ReportResult(u, success) ==
    /\ ui.at = "submitted" /\ ui.user = u
    /\ tiles' = [tiles EXCEPT ![u].result = "UNKNOWN"]
    /\ excused' = excused \cup {u}
    /\ serialization' = NotFinished
    /\ IF success
       THEN /\ provider' = [provider EXCEPT !.events = FALSE]
            /\ ui' = [at |-> "release", user |-> None, then |-> "gone"]
            /\ selected' = None
       ELSE ui' = Idle /\ UNCHANGED <<provider, selected>>
    /\ UNCHANGED <<setting, thread, changed, retryShown, spent>>

\* LogonUI ends without a logon of ours: UnAdvise, then ~CSampleProvider.
UnAdvise ==
    /\ ui.at = "idle"
    /\ provider' = [provider EXCEPT !.events = FALSE]
    /\ ui' = [at |-> "release", user |-> None, then |-> "gone"]
    /\ selected' = None
    /\ UNCHANGED <<setting, tiles, thread, changed, retryShown, serialization,
                   spent, excused>>

ProviderDeleted ==
    /\ ui.at = "release" /\ ui.then = "gone"
    /\ \A u \in Users : ~tiles[u].listed
    /\ ui' = [at |-> "gone", user |-> None, then |-> "none"]
    /\ UNCHANGED <<setting, provider, tiles, thread, selected, changed, retryShown,
                   serialization, spent, excused>>

\* The screen is locked, or a program asks for credentials, once more.
CreateInstance == ui.at = "gone" /\ (\E cpus \in Scenarios : NewProvider(cpus))
                  /\ UNCHANGED setting

-----------------------------------------------------------------------------
\* CUnlockListener::ListenThread of the tile of u

ThreadStep(u, from, to) ==
    /\ thread[u] = from
    /\ thread' = [thread EXCEPT ![u] = to]
    /\ UNCHANGED <<setting, provider, ui, selected, retryShown, serialization, spent>>

\* A session of the same user; its domain matters only if it is known.
SessionMatchesUser(session, u) ==
    session.user = u /\ session.domain \in {"same", "unknown"}

IsUserLoggedOn(u) ==
    \E session \in setting.sessions :
        SessionMatchesUser(session, u) /\ session.seconds >= MinLogonTime

\* error_invalid_user: the thread ends and has no result.
ListenInvalid(u) ==
    /\ ~setting.names[u].sep
    /\ ThreadStep(u, "init", "ended")
    /\ excused' = excused \cup {u}
    /\ UNCHANGED <<tiles, changed>>

\* Any device of any user that is reached through the network, the relay's not.
WaitForNetwork ==
    \E u \in Users : setting.devices[u] \cap {"TCP", "UDP"} # {}

ListenInit(u) ==
    /\ setting.names[u].sep
    /\ ThreadStep(u, "init", CASE tiles[u].cpus = "CREDUI" -> "unlock"
                               [] tiles[u].cpus # "CREDUI" /\ WaitForNetwork -> "network"
                               [] OTHER -> "behavior")
    /\ UNCHANGED <<tiles, changed, excused>>

\* There is a network, or nobody waits for one any more.
ListenNetwork(u) ==
    /\ ThreadStep(u, "network", "behavior")
    /\ UNCHANGED <<tiles, changed, excused>>

\* Ctrl+Alt: no result either.
ListenAbort(u) ==
    /\ tiles[u].running
    /\ ThreadStep(u, "network", "ended")
    /\ excused' = excused \cup {u}
    /\ UNCHANGED <<tiles, changed>>

Behaves(u, always, lockOnly) ==
    LET isUnlock == \/ tiles[u].cpus = "UNLOCK_WORKSTATION"
                    \/ tiles[u].cpus = "LOGON" /\ IsUserLoggedOn(u)
    IN  setting.behavior = always \/ (setting.behavior = lockOnly /\ isUnlock)

ListenBehavior(u) ==
    /\ ThreadStep(u, "behavior",
           CASE tiles[u].ignoreWait -> "unlock"
             [] ~tiles[u].ignoreWait /\ Behaves(u, "key_press", "key_press_lock_only") ->
                    "key_press"
             [] ~tiles[u].ignoreWait
                    /\ Behaves(u, "foreground_always", "foreground_lock_only") -> "foreground"
             [] OTHER -> "unlock")
    /\ UNCHANGED <<tiles, changed, excused>>

\* Mutant: only a window in the foreground ends this wait.
ForegroundForever(u) == FALSE

\* The loop's condition has become false.
ForegroundStopped(u) == ~tiles[u].running

\* A key changed, or the window is in the foreground.
ListenWoken(u) ==
    /\ tiles[u].running
    /\ \E from \in {"key_press", "foreground"} : ThreadStep(u, from, "unlock")
    /\ UNCHANGED <<tiles, changed, excused>>

ListenStopped(u) ==
    /\ \/ ~tiles[u].running /\ ThreadStep(u, "key_press", "unlock")
       \/ ForegroundStopped(u) /\ ThreadStep(u, "foreground", "unlock")
    /\ UNCHANGED <<tiles, changed, excused>>

\* handler.GetResult waits for what need never come: its own threads, which want
\* the mutex it holds, or a client's Stop (CtrlAltCancels and AllLeftLoop of
\* module UnlockHandler).
ListenHangs(u) ==
    /\ ThreadStep(u, "unlock", "hung")
    /\ UNCHANGED <<tiles, changed, excused>>

\* handler.GetResult has returned; SetUnlockData.  An approval that was found
\* counts even if the tile has been left since.
SetUnlockData(u, result) ==
    /\ thread[u] \in {"unlock", "hung"}
    /\ thread' = [thread EXCEPT ![u] = "notify"]
    /\ tiles' = [tiles EXCEPT ![u].result = result]
    /\ spent' = spent \ {u}
    /\ UNCHANGED <<setting, provider, ui, selected, changed, retryShown,
                   serialization, excused>>

ListenApproved(u) == SetUnlockData(u, "SUCCESS")
ListenFailed(u)   == SetUnlockData(u, "FAILED")

\* UpdateCredsStatus tests _pCredProvEvents and uses it, without a lock.
ListenNotify(u) ==
    /\ ThreadStep(u, "notify", IF provider.events THEN "call" ELSE "ended")
    /\ UNCHANGED <<tiles, changed, excused>>

ListenCall(u) ==
    /\ ThreadStep(u, "call", "ended")
    /\ UpdateCredsStatus
    /\ UNCHANGED <<tiles, excused>>

\* UnAdvise came in between: the pointer is null, or the callback is freed.
\* LogonUI dies of it and is started again.
ListenCrash(u) ==
    /\ thread[u] = "call" /\ ~provider.events
    /\ \E cpus \in Scenarios : NewProvider(cpus)
    /\ UNCHANGED setting

-----------------------------------------------------------------------------
\* LogonUI's thread but for what the user asks of it
Work(u) == \/ ReleaseTile(u) \/ RetryStop(u) \/ Joined(u)
           \/ ui.at = "logon" /\ GetSerialization(u)

Report(u) == \E success \in BOOLEAN : ReportResult(u, success)

UserAsks(u) ==
    \/ SetSelected(u) \/ SetDeselected(u) \/ CommandLinkClicked(u)
    \/ \E typed \in BOOLEAN : SetStringValue(u, typed)
    \/ ui.at = "idle" /\ GetSerialization(u)

\* Stopped, the handler returns, or it hangs; whether it then ever returns is not
\* for this process to decide.
GetResultStopped(u) == thread[u] = "unlock" /\ (ListenFailed(u) \/ ListenHangs(u))

\* The listen thread but for what others decide
Listen(u) ==
    \/ ListenInvalid(u) \/ ListenInit(u) \/ ListenBehavior(u) \/ ListenStopped(u)
    \/ ListenNotify(u) \/ ListenCall(u)
    \/ ~tiles[u].running /\ (ListenNetwork(u) \/ GetResultStopped(u))

Next ==
    \/ GetCredentialCount \/ CreateTiles \/ UnAdvise \/ ProviderDeleted \/ CreateInstance
    \/ \E cpus \in Scenarios \cup {"CHANGE_PASSWORD"} : SetUsageScenario(cpus)
    \/ \E u \in Users :
        \/ Work(u) \/ Report(u) \/ UserAsks(u) \/ Listen(u)
        \/ ListenNetwork(u) \/ ListenAbort(u) \/ ListenWoken(u)
        \/ ListenHangs(u) \/ ListenApproved(u) \/ ListenFailed(u) \/ ListenCrash(u)

Spec == Init /\ [][Next]_vars

\* LogonUI handles what is posted to it; threads run; a handler that is stopped
\* returns or hangs.  Nobody has to do anything, a hung handler least of all.
Fairness ==
    /\ SF_vars(GetCredentialCount) /\ WF_vars(CreateTiles)
    /\ \A u \in Users : WF_vars(Work(u)) /\ WF_vars(Listen(u))

FairSpec == Spec /\ Fairness

-----------------------------------------------------------------------------
(* The phone's approval logs its user on at most once, and from the tile that
   asked for it: no tile holds one that was handed over, none outlives its tile. *)
ApprovalUsedOnce ==
    \A u \in Users : IsUnlockSuccess(u) => u \notin spent /\ tiles[u].listed

(* Phones are asked for the selected tile only, or while LogonUI waits for the
   end of just that: at most one attempt runs, and its tile and provider exist. *)
OneAttempt ==
    \A u \in Users : Alive(u) =>
        /\ tiles[u].listed
        /\ u \in {selected, ui.user} \/ ui.then \in {"list", "gone"}

Whole(string, chars, offset) == string = [Length |-> WcharSize * chars, Buffer |-> offset]

(* What Windows gets to log a local user on with is the whole domain, the whole
   user name and the whole password, one after the other behind the structure:
   no length has been cut to its 16 bits. *)
HandedWhole ==
    ui.at = "submitted" /\ ui.user \in setting.local =>
        LET name == setting.names[ui.user]
            userAt == Header + WcharSize * name.domain
            passwordAt == userAt + WcharSize * name.user
        IN  /\ serialization.finished
            /\ Whole(serialization.domain, name.domain, Header)
            /\ Whole(serialization.user, name.user, userAt)
            /\ \E chars \in {setting.password, setting.password + Growth} :
                   /\ Whole(serialization.password, chars, passwordAt)
                   /\ serialization.cb = passwordAt + WcharSize * chars

(* The selected tile is never dead: its attempt runs (or hangs in the handler),
   or it offers Retry, or it holds an approval -- but for the ends after which it
   has to be left and selected again: a name without a domain, Ctrl+Alt while it
   waited for a network, and a logon that was tried (excused). *)
TileUsable ==
    (ui.at = "idle" /\ ~changed /\ selected # None /\ ~Alive(selected)) =>
        selected \in retryShown \cup excused \/ IsUnlockSuccess(selected)

LoggingOn == ui.at \in {"logon", "submitted"}

(* The outcome that the selected tile's attempt stores is noticed: an approval
   logs on, a failure brings up Retry, unless the tile is left or another logon
   comes first (whose failure then leaves an approval to Submit: there is no
   second CredentialsChanged for it). *)
OutcomeNoticed ==
    \A u \in Users :
        (selected = u /\ thread[u] = "notify") ~>
            (u \in retryShown \/ tiles[u].result = "UNKNOWN" \/ selected # u \/ LoggingOn)

(* Leaving a tile, Retry and a new enumeration wait for the listen thread: the
   logon screen hangs in that only if the handler does, whichever wait of its own
   the thread is in. *)
StopReturns == (ui.at = "join") ~> (ui.at # "join" \/ thread[ui.user] = "hung")
=============================================================================
