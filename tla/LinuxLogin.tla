------------------------------ MODULE LinuxLogin ------------------------------
(***************************************************************************)
(* A login on Linux while the installer may be at work: libpam reads the   *)
(* file of the service and runs its lines; the module's line starts        *)
(* pcbu_auth, which asks the phone and checks the password it gets         *)
(* (pam_auth.cpp, pcbu-auth/src/main.cpp).                                 *)
(***************************************************************************)
EXTENDS ServiceInstaller

CONSTANTS MaxLogins,    \* how many logins are begun
          MaxPasswords  \* how often the account's password is changed

ASSUME LoginAssumption == MaxLogins \in Nat /\ MaxPasswords \in Nat

VARIABLES
    login,      \* the login under way
    password,   \* the account's password: its number
    stored,     \* the password that is stored with the paired device
    logins

lvars == <<login, password, stored, logins>>
vars == <<ivars, lvars>>

None == 0       \* no password

\* stack: the lines that were read; at: the line to be run; typed: the user knows
\* the password; authtok: the password in the PAM chain; pipe: there is a password
\* pipe; pw: what pcbu_auth got; exit: its exit code; approved observes, and so does
\* torn: the file was being rewritten, or a step about it had failed.
NoLogin == [pc |-> "none", service |-> "none", stack |-> <<>>, at |-> 1, typed |-> FALSE,
            authtok |-> None, pipe |-> FALSE, pw |-> None, exit |-> -1, written |-> None,
            passed |-> FALSE, failed |-> FALSE, approved |-> FALSE, granted |-> FALSE,
            torn |-> FALSE]

LoginTypeOK ==
    /\ TypeOK
    /\ login.pc \in {"none", "stack", "module", "ask", "check", "return", "done"}
    /\ login.at \in 1..Len(login.stack) + 2
    /\ {login.authtok, login.pw, login.written} \subseteq None..password
    /\ login.exit \in -1..1
    /\ password \in 1..MaxPasswords + 2 /\ stored \in 1..password
    /\ logins \in 0..MaxLogins

\* The account's password may have been changed since the phone was paired.
LoginInit == login = NoLogin /\ password \in {1, 2} /\ stored = 1 /\ logins = 0

At(pc) == login.pc = pc
Becomes(new) == login' = new /\ UNCHANGED <<ivars, password, stored, logins>>

Torn(s) == s \in hurt \/ (~Idle /\ Step[1] = "Write" /\ Step[2] = s)

\* libpam reads the file of the service once.
Begin ==
    /\ At("none") /\ logins < MaxLogins
    /\ \E s \in Services, typed \in BOOLEAN :
          /\ files[s] # Absent
          /\ login' = [NoLogin EXCEPT !.pc = "stack", !.service = s, !.stack = files[s],
                                      !.typed = typed, !.torn = Torn(s)]
    /\ logins' = logins + 1
    /\ UNCHANGED <<ivars, password, stored>>

\* The account's own password: the one in the chain is tried first.
RightPassword == login.typed \/ login.authtok = password

Line == login.stack[login.at]
Next1(new) == [new EXCEPT !.pc = "stack", !.at = @ + 1]

\* A line that is not the module's.
RunLine ==
    /\ At("stack") /\ login.at <= Len(login.stack)
    /\ CASE Line = UnixFirst ->
              Becomes([login EXCEPT !.at = IF login.typed THEN @ + 2 ELSE @ + 1])
         [] Line = Own \/ Line \in {Include(i) : i \in Includes} ->
              Becomes(Next1([login EXCEPT !.passed = @ \/ RightPassword,
                                          !.failed = @ \/ ~RightPassword]))
         [] Line \in {Include(i) : i \in {"system-auth", "common-auth"} \ Includes} ->
              Becomes(Next1([login EXCEPT !.failed = TRUE]))
         [] Line = Module ->
              Becomes(IF modules = {} THEN Next1(login) ELSE [login EXCEPT !.pc = "module"])
         [] OTHER -> Becomes(Next1(login))

EndOfStack ==
    /\ At("stack") /\ login.at > Len(login.stack)
    /\ Becomes([login EXCEPT !.pc = "done", !.granted = login.passed /\ ~login.failed])

PAM_IGNORE(l) == Next1(l)

PAM_AUTH_ERR(l) == Next1(l)

\* The line is sufficient, unless a line before it has failed.
PAM_SUCCESS(l) == IF l.failed THEN Next1(l) ELSE [l EXCEPT !.pc = "done", !.granted = TRUE]

\* pam_sm_authenticate: the user's name may be missing, the pipe too, and pcbu_auth.
pam_sm_authenticate ==
    /\ At("module")
    /\ \/ Becomes(PAM_IGNORE(login))
       \/ \E hasPipe \in BOOLEAN :
             Becomes(IF exe = 0 THEN PAM_IGNORE(login)
                     ELSE [login EXCEPT !.pc = "ask", !.pipe = hasPipe, !.pw = stored])

\* runMain: the outcome of UnlockHandler::GetResult, of a device of this user.
runMain ==
    /\ At("ask")
    /\ \/ Becomes([login EXCEPT !.pc = "check"])                            \* SUCCESS
       \/ Becomes([login EXCEPT !.pc = "return", !.exit = 1])               \* CANCELED
       \/ Becomes([login EXCEPT !.pc = "return", !.exit = -1])              \* the others

\* Mutant: whatever the phone sends is a password.
CheckLoginSkipped(pw) == TRUE

CheckLogin(pw) == pw = password

\* The password is written to the pipe, if the setting says so.
Check ==
    /\ At("check")
    /\ Becomes([login EXCEPT !.pc = "return",
                             !.exit = IF CheckLogin(login.pw) THEN 0 ELSE 1,
                             !.written = IF CheckLogin(login.pw) /\ settings.setPassword /\ login.pipe
                                         THEN login.pw ELSE None,
                             !.approved = @ \/ login.pw = password])

\* The end of pam_sm_authenticate.
Return ==
    /\ At("return")
    /\ Becomes(CASE login.exit = 0 /\ login.written # None ->
                       PAM_IGNORE([login EXCEPT !.authtok = login.written])
                 [] login.exit = 0 /\ login.written = None -> PAM_SUCCESS(login)
                 [] login.exit = 1 -> PAM_AUTH_ERR(login)
                 [] OTHER -> PAM_IGNORE(login))

\* The account's password is changed while a login is under way.  Bound: MaxPasswords.
ChangePassword ==
    /\ login.pc \in {"stack", "module", "ask", "check", "return"}
    /\ password <= MaxPasswords /\ password' = password + 1
    /\ UNCHANGED <<ivars, login, stored, logins>>

\* The service has its answer.
Leave == At("done") /\ Becomes(NoLogin)

Init == InstallerInit /\ LoginInit

\* Nothing else need happen while an answer is looked at.
Next ==
    \/ ~At("done") /\ InstallerNext /\ UNCHANGED lvars
    \/ Leave
    \/ Begin \/ RunLine \/ EndOfStack
    \/ pam_sm_authenticate \/ runMain \/ Check \/ Return
    \/ ChangePassword

Spec == Init /\ [][Next]_vars

-----------------------------------------------------------------------------

\* The lines of a file that are not the installer's, which adds a header too.
OwnLines(file) == Without(file, {Header, Generated, Module, UnixFirst})

OwnLinesKept ==
    \A s \in Services :
        (Idle /\ s \notin hurt) =>
            IF original.files[s] = Absent
            THEN files[s] = Absent \/ IsConfigGenerated(files[s])
            ELSE files[s] # Absent /\ OwnLines(files[s]) = OwnLines(original.files[s])

\* A directive that restricted the helper does so again.
SandboxRestored ==
    (/\ Idle /\ original.unit # Absent /\ "polkit-1" \notin hurt
     /\ ~HasConfigEntry(files["polkit-1"], Entry("polkit-1"))) =>
        /\ \A s \in Switches : original.unit.switch[s] => unit.switch[s]
        /\ \A d \in Directives : original.unit.hashes[d] = 0 => unit.hashes[d] = 0

PortsClosed == Idle /\ exe = 0 /\ "ports" \notin hurt /\ ~moved => rules = {}

ProgramUpToDate ==
    app # 0 /\ Idle /\ IsInstalled /\ "exe" \notin hurt => exe = app

\* Between two clicks the system's own lines are all there, in their order; without
\* the entry polkit is as restricted as it was; after an uninstallation no port
\* stays open; and the program that runs has installed its own version.  The
\* exceptions, each for its own part alone: a step about that file, about polkit,
\* about the ports or about the program has failed or was interrupted; and, for the
\* ports, the port was changed.
SystemRestored == OwnLinesKept /\ SandboxRestored /\ PortsClosed /\ ProgramUpToDate

\* However far an installation has come, a login succeeds without the password only
\* if the phone approved it, and what it sent was the password valid at that time.
GrantsOnlyApproved ==
    At("done") /\ login.granted => login.typed \/ login.approved

\* A rule for the password: a line of its own, or a file with one that is included.
HasRule(text) ==
    Own \in ToSet(text) \/ \E i \in Includes : Include(i) \in ToSet(text)

\* The system has one for the service, or a file that a generated one includes.
Ruled(service) ==
    IF original.files[service] = Absent THEN Includes # {} ELSE HasRule(original.files[service])

\* The right password succeeds where it did before the installation, whatever the
\* phone, the module and the installer do, unless the file was read while it was
\* being rewritten or after a step about it had failed.
OwnPasswordWorks ==
    At("done") /\ login.typed /\ Ruled(login.service) => login.granted \/ login.torn

\* Both: what the phone and the installer do decides nothing else about a login.
LoginsDecided == GrantsOnlyApproved /\ OwnPasswordWorks
=============================================================================
