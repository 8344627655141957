--------------------------- MODULE ServiceInstaller ---------------------------
(***************************************************************************)
(* The desktop application installs the login service on Linux, removes it *)
(* and turns its integrations on and off (ServiceInstaller.Linux.cpp,      *)
(* MainWindow.cpp, SettingsForm.cpp).  What a click does is a list of      *)
(* steps; a step that throws ends the list, and the application may end    *)
(* between any two.                                                        *)
(***************************************************************************)
EXTENDS PamConfig

CONSTANTS Programs,     \* the programs that `which` finds
          Originals,    \* per service: the texts its file may have at first
          Units,        \* what the unit of polkit's helper may be at first
          Includes,     \* which of system-auth and common-auth exist
          PamDirs,      \* the directories for PAM modules there are
          Versions,     \* the versions of the application, in order of release
          MaxClicks,    \* how often the application is used
          MaxChanges,   \* how many toggles of the form are changed at once
          MaxFaults     \* how often a step fails or the application is ended

ASSUME InstallerAssumption ==
    /\ Includes \subseteq {"system-auth", "common-auth"}
    /\ PamDirs \subseteq {"lib", "lib64"} /\ "lib" \in PamDirs
    /\ Versions \in Seq(Seq(Nat)) /\ Len(Versions) > 0
    /\ MaxClicks \in Nat /\ MaxChanges \in Nat /\ MaxFaults \in Nat
    /\ Absent \notin Seq(Lines) \cup PolkitUnits

VARIABLES
    files,      \* per service: its file in /etc/pam.d
    unit,       \* the unit of polkit's agent helper, or Absent
    exe,        \* the version of pcbu_auth that is installed, or 0
    modules,    \* the directories that hold pam_pcbiounlock.so
    settings,   \* port, unixSetPasswordPAM and installedVersion, 0 for none
    rules,      \* the ports the firewall lets through
    app,        \* the version of the application that runs, or 0
    release,    \* the version that is on the disk
    todo,       \* the steps of the click under way
    clicks, faults,
    original,   \* observes: files and unit as they were at first
    hurt,       \* observes: what an interrupted list of steps was about
    moved       \* observes: the port was changed

ivars == <<files, unit, exe, modules, settings, rules, app, release, todo,
           clicks, faults, original, hurt, moved>>

Toggles == {"sudo", "polkit", "login", "pamSetPassword"}

\* The login managers and screen lockers in the order of ApplySettings; "kde" is
\* the program kde-open.
LoginPrograms == <<"gdm", "sddm", "kde", "lightdm", "cinnamon", "hyprlock">>
ConfigOf == [gdm |-> "gdm-password", sddm |-> "sddm", kde |-> "kde", lightdm |-> "lightdm",
             cinnamon |-> "cinnamon-screensaver", hyprlock |-> "hyprlock"]

Services == {"sudo", "polkit-1"} \cup {ConfigOf[p] : p \in ToSet(LoginPrograms)}

\* The files at first: nothing in them is the installer's, or skips a line, and what
\* they include exists.
ASSUME OriginalsAssumption ==
    /\ \A s \in Services : \A text \in Originals[s] :
          text = Absent \/ text \in Seq({Header, Comment, Own, Session}
                                         \cup {Include(i) : i \in Includes})
    /\ Units \subseteq PolkitUnits \cup {Absent}

Entry(service) == IF service = "sddm" THEN <<UnixFirst, Module>> ELSE <<Module>>

Idle == todo = <<>>
InClick == app # 0 /\ ~Idle
Step == Head(todo)
Rest == Tail(todo)

IsProgramInstalled(p) == p \in Programs

IsInstalled == modules # {} /\ exe # 0

\* 1 when the other version is newer, -1 when it is older.
CompareVersion(this, other) ==
    LET Part(v, i) == IF i <= Len(v) THEN v[i] ELSE 0
        differ == {i \in 1..Len(this \o other) : Part(this, i) # Part(other, i)}
    IN  IF differ = {} THEN 0
        ELSE LET i == CHOOSE i \in differ : \A j \in differ : i <= j
             IN IF Part(this, i) < Part(other, i) THEN 1 ELSE -1

\* The versions are numbered in the order of their release.
ASSUME VersionsAssumption ==
    \A i, j \in 1..Len(Versions) : i < j => CompareVersion(Versions[i], Versions[j]) = 1

\* The entry is found, unless the file is among those that cannot be read.
Found(s, unread) == s \notin unread /\ HasConfigEntry(files[s], Entry(s))

GetSettings(unread) ==
    [enabled |-> [sudo   |-> Found("sudo", unread),
                  polkit |-> Found("polkit-1", unread),
                  login  |-> \E p \in ToSet(LoginPrograms) : Found(ConfigOf[p], unread),
                  pamSetPassword |-> settings.setPassword],
     defaultVal |-> [sudo   |-> IsProgramInstalled("sudo"),
                     polkit |-> IsProgramInstalled("pkexec"),
                     login  |-> \E p \in ToSet(LoginPrograms) : IsProgramInstalled(p),
                     pamSetPassword |-> FALSE]]

\* The steps of ApplySettings for the toggles that are to be on.
ApplySettings(on) ==
    << <<"SetConfigEntry", "sudo", on.sudo>>, <<"SetConfigEntry", "polkit-1", on.polkit>> >>
    \o FlattenSeq([i \in DOMAIN LoginPrograms |->
                     LET p == LoginPrograms[i]
                     IN  IF IsProgramInstalled(p)
                         THEN << <<"SetConfigEntry", ConfigOf[p], on.login>> >> ELSE <<>>])
    \o << <<"SetPassword", "settings", on.pamSetPassword>> >>

\* ClearSettings turns off copies of the settings, and applies them unchanged.
ClearSettings(unread) == ApplySettings(GetSettings(unread).enabled)

InEachDir(op) ==
    [i \in 1..Cardinality(PamDirs) |-> <<op, IF i = 1 THEN "lib" ELSE "lib64", TRUE>>]

SELinux(op) == IF IsProgramInstalled("semodule") THEN << <<op, "policy", TRUE>> >> ELSE <<>>

Install ==
    << <<"WriteExe", "exe", TRUE>>, <<"Setuid", "exe", TRUE>> >> \o InEachDir("WriteModule")
    \o << <<"Allow", "ports", TRUE>> >> \o SELinux("Policy")

Uninstall ==
    << <<"RemoveExe", "exe", TRUE>> >> \o InEachDir("RemoveModule")
    \o << <<"Disallow", "ports", TRUE>> >> \o SELinux("Policy")

Reinstall ==
    (IF IsInstalled THEN Uninstall ELSE <<>>) \o Install
    \o << <<"Apply", "settings", FALSE>>, <<"SetInstalledVersion", "settings", TRUE>> >>

InstallClicked ==
    IF IsInstalled
    THEN Uninstall \o << <<"Clear", "settings", TRUE>>, <<"SetInstalledVersion", "settings", FALSE>> >>
    ELSE Install \o << <<"Apply", "settings", TRUE>>, <<"SetInstalledVersion", "settings", TRUE>> >>

TypeOK ==
    /\ files \in [Services -> Seq(Lines) \cup {Absent}]
    /\ unit \in PolkitUnits \cup {Absent}
    /\ exe \in 0..Len(Versions) /\ modules \subseteq PamDirs
    /\ settings \in [port : Nat, setPassword : BOOLEAN, version : 0..Len(Versions)]
    /\ rules \subseteq Nat
    /\ app \in 0..Len(Versions) /\ release \in 1..Len(Versions)
    /\ clicks \in 0..MaxClicks /\ faults \in 0..MaxFaults

\* Nothing is installed and the module is in no file.
InstallerInit ==
    /\ files \in {f \in [Services -> UNION {Originals[s] : s \in Services}] :
                    \A s \in Services : f[s] \in Originals[s]}
    /\ unit \in Units
    /\ exe = 0 /\ modules = {} /\ rules = {}
    /\ settings = [port |-> 1, setPassword |-> FALSE, version |-> 0]
    /\ app = 0 /\ release = 1 /\ todo = <<>> /\ clicks = 0 /\ faults = 0
    /\ original = [files |-> files, unit |-> unit]
    /\ hurt = {} /\ moved = FALSE

-----------------------------------------------------------------------------
(* What the user does.  The bound is on the number of clicks.  *)

Click(steps) ==
    /\ clicks < MaxClicks /\ clicks' = clicks + 1
    /\ todo' = steps
    /\ UNCHANGED <<files, unit, exe, modules, rules, release, faults, original, hurt>>

\* The application starts, and installs itself again when it has become newer.
Start ==
    /\ app = 0 /\ app' = release
    /\ Click(IF IsInstalled
                /\ \/ settings.version = 0
                   \/ CompareVersion(Versions[settings.version], Versions[release]) = 1
             THEN Reinstall ELSE <<>>)
    /\ UNCHANGED <<settings, moved>>

OnInstallClicked ==
    /\ app # 0 /\ Idle
    /\ Click(InstallClicked)
    /\ UNCHANGED <<settings, app, moved>>

OnReinstallClicked ==
    /\ app # 0 /\ Idle /\ IsInstalled
    /\ Click(Reinstall)
    /\ UNCHANGED <<settings, app, moved>>

\* The form can be opened while the service is installed; it shows what GetSettings
\* finds.  The user, or a file that cannot be read, changes some toggles, and
\* the user perhaps the port.  Bound: MaxChanges toggles.
OnSaveSettingsClicked ==
    /\ app # 0 /\ Idle /\ IsInstalled
    /\ \E on \in [Toggles -> BOOLEAN] :
          /\ Cardinality({t \in Toggles : on[t] # GetSettings({}).enabled[t]}) <= MaxChanges
          /\ Click(ApplySettings(on))
    /\ \/ UNCHANGED <<settings, moved>>
       \/ settings' = [settings EXCEPT !.port = 2] /\ moved' = TRUE
    /\ UNCHANGED app

\* The application is closed, and may be replaced by its next version.
Close ==
    /\ app # 0 /\ Idle /\ app' = 0
    /\ release' \in {release, IF release < Len(Versions) THEN release + 1 ELSE release}
    /\ UNCHANGED <<files, unit, exe, modules, settings, rules, todo, clicks, faults,
                   original, hurt, moved>>

-----------------------------------------------------------------------------
(* The steps.  *)

\* What an interruption here leaves half done.
About ==
    {Step[2]} \cup (IF \E i \in DOMAIN todo : todo[i][1] = "Disallow" THEN {"ports"} ELSE {})
    \cup (IF \E i \in DOMAIN todo : todo[i][1] \in {"WriteExe", "WriteModule", "RemoveExe"}
          THEN {"exe"} ELSE {})

Does(op) == InClick /\ Step[1] = op

Continue(steps) ==
    /\ todo' = steps
    /\ UNCHANGED <<app, release, clicks, faults, original, hurt, moved>>

Copy ==
    /\ \/ Does("WriteExe") /\ exe' = app /\ UNCHANGED modules
       \/ Does("RemoveExe") /\ exe' = 0 /\ UNCHANGED modules
       \/ Does("WriteModule") /\ modules' = modules \cup {Step[2]} /\ UNCHANGED exe
       \/ Does("RemoveModule") /\ modules' = modules \ {Step[2]} /\ UNCHANGED exe
       \/ InClick /\ Step[1] \in {"Setuid", "Policy"} /\ UNCHANGED <<exe, modules>>
    /\ Continue(Rest)
    /\ UNCHANGED <<files, unit, settings, rules>>

Firewall ==
    /\ \/ Does("Allow") /\ rules' = rules \cup {settings.port}
       \/ Does("Disallow") /\ rules' = rules \ {settings.port}
    /\ Continue(Rest)
    /\ UNCHANGED <<files, unit, exe, modules, settings>>

\* A list that is worked out when its turn comes.
Expand ==
    /\ \/ Does("Apply") /\ Continue(ApplySettings(IF Step[3] THEN GetSettings({}).defaultVal
                                                  ELSE GetSettings({}).enabled) \o Rest)
       \/ Does("Clear") /\ Continue(ClearSettings({}) \o Rest)
    /\ UNCHANGED <<files, unit, exe, modules, settings, rules>>

Settings ==
    /\ \/ Does("SetPassword") /\ settings' = [settings EXCEPT !.setPassword = Step[3]]
       \/ /\ Does("SetInstalledVersion")
          /\ settings' = [settings EXCEPT !.version =
                            IF Step[3] \/ IsInstalled THEN app ELSE 0]
    /\ Continue(Rest)
    /\ UNCHANGED <<files, unit, exe, modules, rules>>

\* The restrictions of polkit are lifted before the entry is added, and put
\* back after it has been removed.
ConfigSteps(s, enabled, hasEntry) ==
    LET polkit == IF s = "polkit-1" THEN << <<"SetPolkitRestrictions", s, ~enabled>> >> ELSE <<>>
    IN  CASE enabled /\ ~hasEntry -> polkit \o << <<"AddToConfig", s, TRUE>> >>
          [] ~enabled /\ hasEntry -> << <<"RemoveFromConfig", s, TRUE>> >> \o polkit
          [] OTHER -> <<>>

SetConfigEntry ==
    /\ Does("SetConfigEntry")
    /\ Continue(ConfigSteps(Step[2], Step[3], Found(Step[2], {})) \o Rest)
    /\ UNCHANGED <<files, unit, exe, modules, settings, rules>>

RestrictPolkit ==
    /\ Does("SetPolkitRestrictions")
    /\ unit' = SetPolkitRestrictions(unit, Step[3])
    /\ Continue(Rest)
    /\ UNCHANGED <<files, exe, modules, settings, rules>>

\* What the file is to hold after the step.
NewText ==
    LET s == Step[2]
    IN  IF Step[1] = "RemoveFromConfig" THEN RemoveEntryFromFile(files[s], Entry(s))
        ELSE IF files[s] = Absent THEN GeneratedConfig(Entry(s), Includes)
        ELSE AddEntryToFile(files[s], Entry(s))

\* A file is read; opening it for writing empties it.
OpenFile ==
    /\ Does("AddToConfig") \/ Does("RemoveFromConfig")
    /\ LET s == Step[2]
       IN  IF Step[1] = "RemoveFromConfig" /\ IsConfigGenerated(files[s])
           THEN /\ files' = [files EXCEPT ![s] = Absent]
                /\ Continue(Rest)
           ELSE /\ files' = [files EXCEPT ![s] = <<>>]
                /\ Continue(<< <<"Write", s, NewText>> >> \o Rest)
    /\ UNCHANGED <<unit, exe, modules, settings, rules>>

WriteFile ==
    /\ Does("Write")
    /\ files' = [files EXCEPT ![Step[2]] = Step[3]]
    /\ Continue(Rest)
    /\ UNCHANGED <<unit, exe, modules, settings, rules>>

-----------------------------------------------------------------------------
(* Failures.  Bound: MaxFaults of them.  *)

Fault ==
    /\ faults < MaxFaults /\ faults' = faults + 1
    /\ UNCHANGED <<settings, clicks, release, original, moved>>

\* The step throws, or the application is ended.  A file that was opened stays empty.
Throws ==
    /\ Step[1] \in {"WriteExe", "Setuid", "WriteModule", "RemoveExe", "RemoveModule",
                    "Policy", "AddToConfig", "RemoveFromConfig", "Write"}
    /\ app' = app

\* A unit that was being rewritten is as it was, or empty, which stands for none.
UnitLeft == unit' \in {unit} \cup (IF Step[1] = "SetPolkitRestrictions" THEN {Absent} ELSE {})

Interrupt ==
    /\ InClick /\ Fault
    /\ hurt' = hurt \cup About
    /\ todo' = <<>>
    /\ Throws \/ app' = 0
    /\ UnitLeft
    /\ UNCHANGED <<files, exe, modules, rules>>

\* The unit cannot be written, or is left empty; the firewall refuses: that is only
\* logged.
Ignored ==
    /\ InClick /\ Fault
    /\ Step[1] \in {"SetPolkitRestrictions", "Allow", "Disallow"}
    /\ hurt' = hurt \cup About
    /\ UnitLeft
    /\ todo' = Rest
    /\ UNCHANGED <<files, exe, modules, rules, app>>

\* A file that cannot be read is taken for an empty one, and written; a generated
\* one that IsConfigGenerated cannot read, for one that is not.
UnreadText ==
    LET s == Step[2]
    IN  IF Step[1] = "AddToConfig" THEN AddEntryToFile(<<>>, Entry(s))
        ELSE RemoveEntryFromFile(IF IsConfigGenerated(files[s]) THEN files[s] ELSE <<>>, Entry(s))

Unread ==
    /\ Does("AddToConfig") \/ Does("RemoveFromConfig")
    /\ Fault
    /\ files[Step[2]] # Absent
    /\ hurt' = hurt \cup About
    /\ files' = [files EXCEPT ![Step[2]] = <<>>]
    /\ todo' = << <<"Write", Step[2], UnreadText>> >> \o Rest
    /\ UNCHANGED <<unit, exe, modules, rules, app>>

\* HasConfigEntry cannot read the file: the entry is added a second time, with
\* polkit's restrictions lifted once more, or not removed.
EntryMissed ==
    /\ Does("SetConfigEntry") /\ Fault
    /\ files[Step[2]] # Absent
    /\ hurt' = hurt \cup About
    /\ todo' = ConfigSteps(Step[2], Step[3], Found(Step[2], {Step[2]})) \o Rest
    /\ UNCHANGED <<files, unit, exe, modules, rules, app>>

\* GetSettings cannot read one of the files.
SettingMissed ==
    /\ Does("Clear") \/ (Does("Apply") /\ ~Step[3])
    /\ Fault
    /\ \E s \in Services : files[s] # Absent /\ todo' = ClearSettings({s}) \o Rest
    /\ UNCHANGED <<files, unit, exe, modules, rules, app, hurt>>

InstallerNext ==
    \/ Start \/ OnInstallClicked \/ OnReinstallClicked \/ OnSaveSettingsClicked \/ Close
    \/ Copy \/ Firewall \/ Expand \/ Settings
    \/ SetConfigEntry \/ RestrictPolkit \/ OpenFile \/ WriteFile
    \/ Interrupt \/ Ignored \/ Unread \/ EntryMissed \/ SettingMissed
=============================================================================
