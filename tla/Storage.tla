------------------------------- MODULE Storage -------------------------------
(***************************************************************************)
(* What the two processes do with the settings and the device list: the    *)
(* window of the desktop application, its pairing threads and its command  *)
(* listener, and the program that unlocks the PC.                          *)
(***************************************************************************)
EXTENDS DeviceStorage

CONSTANTS Operations,   \* per thread: the operations it may run
          MaxOps        \* how many operations are begun

VARIABLES done          \* operations begun so far

vars == <<threads, settings, devices, done>>

\* An operation is a list of routines.
Routines == [
    pair    |-> <<"get", "devices", "add">>,                    \* PairingServer::ClientThread
    remove  |-> <<"devices", "remove">>,                        \* OnRemoveDeviceClicked, RemoveUDPDevices
    list    |-> <<"devices">>,                                  \* the table of the main page
    show    |-> <<"get", "show">>,                              \* SettingsForm::Show
    save    |-> <<"saveForm", "get", "saveServices", "drop">>,
                                                                \* OnSaveSettingsClicked
    install |-> <<"get", "saveVersion", "drop">>,              \* SetInstalledVersion
    poll    |-> <<"devices", "get">>,                           \* CloudCommandListener::Run
    unlock  |-> <<"get", "devices">>]                           \* UnlockHandler::GetResult

ASSUME StorageAssumption ==
    Operations \in [Threads -> SUBSET DOMAIN Routines] /\ MaxOps \in Nat

\* The settings file: missing, complete, without a machine id, or of an older
\* version; with the id there may be a device that was paired with it.
Init ==
    /\ threads = [th \in Threads |-> NewThread]
    /\ ids = 1
    /\ settingsFile \in [state : {"absent"}, v : {Empty}]
                        \cup [state : {"old"}, v : {Defaults(1)}]
                        \cup [state : {"whole"}, v : {Defaults(1), Defaults(NoId)}]
    /\ cache = [p \in Processes |-> Empty]
    /\ mutex = [p \in Processes |-> NoThread]
    /\ edit = Empty /\ known = {} /\ idsRaced = FALSE
    /\ windows \in BOOLEAN
    /\ devicesFile \in [state : {"absent"}, devs : {{}}]
                       \cup [state : {"whole"}, devs : {{<<1, p>>} : p \in Phones}]
    /\ protected = (devicesFile.state = "whole")
    /\ expected = devicesFile.devs /\ trouble = FALSE /\ failed = FALSE
    /\ done = 0

\* The form is saved after it has been shown.  Bound: nothing begins after a change
\* of the list's access has failed.
Begin(th, op) ==
    /\ threads[th].pc = "idle" /\ done < MaxOps
    /\ ~failed
    /\ op = "save" => edit # Empty
    /\ done' = done + 1
    /\ \E p \in IF op = "pair" THEN Phones ELSE {threads[th].phone} :
          threads' = [threads EXCEPT ![th] = [NewThread EXCEPT
                        !.pc = Head(Routines[op]), !.todo = Tail(Routines[op]), !.phone = p]]
    /\ UNCHANGED <<settings, devices>>

Next ==
    \E th \in Threads :
        \/ \E op \in Operations[th] : Begin(th, op)
        \/ SettingsStep(th) /\ UNCHANGED <<devices, done>>
        \/ DevicesStep(th) /\ UNCHANGED <<settings, done>>

Spec == Init /\ [][Next]_vars

-----------------------------------------------------------------------------
\* Properties

Labels == {"idle", "get", "load", "relock", "saveWrite", "drop", "show", "devices", "read",
           "readClose", "saveOpen", "trunc", "write", "close", "add", "remove"} \cup Saves

TypeOK ==
    /\ threads \in [Threads ->
          [pc : Labels, todo : Seq(Labels), reg : SettingsValue, devs : SUBSET Device, out : SUBSET Device,
           ok : BOOLEAN, stale : BOOLEAN, phone : Phones]]
    /\ settingsFile \in SettingsFiles
    /\ cache \in [Processes -> SettingsValue]
    /\ mutex \in [Processes -> Threads \cup {NoThread}]
    /\ edit \in SettingsValue /\ ids \in 0..MaxIds /\ known \subseteq 1..MaxIds
    /\ devicesFile \in Files /\ expected \subseteq Device
    /\ {idsRaced, windows, protected, trouble, failed} \subseteq BOOLEAN
    /\ done \in 0..MaxOps

AllIdle == \A th \in Threads : threads[th].pc = "idle"

\* All threads of both processes get one machine id, from which the ids of devices
\* are computed, unless one is drawn while another thread saves what it has made
\* up, or the file is being written, or a write failed.
OneMachineId == ~idsRaced => Cardinality(known) <= 1

\* A device that was paired and not removed is in the list, unless one of these came
\* about: a list was saved that had been read before another one was written; the
\* file was there and could not be read or opened, since another thread was writing
\* it or had closed it to users; two threads wrote it at once; a write or a change of
\* access failed.  In particular, nothing is lost by the threads that find no file
\* and reset it.
DevicesKept ==
    AllIdle /\ ~trouble => devicesFile.devs = expected /\ devicesFile.state # "bad"

\* When no thread is at work the list is closed to ordinary users, however the
\* accesses overlapped and whatever they lost, unless a change of access failed.
ListProtected == AllIdle /\ devicesFile.state # "absent" => protected \/ failed

\* The address of the relay that the user was given stays in the settings.
RelayKept ==
    settingsFile.state = "whole" => settingsFile.v.relay
=============================================================================
