---------------------------- MODULE DeviceStorage ----------------------------
(***************************************************************************)
(* PairedDevicesStorage: the list of paired devices, read and rewritten as *)
(* a whole by threads of two processes with no lock at all.  On Windows    *)
(* the file is closed to ordinary users between accesses, and every access *)
(* opens it first; elsewhere each save ends with a chmod.                  *)
(***************************************************************************)
EXTENDS AppSettings

VARIABLES
    windows,        \* the platform
    devicesFile, protected,
    expected,       \* the list if additions and removals were atomic
    trouble,        \* observation: a call failed, a stale list was saved, the file was there
                    \* and could not be read or opened, or two threads wrote it at once
    failed          \* observation: a change of the file's access failed

devices == <<windows, devicesFile, protected, expected, trouble, failed>>

\* A device is named by the machine id and the phone its id was computed from.
Device == (1..MaxIds) \X Phones

Files == [state : {"absent", "bad", "whole"}, devs : SUBSET Device]

\* Has the file open for writing.
Writing(u) == threads[u].pc = "write"

\* ProtectFile and ModifyFileAccess: changes the access, or fails.
ProtectFile(protect, ok) ==
    IF devicesFile.state = "absent" \/ ~ok THEN UNCHANGED protected
    ELSE protected' = protect

\* Bound: one failure.
MayFail(ok) ==
    /\ ok \/ (devicesFile.state # "absent" /\ ~failed)
    /\ trouble' = (trouble \/ ~ok)
    /\ failed' = (failed \/ ~ok)

\* An exception anywhere in GetDevices: an empty list is saved and returned.
Reset(th) ==
    threads' = [threads EXCEPT ![th].pc = "saveOpen", ![th].devs = {}, ![th].out = {}]


-----------------------------------------------------------------------------
\* GetDevices
Readable == devicesFile.state = "whole" /\ ~(windows /\ protected)

\* The file, or nothing, which cannot be parsed: it is missing, another thread has
\* just truncated it, or another thread has closed it to users meanwhile.
HasRead(th) ==
    [threads[th] EXCEPT !.ok = Readable, !.stale = FALSE,
                        !.devs = IF Readable THEN devicesFile.devs ELSE {}]
Misread == ~Readable /\ devicesFile.state # "absent"

GetDevices(th) ==
    /\ ~windows /\ threads[th].pc = "devices"
    /\ IF Readable THEN Return(th, HasRead(th)) ELSE Reset(th)
    /\ trouble' = (trouble \/ Misread)
    /\ UNCHANGED <<windows, devicesFile, protected, expected, failed>>

ReadOpen(th) ==
    /\ windows /\ threads[th].pc = "devices"
    /\ \E ok \in BOOLEAN :
        /\ MayFail(ok) /\ ProtectFile(FALSE, ok)
        /\ IF ok THEN Goto(th, "read") ELSE Reset(th)
    /\ UNCHANGED <<windows, devicesFile, expected>>

Read(th) ==
    /\ threads[th].pc = "read"
    /\ threads' = [threads EXCEPT ![th] = [HasRead(th) EXCEPT !.pc = "readClose"]]
    /\ trouble' = (trouble \/ Misread)
    /\ UNCHANGED <<windows, devicesFile, protected, expected, failed>>

ReadClose(th) ==
    /\ threads[th].pc = "readClose"
    /\ \E ok \in BOOLEAN :
        /\ MayFail(ok) /\ ProtectFile(TRUE, ok)
        /\ IF ok /\ threads[th].ok THEN Return(th, threads[th]) ELSE Reset(th)
    /\ UNCHANGED <<windows, devicesFile, expected>>

-----------------------------------------------------------------------------
\* SaveDevices.  An exception ends it with the file as it is.
SaveOpen(th) ==
    /\ windows /\ threads[th].pc = "saveOpen"
    /\ \E ok \in BOOLEAN :
        /\ MayFail(ok) /\ ProtectFile(FALSE, ok)
        /\ IF ok THEN Goto(th, "trunc") ELSE Return(th, threads[th])
    /\ UNCHANGED <<windows, devicesFile, expected>>

\* WriteBytes opens the file, which on Windows another thread may have closed.
Trunc(th) ==
    /\ threads[th].pc = IF windows THEN "trunc" ELSE "saveOpen"
    /\ IF windows /\ protected
       THEN /\ Goto(th, "close")
            /\ trouble' = TRUE
            /\ UNCHANGED devicesFile
       ELSE /\ Goto(th, "write")
            /\ devicesFile' = [devicesFile EXCEPT !.state = "bad"]
            /\ trouble' = (trouble \/ threads[th].stale \/ \E u \in Threads \ {th} : Writing(u))
    /\ UNCHANGED <<windows, protected, expected, failed>>

\* The bytes; a failure goes unnoticed.  Every list read before is stale now.
Write(th) ==
    /\ threads[th].pc = "write"
    /\ threads' = [u \in Threads |->
          IF u = th THEN [threads[u] EXCEPT !.pc = "close"]
          ELSE [threads[u] EXCEPT !.stale = (@ \/ threads[u].pc \notin {"idle", "get"})]]
    /\ \/ devicesFile' = [state |-> "whole", devs |-> threads[th].out] /\ UNCHANGED trouble
       \/ devicesFile' = [devicesFile EXCEPT !.state = "bad"] /\ ~trouble /\ trouble' = TRUE
    /\ UNCHANGED <<windows, protected, expected, failed>>

\* Mutant: the new file keeps the access it was created with.
LeaveOpen(th) ==
    /\ threads[th].pc = "close"
    /\ Return(th, threads[th])
    /\ UNCHANGED devices
Close(th) ==
    /\ threads[th].pc = "close"
    /\ \E ok \in BOOLEAN : MayFail(ok) /\ ProtectFile(TRUE, ok)
    /\ Return(th, threads[th])
    /\ UNCHANGED <<windows, devicesFile, expected>>

-----------------------------------------------------------------------------
\* AddDevice and RemoveDevice, between their GetDevices and their SaveDevices

\* Mutant: the machine id is not asked for.
AddedDeviceNoId(th) == <<NoId, threads[th].phone>>
\* The id is computed from the machine id and the phone.
AddedDevice(th) == <<threads[th].reg.id, threads[th].phone>>

Add(th) ==
    /\ threads[th].pc = "add"
    /\ LET d == AddedDevice(th) IN
       /\ threads' = [threads EXCEPT ![th].out = threads[th].devs \cup {d}, ![th].pc = "saveOpen"]
       /\ expected' = expected \cup {d}
    /\ UNCHANGED <<windows, devicesFile, protected, trouble, failed>>

\* Mutant: the list as it was read is saved.
RemoveNone(th) ==
    /\ threads[th].pc = "remove"
    /\ \E ds \in SUBSET threads[th].devs :
        /\ threads' = [threads EXCEPT ![th].out = threads[th].devs, ![th].pc = "saveOpen"]
        /\ expected' = expected \ ds
    /\ UNCHANGED <<windows, devicesFile, protected, trouble, failed>>
\* One device, or all of a method (RemoveUDPDevices).
Remove(th) ==
    /\ threads[th].pc = "remove"
    /\ \E ds \in SUBSET threads[th].devs :
        /\ threads' = [threads EXCEPT ![th].out = threads[th].devs \ ds, ![th].pc = "saveOpen"]
        /\ expected' = expected \ ds
    /\ UNCHANGED <<windows, devicesFile, protected, trouble, failed>>

DevicesStep(th) ==
    \/ GetDevices(th) \/ ReadOpen(th) \/ Read(th) \/ ReadClose(th)
    \/ SaveOpen(th) \/ Trunc(th) \/ Write(th) \/ Close(th) \/ Add(th) \/ Remove(th)
=============================================================================
