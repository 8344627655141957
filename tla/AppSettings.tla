----------------------------- MODULE AppSettings -----------------------------
(***************************************************************************)
(* AppSettings: one file, read once by each process into a cache behind a  *)
(* mutex, and rewritten as a whole.  Load gives the mutex up while it      *)
(* saves the defaults, and the mutex is not shared by the desktop          *)
(* application and the program that unlocks the PC (pcbu-auth, or the      *)
(* credential provider in the logon process).                              *)
(*                                                                         *)
(* A thread runs one operation at a time, as a list of routines; module    *)
(* DeviceStorage adds the routines of the device list, module Storage the  *)
(* operations.  A file that is being rewritten, or whose rewriting failed, *)
(* is bad: it holds a part of its content.  A crash leaves it like that.   *)
(***************************************************************************)
EXTENDS Integers, Sequences, FiniteSets

CONSTANTS Threads, ProcessOf, Phones, MaxIds

ASSUME SettingsAssumption ==
    IsFiniteSet(Threads) /\ Phones # {} /\ MaxIds \in Nat \ {0}

VARIABLES
    threads,        \* per thread: routine, the routines after it, and its variables
    settingsFile, cache, mutex,
    edit,           \* SettingsForm::m_EditSettings
    ids,            \* machine ids drawn so far
    known,          \* observation: machine ids that Get has returned
    idsRaced        \* observation: an id was drawn while another thread was saving, or a
                    \* write failed

settings == <<settingsFile, cache, mutex, edit, ids, known, idsRaced>>

Processes == {ProcessOf[th] : th \in Threads}
NoId == 0
NoThread == "nobody"

\* PCBUAppStorage: the machine id, whether the relay's address is there, the
\* installed version, and the fields of the service settings, defaults or not.
SettingsValue == [id : 0..MaxIds, relay : BOOLEAN, version : BOOLEAN, services : BOOLEAN]
Empty == [id |-> NoId, relay |-> FALSE, version |-> FALSE, services |-> FALSE]
Defaults(id) == [id |-> id, relay |-> TRUE, version |-> FALSE, services |-> TRUE]

\* A file of an older version lacks a field that Load asks for.
SettingsFiles == [state : {"absent", "bad", "old", "whole"}, v : SettingsValue]

Goto(th, label) == threads' = [threads EXCEPT ![th].pc = label]
NewThread == [pc |-> "idle", todo |-> <<>>, reg |-> Empty, devs |-> {}, out |-> {}, ok |-> FALSE,
              stale |-> FALSE, phone |-> CHOOSE p \in Phones : TRUE]

\* The routine is over: on to the next, or the operation is.
Return(th, rec) ==
    threads' = [threads EXCEPT ![th] =
                  IF rec.todo = <<>> THEN NewThread
                  ELSE [rec EXCEPT !.pc = Head(rec.todo), !.todo = Tail(@)]]

Acquire(th) == mutex[ProcessOf[th]] = NoThread /\ mutex' = [mutex EXCEPT ![ProcessOf[th]] = th]
Release(th) == mutex' = [mutex EXCEPT ![ProcessOf[th]] = NoThread]
MutexFree(th) == mutex[ProcessOf[th]] = NoThread
Cached(th) == cache[ProcessOf[th]]
SetCache(th, v) == cache' = [cache EXCEPT ![ProcessOf[th]] = v]

Saves == {"saveLoaded", "saveForm", "saveServices", "saveVersion"}
Saving(u) == threads[u].pc \in {"saveLoaded", "saveWrite"}

-----------------------------------------------------------------------------
\* Get: the cache, or Load with the mutex held
Get(th) ==
    /\ threads[th].pc = "get"
    /\ MutexFree(th)
    /\ IF Cached(th).id # NoId
       THEN /\ Return(th, [threads[th] EXCEPT !.reg = Cached(th)])
            /\ known' = known \cup {Cached(th).id}
            /\ UNCHANGED mutex
       ELSE Goto(th, "load") /\ Acquire(th) /\ UNCHANGED known
    /\ UNCHANGED <<settingsFile, cache, edit, ids, idsRaced>>

\* The machine id of a file that can be parsed is kept, though other fields miss.
LoadedId(f) == IF f.state \in {"old", "whole"} THEN f.v.id ELSE NoId

\* Everything is there; or what Load has made up is to be saved, without the mutex.
Load(th) ==
    /\ threads[th].pc = "load"
    /\ LET id == LoadedId(settingsFile) IN
       IF settingsFile.state = "whole" /\ id # NoId
       THEN /\ Return(th, [threads[th] EXCEPT !.reg = settingsFile.v])
            /\ SetCache(th, settingsFile.v)
            /\ known' = known \cup {id}
            /\ UNCHANGED <<ids, idsRaced>>
       ELSE /\ id = NoId => ids < MaxIds
            /\ ids' = IF id = NoId THEN ids + 1 ELSE ids
            /\ LET new == IF id = NoId THEN ids + 1 ELSE id
                   made == IF settingsFile.state = "whole" THEN [settingsFile.v EXCEPT !.id = new]
                                                           ELSE Defaults(new)
               IN threads' = [threads EXCEPT ![th].reg = made, ![th].pc = "saveLoaded",
                                             ![th].todo = <<"relock">> \o @]
            /\ idsRaced' = (idsRaced \/ (id = NoId /\ \E u \in Threads \ {th} : Saving(u)))
            /\ UNCHANGED <<cache, known>>
    /\ Release(th)
    /\ UNCHANGED <<settingsFile, edit>>

\* The mutex again, and the cache is set to what Load has made up.
Relock(th) ==
    /\ threads[th].pc = "relock"
    /\ MutexFree(th)
    /\ SetCache(th, threads[th].reg)
    /\ known' = known \cup {threads[th].reg.id}
    /\ Return(th, threads[th])
    /\ UNCHANGED <<settingsFile, mutex, edit, ids, idsRaced>>

-----------------------------------------------------------------------------
\* Save, by its steps: the mutex and the truncated file, then the written file and
\* the cache.  A failed write goes unnoticed.

\* Mutant: the form has no machine id either.
ToStorageNoId(m) == [Empty EXCEPT !.version = m.version]
\* OnSaveSettingsClicked makes settings of the form, which has no relay and none of
\* the service settings.
ToStorage(m) == [Empty EXCEPT !.id = m.id, !.version = m.version]

\* What Load has made up, the form, the service settings of ApplySettings, or the
\* version of SetInstalledVersion.
ToSave(th) ==
    LET reg == threads[th].reg IN
    CASE threads[th].pc = "saveLoaded" -> reg
      [] threads[th].pc = "saveForm" -> ToStorage(edit)
      [] threads[th].pc = "saveServices" -> [reg EXCEPT !.services = TRUE]
      [] threads[th].pc = "saveVersion" -> [reg EXCEPT !.version = TRUE]

SaveTrunc(th) ==
    /\ threads[th].pc \in Saves
    /\ Acquire(th)
    /\ settingsFile' = [settingsFile EXCEPT !.state = "bad"]
    /\ threads' = [threads EXCEPT ![th].reg = ToSave(th), ![th].pc = "saveWrite"]
    /\ UNCHANGED <<cache, edit, ids, known, idsRaced>>

\* Two processes that write at once may leave a mixture.  Bound: one failure.
SaveWrite(th) ==
    /\ threads[th].pc = "saveWrite"
    /\ \/ settingsFile' = [state |-> "whole", v |-> threads[th].reg] /\ UNCHANGED idsRaced
       \/ settingsFile' = [settingsFile EXCEPT !.state = "bad"] /\ ~idsRaced /\ idsRaced' = TRUE
    /\ SetCache(th, threads[th].reg)
    /\ Release(th)
    /\ Return(th, threads[th])
    /\ UNCHANGED <<edit, ids, known>>

InvalidateCache(th) ==
    /\ threads[th].pc = "drop"
    /\ MutexFree(th)
    /\ SetCache(th, Empty)
    /\ Return(th, threads[th])
    /\ UNCHANGED <<settingsFile, mutex, edit, ids, known, idsRaced>>

-----------------------------------------------------------------------------
\* SettingsForm::Show copies the settings to the form.
ShowForm(th) ==
    /\ threads[th].pc = "show"
    /\ edit' = threads[th].reg
    /\ Return(th, threads[th])
    /\ UNCHANGED <<settingsFile, cache, mutex, ids, known, idsRaced>>

SettingsStep(th) ==
    \/ Get(th) \/ Load(th) \/ Relock(th) \/ SaveTrunc(th) \/ SaveWrite(th)
    \/ InvalidateCache(th) \/ ShowForm(th)
=============================================================================
