---------------------------- MODULE StorageProofs ----------------------------
(***************************************************************************)
(* For any threads, in any processes, with any of the operations: what the *)
(* settings and the device list keep.                                      *)
(***************************************************************************)
EXTENDS Storage, FiniteSetTheorems, TLAPS

ThreadStates ==
    [pc : Labels, todo : Seq(Labels), reg : SettingsValue, devs : SUBSET Device,
     out : SUBSET Device, ok : BOOLEAN, stale : BOOLEAN, phone : Phones]

-----------------------------------------------------------------------------
\* The parts of the inductive invariant.

\* What an operation does with the settings needs those that Get has returned, and
\* what it does with the list comes right after GetDevices and is its end.
Routine == {"get", "relock", "drop", "show", "devices", "add", "remove",
            "saveServices", "saveVersion"}
UsesSettings == {"relock", "show", "add", "saveServices", "saveVersion"}
Edits == {"add", "remove"}
Listing == {"devices", "read", "readClose", "saveOpen", "trunc", "write", "close"}

Planned(t) ==
    /\ t.pc \in UsesSettings \cup {"saveLoaded", "saveWrite"} => t.reg.id # NoId
    /\ t.pc \in Edits \cup {"idle"} => t.todo = <<>>
    /\ \A i \in 1..Len(t.todo) :
          /\ t.todo[i] \in Routine
          /\ t.todo[i] \in UsesSettings =>
                \/ t.reg.id # NoId \/ t.pc \in {"get", "load"}
                \/ \E j \in 1..i - 1 : t.todo[j] = "get"
          /\ t.todo[i] \in Edits =>
                i = Len(t.todo) /\ (IF i = 1 THEN t.pc \in Listing ELSE t.todo[i - 1] = "devices")

PlanInv == \A th \in Threads : Planned(threads[th])

EditInv ==
    /\ edit = Empty \/ edit.id # NoId
    /\ \A th \in Threads : threads[th].pc = "saveForm" => edit.id # NoId

\* A machine id that the file, a cache, the form or a thread holds, or that was returned.
Held(i) ==
    \/ i \in known \/ edit.id = i \/ LoadedId(settingsFile) = i
    \/ \E p \in Processes : cache[p].id = i
    \/ \E th \in Threads : threads[th].reg.id = i

\* There is only one, and it is in the file or on its way there.
IdInv ==
    ~idsRaced =>
        /\ \A i, j \in 1..MaxIds : Held(i) /\ Held(j) => i = j
        /\ (\E i \in 1..MaxIds : Held(i)) =>
              LoadedId(settingsFile) # NoId \/ \E th \in Threads : Saving(th)

\* Whoever has opened the list to users is going to close it.
ProtectInv ==
    devicesFile.state # "absent" /\ ~protected /\ ~failed =>
        \E th \in Threads : threads[th].pc \in {"read", "readClose", "trunc", "write", "close"}

\* A thread has a list to write, or one that is stale: then trouble is inevitable.
Pending(th) == threads[th].pc \in {"saveOpen", "trunc", "write"}
Doomed == \E th \in Threads : Pending(th) /\ threads[th].stale

\* The list that a thread works on is the one of the file, until another is written;
\* the list to be written, of the one thread that has one, is the expected one.
FileInv ==
    /\ devicesFile.state = "absent" =>
          devicesFile.devs = {} /\ \A th \in Threads : ~threads[th].stale
    /\ devicesFile.state = "bad" => \E th \in Threads : Writing(th)
    /\ \A th, u \in Threads : Writing(th) /\ Writing(u) => th = u
    /\ \A th \in Threads : Writing(th) => ~threads[th].stale
ListInv ==
    \A th \in Threads :
        LET t == threads[th] IN
        /\ ~t.stale /\ (t.pc \in Edits \cup {"readClose"} \/ (t.pc = "close" /\ t.todo # <<>>)) =>
              t.devs = devicesFile.devs
        /\ Pending(th) /\ t.todo # <<>> => t.devs = t.out
        /\ t.pc = "readClose" /\ ~t.ok => t.devs = {}
ExpectedInv ==
    ~Doomed =>
        /\ (\A th \in Threads : ~Pending(th)) => expected = devicesFile.devs
        /\ \A th \in Threads :
              Pending(th) /\ (\A u \in Threads \ {th} : ~Pending(u)) => expected = threads[th].out
KeptInv == ~trouble => FileInv /\ ListInv /\ ExpectedInv

-----------------------------------------------------------------------------
\* The routines of an operation

LEMMA Popped ==
    ASSUME NEW S, NEW st \in Seq(S), st # <<>>
    PROVE  /\ Head(st) = st[1] /\ Head(st) \in S /\ Tail(st) \in Seq(S)
           /\ Len(Tail(st)) = Len(st) - 1 /\ Len(st) \in Nat \ {0}
           /\ \A i \in 1..Len(st) - 1 : Tail(st)[i] = st[i + 1]
  OBVIOUS

LEMMA Pushed ==
    ASSUME NEW S, NEW x \in S, NEW st \in Seq(S)
    PROVE  /\ <<x>> \o st \in Seq(S) /\ Len(<<x>> \o st) = Len(st) + 1 /\ Len(st) \in Nat
           /\ (<<x>> \o st)[1] = x
           /\ \A i \in 2..Len(st) + 1 : (<<x>> \o st)[i] = st[i - 1]
  OBVIOUS

LEMMA NewThreads ==
    /\ NewThread \in ThreadStates /\ Planned(NewThread)
    /\ NewThread.pc = "idle" /\ NewThread.reg.id = NoId /\ NewThread.todo = <<>>
    /\ ~NewThread.stale
  <1>1. (CHOOSE p \in Phones : TRUE) \in Phones
    BY SettingsAssumption
  <1>2. Empty \in SettingsValue /\ Empty.id = NoId
    BY SettingsAssumption DEF Empty, SettingsValue, NoId
  <1>3. <<>> \in Seq(Labels) /\ Len(<<>>) = 0
    OBVIOUS
  <1>4. NewThread \in ThreadStates
    BY <1>1, <1>2, <1>3 DEF NewThread, ThreadStates, Labels
  <1>5. /\ NewThread.pc = "idle" /\ NewThread.reg.id = NoId /\ NewThread.todo = <<>>
        /\ ~NewThread.stale
    BY <1>2 DEF NewThread
  <1>6. Planned(NewThread)
    BY <1>3, <1>5 DEF Planned, UsesSettings
  <1> QED
    BY <1>4, <1>5, <1>6

\* A thread begins the next routine with the variables it has, or is idle again.
Continues(t, rec) ==
    \/ t = NewThread /\ rec.todo = <<>>
    \/ /\ rec.todo # <<>> /\ t.pc = Head(rec.todo) /\ t.pc \in Routine /\ t.todo = Tail(rec.todo)
       /\ t.reg = rec.reg /\ t.devs = rec.devs /\ t.out = rec.out /\ (t.stale <=> rec.stale)
       /\ t.pc \in Edits => rec.pc \in Listing

LEMMA Continued ==
    ASSUME NEW rec \in ThreadStates, Planned(rec),
           rec.pc \in {"get", "load"} => rec.reg.id # NoId
    PROVE  LET t == IF rec.todo = <<>> THEN NewThread
                    ELSE [rec EXCEPT !.pc = Head(rec.todo), !.todo = Tail(@)]
           IN  t \in ThreadStates /\ Planned(t) /\ Continues(t, rec)
  <1> DEFINE t == [rec EXCEPT !.pc = Head(rec.todo), !.todo = Tail(@)]
             td == rec.todo
  <1>1. CASE td = <<>>
    BY <1>1, NewThreads DEF Continues
  <1>2. CASE td # <<>>
    <2>0. td \in Seq(Labels)
      BY DEF ThreadStates
    <2>1. /\ Head(td) = td[1] /\ Tail(td) \in Seq(Labels) /\ Len(td) \in Nat \ {0}
          /\ Len(Tail(td)) = Len(td) - 1
          /\ \A i \in 1..Len(td) - 1 : Tail(td)[i] = td[i + 1]
      BY <1>2, <2>0, Popped
    <2>2. 1 \in 1..Len(td) /\ td[1] \in Routine
      BY <2>1 DEF Planned
    <2>3. /\ t.pc = td[1] /\ t.todo = Tail(td) /\ t.reg = rec.reg /\ t.devs = rec.devs
          /\ t.out = rec.out /\ (t.stale <=> rec.stale)
      BY <2>1 DEF ThreadStates
    <2>4. t \in ThreadStates
      BY <2>1, <2>2 DEF ThreadStates, Routine, Labels, Saves
    <2>5. \A i \in 1..Len(td) :
            /\ td[i] \in Routine
            /\ td[i] \in UsesSettings =>
                  rec.reg.id # NoId \/ \E j \in 1..i - 1 : td[j] = "get"
            /\ td[i] \in Edits =>
                  i = Len(td) /\ (IF i = 1 THEN rec.pc \in Listing ELSE td[i - 1] = "devices")
      BY DEF Planned
    <2> HIDE DEF t, td
    <2>6. /\ t.pc \in UsesSettings => t.reg.id # NoId
          /\ t.pc \in Edits => rec.pc \in Listing /\ Len(td) = 1
          /\ t.pc \notin {"saveLoaded", "saveWrite", "idle"}
      <3>1. /\ td[1] \in UsesSettings =>
                  rec.reg.id # NoId \/ \E j \in 1..1 - 1 : td[j] = "get"
            /\ td[1] \in Edits => 1 = Len(td) /\ rec.pc \in Listing
        BY <2>2, <2>5
      <3>2. \A j \in 1..1 - 1 : FALSE
        OBVIOUS
      <3> QED
        BY <2>2, <2>3, <3>1, <3>2 DEF Routine
    <2>7. ASSUME NEW i \in 1..Len(Tail(td))
          PROVE  /\ t.todo[i] \in Routine
                 /\ t.todo[i] \in UsesSettings =>
                      \/ t.reg.id # NoId \/ t.pc \in {"get", "load"}
                      \/ \E j \in 1..i - 1 : t.todo[j] = "get"
                 /\ t.todo[i] \in Edits =>
                      i = Len(t.todo) /\ (IF i = 1 THEN t.pc \in Listing
                                                   ELSE t.todo[i - 1] = "devices")
      <3>1. i \in 1..Len(td) - 1 /\ i + 1 \in 1..Len(td) /\ t.todo[i] = td[i + 1]
        BY <2>1, <2>3, <2>7
      <3>2. t.todo[i] \in Routine
        BY <2>5, <3>1
      <3>3. ASSUME t.todo[i] \in UsesSettings, t.reg.id = NoId, t.pc # "get"
            PROVE  \E j \in 1..i - 1 : t.todo[j] = "get"
        <4>1. PICK j \in 1..(i + 1) - 1 : td[j] = "get"
          BY <2>3, <2>5, <3>1, <3>3
        <4>2. j # 1
          BY <2>3, <3>3, <4>1
        <4>3. j - 1 \in 1..i - 1 /\ j - 1 \in 1..Len(td) - 1 /\ (j - 1) + 1 = j
          BY <2>1, <3>1, <4>1, <4>2
        <4>4. t.todo[j - 1] = td[j]
          BY <2>1, <2>3, <4>3
        <4> QED
          BY <4>1, <4>3, <4>4
      <3>4. ASSUME t.todo[i] \in Edits
            PROVE  i = Len(t.todo) /\ (IF i = 1 THEN t.pc \in Listing
                                                ELSE t.todo[i - 1] = "devices")
        <4>0. (i + 1) - 1 = i /\ i + 1 # 1 /\ i \in Int
          BY <2>1, <3>1
        <4>1. i + 1 = Len(td) /\ td[i] = "devices"
          <5> DEFINE k == i + 1
          <5>1. k \in 1..Len(td) /\ td[k] \in Edits /\ k # 1 /\ k - 1 = i
            BY <3>1, <3>4, <4>0
          <5> HIDE DEF k
          <5>2. k = Len(td) /\ td[k - 1] = "devices"
            BY <2>5, <5>1
          <5> QED
            BY <5>1, <5>2 DEF k
        <4>2. i = Len(t.todo)
          BY <2>1, <2>3, <4>0, <4>1
        <4>3. CASE i = 1
          BY <2>3, <4>1, <4>2, <4>3 DEF Listing
        <4>4. CASE i # 1
          <5>1. i - 1 \in 1..Len(td) - 1 /\ (i - 1) + 1 = i
            BY <2>1, <3>1, <4>4
          <5>2. t.todo[i - 1] = td[i]
            BY <2>1, <2>3, <5>1
          <5> QED
            BY <4>1, <4>2, <4>4, <5>2
        <4> QED
          BY <4>3, <4>4
      <3> QED
        BY <3>2, <3>3, <3>4
    <2>8. t.pc \in Edits => t.todo = <<>>
      <3>1. t.pc \in Edits => Len(Tail(td)) = 0
        BY <2>1, <2>6
      <3> QED
        BY <2>1, <2>3, <3>1
    <2>9. Planned(t)
      BY <2>3, <2>6, <2>7, <2>8 DEF Planned
    <2>10. Continues(t, rec)
      BY <1>2, <2>1, <2>2, <2>3, <2>6 DEF Continues, td
    <2> QED
      BY <1>2, <2>4, <2>9, <2>10 DEF t, td
  <1> QED
    BY <1>1, <1>2

LEMMA Continuing ==
    ASSUME NEW rec, NEW t, Continues(t, rec), rec.pc \notin Listing
    PROVE  /\ t.reg = rec.reg \/ t.reg.id = NoId
           /\ t.pc \in Routine \cup {"idle"} /\ t.pc \notin Edits
           /\ t.stale => rec.stale
  <1>1. CASE t = NewThread
    BY <1>1, NewThreads DEF Edits
  <1>2. CASE t # NewThread
    BY <1>2 DEF Continues
  <1> QED
    BY <1>1, <1>2

\* One thread takes a step.
Moves(th) ==
    /\ threads' \in [Threads -> ThreadStates] /\ PlanInv'
    /\ \A u \in Threads \ {th} : threads'[u] = threads[u]

LEMMA Goes ==
    ASSUME threads \in [Threads -> ThreadStates], PlanInv, NEW th \in Threads,
           NEW t \in ThreadStates, Planned(t), threads' = [threads EXCEPT ![th] = t]
    PROVE  Moves(th) /\ threads'[th] = t
  <1>1. /\ threads' \in [Threads -> ThreadStates] /\ threads'[th] = t
        /\ \A u \in Threads \ {th} : threads'[u] = threads[u]
    OBVIOUS
  <1>2. ASSUME NEW u \in Threads PROVE Planned(threads'[u])
    BY <1>1 DEF PlanInv
  <1>3. PlanInv'
    BY <1>2 DEF PlanInv, Planned
  <1> QED
    BY <1>1, <1>3 DEF Moves

LEMMA Returns ==
    ASSUME threads \in [Threads -> ThreadStates], PlanInv, NEW th \in Threads,
           NEW rec \in ThreadStates, Planned(rec), Return(th, rec),
           rec.pc \in {"get", "load"} => rec.reg.id # NoId
    PROVE  Moves(th) /\ Continues(threads'[th], rec)
  <1> DEFINE t == IF rec.todo = <<>> THEN NewThread
                  ELSE [rec EXCEPT !.pc = Head(rec.todo), !.todo = Tail(@)]
  <1>1. t \in ThreadStates /\ Planned(t) /\ Continues(t, rec)
    BY Continued
  <1>2. threads' = [threads EXCEPT ![th] = t]
    BY DEF Return
  <1> HIDE DEF t
  <1> QED
    BY <1>1, <1>2, Goes

LEMMA PlannedStays ==
    ASSUME NEW r \in ThreadStates, NEW t \in ThreadStates, Planned(r), t.todo = r.todo,
           r.reg.id # NoId => t.reg.id # NoId,
           r.pc \in {"get", "load"} => t.pc \in {"get", "load"} \/ t.reg.id # NoId,
           r.pc \in Listing => t.pc \in Listing,
           t.pc \in UsesSettings \cup {"saveLoaded", "saveWrite"} => t.reg.id # NoId,
           t.pc \in Edits \cup {"idle"} => t.todo = <<>>
    PROVE  Planned(t)
  BY DEF Planned

-----------------------------------------------------------------------------
\* What the routines of the settings do

SettingsTypes ==
    /\ settingsFile \in SettingsFiles
    /\ cache \in [Processes -> SettingsValue]
    /\ mutex \in [Processes -> Threads \cup {NoThread}]
    /\ edit \in SettingsValue /\ ids \in 0..MaxIds /\ known \subseteq 1..MaxIds
    /\ idsRaced \in BOOLEAN

SettingsInv ==
    threads \in [Threads -> ThreadStates] /\ PlanInv /\ SettingsTypes /\ EditInv /\ IdInv

\* A thread that has nothing to do with the list, but may be about to read it.
Away == Labels \ (Edits \cup (Listing \ {"devices"}))
Quiet(th) ==
    /\ threads[th].pc \in Away \ {"devices"} /\ threads'[th].pc \in Away
    /\ threads'[th].stale => threads[th].stale

LEMMA IdsSame ==
    ASSUME IdInv, idsRaced => idsRaced',
           ~idsRaced' => \A i \in 1..MaxIds : Held(i)' => Held(i),
           ~idsRaced' => \/ LoadedId(settingsFile)' # NoId
                         \/ \E u \in Threads : Saving(u)'
                         \/ LoadedId(settingsFile) = NoId /\ \A u \in Threads : ~Saving(u)
    PROVE  IdInv'
  <1> SUFFICES ASSUME ~idsRaced'
               PROVE  /\ \A i, j \in 1..MaxIds : Held(i)' /\ Held(j)' => i = j
                      /\ (\E i \in 1..MaxIds : Held(i)') =>
                            LoadedId(settingsFile)' # NoId \/ \E th \in Threads : Saving(th)'
    BY DEF IdInv
  <1> QED
    BY DEF IdInv

LEMMA SettingsThread ==
    ASSUME SettingsInv, NEW th \in Threads
    PROVE  /\ threads \in [Threads -> ThreadStates] /\ threads[th] \in ThreadStates
           /\ PlanInv /\ Planned(threads[th])
           /\ ProcessOf[th] \in Processes /\ Cached(th) \in SettingsValue
           /\ Cached(th) = cache[ProcessOf[th]]
           /\ threads[th].reg \in SettingsValue
           /\ SettingsTypes /\ EditInv /\ IdInv
  BY DEF SettingsInv, SettingsTypes, PlanInv, Processes, Cached, ThreadStates

LEMMA GetKeeps ==
    ASSUME SettingsInv, NEW th \in Threads, Get(th)
    PROVE  Moves(th) /\ SettingsTypes' /\ EditInv' /\ IdInv' /\ Quiet(th)
  <1>0. /\ threads \in [Threads -> ThreadStates] /\ threads[th] \in ThreadStates
        /\ PlanInv /\ Planned(threads[th])
        /\ ProcessOf[th] \in Processes /\ Cached(th) \in SettingsValue
        /\ Cached(th) = cache[ProcessOf[th]]
        /\ SettingsTypes /\ EditInv /\ IdInv /\ threads[th].pc = "get"
        /\ UNCHANGED <<settingsFile, cache, edit, ids, idsRaced>>
    BY SettingsThread DEF Get
  <1>1. CASE Cached(th).id # NoId
    <2> DEFINE rec == [threads[th] EXCEPT !.reg = Cached(th)]
    <2>1. /\ rec \in ThreadStates /\ rec.pc = "get" /\ rec.todo = threads[th].todo
          /\ rec.reg = Cached(th) /\ (rec.stale <=> threads[th].stale)
      BY <1>0 DEF ThreadStates
    <2>2. Return(th, rec) /\ known' = known \cup {Cached(th).id} /\ mutex' = mutex
      BY <1>1 DEF Get
    <2> HIDE DEF rec
    <2>3. Planned(rec)
      BY <1>0, <1>1, <2>1, PlannedStays DEF UsesSettings, Edits, Listing
    <2>4. Moves(th) /\ Continues(threads'[th], rec)
      BY <1>0, <1>1, <2>1, <2>2, <2>3, Returns
    <2>5. /\ threads'[th].reg = Cached(th) \/ threads'[th].reg.id = NoId
          /\ threads'[th].pc \in Routine \cup {"idle"} /\ threads'[th].pc \notin Edits
          /\ threads'[th].stale => threads[th].stale
      <3>1. rec.pc \notin Listing
        BY <2>1 DEF Listing
      <3> QED
        BY <2>1, <2>4, <3>1, Continuing
    <2>6. SettingsTypes'
      <3>1. Cached(th).id \in 1..MaxIds
        BY <1>0, <1>1 DEF SettingsValue, NoId
      <3> QED
        BY <1>0, <2>2, <3>1 DEF SettingsTypes
    <2>7. EditInv'
      BY <1>0, <2>4, <2>5 DEF EditInv, Moves, Routine
    <2>8. IdInv'
      <3>1. \A i \in 1..MaxIds : Held(i)' => Held(i)
        BY <1>0, <2>2, <2>4, <2>5 DEF Held, Moves, NoId
      <3>2. \A u \in Threads : Saving(u) => Saving(u)'
        BY <1>0, <2>4 DEF Saving, Moves
      <3> QED
        BY <1>0, <3>1, <3>2, IdsSame
    <2>9. Quiet(th)
      BY <1>0, <2>5 DEF Quiet, Away, Labels, Routine, Edits, Listing, Saves
    <2> QED
      BY <2>4, <2>6, <2>7, <2>8, <2>9
  <1>2. CASE Cached(th).id = NoId
    <2> DEFINE t == [threads[th] EXCEPT !.pc = "load"]
    <2>1. /\ t \in ThreadStates /\ t.pc = "load" /\ t.todo = threads[th].todo
          /\ t.reg = threads[th].reg /\ t.stale = threads[th].stale
      BY <1>0 DEF ThreadStates, Labels
    <2>2. /\ threads' = [threads EXCEPT ![th] = t] /\ known' = known
          /\ mutex' = [mutex EXCEPT ![ProcessOf[th]] = th]
      BY <1>0, <1>2 DEF Get, Goto, Acquire
    <2> HIDE DEF t
    <2>3. Planned(t)
      BY <1>0, <2>1, PlannedStays DEF UsesSettings, Edits, Listing
    <2>4. Moves(th) /\ threads'[th] = t
      BY <1>0, <2>1, <2>2, <2>3, Goes
    <2>5. SettingsTypes'
      BY <1>0, <2>2 DEF SettingsTypes
    <2>6. EditInv'
      BY <1>0, <2>1, <2>4 DEF EditInv, Moves
    <2>7. IdInv'
      <3>1. \A i \in 1..MaxIds : Held(i)' => Held(i)
        BY <1>0, <2>1, <2>2, <2>4 DEF Held, Moves
      <3>2. \A u \in Threads : Saving(u) => Saving(u)'
        BY <1>0, <2>4 DEF Saving, Moves
      <3> QED
        BY <1>0, <3>1, <3>2, IdsSame
    <2>8. Quiet(th)
      BY <1>0, <2>1, <2>4 DEF Quiet, Away, Labels, Edits, Listing
    <2> QED
      BY <2>4, <2>5, <2>6, <2>7, <2>8
  <1> QED
    BY <1>1, <1>2

\* The routine of a thread that is away from the list is over.
LEMMA AwayReturns ==
    ASSUME SettingsInv, NEW th \in Threads, NEW rec \in ThreadStates, Planned(rec),
           Return(th, rec), rec.pc \in {"get", "load"} => rec.reg.id # NoId,
           rec.pc = threads[th].pc, rec.stale => threads[th].stale,
           threads[th].pc \notin Listing \cup Edits
    PROVE  /\ Moves(th) /\ Quiet(th)
           /\ threads'[th].reg = rec.reg \/ threads'[th].reg.id = NoId
           /\ threads'[th].pc \notin {"saveForm", "saveLoaded", "saveWrite"}
  <1>0. threads \in [Threads -> ThreadStates] /\ threads[th] \in ThreadStates /\ PlanInv
    BY SettingsThread
  <1>1. Moves(th) /\ Continues(threads'[th], rec)
    BY <1>0, Returns
  <1>2. /\ threads'[th].reg = rec.reg \/ threads'[th].reg.id = NoId
        /\ threads'[th].pc \in Routine \cup {"idle"} /\ threads'[th].pc \notin Edits
        /\ threads'[th].stale => rec.stale
    BY <1>1, Continuing
  <1>3. threads[th].pc \in Labels
    BY <1>0 DEF ThreadStates
  <1>4. Quiet(th)
    BY <1>2, <1>3 DEF Quiet, Away, Labels, Routine, Edits, Listing, Saves
  <1> QED
    BY <1>1, <1>2, <1>4 DEF Routine

LEMMA RelockKeeps ==
    ASSUME SettingsInv, NEW th \in Threads, Relock(th)
    PROVE  Moves(th) /\ SettingsTypes' /\ EditInv' /\ IdInv' /\ Quiet(th)
  <1> DEFINE rec == threads[th]
  <1>0. /\ threads \in [Threads -> ThreadStates] /\ rec \in ThreadStates /\ Planned(rec)
        /\ ProcessOf[th] \in Processes /\ rec.reg \in SettingsValue
        /\ SettingsTypes /\ EditInv /\ IdInv /\ rec.pc = "relock"
        /\ UNCHANGED <<settingsFile, mutex, edit, ids, idsRaced>>
        /\ cache' = [cache EXCEPT ![ProcessOf[th]] = rec.reg]
        /\ known' = known \cup {rec.reg.id} /\ Return(th, rec)
    BY SettingsThread DEF Relock, SetCache
  <1>1. /\ Moves(th) /\ Quiet(th)
        /\ threads'[th].reg = rec.reg \/ threads'[th].reg.id = NoId
        /\ threads'[th].pc \notin {"saveForm", "saveLoaded", "saveWrite"}
    BY <1>0, AwayReturns DEF Listing, Edits
  <1>2. rec.reg.id \in 1..MaxIds
    BY <1>0 DEF Planned, UsesSettings, SettingsValue, NoId
  <1>3. /\ cache' \in [Processes -> SettingsValue]
        /\ \A p \in Processes : cache'[p] = rec.reg \/ cache'[p] = cache[p]
    BY <1>0 DEF SettingsTypes
  <1>4. SettingsTypes'
    BY <1>0, <1>2, <1>3 DEF SettingsTypes
  <1>5. EditInv'
    BY <1>0, <1>1 DEF EditInv, Moves
  <1>6. IdInv'
    <2>1. \A i \in 1..MaxIds : Held(i)' => Held(i)
      BY <1>0, <1>1, <1>3 DEF Held, Moves, NoId
    <2>2. \A u \in Threads : Saving(u) => Saving(u)'
      BY <1>0, <1>1 DEF Saving, Moves
    <2> QED
      BY <1>0, <2>1, <2>2, IdsSame
  <1> QED
    BY <1>1, <1>4, <1>5, <1>6

LEMMA DropKeeps ==
    ASSUME SettingsInv, NEW th \in Threads, InvalidateCache(th)
    PROVE  Moves(th) /\ SettingsTypes' /\ EditInv' /\ IdInv' /\ Quiet(th)
  <1> DEFINE rec == threads[th]
  <1>0. /\ threads \in [Threads -> ThreadStates] /\ rec \in ThreadStates /\ Planned(rec)
        /\ ProcessOf[th] \in Processes
        /\ SettingsTypes /\ EditInv /\ IdInv /\ rec.pc = "drop"
        /\ UNCHANGED <<settingsFile, mutex, edit, ids, known, idsRaced>>
        /\ cache' = [cache EXCEPT ![ProcessOf[th]] = Empty] /\ Return(th, rec)
    BY SettingsThread DEF InvalidateCache, SetCache
  <1>1. /\ Moves(th) /\ Quiet(th)
        /\ threads'[th].reg = rec.reg \/ threads'[th].reg.id = NoId
        /\ threads'[th].pc \notin {"saveForm", "saveLoaded", "saveWrite"}
    BY <1>0, AwayReturns DEF Listing, Edits
  <1>2. Empty \in SettingsValue /\ Empty.id = NoId
    BY SettingsAssumption DEF Empty, SettingsValue, NoId
  <1>3. /\ cache' \in [Processes -> SettingsValue]
        /\ \A p \in Processes : cache'[p].id = NoId \/ cache'[p] = cache[p]
    BY <1>0, <1>2 DEF SettingsTypes
  <1>4. SettingsTypes'
    BY <1>0, <1>3 DEF SettingsTypes
  <1>5. EditInv'
    BY <1>0, <1>1 DEF EditInv, Moves
  <1>6. IdInv'
    <2>1. \A i \in 1..MaxIds : Held(i)' => Held(i)
      BY <1>0, <1>1, <1>3 DEF Held, Moves, NoId
    <2>2. \A u \in Threads : Saving(u) => Saving(u)'
      BY <1>0, <1>1 DEF Saving, Moves
    <2> QED
      BY <1>0, <2>1, <2>2, IdsSame
  <1> QED
    BY <1>1, <1>4, <1>5, <1>6

LEMMA ShowFormKeeps ==
    ASSUME SettingsInv, NEW th \in Threads, ShowForm(th)
    PROVE  Moves(th) /\ SettingsTypes' /\ EditInv' /\ IdInv' /\ Quiet(th)
  <1> DEFINE rec == threads[th]
  <1>0. /\ threads \in [Threads -> ThreadStates] /\ rec \in ThreadStates /\ Planned(rec)
        /\ rec.reg \in SettingsValue
        /\ SettingsTypes /\ EditInv /\ IdInv /\ rec.pc = "show"
        /\ UNCHANGED <<settingsFile, cache, mutex, ids, known, idsRaced>>
        /\ edit' = rec.reg /\ Return(th, rec)
    BY SettingsThread DEF ShowForm
  <1>1. /\ Moves(th) /\ Quiet(th)
        /\ threads'[th].reg = rec.reg \/ threads'[th].reg.id = NoId
        /\ threads'[th].pc \notin {"saveForm", "saveLoaded", "saveWrite"}
    BY <1>0, AwayReturns DEF Listing, Edits
  <1>2. rec.reg.id # NoId
    BY <1>0 DEF Planned, UsesSettings
  <1>3. SettingsTypes'
    BY <1>0 DEF SettingsTypes
  <1>4. EditInv'
    BY <1>0, <1>2 DEF EditInv
  <1>5. IdInv'
    <2>1. \A i \in 1..MaxIds : Held(i)' => Held(i)
      BY <1>0, <1>1 DEF Held, Moves, NoId
    <2>2. \A u \in Threads : Saving(u) => Saving(u)'
      BY <1>0, <1>1 DEF Saving, Moves
    <2> QED
      BY <1>0, <2>1, <2>2, IdsSame
  <1> QED
    BY <1>1, <1>3, <1>4, <1>5

LEMMA SaveTruncKeeps ==
    ASSUME SettingsInv, NEW th \in Threads, SaveTrunc(th)
    PROVE  Moves(th) /\ SettingsTypes' /\ EditInv' /\ IdInv' /\ Quiet(th)
  <1> DEFINE r == threads[th]
  <1>0. /\ threads \in [Threads -> ThreadStates] /\ r \in ThreadStates /\ Planned(r)
        /\ r.reg \in SettingsValue /\ ProcessOf[th] \in Processes /\ PlanInv
        /\ SettingsTypes /\ EditInv /\ IdInv /\ r.pc \in Saves
        /\ UNCHANGED <<cache, edit, ids, known, idsRaced>>
        /\ mutex' = [mutex EXCEPT ![ProcessOf[th]] = th]
        /\ settingsFile' = [settingsFile EXCEPT !.state = "bad"]
        /\ threads' = [threads EXCEPT ![th].reg = ToSave(th), ![th].pc = "saveWrite"]
    BY SettingsThread DEF SaveTrunc, Acquire
  <1>1. /\ ToSave(th) \in SettingsValue /\ ToSave(th).id # NoId
        /\ ToSave(th).id = r.reg.id \/ ToSave(th).id = edit.id
    <2>1. CASE r.pc = "saveForm"
      <3>1. edit \in SettingsValue /\ edit.id # NoId
        BY <1>0, <2>1 DEF SettingsTypes, EditInv
      <3>2. ToSave(th) = [id |-> edit.id, relay |-> FALSE, version |-> edit.version,
                          services |-> FALSE]
        BY <2>1 DEF ToSave, ToStorage, Empty
      <3> QED
        BY <3>1, <3>2 DEF SettingsValue
    <2>2. CASE r.pc # "saveForm"
      <3>1. r.reg.id # NoId
        BY <1>0, <2>2 DEF Planned, UsesSettings, Saves
      <3>2. \/ ToSave(th) = r.reg \/ ToSave(th) = [r.reg EXCEPT !.services = TRUE]
            \/ ToSave(th) = [r.reg EXCEPT !.version = TRUE]
        BY <1>0, <2>2 DEF ToSave, Saves
      <3> QED
        BY <1>0, <3>1, <3>2 DEF SettingsValue
    <2> QED
      BY <2>1, <2>2
  <1> DEFINE t == [r EXCEPT !.reg = ToSave(th), !.pc = "saveWrite"]
  <1>2. /\ t \in ThreadStates /\ t.pc = "saveWrite" /\ t.todo = r.todo
        /\ t.reg = ToSave(th) /\ (t.stale <=> r.stale)
    BY <1>0, <1>1 DEF ThreadStates, Labels
  <1>3. threads' = [threads EXCEPT ![th] = t]
    BY <1>0
  <1>4. r.pc \notin Listing \cup Edits \cup {"get", "load"}
    BY <1>0 DEF Saves, Listing, Edits
  <1> HIDE DEF t, r
  <1>5. Planned(t)
    BY <1>0, <1>1, <1>2, <1>4, PlannedStays DEF UsesSettings, Edits
  <1>6. Moves(th) /\ threads'[th] = t
    BY <1>0, <1>2, <1>3, <1>5, Goes
  <1>7. SettingsTypes'
    BY <1>0 DEF SettingsTypes, SettingsFiles
  <1>8. EditInv'
    BY <1>0, <1>2, <1>6 DEF EditInv, Moves
  <1>9. IdInv'
    <2>1. LoadedId(settingsFile)' = NoId
      BY <1>0 DEF LoadedId, SettingsTypes, SettingsFiles
    <2>2. \A i \in 1..MaxIds : Held(i)' => Held(i)
      BY <1>0, <1>1, <1>2, <1>6, <2>1 DEF Held, Moves, NoId, r
    <2>3. Saving(th)'
      BY <1>2, <1>6 DEF Saving
    <2> QED
      BY <1>0, <2>2, <2>3, IdsSame
  <1>10. Quiet(th)
    <2>1. r.pc \in Labels
      BY <1>0 DEF ThreadStates
    <2> QED
      BY <1>2, <1>4, <1>6, <2>1 DEF Quiet, Away, Labels, Edits, Listing, r
  <1> QED
    BY <1>6, <1>7, <1>8, <1>9, <1>10

LEMMA SaveWriteKeeps ==
    ASSUME SettingsInv, NEW th \in Threads, SaveWrite(th)
    PROVE  Moves(th) /\ SettingsTypes' /\ EditInv' /\ IdInv' /\ Quiet(th)
  <1> DEFINE rec == threads[th]
  <1>0. /\ threads \in [Threads -> ThreadStates] /\ rec \in ThreadStates /\ Planned(rec)
        /\ ProcessOf[th] \in Processes /\ rec.reg \in SettingsValue
        /\ SettingsTypes /\ EditInv /\ IdInv /\ rec.pc = "saveWrite"
        /\ UNCHANGED <<edit, ids, known>>
        /\ cache' = [cache EXCEPT ![ProcessOf[th]] = rec.reg]
        /\ mutex' = [mutex EXCEPT ![ProcessOf[th]] = NoThread] /\ Return(th, rec)
    BY SettingsThread DEF SaveWrite, SetCache, Release
  <1>1. /\ Moves(th) /\ Quiet(th)
        /\ threads'[th].reg = rec.reg \/ threads'[th].reg.id = NoId
        /\ threads'[th].pc \notin {"saveForm", "saveLoaded", "saveWrite"}
    BY <1>0, AwayReturns DEF Listing, Edits
  <1>2. rec.reg.id # NoId
    BY <1>0 DEF Planned
  <1>3. /\ cache' \in [Processes -> SettingsValue]
        /\ \A p \in Processes : cache'[p] = rec.reg \/ cache'[p] = cache[p]
        /\ mutex' \in [Processes -> Threads \cup {NoThread}]
    BY <1>0 DEF SettingsTypes
  <1>4. EditInv'
    BY <1>0, <1>1 DEF EditInv, Moves
  <1>5. CASE settingsFile' = [state |-> "whole", v |-> rec.reg] /\ UNCHANGED idsRaced
    <2>1. SettingsTypes'
      BY <1>0, <1>3, <1>5 DEF SettingsTypes, SettingsFiles
    <2>2. LoadedId(settingsFile)' = rec.reg.id
      BY <1>5 DEF LoadedId
    <2>3. \A i \in 1..MaxIds : Held(i)' => Held(i)
      BY <1>0, <1>1, <1>3, <2>2 DEF Held, Moves, NoId
    <2>4. IdInv'
      <3>1. idsRaced => idsRaced'
        BY <1>5
      <3>2. LoadedId(settingsFile)' # NoId
        BY <1>2, <2>2
      <3> QED
        BY <1>0, <2>3, <3>1, <3>2, IdsSame
    <2> QED
      BY <1>1, <1>4, <2>1, <2>4
  <1>6. CASE settingsFile' = [settingsFile EXCEPT !.state = "bad"] /\ idsRaced' = TRUE
    <2>1. settingsFile' \in SettingsFiles
      BY <1>0, <1>6 DEF SettingsTypes, SettingsFiles
    <2>2. SettingsTypes'
      BY <1>0, <1>3, <1>6, <2>1 DEF SettingsTypes
    <2>3. IdInv'
      BY <1>6 DEF IdInv
    <2> QED
      BY <1>1, <1>4, <2>2, <2>3
  <1> QED
    BY <1>5, <1>6 DEF SaveWrite

LEMMA LoadKeeps ==
    ASSUME SettingsInv, NEW th \in Threads, Load(th)
    PROVE  Moves(th) /\ SettingsTypes' /\ EditInv' /\ IdInv' /\ Quiet(th)
  <1> DEFINE r == threads[th]
             id == LoadedId(settingsFile)
  <1>0. /\ threads \in [Threads -> ThreadStates] /\ r \in ThreadStates /\ Planned(r)
        /\ ProcessOf[th] \in Processes /\ PlanInv
        /\ SettingsTypes /\ EditInv /\ IdInv /\ r.pc = "load"
        /\ settingsFile.v \in SettingsValue /\ id \in 0..MaxIds
        /\ UNCHANGED <<settingsFile, edit>>
        /\ mutex' = [mutex EXCEPT ![ProcessOf[th]] = NoThread]
    <2>1. settingsFile.v \in SettingsValue /\ id \in 0..MaxIds
      BY SettingsThread, SettingsAssumption
      DEF SettingsTypes, SettingsFiles, SettingsValue, LoadedId, NoId
    <2> QED
      BY <2>1, SettingsThread DEF Load, Release
  <1>1. CASE settingsFile.state = "whole" /\ id # NoId
    <2> DEFINE rec == [r EXCEPT !.reg = settingsFile.v]
    <2>1. /\ rec \in ThreadStates /\ rec.pc = "load" /\ rec.todo = r.todo
          /\ rec.reg = settingsFile.v /\ (rec.stale <=> r.stale)
      BY <1>0 DEF ThreadStates
    <2>2. /\ Return(th, rec) /\ cache' = [cache EXCEPT ![ProcessOf[th]] = settingsFile.v]
          /\ known' = known \cup {id} /\ UNCHANGED <<ids, idsRaced>>
      BY <1>1 DEF Load, SetCache
    <2>3. settingsFile.v.id = id /\ id \in 1..MaxIds
      BY <1>0, <1>1 DEF LoadedId, NoId
    <2> HIDE DEF rec
    <2>4. Planned(rec)
      BY <1>0, <1>1, <2>1, <2>3, PlannedStays DEF UsesSettings, Edits, Listing
    <2>5. /\ Moves(th) /\ Quiet(th)
          /\ threads'[th].reg = settingsFile.v \/ threads'[th].reg.id = NoId
          /\ threads'[th].pc \notin {"saveForm", "saveLoaded", "saveWrite"}
      BY <1>0, <1>1, <2>1, <2>2, <2>3, <2>4, AwayReturns DEF Listing, Edits
    <2>6. /\ cache' \in [Processes -> SettingsValue]
          /\ \A p \in Processes : cache'[p] = settingsFile.v \/ cache'[p] = cache[p]
      BY <1>0, <2>2 DEF SettingsTypes
    <2>7. SettingsTypes'
      BY <1>0, <2>2, <2>3, <2>6 DEF SettingsTypes
    <2>8. EditInv'
      BY <1>0, <2>5 DEF EditInv, Moves
    <2>9. IdInv'
      <3>1. \A i \in 1..MaxIds : Held(i)' => Held(i)
        BY <1>0, <2>2, <2>3, <2>5, <2>6 DEF Held, Moves, NoId
      <3>2. LoadedId(settingsFile)' # NoId
        BY <1>0, <1>1
      <3> QED
        BY <1>0, <2>2, <3>1, <3>2, IdsSame
    <2> QED
      BY <2>5, <2>7, <2>8, <2>9
  <1>2. CASE ~(settingsFile.state = "whole" /\ id # NoId)
    <2> DEFINE new == IF id = NoId THEN ids + 1 ELSE id
               made == IF settingsFile.state = "whole" THEN [settingsFile.v EXCEPT !.id = new]
                                                       ELSE Defaults(new)
               t == [r EXCEPT !.reg = made, !.pc = "saveLoaded",
                              !.todo = <<"relock">> \o @]
    <2>1. /\ id = NoId => ids < MaxIds
          /\ ids' = IF id = NoId THEN ids + 1 ELSE ids
          /\ threads' = [threads EXCEPT ![th].reg = made, ![th].pc = "saveLoaded",
                                             ![th].todo = <<"relock">> \o @]
          /\ idsRaced' = (idsRaced \/ (id = NoId /\ \E u \in Threads \ {th} : Saving(u)))
          /\ UNCHANGED <<cache, known>>
      BY <1>2 DEF Load
    <2>2. ids \in 0..MaxIds /\ MaxIds \in Nat
      BY <1>0, SettingsAssumption DEF SettingsTypes
    <2>3. new \in 1..MaxIds /\ ids' \in 0..MaxIds
      BY <1>0, <2>1, <2>2 DEF NoId
    <2> HIDE DEF new, id
    <2>4. made \in SettingsValue /\ made.id = new
      BY <1>0, <2>3, <2>2 DEF SettingsValue, Defaults
    <2> HIDE DEF made
    <2>5. threads' = [threads EXCEPT ![th] = t]
      BY <1>0, <2>1
    <2> DEFINE td == r.todo
    <2>6. td \in Seq(Labels)
      BY <1>0 DEF ThreadStates
    <2>7. /\ <<"relock">> \o td \in Seq(Labels) /\ (<<"relock">> \o td)[1] = "relock"
          /\ Len(<<"relock">> \o td) = Len(td) + 1 /\ Len(td) \in Nat
          /\ \A i \in 2..Len(td) + 1 : (<<"relock">> \o td)[i] = td[i - 1]
      <3> HIDE DEF td
      <3>1. "relock" \in Labels
        BY DEF Labels
      <3> QED
        BY <2>6, <3>1, Pushed
    <2>8. /\ t \in ThreadStates /\ t.pc = "saveLoaded" /\ t.todo = <<"relock">> \o td
          /\ t.reg = made /\ (t.stale <=> r.stale)
      BY <1>0, <2>4, <2>7 DEF ThreadStates, Labels, Saves
    <2> HIDE DEF t
    <2>9. Planned(t)
      <3>1. ASSUME NEW i \in 1..Len(t.todo)
            PROVE  /\ t.todo[i] \in Routine
                   /\ t.todo[i] \in Edits =>
                        i = Len(t.todo) /\ (IF i = 1 THEN t.pc \in Listing
                                                     ELSE t.todo[i - 1] = "devices")
        <4>1. CASE i = 1
          BY <2>7, <2>8, <4>1 DEF Routine, Edits
        <4>2. CASE i # 1
          <5> DEFINE k == i - 1
          <5>1. /\ k \in 1..Len(td) /\ t.todo[i] = td[k] /\ i = k + 1
                /\ Len(t.todo) = Len(td) + 1
            BY <2>7, <2>8, <3>1, <4>2
          <5> HIDE DEF k
          <5>2. /\ td[k] \in Routine
                /\ td[k] \in Edits =>
                     k = Len(td) /\ (IF k = 1 THEN r.pc \in Listing ELSE td[k - 1] = "devices")
            BY <1>0, <5>1 DEF Planned
          <5>3. r.pc \notin Listing
            BY <1>0 DEF Listing
          <5>4. ASSUME td[k] \in Edits
                PROVE  i = Len(t.todo) /\ t.todo[i - 1] = "devices"
            <6>1. k # 1 /\ k = Len(td) /\ td[k - 1] = "devices"
              BY <5>2, <5>3, <5>4
            <6>2. i - 1 = k /\ k \in 2..Len(td) + 1
              BY <2>7, <5>1, <6>1
            <6> QED
              BY <2>7, <2>8, <5>1, <6>1, <6>2
          <5> QED
            BY <4>2, <5>1, <5>2, <5>4
        <4> QED
          BY <4>1, <4>2
      <3>2. t.reg.id # NoId
        BY <2>3, <2>4, <2>8 DEF NoId
      <3>3. t.pc \notin Edits \cup {"idle"}
        BY <2>8 DEF Edits
      <3> QED
        BY <3>1, <3>2, <3>3 DEF Planned
    <2>10. Moves(th) /\ threads'[th] = t
      BY <1>0, <2>5, <2>8, <2>9, Goes
    <2>11. SettingsTypes'
      BY <1>0, <2>1, <2>3 DEF SettingsTypes
    <2>12. EditInv'
      BY <1>0, <2>8, <2>10 DEF EditInv, Moves
    <2>13. IdInv'
      <3>1. Saving(th)' /\ ~Saving(th) /\ LoadedId(settingsFile)' = id
        BY <1>0, <2>8, <2>10 DEF Saving, id
      <3>2. CASE id # NoId
        <4>1. new = id
          BY <3>2 DEF new
        <4>2. \A i \in 1..MaxIds : Held(i)' => Held(i)
          BY <1>0, <2>1, <2>4, <2>8, <2>10, <3>1, <4>1 DEF Held, Moves, id
        <4> QED
          BY <1>0, <2>1, <3>1, <4>2, IdsSame
      <3>3. CASE id = NoId /\ ~idsRaced'
        <4>1. ~idsRaced /\ \A u \in Threads : ~Saving(u)
          BY <2>1, <3>1, <3>3
        <4>2. \A i \in 1..MaxIds : ~Held(i)
          BY <1>0, <3>3, <4>1 DEF IdInv, id
        <4>3. \A i \in 1..MaxIds : Held(i)' => i = new
          BY <1>0, <2>1, <2>4, <2>8, <2>10, <3>1, <4>2 DEF Held, Moves
        <4> QED
          BY <3>1, <4>3 DEF IdInv
      <3>4. CASE idsRaced'
        BY <3>4 DEF IdInv
      <3> QED
        BY <3>2, <3>3, <3>4
    <2>14. Quiet(th)
      BY <1>0, <2>8, <2>10 DEF Quiet, Away, Labels, Edits, Listing, Saves
    <2> QED
      BY <2>10, <2>11, <2>12, <2>13, <2>14
  <1> QED
    BY <1>1, <1>2

-----------------------------------------------------------------------------
\* What the routines of the device list do

DevicesTypes ==
    /\ devicesFile \in Files /\ expected \subseteq Device
    /\ windows \in BOOLEAN /\ protected \in BOOLEAN /\ trouble \in BOOLEAN
    /\ failed \in BOOLEAN

DevicesInv ==
    threads \in [Threads -> ThreadStates] /\ PlanInv /\ DevicesTypes /\ ProtectInv /\ KeptInv

\* A thread that has nothing to write before or after its step.
LEMMA Looks ==
    ASSUME FileInv, ListInv, ExpectedInv, UNCHANGED <<devicesFile, expected>>,
           NEW th \in Threads, Moves(th), ~Pending(th), ~Pending(th)',
           LET t == threads'[th] IN
           /\ t.stale => threads[th].stale
           /\ ~t.stale /\ (t.pc \in Edits \cup {"readClose"} \/ (t.pc = "close" /\ t.todo # <<>>)) =>
                 t.devs = devicesFile.devs
           /\ t.pc = "readClose" /\ ~t.ok => t.devs = {}
    PROVE  FileInv' /\ ListInv' /\ ExpectedInv'
  <1>1. \A u \in Threads : (Pending(u)' <=> Pending(u)) /\ (Writing(u)' <=> Writing(u))
    BY DEF Moves, Pending, Writing
  <1>2. FileInv'
    BY <1>1 DEF FileInv, Moves
  <1>3. ListInv'
    <2> SUFFICES ASSUME NEW u \in Threads
                 PROVE  LET t == threads'[u] IN
                   /\ ~t.stale /\ (t.pc \in Edits \cup {"readClose"} \/ (t.pc = "close" /\ t.todo # <<>>)) =>
                         t.devs = devicesFile.devs
                   /\ Pending(u)' /\ t.todo # <<>> => t.devs = t.out
                   /\ t.pc = "readClose" /\ ~t.ok => t.devs = {}
      BY DEF ListInv, Pending
    <2>1. CASE u = th
      BY <2>1
    <2>2. CASE u # th
      BY <1>1, <2>2 DEF ListInv, Moves
    <2> QED
      BY <2>1, <2>2
  <1>4. Doomed' <=> Doomed
    BY <1>1 DEF Doomed, Moves
  <1>5. ExpectedInv'
    BY <1>1, <1>4 DEF ExpectedInv, Moves
  <1> QED
    BY <1>2, <1>3, <1>5

\* A thread that has got a list to write.
LEMMA Fills ==
    ASSUME FileInv, ListInv, ExpectedInv, UNCHANGED devicesFile,
           NEW th \in Threads, Moves(th), ~Pending(th), threads'[th].pc = "saveOpen",
           threads'[th].stale <=> threads[th].stale,
           threads'[th].todo # <<>> => threads'[th].devs = threads'[th].out,
           ~threads[th].stale /\ expected = devicesFile.devs => expected' = threads'[th].out
    PROVE  FileInv' /\ ListInv' /\ ExpectedInv'
  <1>1. /\ \A u \in Threads \ {th} : Pending(u)' <=> Pending(u)
        /\ \A u \in Threads : Writing(u)' <=> Writing(u)
        /\ Pending(th)' /\ \A u \in Threads \ {th} : threads'[u] = threads[u]
    BY DEF Moves, Pending, Writing
  <1>2. FileInv'
    BY <1>1 DEF FileInv, Moves
  <1>3. ListInv'
    <2> SUFFICES ASSUME NEW u \in Threads
                 PROVE  LET t == threads'[u] IN
                   /\ ~t.stale /\ (t.pc \in Edits \cup {"readClose"} \/ (t.pc = "close" /\ t.todo # <<>>)) =>
                         t.devs = devicesFile.devs
                   /\ Pending(u)' /\ t.todo # <<>> => t.devs = t.out
                   /\ t.pc = "readClose" /\ ~t.ok => t.devs = {}
      BY DEF ListInv, Pending
    <2>1. CASE u = th
      BY <2>1 DEF Edits
    <2>2. CASE u # th
      BY <1>1, <2>2 DEF ListInv
    <2> QED
      BY <2>1, <2>2
  <1>4. ExpectedInv'
    <2> SUFFICES ASSUME ~Doomed', NEW u \in Threads, Pending(u)',
                        \A w \in Threads \ {u} : ~Pending(w)'
                 PROVE  expected' = threads'[u].out
      BY <1>1 DEF ExpectedInv
    <2>1. u = th /\ ~threads[th].stale
      BY <1>1 DEF Doomed
    <2>2. \A w \in Threads : ~Pending(w)
      BY <1>1, <2>1
    <2>3. expected = devicesFile.devs
      BY <2>2 DEF ExpectedInv, Doomed
    <2> QED
      BY <2>1, <2>3
  <1> QED
    BY <1>2, <1>3, <1>4

\* A thread that goes on to write its list.
LEMMA Prepares ==
    ASSUME FileInv, ListInv, ExpectedInv, UNCHANGED expected, devicesFile'.devs = devicesFile.devs,
           NEW th \in Threads, Moves(th), Pending(th), Pending(th)',
           LET t == threads'[th] IN
           /\ t.stale <=> threads[th].stale
           /\ t.devs = threads[th].devs /\ t.out = threads[th].out /\ t.todo = threads[th].todo,
           \/ UNCHANGED devicesFile /\ (Writing(th) <=> Writing(th)')
           \/ /\ devicesFile'.state = "bad" /\ Writing(th)' /\ ~threads[th].stale
              /\ \A u \in Threads \ {th} : ~Writing(u)
    PROVE  FileInv' /\ ListInv' /\ ExpectedInv'
  <1>1. /\ \A u \in Threads : Pending(u)' <=> Pending(u)
        /\ \A u \in Threads \ {th} : Writing(u)' <=> Writing(u)
        /\ \A u \in Threads \ {th} : threads'[u] = threads[u]
        /\ \A u \in Threads : (threads'[u].stale <=> threads[u].stale) /\ threads'[u].out = threads[u].out
    BY DEF Moves, Pending, Writing
  <1>2. FileInv'
    <2>1. CASE UNCHANGED devicesFile /\ (Writing(th) <=> Writing(th)')
      BY <1>1, <2>1 DEF FileInv
    <2>2. CASE /\ devicesFile'.state = "bad" /\ Writing(th)' /\ ~threads[th].stale
               /\ \A u \in Threads \ {th} : ~Writing(u)
      BY <1>1, <2>2 DEF FileInv
    <2> QED
      BY <2>1, <2>2
  <1>3. ListInv'
    <2> SUFFICES ASSUME NEW u \in Threads
                 PROVE  LET t == threads'[u] IN
                   /\ ~t.stale /\ (t.pc \in Edits \cup {"readClose"} \/ (t.pc = "close" /\ t.todo # <<>>)) =>
                         t.devs = devicesFile.devs
                   /\ Pending(u)' /\ t.todo # <<>> => t.devs = t.out
                   /\ t.pc = "readClose" /\ ~t.ok => t.devs = {}
      BY DEF ListInv, Pending
    <2>1. CASE u = th
      BY <2>1 DEF ListInv, Edits, Pending
    <2>2. CASE u # th
      BY <1>1, <2>2 DEF ListInv
    <2> QED
      BY <2>1, <2>2
  <1>4. Doomed' <=> Doomed
    BY <1>1 DEF Doomed
  <1>5. ExpectedInv'
    <2>1. CASE Doomed
      BY <1>4, <2>1 DEF ExpectedInv
    <2>2. CASE ~Doomed
      BY <1>1, <1>4, <2>2 DEF ExpectedInv
    <2> QED
      BY <2>1, <2>2
  <1> QED
    BY <1>2, <1>3, <1>5

\* A step of the list leaves the settings of its thread, or ends the operation.
Calm ==
    /\ threads' \in [Threads -> ThreadStates] /\ PlanInv'
    /\ \A u \in Threads :
          /\ threads'[u].reg = threads[u].reg \/ threads'[u].reg.id = NoId
          /\ Saving(u)' <=> Saving(u)
          /\ threads'[u].pc = "saveForm" => threads[u].pc = "saveForm"

ListKept == DevicesTypes' /\ ProtectInv' /\ KeptInv'

Opened == {"read", "readClose", "trunc", "write", "close"}

LEMMA CalmStep ==
    ASSUME NEW th \in Threads, Moves(th),
           threads'[th].reg = threads[th].reg \/ threads'[th].reg.id = NoId,
           threads[th].pc \notin {"saveLoaded", "saveWrite"},
           threads'[th].pc \notin {"saveLoaded", "saveWrite", "saveForm"}
    PROVE  Calm
  BY DEF Calm, Moves, Saving

LEMMA GoesOn ==
    ASSUME threads \in [Threads -> ThreadStates], PlanInv, NEW th \in Threads,
           NEW t \in ThreadStates, threads' = [threads EXCEPT ![th] = t],
           t.todo = threads[th].todo, t.reg = threads[th].reg,
           threads[th].pc \in Listing \cup Edits, t.pc \in Listing
    PROVE  Moves(th) /\ threads'[th] = t /\ Calm
  <1>1. threads[th] \in ThreadStates /\ Planned(threads[th])
    BY DEF PlanInv
  <1>2. Planned(t)
    BY <1>1, PlannedStays DEF Listing, Edits, UsesSettings
  <1>3. Moves(th) /\ threads'[th] = t
    BY <1>2, Goes
  <1>4. /\ threads[th].pc \notin {"saveLoaded", "saveWrite"}
        /\ t.pc \notin {"saveLoaded", "saveWrite", "saveForm"}
    BY DEF Listing, Edits
  <1> QED
    BY <1>3, <1>4, CalmStep

LEMMA ListReturns ==
    ASSUME threads \in [Threads -> ThreadStates], PlanInv, NEW th \in Threads,
           NEW rec \in ThreadStates, Return(th, rec), rec.todo = threads[th].todo,
           rec.pc = threads[th].pc, rec.reg = threads[th].reg, rec.pc \in Listing,
           rec.stale => threads[th].stale
    PROVE  LET t == threads'[th] IN
           /\ Moves(th) /\ Calm /\ t.pc \in Routine \cup {"idle"}
           /\ t.stale => threads[th].stale
           /\ ~t.stale /\ t.pc \in Edits => ~rec.stale /\ rec.todo # <<>> /\ t.devs = rec.devs
  <1>1. threads[th] \in ThreadStates /\ Planned(threads[th])
    BY DEF PlanInv
  <1>2. Planned(rec)
    BY <1>1, PlannedStays DEF Listing, Edits, UsesSettings
  <1>3. rec.pc \notin {"get", "load", "saveLoaded", "saveWrite"}
    BY DEF Listing
  <1>4. Moves(th) /\ Continues(threads'[th], rec)
    BY <1>2, <1>3, Returns
  <1> DEFINE t == threads'[th]
  <1>5. /\ t.pc \in Routine \cup {"idle"} /\ (t.stale => rec.stale)
        /\ t.reg = rec.reg \/ t.reg.id = NoId
        /\ ~t.stale /\ t.pc \in Edits => ~rec.stale /\ rec.todo # <<>> /\ t.devs = rec.devs
    <2>1. CASE t = NewThread
      BY <2>1, NewThreads DEF Edits
    <2>2. CASE t # NewThread
      BY <1>4, <2>2 DEF Continues
    <2> QED
      BY <2>1, <2>2
  <1>6. Calm
    BY <1>3, <1>4, <1>5, CalmStep DEF Routine
  <1> QED
    BY <1>4, <1>5, <1>6

LEMMA ListThread ==
    ASSUME DevicesInv, NEW th \in Threads
    PROVE  /\ threads \in [Threads -> ThreadStates] /\ threads[th] \in ThreadStates
           /\ PlanInv /\ Planned(threads[th]) /\ DevicesTypes /\ ProtectInv /\ KeptInv
           /\ devicesFile.devs \in SUBSET Device
  BY DEF DevicesInv, PlanInv, DevicesTypes, Files

\* The list stays as it was, and whoever has opened it keeps it open.
LEMMA Protects ==
    ASSUME ProtectInv, DevicesTypes, NEW th \in Threads, Moves(th), failed => failed',
           ~failed' => \/ devicesFile'.state = "absent" \/ protected'
                       \/ threads'[th].pc \in Opened
                       \/ UNCHANGED <<devicesFile, protected>> /\ threads[th].pc \notin Opened
    PROVE  ProtectInv'
  BY DEF ProtectInv, Moves, Opened

\* A thread has read the list, or starts over with an empty one.
LEMMA ResetKeeps ==
    ASSUME DevicesInv, NEW th \in Threads, Reset(th), threads[th].pc \in {"devices", "readClose"},
           UNCHANGED <<windows, devicesFile, expected>>,
           protected' \in BOOLEAN, trouble' \in BOOLEAN, trouble => trouble',
           failed' \in BOOLEAN, failed => failed',
           ~trouble' /\ ~threads[th].stale => devicesFile.devs = {},
           ~failed' => \/ devicesFile.state = "absent" \/ protected'
                       \/ threads[th].pc = "devices" /\ UNCHANGED protected
    PROVE  Calm /\ ListKept
  <1>0. /\ threads \in [Threads -> ThreadStates] /\ threads[th] \in ThreadStates
        /\ PlanInv /\ DevicesTypes /\ ProtectInv /\ KeptInv
    BY ListThread
  <1> DEFINE t == [threads[th] EXCEPT !.pc = "saveOpen", !.devs = {}, !.out = {}]
  <1>1. /\ t \in ThreadStates /\ t.pc = "saveOpen" /\ t.todo = threads[th].todo
        /\ t.reg = threads[th].reg /\ (t.stale <=> threads[th].stale)
        /\ t.devs = {} /\ t.out = {}
    BY <1>0 DEF ThreadStates, Labels
  <1>2. threads' = [threads EXCEPT ![th] = t]
    BY <1>0 DEF Reset
  <1> HIDE DEF t
  <1>3. Moves(th) /\ threads'[th] = t /\ Calm
    BY <1>0, <1>1, <1>2, GoesOn DEF Listing
  <1>4. DevicesTypes'
    BY <1>0 DEF DevicesTypes
  <1>5. ProtectInv'
    BY <1>0, <1>3, Protects DEF Opened
  <1>6. KeptInv'
    <2> SUFFICES ASSUME ~trouble' PROVE FileInv' /\ ListInv' /\ ExpectedInv'
      BY DEF KeptInv
    <2>1. FileInv /\ ListInv /\ ExpectedInv /\ ~Pending(th)
      BY <1>0 DEF KeptInv, Pending
    <2> QED
      BY <1>1, <1>3, <2>1, Fills
  <1> QED
    BY <1>3, <1>4, <1>5, <1>6 DEF ListKept

LEMMA GetDevicesKeeps ==
    ASSUME DevicesInv, NEW th \in Threads, GetDevices(th)
    PROVE  Calm /\ ListKept
  <1>0. /\ threads \in [Threads -> ThreadStates] /\ threads[th] \in ThreadStates
        /\ PlanInv /\ DevicesTypes /\ ProtectInv /\ KeptInv /\ threads[th].pc = "devices"
        /\ devicesFile.devs \in SUBSET Device
        /\ UNCHANGED <<windows, devicesFile, protected, expected, failed>>
        /\ trouble' = (trouble \/ Misread) /\ trouble' \in BOOLEAN
    BY ListThread DEF GetDevices, DevicesTypes
  <1>1. CASE Readable
    <2> DEFINE rec == HasRead(th)
    <2>1. /\ rec \in ThreadStates /\ rec.pc = "devices" /\ rec.todo = threads[th].todo
          /\ rec.reg = threads[th].reg /\ ~rec.stale /\ rec.devs = devicesFile.devs
      BY <1>0, <1>1 DEF HasRead, ThreadStates, Labels, Readable
    <2>2. Return(th, rec)
      BY <1>1 DEF GetDevices
    <2> HIDE DEF rec
    <2>3. /\ Moves(th) /\ Calm /\ threads'[th].pc \in Routine \cup {"idle"}
          /\ threads'[th].stale => threads[th].stale
          /\ ~threads'[th].stale /\ threads'[th].pc \in Edits => threads'[th].devs = devicesFile.devs
      BY <1>0, <2>1, <2>2, ListReturns DEF Listing
    <2>4. DevicesTypes'
      BY <1>0 DEF DevicesTypes
    <2>5. ProtectInv'
      BY <1>0, <2>3, Protects DEF Opened
    <2>6. KeptInv'
      <3> SUFFICES ASSUME ~trouble' PROVE FileInv' /\ ListInv' /\ ExpectedInv'
        BY DEF KeptInv
      <3>1. FileInv /\ ListInv /\ ExpectedInv /\ ~Pending(th)
        BY <1>0 DEF KeptInv, Pending
      <3>2. ~Pending(th)' /\ threads'[th].pc \notin {"readClose", "close"}
        BY <2>3 DEF Pending, Routine
      <3> QED
        BY <1>0, <2>3, <3>1, <3>2, Looks
    <2> QED
      BY <2>3, <2>4, <2>5, <2>6 DEF ListKept
  <1>2. CASE ~Readable
    <2>1. Reset(th)
      BY <1>2 DEF GetDevices
    <2>2. ~trouble' => devicesFile.state = "absent"
      BY <1>0, <1>2 DEF Misread
    <2>3. ~trouble' => devicesFile.devs = {}
      BY <1>0, <2>2 DEF KeptInv, FileInv
    <2>4. protected' \in BOOLEAN /\ failed' \in BOOLEAN
      BY <1>0 DEF DevicesTypes
    <2> QED
      BY <1>0, <2>1, <2>2, <2>3, <2>4, ResetKeeps
  <1> QED
    BY <1>1, <1>2

LEMMA ReadOpenKeeps ==
    ASSUME DevicesInv, NEW th \in Threads, ReadOpen(th)
    PROVE  Calm /\ ListKept
  <1>0. /\ threads \in [Threads -> ThreadStates] /\ threads[th] \in ThreadStates
        /\ PlanInv /\ DevicesTypes /\ ProtectInv /\ KeptInv /\ threads[th].pc = "devices"
        /\ UNCHANGED <<windows, devicesFile, expected>>
    BY ListThread DEF ReadOpen
  <1>1. PICK ok \in BOOLEAN :
           /\ MayFail(ok) /\ ProtectFile(FALSE, ok)
           /\ IF ok THEN Goto(th, "read") ELSE Reset(th)
    BY DEF ReadOpen
  <1>2. /\ trouble' \in BOOLEAN /\ (trouble => trouble') /\ (~ok => trouble' /\ failed')
        /\ protected' \in BOOLEAN /\ failed' \in BOOLEAN /\ (failed => failed')
    BY <1>0, <1>1 DEF MayFail, ProtectFile, DevicesTypes
  <1>3. CASE ok
    <2> DEFINE t == [threads[th] EXCEPT !.pc = "read"]
    <2>1. /\ t \in ThreadStates /\ t.pc = "read" /\ t.todo = threads[th].todo
          /\ t.reg = threads[th].reg /\ (t.stale <=> threads[th].stale)
      BY <1>0 DEF ThreadStates, Labels
    <2>2. threads' = [threads EXCEPT ![th] = t]
      BY <1>0, <1>1, <1>3 DEF Goto
    <2> HIDE DEF t
    <2>3. Moves(th) /\ threads'[th] = t /\ Calm
      BY <1>0, <2>1, <2>2, GoesOn DEF Listing
    <2>4. DevicesTypes'
      BY <1>0, <1>2 DEF DevicesTypes
    <2>5. ProtectInv'
      BY <1>0, <1>2, <2>1, <2>3, Protects DEF Opened
    <2>6. KeptInv'
      <3> SUFFICES ASSUME ~trouble' PROVE FileInv' /\ ListInv' /\ ExpectedInv'
        BY DEF KeptInv
      <3>1. FileInv /\ ListInv /\ ExpectedInv /\ ~Pending(th) /\ ~Pending(th)'
        BY <1>0, <1>2, <2>1, <2>3 DEF KeptInv, Pending
      <3> QED
        BY <1>0, <2>1, <2>3, <3>1, Looks DEF Edits
    <2> QED
      BY <2>3, <2>4, <2>5, <2>6 DEF ListKept
  <1>4. CASE ~ok
    BY <1>0, <1>1, <1>2, <1>4, ResetKeeps
  <1> QED
    BY <1>3, <1>4

LEMMA ReadKeeps ==
    ASSUME DevicesInv, NEW th \in Threads, Read(th)
    PROVE  Calm /\ ListKept
  <1>0. /\ threads \in [Threads -> ThreadStates] /\ threads[th] \in ThreadStates
        /\ PlanInv /\ DevicesTypes /\ ProtectInv /\ KeptInv /\ threads[th].pc = "read"
        /\ devicesFile.devs \in SUBSET Device
        /\ UNCHANGED <<windows, devicesFile, protected, expected, failed>>
        /\ trouble' = (trouble \/ Misread) /\ trouble' \in BOOLEAN
    BY ListThread DEF Read, DevicesTypes
  <1> DEFINE t == [HasRead(th) EXCEPT !.pc = "readClose"]
  <1>1. /\ t \in ThreadStates /\ t.pc = "readClose" /\ t.todo = threads[th].todo
        /\ t.reg = threads[th].reg /\ ~t.stale /\ (t.ok <=> Readable)
        /\ t.devs = IF Readable THEN devicesFile.devs ELSE {}
    BY <1>0 DEF HasRead, ThreadStates, Labels, Readable
  <1>2. threads' = [threads EXCEPT ![th] = t]
    BY DEF Read
  <1> HIDE DEF t
  <1>3. Moves(th) /\ threads'[th] = t /\ Calm
    BY <1>0, <1>1, <1>2, GoesOn DEF Listing
  <1>4. DevicesTypes'
    BY <1>0 DEF DevicesTypes
  <1>5. ProtectInv'
    BY <1>0, <1>1, <1>3, Protects DEF Opened
  <1>6. KeptInv'
    <2> SUFFICES ASSUME ~trouble' PROVE FileInv' /\ ListInv' /\ ExpectedInv'
      BY DEF KeptInv
    <2>1. FileInv /\ ListInv /\ ExpectedInv /\ ~Pending(th) /\ ~Pending(th)'
      BY <1>0, <1>1, <1>3 DEF KeptInv, Pending
    <2>2. t.devs = devicesFile.devs
      BY <1>0, <1>1, <2>1 DEF Misread, FileInv
    <2> QED
      BY <1>0, <1>1, <1>3, <2>1, <2>2, Looks
  <1> QED
    BY <1>3, <1>4, <1>5, <1>6 DEF ListKept

\* The access of the file when ModifyFileAccess has been called.
LEMMA Closes ==
    ASSUME DevicesTypes, NEW ok \in BOOLEAN, MayFail(ok), ProtectFile(TRUE, ok)
    PROVE  /\ trouble' \in BOOLEAN /\ (trouble => trouble') /\ (~ok => trouble' /\ failed')
           /\ protected' \in BOOLEAN /\ failed' \in BOOLEAN /\ (failed => failed')
           /\ ~failed' => devicesFile.state = "absent" \/ protected'
  BY DEF MayFail, ProtectFile, DevicesTypes

LEMMA ReadCloseKeeps ==
    ASSUME DevicesInv, NEW th \in Threads, ReadClose(th)
    PROVE  Calm /\ ListKept
  <1>0. /\ threads \in [Threads -> ThreadStates] /\ threads[th] \in ThreadStates
        /\ PlanInv /\ DevicesTypes /\ ProtectInv /\ KeptInv /\ threads[th].pc = "readClose"
        /\ UNCHANGED <<windows, devicesFile, expected>>
    BY ListThread DEF ReadClose
  <1>1. PICK ok \in BOOLEAN :
           /\ MayFail(ok) /\ ProtectFile(TRUE, ok)
           /\ IF ok /\ threads[th].ok THEN Return(th, threads[th]) ELSE Reset(th)
    BY DEF ReadClose
  <1>2. /\ trouble' \in BOOLEAN /\ (trouble => trouble') /\ (~ok => trouble' /\ failed')
        /\ protected' \in BOOLEAN /\ failed' \in BOOLEAN /\ (failed => failed')
        /\ ~failed' => devicesFile.state = "absent" \/ protected'
    BY <1>0, <1>1, Closes
  <1>3. ~trouble' /\ ~threads[th].stale => threads[th].devs = devicesFile.devs
    BY <1>0, <1>2 DEF KeptInv, ListInv
  <1>4. CASE ok /\ threads[th].ok
    <2>1. /\ Moves(th) /\ Calm /\ threads'[th].pc \in Routine \cup {"idle"}
          /\ threads'[th].stale => threads[th].stale
          /\ ~threads'[th].stale /\ threads'[th].pc \in Edits =>
                ~threads[th].stale /\ threads'[th].devs = threads[th].devs
      BY <1>0, <1>1, <1>4, ListReturns DEF Listing
    <2>2. DevicesTypes'
      BY <1>0, <1>2 DEF DevicesTypes
    <2>3. ProtectInv'
      BY <1>0, <1>2, <2>1, Protects
    <2>4. ~Pending(th) /\ ~Pending(th)' /\ threads'[th].pc \notin {"readClose", "close"}
      BY <1>0, <2>1 DEF Pending, Routine
    <2>5. KeptInv'
      <3> SUFFICES ASSUME ~trouble' PROVE FileInv' /\ ListInv' /\ ExpectedInv'
        BY DEF KeptInv
      <3>1. FileInv /\ ListInv /\ ExpectedInv
        BY <1>0, <1>2 DEF KeptInv
      <3> QED
        BY <1>0, <1>3, <2>1, <2>4, <3>1, Looks
    <2> QED
      BY <2>1, <2>2, <2>3, <2>5 DEF ListKept
  <1>5. CASE ~(ok /\ threads[th].ok)
    <2>1. ~trouble' /\ ~threads[th].stale => devicesFile.devs = {}
      BY <1>0, <1>2, <1>3, <1>5 DEF KeptInv, ListInv
    <2> QED
      BY <1>0, <1>1, <1>2, <1>5, <2>1, ResetKeeps
  <1> QED
    BY <1>4, <1>5

LEMMA SaveOpenKeeps ==
    ASSUME DevicesInv, NEW th \in Threads, SaveOpen(th)
    PROVE  Calm /\ ListKept
  <1>0. /\ threads \in [Threads -> ThreadStates] /\ threads[th] \in ThreadStates
        /\ PlanInv /\ DevicesTypes /\ ProtectInv /\ KeptInv /\ threads[th].pc = "saveOpen"
        /\ UNCHANGED <<windows, devicesFile, expected>>
    BY ListThread DEF SaveOpen
  <1>1. PICK ok \in BOOLEAN :
           /\ MayFail(ok) /\ ProtectFile(FALSE, ok)
           /\ IF ok THEN Goto(th, "trunc") ELSE Return(th, threads[th])
    BY DEF SaveOpen
  <1>2. /\ trouble' \in BOOLEAN /\ (trouble => trouble') /\ (~ok => trouble' /\ failed')
        /\ protected' \in BOOLEAN /\ failed' \in BOOLEAN /\ (failed => failed')
    BY <1>0, <1>1 DEF MayFail, ProtectFile, DevicesTypes
  <1>3. CASE ok
    <2> DEFINE t == [threads[th] EXCEPT !.pc = "trunc"]
    <2>1. /\ t \in ThreadStates /\ t.pc = "trunc" /\ t.todo = threads[th].todo
          /\ t.reg = threads[th].reg /\ (t.stale <=> threads[th].stale)
          /\ t.devs = threads[th].devs /\ t.out = threads[th].out
      BY <1>0 DEF ThreadStates, Labels
    <2>2. threads' = [threads EXCEPT ![th] = t]
      BY <1>0, <1>1, <1>3 DEF Goto
    <2> HIDE DEF t
    <2>3. Moves(th) /\ threads'[th] = t /\ Calm
      BY <1>0, <2>1, <2>2, GoesOn DEF Listing
    <2>4. DevicesTypes'
      BY <1>0, <1>2 DEF DevicesTypes
    <2>5. ProtectInv'
      BY <1>0, <1>2, <2>1, <2>3, Protects DEF Opened
    <2>6. KeptInv'
      <3> SUFFICES ASSUME ~trouble' PROVE FileInv' /\ ListInv' /\ ExpectedInv'
        BY DEF KeptInv
      <3>1. FileInv /\ ListInv /\ ExpectedInv /\ Pending(th) /\ Pending(th)'
        BY <1>0, <1>2, <2>1, <2>3 DEF KeptInv, Pending
      <3>2. ~Writing(th) /\ ~Writing(th)'
        BY <1>0, <2>1, <2>3 DEF Writing
      <3> QED
        BY <1>0, <2>1, <2>3, <3>1, <3>2, Prepares
    <2> QED
      BY <2>3, <2>4, <2>5, <2>6 DEF ListKept
  <1>4. CASE ~ok
    <2>1. Calm
      BY <1>0, <1>1, <1>4, ListReturns DEF Listing
    <2>2. DevicesTypes' /\ ProtectInv' /\ KeptInv'
      BY <1>0, <1>2, <1>4 DEF DevicesTypes, ProtectInv, KeptInv
    <2> QED
      BY <2>1, <2>2 DEF ListKept
  <1> QED
    BY <1>3, <1>4

LEMMA TruncKeeps ==
    ASSUME DevicesInv, NEW th \in Threads, Trunc(th)
    PROVE  Calm /\ ListKept
  <1>0. /\ threads \in [Threads -> ThreadStates] /\ threads[th] \in ThreadStates
        /\ PlanInv /\ DevicesTypes /\ ProtectInv /\ KeptInv
        /\ threads[th].pc \in {"trunc", "saveOpen"}
        /\ UNCHANGED <<windows, protected, expected, failed>>
    BY ListThread DEF Trunc
  <1>1. CASE windows /\ protected
    <2> DEFINE t == [threads[th] EXCEPT !.pc = "close"]
    <2>1. /\ t \in ThreadStates /\ t.pc = "close" /\ t.todo = threads[th].todo
          /\ t.reg = threads[th].reg
      BY <1>0 DEF ThreadStates, Labels
    <2>2. threads' = [threads EXCEPT ![th] = t] /\ trouble' = TRUE /\ devicesFile' = devicesFile
      BY <1>0, <1>1 DEF Trunc, Goto
    <2> HIDE DEF t
    <2>3. Calm
      BY <1>0, <2>1, <2>2, GoesOn DEF Listing
    <2>4. DevicesTypes' /\ ProtectInv' /\ KeptInv'
      BY <1>0, <1>1, <2>2 DEF DevicesTypes, ProtectInv, KeptInv
    <2> QED
      BY <2>3, <2>4 DEF ListKept
  <1>2. CASE ~(windows /\ protected)
    <2> DEFINE t == [threads[th] EXCEPT !.pc = "write"]
    <2>1. /\ t \in ThreadStates /\ t.pc = "write" /\ t.todo = threads[th].todo
          /\ t.reg = threads[th].reg /\ (t.stale <=> threads[th].stale)
          /\ t.devs = threads[th].devs /\ t.out = threads[th].out
      BY <1>0 DEF ThreadStates, Labels
    <2>2. /\ threads' = [threads EXCEPT ![th] = t]
          /\ devicesFile' = [devicesFile EXCEPT !.state = "bad"]
          /\ trouble' = (trouble \/ threads[th].stale \/ \E u \in Threads \ {th} : Writing(u))
      BY <1>0, <1>2 DEF Trunc, Goto
    <2> HIDE DEF t
    <2>3. Moves(th) /\ threads'[th] = t /\ Calm
      BY <1>0, <2>1, <2>2, GoesOn DEF Listing
    <2>4. /\ devicesFile' \in Files /\ devicesFile'.state = "bad"
          /\ devicesFile'.devs = devicesFile.devs
      BY <1>0, <2>2 DEF DevicesTypes, Files
    <2>5. trouble' \in BOOLEAN /\ (trouble => trouble')
      BY <1>0, <2>2 DEF DevicesTypes, ThreadStates
    <2>6. DevicesTypes'
      BY <1>0, <2>4, <2>5 DEF DevicesTypes
    <2>7. ProtectInv'
      BY <1>0, <2>1, <2>3, <2>5, Protects DEF Opened
    <2>8. KeptInv'
      <3> SUFFICES ASSUME ~trouble' PROVE FileInv' /\ ListInv' /\ ExpectedInv'
        BY DEF KeptInv
      <3>1. FileInv /\ ListInv /\ ExpectedInv /\ Pending(th) /\ Pending(th)' /\ Writing(th)'
        BY <1>0, <2>1, <2>3, <2>5 DEF KeptInv, Pending, Writing
      <3>2. ~threads[th].stale /\ \A u \in Threads \ {th} : ~Writing(u)
        BY <2>2
      <3> QED
        BY <1>0, <2>1, <2>3, <2>4, <3>1, <3>2, Prepares
    <2> QED
      BY <2>3, <2>6, <2>7, <2>8 DEF ListKept
  <1> QED
    BY <1>1, <1>2

LEMMA CloseKeeps ==
    ASSUME DevicesInv, NEW th \in Threads, Close(th)
    PROVE  Calm /\ ListKept
  <1>0. /\ threads \in [Threads -> ThreadStates] /\ threads[th] \in ThreadStates
        /\ PlanInv /\ DevicesTypes /\ ProtectInv /\ KeptInv /\ threads[th].pc = "close"
        /\ UNCHANGED <<windows, devicesFile, expected>> /\ Return(th, threads[th])
    BY ListThread DEF Close
  <1>1. PICK ok \in BOOLEAN : MayFail(ok) /\ ProtectFile(TRUE, ok)
    BY DEF Close
  <1>2. /\ trouble' \in BOOLEAN /\ (trouble => trouble') /\ (~ok => trouble' /\ failed')
        /\ protected' \in BOOLEAN /\ failed' \in BOOLEAN /\ (failed => failed')
        /\ ~failed' => devicesFile.state = "absent" \/ protected'
    BY <1>0, <1>1, Closes
  <1>3. /\ Moves(th) /\ Calm /\ threads'[th].pc \in Routine \cup {"idle"}
        /\ threads'[th].stale => threads[th].stale
        /\ ~threads'[th].stale /\ threads'[th].pc \in Edits =>
              ~threads[th].stale /\ threads[th].todo # <<>> /\ threads'[th].devs = threads[th].devs
    BY <1>0, ListReturns DEF Listing
  <1>4. DevicesTypes'
    BY <1>0, <1>2 DEF DevicesTypes
  <1>5. ProtectInv'
    BY <1>0, <1>2, <1>3, Protects
  <1>6. ~Pending(th) /\ ~Pending(th)' /\ threads'[th].pc \notin {"readClose", "close"}
    BY <1>0, <1>3 DEF Pending, Routine
  <1>7. KeptInv'
    <2> SUFFICES ASSUME ~trouble' PROVE FileInv' /\ ListInv' /\ ExpectedInv'
      BY DEF KeptInv
    <2>1. FileInv /\ ListInv /\ ExpectedInv
      BY <1>0, <1>2 DEF KeptInv
    <2>2. ~threads[th].stale /\ threads[th].todo # <<>> => threads[th].devs = devicesFile.devs
      BY <1>0, <2>1 DEF ListInv
    <2> QED
      BY <1>0, <1>3, <1>6, <2>1, <2>2, Looks
  <1> QED
    BY <1>3, <1>4, <1>5, <1>7 DEF ListKept

\* AddDevice and RemoveDevice: what they make of a list that is not stale is expected.
LEMMA EditKeeps ==
    ASSUME DevicesInv, NEW th \in Threads, threads[th].pc \in Edits,
           NEW new \in SUBSET Device,
           threads' = [threads EXCEPT ![th].out = new, ![th].pc = "saveOpen"],
           expected' \subseteq Device,
           threads[th].devs = expected => expected' = new,
           UNCHANGED <<windows, devicesFile, protected, trouble, failed>>
    PROVE  Calm /\ ListKept
  <1>0. /\ threads \in [Threads -> ThreadStates] /\ threads[th] \in ThreadStates
        /\ PlanInv /\ Planned(threads[th]) /\ DevicesTypes /\ ProtectInv /\ KeptInv
    BY ListThread
  <1> DEFINE t == [threads[th] EXCEPT !.out = new, !.pc = "saveOpen"]
  <1>1. /\ t \in ThreadStates /\ t.pc = "saveOpen" /\ t.todo = threads[th].todo
        /\ t.reg = threads[th].reg /\ (t.stale <=> threads[th].stale)
        /\ t.out = new
    BY <1>0 DEF ThreadStates, Labels
  <1>2. threads' = [threads EXCEPT ![th] = t]
    BY <1>0
  <1>3. threads[th].todo = <<>>
    BY <1>0 DEF Planned
  <1> HIDE DEF t
  <1>4. Moves(th) /\ threads'[th] = t /\ Calm
    BY <1>0, <1>1, <1>2, GoesOn DEF Listing
  <1>5. DevicesTypes'
    BY <1>0 DEF DevicesTypes
  <1>6. ProtectInv'
    BY <1>0, <1>4, Protects DEF Edits, Opened
  <1>7. KeptInv'
    <2> SUFFICES ASSUME ~trouble' PROVE FileInv' /\ ListInv' /\ ExpectedInv'
      BY DEF KeptInv
    <2>1. FileInv /\ ListInv /\ ExpectedInv /\ ~Pending(th)
      BY DEF KeptInv, Pending, Edits, DevicesInv
    <2>2. ~threads[th].stale => threads[th].devs = devicesFile.devs
      BY <2>1 DEF ListInv
    <2> QED
      BY <1>1, <1>3, <1>4, <2>1, <2>2, Fills
  <1> QED
    BY <1>4, <1>5, <1>6, <1>7 DEF ListKept

LEMMA AddKeeps ==
    ASSUME DevicesInv, NEW th \in Threads, Add(th)
    PROVE  Calm /\ ListKept
  <1>0. /\ threads[th] \in ThreadStates /\ Planned(threads[th]) /\ DevicesTypes
        /\ threads[th].pc = "add"
    BY ListThread DEF Add
  <1> DEFINE d == AddedDevice(th)
  <1>1. d \in Device
    <2>1. /\ threads[th].reg.id \in 0..MaxIds /\ threads[th].phone \in Phones
          /\ threads[th].reg.id # NoId
      BY <1>0 DEF Planned, UsesSettings, ThreadStates, SettingsValue
    <2>2. threads[th].reg.id \in 1..MaxIds
      BY <2>1, SettingsAssumption DEF NoId
    <2> QED
      BY <2>1, <2>2 DEF AddedDevice, Device
  <1>2. /\ threads' = [threads EXCEPT ![th].out = threads[th].devs \cup {d}, ![th].pc = "saveOpen"]
        /\ expected' = expected \cup {d}
        /\ UNCHANGED <<windows, devicesFile, protected, trouble, failed>>
    BY DEF Add
  <1> HIDE DEF d
  <1>3. /\ threads[th].devs \cup {d} \in SUBSET Device /\ expected' \subseteq Device
        /\ threads[th].pc \in Edits
    BY <1>0, <1>1, <1>2 DEF ThreadStates, DevicesTypes, Edits
  <1> QED
    BY <1>2, <1>3, EditKeeps

LEMMA RemoveKeeps ==
    ASSUME DevicesInv, NEW th \in Threads, Remove(th)
    PROVE  Calm /\ ListKept
  <1>0. /\ threads[th] \in ThreadStates /\ DevicesTypes /\ threads[th].pc = "remove"
    BY ListThread DEF Remove
  <1>1. PICK ds \in SUBSET threads[th].devs :
          /\ threads' = [threads EXCEPT ![th].out = threads[th].devs \ ds, ![th].pc = "saveOpen"]
          /\ expected' = expected \ ds
    BY DEF Remove
  <1>2. /\ threads[th].devs \ ds \in SUBSET Device /\ expected' \subseteq Device
        /\ threads[th].pc \in Edits
    BY <1>0, <1>1 DEF ThreadStates, DevicesTypes, Edits
  <1>3. UNCHANGED <<windows, devicesFile, protected, trouble, failed>>
    BY DEF Remove
  <1> QED
    BY <1>1, <1>2, <1>3, EditKeeps

LEMMA WriteKeeps ==
    ASSUME DevicesInv, NEW th \in Threads, Write(th)
    PROVE  Calm /\ ListKept
  <1>0. /\ threads \in [Threads -> ThreadStates] /\ PlanInv /\ DevicesTypes
        /\ ProtectInv /\ KeptInv /\ threads[th].pc = "write" /\ Pending(th)
        /\ UNCHANGED <<windows, protected, expected, failed>>
    BY ListThread DEF Write, Pending
  <1>1. ASSUME NEW u \in Threads
        PROVE  /\ threads'[u] \in ThreadStates /\ Planned(threads'[u])
               /\ threads'[u].pc = IF u = th THEN "close" ELSE threads[u].pc
               /\ threads'[u].todo = threads[u].todo /\ threads'[u].reg = threads[u].reg
               /\ threads'[u].devs = threads[u].devs /\ threads'[u].out = threads[u].out
               /\ threads'[u].ok <=> threads[u].ok
               /\ threads'[u].stale <=>
                     (threads[u].stale \/ (u # th /\ threads[u].pc \notin {"idle", "get"}))
    <2>0. threads[u] \in ThreadStates /\ Planned(threads[u])
      BY <1>0 DEF PlanInv
    <2>1. CASE u = th
      <3> DEFINE t == [threads[u] EXCEPT !.pc = "close"]
      <3>1. threads'[u] = t
        BY <2>1 DEF Write
      <3>2. /\ t \in ThreadStates /\ t.pc = "close"
            /\ t.todo = threads[u].todo /\ t.reg = threads[u].reg
            /\ t.devs = threads[u].devs /\ t.out = threads[u].out
            /\ (t.ok <=> threads[u].ok) /\ (t.stale <=> threads[u].stale)
        BY <2>0 DEF ThreadStates, Labels
      <3> HIDE DEF t
      <3>3. Planned(t)
        BY <1>0, <2>0, <2>1, <3>2, PlannedStays DEF Listing, UsesSettings, Edits
      <3> QED
        BY <2>1, <3>1, <3>2, <3>3
    <2>2. CASE u # th
      <3> DEFINE t == [threads[u] EXCEPT !.stale = (@ \/ threads[u].pc \notin {"idle", "get"})]
      <3>1. threads'[u] = t
        BY <2>2 DEF Write
      <3>2. /\ t \in ThreadStates /\ t.pc = threads[u].pc
            /\ t.todo = threads[u].todo /\ t.reg = threads[u].reg
            /\ t.devs = threads[u].devs /\ t.out = threads[u].out
            /\ (t.ok <=> threads[u].ok)
            /\ (t.stale <=> (threads[u].stale \/ threads[u].pc \notin {"idle", "get"}))
        BY <2>0 DEF ThreadStates
      <3> HIDE DEF t
      <3>3. Planned(t)
        BY <2>0, <3>2, PlannedStays DEF Planned
      <3> QED
        BY <2>2, <3>1, <3>2, <3>3
    <2> QED
      BY <2>1, <2>2
  <1>2. threads' \in [Threads -> ThreadStates]
    BY <1>1 DEF Write
  <1>3. Calm
    <2>1. PlanInv'
      BY <1>1 DEF PlanInv, Planned
    <2> QED
      BY <1>0, <1>1, <1>2, <2>1 DEF Calm, Saving
  <1>4. /\ devicesFile' \in Files /\ trouble' \in BOOLEAN /\ (trouble => trouble')
        /\ ~trouble' => devicesFile' = [state |-> "whole", devs |-> threads[th].out]
    <2>0. threads[th].out \in SUBSET Device /\ devicesFile \in Files /\ trouble \in BOOLEAN
      BY <1>0 DEF DevicesTypes, ThreadStates
    <2>1. CASE devicesFile' = [state |-> "whole", devs |-> threads[th].out] /\ UNCHANGED trouble
      BY <2>0, <2>1 DEF Files
    <2>2. CASE devicesFile' = [devicesFile EXCEPT !.state = "bad"] /\ trouble' = TRUE
      BY <2>0, <2>2 DEF Files
    <2> QED
      BY <2>1, <2>2 DEF Write
  <1>5. DevicesTypes'
    BY <1>0, <1>4 DEF DevicesTypes
  <1>6. ProtectInv'
    BY <1>1 DEF ProtectInv
  <1>7. KeptInv'
    <2> SUFFICES ASSUME ~trouble' PROVE FileInv' /\ ListInv' /\ ExpectedInv'
      BY DEF KeptInv
    <2>1. /\ FileInv /\ ListInv /\ ExpectedInv
          /\ devicesFile'.state = "whole" /\ devicesFile'.devs = threads[th].out
          /\ ~threads[th].stale /\ \A u \in Threads \ {th} : ~Writing(u)
      BY <1>0, <1>4 DEF KeptInv, FileInv, Writing
    <2>2. /\ ~Pending(th)' /\ \A u \in Threads \ {th} : (Pending(u)' <=> Pending(u))
          /\ \A u \in Threads : ~Writing(u)'
      BY <1>0, <1>1, <2>1 DEF Pending, Writing
    <2>3. FileInv'
      BY <2>1, <2>2 DEF FileInv
    <2>4. ListInv'
      <3> SUFFICES ASSUME NEW u \in Threads
                   PROVE  LET t == threads'[u] IN
                     /\ ~t.stale /\ (t.pc \in Edits \cup {"readClose"} \/ (t.pc = "close" /\ t.todo # <<>>)) =>
                           t.devs = devicesFile'.devs
                     /\ Pending(u)' /\ t.todo # <<>> => t.devs = t.out
                     /\ t.pc = "readClose" /\ ~t.ok => t.devs = {}
        BY DEF ListInv, Pending
      <3>1. CASE u = th
        BY <1>0, <1>1, <2>1, <2>2, <3>1 DEF ListInv, Edits
      <3>2. CASE u # th
        <4>1. ~threads'[u].stale => threads'[u].pc \in {"idle", "get"}
          BY <1>1, <3>2
        <4> QED
          BY <1>1, <2>1, <2>2, <3>2, <4>1 DEF ListInv, Edits
      <3> QED
        BY <3>1, <3>2
    <2>5. ExpectedInv'
      <3> SUFFICES ASSUME ~Doomed'
                   PROVE  /\ expected' = devicesFile'.devs
                          /\ \A u \in Threads : ~Pending(u)'
        BY DEF ExpectedInv
      <3>1. \A u \in Threads \ {th} : ~Pending(u)
        <4> SUFFICES ASSUME NEW u \in Threads \ {th}, Pending(u) PROVE FALSE
          OBVIOUS
        <4>1. Pending(u)' /\ threads'[u].stale
          BY <1>1, <2>2 DEF Pending
        <4> QED
          BY <4>1 DEF Doomed
      <3>2. ~Doomed
        BY <2>1, <3>1 DEF Doomed
      <3>3. expected = threads[th].out
        BY <1>0, <2>1, <3>1, <3>2 DEF ExpectedInv
      <3> QED
        BY <1>0, <2>1, <2>2, <3>1, <3>3
    <2> QED
      BY <2>3, <2>4, <2>5
  <1> QED
    BY <1>3, <1>5, <1>6, <1>7 DEF ListKept

-----------------------------------------------------------------------------
\* The invariant

StorageInv == SettingsInv /\ DevicesInv /\ done \in 0..MaxOps

\* The settings know nothing of the list.
LEMMA AwayKeeps ==
    ASSUME StorageInv, NEW th \in Threads, Moves(th), Quiet(th), UNCHANGED devices
    PROVE  ListKept
  <1>0. DevicesTypes /\ ProtectInv /\ KeptInv /\ UNCHANGED <<windows, devicesFile, protected, expected, trouble, failed>>
    BY DEF StorageInv, DevicesInv, devices
  <1>1. /\ ~Pending(th) /\ ~Pending(th)' /\ threads[th].pc \notin Opened
        /\ threads'[th].pc \notin Edits \cup {"readClose", "close"}
    BY DEF Quiet, Away, Pending, Opened, Listing
  <1>2. DevicesTypes'
    BY <1>0 DEF DevicesTypes
  <1>3. ProtectInv'
    BY <1>0, <1>1, Protects
  <1>4. KeptInv'
    <2> SUFFICES ASSUME ~trouble' PROVE FileInv' /\ ListInv' /\ ExpectedInv'
      BY DEF KeptInv
    <2>1. FileInv /\ ListInv /\ ExpectedInv
      BY <1>0 DEF KeptInv
    <2> QED
      BY <1>0, <1>1, <2>1, Looks DEF Quiet
  <1> QED
    BY <1>2, <1>3, <1>4 DEF ListKept

LEMMA SettingsStepKeeps ==
    ASSUME StorageInv, NEW th \in Threads, SettingsStep(th), UNCHANGED <<devices, done>>
    PROVE  StorageInv'
  <1>1. SettingsInv /\ done \in 0..MaxOps
    BY DEF StorageInv
  <1>2. Moves(th) /\ SettingsTypes' /\ EditInv' /\ IdInv' /\ Quiet(th)
    BY <1>1, GetKeeps, LoadKeeps, RelockKeeps, SaveTruncKeeps, SaveWriteKeeps, DropKeeps,
       ShowFormKeeps
    DEF SettingsStep
  <1>3. ListKept
    BY <1>2, AwayKeeps
  <1>4. SettingsInv'
    BY <1>2 DEF SettingsInv, Moves
  <1>5. DevicesInv'
    BY <1>2, <1>3 DEF DevicesInv, ListKept, Moves
  <1> QED
    BY <1>1, <1>4, <1>5 DEF StorageInv

\* The list knows nothing of the settings but the machine id.
LEMMA CalmKeeps ==
    ASSUME SettingsInv, Calm, UNCHANGED settings
    PROVE  SettingsInv'
  <1>0. /\ SettingsTypes /\ EditInv /\ IdInv
        /\ UNCHANGED <<settingsFile, cache, mutex, edit, ids, known, idsRaced>>
    BY DEF SettingsInv, settings
  <1>1. SettingsTypes'
    BY <1>0 DEF SettingsTypes
  <1>2. EditInv'
    BY <1>0 DEF EditInv, Calm
  <1>3. IdInv'
    <2>1. \A i \in 1..MaxIds : Held(i)' => Held(i)
      BY <1>0 DEF Held, Calm, NoId
    <2>2. \A u \in Threads : Saving(u)' <=> Saving(u)
      BY DEF Calm
    <2> QED
      BY <1>0, <2>1, <2>2, IdsSame
  <1> QED
    BY <1>1, <1>2, <1>3 DEF SettingsInv, Calm

LEMMA DevicesStepKeeps ==
    ASSUME StorageInv, NEW th \in Threads, DevicesStep(th), UNCHANGED <<settings, done>>
    PROVE  StorageInv'
  <1>1. SettingsInv /\ DevicesInv /\ done \in 0..MaxOps
    BY DEF StorageInv
  <1>2. Calm /\ ListKept
    BY <1>1, GetDevicesKeeps, ReadOpenKeeps, ReadKeeps, ReadCloseKeeps, SaveOpenKeeps,
       TruncKeeps, WriteKeeps, CloseKeeps, AddKeeps, RemoveKeeps
    DEF DevicesStep
  <1>3. SettingsInv'
    BY <1>1, <1>2, CalmKeeps
  <1>4. DevicesInv'
    BY <1>2 DEF DevicesInv, ListKept, Calm
  <1> QED
    BY <1>1, <1>3, <1>4 DEF StorageInv

\* What an operation begins with, and what is left of it then.
LEMMA Beginnings ==
    ASSUME NEW op \in DOMAIN Routines
    PROVE  \/ op = "pair" /\ Head(Routines[op]) = "get" /\ Tail(Routines[op]) = <<"devices", "add">>
           \/ op = "remove" /\ Head(Routines[op]) = "devices" /\ Tail(Routines[op]) = <<"remove">>
           \/ op = "list" /\ Head(Routines[op]) = "devices" /\ Tail(Routines[op]) = <<>>
           \/ op = "show" /\ Head(Routines[op]) = "get" /\ Tail(Routines[op]) = <<"show">>
           \/ op = "save" /\ Head(Routines[op]) = "saveForm"
                 /\ Tail(Routines[op]) = <<"get", "saveServices", "drop">>
           \/ op = "install" /\ Head(Routines[op]) = "get" /\ Tail(Routines[op]) = <<"saveVersion", "drop">>
           \/ op = "poll" /\ Head(Routines[op]) = "devices" /\ Tail(Routines[op]) = <<"get">>
           \/ op = "unlock" /\ Head(Routines[op]) = "get" /\ Tail(Routines[op]) = <<"devices">>
  <1>1. op \in {"pair", "remove", "list", "show", "save", "install", "poll", "unlock"}
    BY DEF Routines
  <1>2. CASE op = "pair"
    <2>1. Routines[op] = <<"get", "devices", "add">>
      BY <1>2 DEF Routines
    <2> QED
      BY <1>2, <2>1
  <1>3. CASE op = "remove"
    <2>1. Routines[op] = <<"devices", "remove">>
      BY <1>3 DEF Routines
    <2> QED
      BY <1>3, <2>1
  <1>4. CASE op = "list"
    <2>1. Routines[op] = <<"devices">>
      BY <1>4 DEF Routines
    <2> QED
      BY <1>4, <2>1
  <1>5. CASE op = "show"
    <2>1. Routines[op] = <<"get", "show">>
      BY <1>5 DEF Routines
    <2> QED
      BY <1>5, <2>1
  <1>6. CASE op = "save"
    <2>1. Routines[op] = <<"saveForm", "get", "saveServices", "drop">>
      BY <1>6 DEF Routines
    <2> QED
      BY <1>6, <2>1
  <1>7. CASE op = "install"
    <2>1. Routines[op] = <<"get", "saveVersion", "drop">>
      BY <1>7 DEF Routines
    <2> QED
      BY <1>7, <2>1
  <1>8. CASE op = "poll"
    <2>1. Routines[op] = <<"devices", "get">>
      BY <1>8 DEF Routines
    <2> QED
      BY <1>8, <2>1
  <1>9. CASE op = "unlock"
    <2>1. Routines[op] = <<"get", "devices">>
      BY <1>9 DEF Routines
    <2> QED
      BY <1>9, <2>1
  <1> QED
    BY <1>1, <1>2, <1>3, <1>4, <1>5, <1>6, <1>7, <1>8, <1>9

LEMMA Tuples ==
    ASSUME NEW S, NEW a \in S, NEW b \in S, NEW c \in S
    PROVE  <<>> \in Seq(S) /\ <<a>> \in Seq(S) /\ <<a, b>> \in Seq(S) /\ <<a, b, c>> \in Seq(S)
  OBVIOUS

LEMMA Begun ==
    ASSUME NEW t,
           \/ t.pc = "get" /\ t.todo = <<"devices", "add">>
           \/ t.pc = "devices" /\ t.todo = <<"remove">>
           \/ t.pc = "devices" /\ t.todo = <<>>
           \/ t.pc = "get" /\ t.todo = <<"show">>
           \/ t.pc = "saveForm" /\ t.todo = <<"get", "saveServices", "drop">>
           \/ t.pc = "get" /\ t.todo = <<"saveVersion", "drop">>
           \/ t.pc = "devices" /\ t.todo = <<"get">>
           \/ t.pc = "get" /\ t.todo = <<"devices">>
    PROVE  Planned(t)
  <1>1. t.pc \notin Edits \cup {"idle", "saveLoaded", "saveWrite"} \cup UsesSettings
    BY DEF Edits, UsesSettings
  <1>2. ASSUME NEW i \in 1..Len(t.todo)
        PROVE  /\ t.todo[i] \in Routine
               /\ t.todo[i] \in UsesSettings =>
                     t.pc \in {"get", "load"} \/ \E j \in 1..i - 1 : t.todo[j] = "get"
               /\ t.todo[i] \in Edits =>
                     i = Len(t.todo) /\ (IF i = 1 THEN t.pc \in Listing ELSE t.todo[i - 1] = "devices")
    <2>1. CASE t.pc = "get" /\ t.todo = <<"devices", "add">>
      <3>1. Len(t.todo) = 2 /\ t.todo[1] = "devices" /\ t.todo[2] = "add"
        BY <2>1
      <3>2. i = 1 \/ i = 2
        BY <1>2, <3>1
      <3>3. (i = 2) => i - 1 = 1
        BY <3>2
      <3> QED
        BY <2>1, <3>1, <3>2, <3>3 DEF Routine, UsesSettings, Edits, Listing
    <2>2. CASE t.pc = "devices" /\ t.todo = <<"remove">>
      <3>1. Len(t.todo) = 1 /\ t.todo[1] = "remove"
        BY <2>2
      <3>2. i = 1
        BY <1>2, <3>1
      <3> QED
        BY <2>2, <3>1, <3>2 DEF Routine, UsesSettings, Edits, Listing
    <2>3. CASE t.todo = <<>>
      BY <1>2, <2>3
    <2>4. CASE t.pc = "get" /\ t.todo = <<"show">>
      <3>1. Len(t.todo) = 1 /\ t.todo[1] = "show"
        BY <2>4
      <3>2. i = 1
        BY <1>2, <3>1
      <3> QED
        BY <2>4, <3>1, <3>2 DEF Routine, UsesSettings, Edits, Listing
    <2>5. CASE t.pc = "saveForm" /\ t.todo = <<"get", "saveServices", "drop">>
      <3>0. /\ Len(t.todo) = 3 /\ t.todo[1] = "get" /\ t.todo[2] = "saveServices"
            /\ t.todo[3] = "drop"
        BY <2>5
      <3>1. i = 1 \/ i = 2 \/ i = 3
        BY <1>2, <3>0
      <3>2. CASE i = 2
        <4>1. 1 \in 1..i - 1 /\ t.todo[1] = "get" /\ t.todo[i] = "saveServices"
          BY <3>0, <3>2
        <4> QED
          BY <4>1 DEF Routine, Edits
      <3>3. CASE i = 1 \/ i = 3
        BY <3>0, <3>3 DEF Routine, UsesSettings, Edits
      <3> QED
        BY <3>1, <3>2, <3>3
    <2>6. CASE t.pc = "get" /\ t.todo = <<"saveVersion", "drop">>
      <3>1. Len(t.todo) = 2 /\ t.todo[1] = "saveVersion" /\ t.todo[2] = "drop"
        BY <2>6
      <3>2. i = 1 \/ i = 2
        BY <1>2, <3>1
      <3> QED
        BY <2>6, <3>1, <3>2 DEF Routine, UsesSettings, Edits
    <2>7. CASE t.todo = <<"get">>
      <3>1. Len(t.todo) = 1 /\ t.todo[1] = "get"
        BY <2>7
      <3>2. i = 1
        BY <1>2, <3>1
      <3> QED
        BY <2>7, <3>1, <3>2 DEF Routine, UsesSettings, Edits, Listing
    <2>8. CASE t.todo = <<"devices">>
      <3>1. Len(t.todo) = 1 /\ t.todo[1] = "devices"
        BY <2>8
      <3>2. i = 1
        BY <1>2, <3>1
      <3> QED
        BY <2>8, <3>1, <3>2 DEF Routine, UsesSettings, Edits, Listing
    <2> QED
      BY <2>1, <2>2, <2>3, <2>4, <2>5, <2>6, <2>7, <2>8
  <1> QED
    BY <1>1, <1>2 DEF Planned

LEMMA BeginKeeps ==
    ASSUME StorageInv, NEW th \in Threads, NEW op \in Operations[th], Begin(th, op)
    PROVE  StorageInv'
  <1>0. /\ threads \in [Threads -> ThreadStates] /\ threads[th] \in ThreadStates /\ PlanInv
        /\ SettingsInv /\ DevicesInv /\ done \in 0..MaxOps /\ op \in DOMAIN Routines
        /\ threads[th].pc = "idle" /\ done < MaxOps /\ done' = done + 1
        /\ SettingsTypes /\ EditInv /\ IdInv
        /\ op = "save" => edit # Empty
        /\ UNCHANGED <<settings, devices>>
    BY StorageAssumption DEF StorageInv, SettingsInv, Begin
  <1>1. PICK p \in IF op = "pair" THEN Phones ELSE {threads[th].phone} :
          threads' = [threads EXCEPT ![th] = [NewThread EXCEPT
                        !.pc = Head(Routines[op]), !.todo = Tail(Routines[op]), !.phone = p]]
    BY DEF Begin
  <1> DEFINE t == [NewThread EXCEPT
                        !.pc = Head(Routines[op]), !.todo = Tail(Routines[op]), !.phone = p]
  <1>2. p \in Phones
    BY <1>0, <1>1 DEF ThreadStates
  <1>3. Head(Routines[op]) \in {"get", "devices", "saveForm"} /\ Tail(Routines[op]) \in Seq(Labels)
        /\ (Head(Routines[op]) = "saveForm" => op = "save")
    <2>1. {"get", "devices", "saveForm", "add", "remove", "show", "saveServices", "drop",
           "saveVersion"} \subseteq Labels
      BY DEF Labels, Saves
    <2>2. Tail(Routines[op]) \in Seq(Labels)
      <3> DEFINE td == Tail(Routines[op])
      <3>1. \/ td \in {<<"devices", "add">>, <<"saveVersion", "drop">>}
            \/ td \in {<<"remove">>, <<"show">>, <<"get">>, <<"devices">>}
            \/ td = <<>> \/ td = <<"get", "saveServices", "drop">>
        BY <1>0, Beginnings
      <3> HIDE DEF td
      <3>2. CASE td \in {<<"devices", "add">>, <<"saveVersion", "drop">>}
        <4>1. <<"devices", "add">> \in Seq(Labels) /\ <<"saveVersion", "drop">> \in Seq(Labels)
          BY <2>1, Tuples
        <4> QED
          BY <3>2, <4>1 DEF td
      <3>3. CASE td \in {<<"remove">>, <<"show">>, <<"get">>, <<"devices">>}
        <4>1. \A x \in Labels : <<x>> \in Seq(Labels)
          BY Tuples
        <4> QED
          BY <2>1, <3>3, <4>1 DEF td
      <3>4. CASE td = <<>> \/ td = <<"get", "saveServices", "drop">>
        <4>1. <<>> \in Seq(Labels) /\ <<"get", "saveServices", "drop">> \in Seq(Labels)
          BY <2>1, Tuples
        <4> QED
          BY <3>4, <4>1 DEF td
      <3> QED
        BY <3>1, <3>2, <3>3, <3>4
    <2> QED
      BY <1>0, <2>2, Beginnings
  <1>4. /\ t \in ThreadStates /\ t.pc = Head(Routines[op]) /\ t.todo = Tail(Routines[op])
        /\ t.reg.id = NoId /\ ~t.stale
    BY <1>2, <1>3, NewThreads DEF ThreadStates, Labels, Saves
  <1> HIDE DEF t
  <1>5. Planned(t)
    BY <1>0, <1>4, Begun, Beginnings
  <1>6. Moves(th) /\ threads'[th] = t
    BY <1>0, <1>1, <1>4, <1>5, Goes DEF t
  <1>7. Quiet(th)
    BY <1>0, <1>3, <1>4, <1>6 DEF Quiet, Away, Labels, Edits, Listing, Saves
  <1>8. ListKept
    BY <1>0, <1>6, <1>7, AwayKeeps
  <1>9. SettingsTypes' /\ EditInv'
    <2>1. UNCHANGED <<settingsFile, cache, mutex, edit, ids, known, idsRaced>>
      BY <1>0 DEF settings
    <2>2. SettingsTypes'
      BY <1>0, <2>1 DEF SettingsTypes
    <2>3. t.pc = "saveForm" => edit.id # NoId
      BY <1>0, <1>3, <1>4 DEF EditInv
    <2> QED
      BY <1>0, <1>6, <2>1, <2>2, <2>3 DEF EditInv, Moves
  <1>10. IdInv'
    <2>1. UNCHANGED <<settingsFile, cache, mutex, edit, ids, known, idsRaced>>
      BY <1>0 DEF settings
    <2>2. \A i \in 1..MaxIds : Held(i)' => Held(i)
      BY <1>4, <1>6, <2>1 DEF Held, Moves, NoId
    <2>3. \A u \in Threads : Saving(u)' <=> Saving(u)
      BY <1>0, <1>3, <1>4, <1>6 DEF Saving, Moves
    <2> QED
      BY <1>0, <2>1, <2>2, <2>3, IdsSame
  <1>11. done' \in 0..MaxOps
    BY <1>0, StorageAssumption
  <1> QED
    BY <1>6, <1>8, <1>9, <1>10, <1>11 DEF StorageInv, SettingsInv, DevicesInv, ListKept, Moves

LEMMA StorageInvInit == Init => StorageInv
  <1> SUFFICES ASSUME Init PROVE StorageInv
    OBVIOUS
  <1>0. /\ threads = [th \in Threads |-> NewThread]
        /\ ids = 1 /\ cache = [p \in Processes |-> Empty]
        /\ mutex = [p \in Processes |-> NoThread]
        /\ edit = Empty /\ known = {} /\ idsRaced = FALSE
        /\ windows \in BOOLEAN /\ protected = (devicesFile.state = "whole")
        /\ expected = devicesFile.devs /\ trouble = FALSE /\ failed = FALSE /\ done = 0
    BY DEF Init
  <1>1. /\ 0 \in 0..MaxIds /\ 1 \in 0..MaxIds /\ 1 \in 1..MaxIds /\ 0 \in 0..MaxOps
    BY SettingsAssumption, StorageAssumption
  <1>2. Empty \in SettingsValue /\ Defaults(1) \in SettingsValue /\ Defaults(NoId) \in SettingsValue
    BY <1>1 DEF Empty, Defaults, SettingsValue, NoId
  <1>3. settingsFile \in SettingsFiles
    BY <1>2 DEF Init, SettingsFiles
  <1>4. \A p \in Phones : {<<1, p>>} \in SUBSET Device
    BY <1>1 DEF Device
  <1>5. /\ devicesFile \in Files /\ devicesFile.state # "bad"
        /\ devicesFile.state = "absent" => devicesFile.devs = {}
    <2>1. CASE devicesFile \in [state : {"absent"}, devs : {{}}]
      BY <2>1 DEF Files
    <2>2. CASE devicesFile \in [state : {"whole"}, devs : {{<<1, p>>} : p \in Phones}]
      BY <1>4, <2>2 DEF Files
    <2> QED
      BY <2>1, <2>2 DEF Init
  <1>6. threads \in [Threads -> ThreadStates] /\ PlanInv
    BY <1>0, NewThreads DEF PlanInv
  <1>7. \A th \in Threads : /\ threads[th].pc = "idle" /\ threads[th].reg.id = NoId
                            /\ ~threads[th].stale
    BY <1>0, NewThreads
  <1>8. SettingsTypes
    BY <1>0, <1>1, <1>2, <1>3 DEF SettingsTypes
  <1>9. EditInv
    BY <1>0, <1>7 DEF EditInv
  <1>10. IdInv
    <2>1. Empty.id = NoId /\ Defaults(1).id = 1 /\ Defaults(NoId).id = NoId
      BY DEF Empty, Defaults
    <2>2. \A i \in 1..MaxIds : Held(i) => LoadedId(settingsFile) = i
      BY <1>0, <1>7, <2>1 DEF Held, NoId
    <2> QED
      BY <2>2 DEF IdInv, NoId
  <1>11. DevicesTypes
    BY <1>0, <1>5 DEF DevicesTypes, Files
  <1>12. ProtectInv
    BY <1>0, <1>5 DEF ProtectInv, Files
  <1>13. KeptInv
    BY <1>0, <1>5, <1>7
    DEF KeptInv, FileInv, ListInv, ExpectedInv, Writing, Pending, Edits
  <1> QED
    BY <1>0, <1>1, <1>6, <1>8, <1>9, <1>10, <1>11, <1>12, <1>13
    DEF StorageInv, SettingsInv, DevicesInv

LEMMA StorageInvStep == StorageInv /\ [Next]_vars => StorageInv'
  <1> SUFFICES ASSUME StorageInv, [Next]_vars PROVE StorageInv'
    OBVIOUS
  <1>1. CASE Next
    BY <1>1, BeginKeeps, SettingsStepKeeps, DevicesStepKeeps DEF Next
  <1>2. CASE UNCHANGED vars
    <2>1. UNCHANGED <<threads, settings, done>> /\ UNCHANGED devices
      BY <1>2 DEF vars
    <2>2. SettingsInv /\ DevicesInv /\ done \in 0..MaxOps
      BY DEF StorageInv
    <2>3. Calm
      BY <2>1, <2>2 DEF Calm, SettingsInv, PlanInv, Saving
    <2>4. SettingsInv'
      BY <2>1, <2>2, <2>3, CalmKeeps
    <2>5. DevicesInv'
      BY <2>1, <2>2
      DEF DevicesInv, PlanInv, DevicesTypes, ProtectInv, KeptInv, FileInv, ListInv, ExpectedInv,
          Doomed, Pending, Writing, devices
    <2> QED
      BY <2>1, <2>2, <2>4, <2>5 DEF StorageInv
  <1> QED
    BY <1>1, <1>2

LEMMA StorageInvariant == Spec => []StorageInv
  <1> QED
    BY StorageInvInit, StorageInvStep, PTL DEF Spec

\* Every variable of AppSettings and PairedDevicesStorage stays in its type: in
\* particular AddDevice never names a device by a machine id that is not there yet.
THEOREM StorageTypes == Spec => []TypeOK
  <1>1. StorageInv => TypeOK
    BY DEF StorageInv, SettingsInv, DevicesInv, SettingsTypes, DevicesTypes, ThreadStates, TypeOK
  <1> QED
    BY <1>1, StorageInvariant, PTL

\* GetDevices and SaveDevices open the list to users and close it, each on its own:
\* however they overlap, some thread that has opened it is still to close it, unless
\* a change of access failed.
THEOREM StorageProtects == Spec => []ListProtected
  <1>1. StorageInv => ListProtected
    BY DEF StorageInv, DevicesInv, DevicesTypes, ProtectInv, ListProtected, AllIdle
  <1> QED
    BY <1>1, StorageInvariant, PTL

\* AddDevice and RemoveDevice read and rewrite the whole list with no lock. If a
\* device is lost, some thread has saved a stale list, could not read or open the
\* file another one was writing or had closed, or has written it together with
\* another, or a write or a change of access has failed.
THEOREM StorageKeepsDevices == Spec => []DevicesKept
  <1>1. StorageInv => DevicesKept
    <2> SUFFICES ASSUME StorageInv, AllIdle, ~trouble
                 PROVE  devicesFile.devs = expected /\ devicesFile.state # "bad"
      BY DEF DevicesKept
    <2>1. FileInv /\ ExpectedInv /\ \A th \in Threads : ~Pending(th) /\ ~Writing(th)
      BY DEF StorageInv, DevicesInv, KeptInv, AllIdle, Pending, Writing
    <2> QED
      BY <2>1 DEF FileInv, ExpectedInv, Doomed
  <1> QED
    BY <1>1, StorageInvariant, PTL

\* Load draws a machine id without the mutex of the other process: it is drawn once,
\* unless it is drawn while another thread saves, or a write fails.
THEOREM StorageOneMachineId == Spec => []OneMachineId
  <1>1. StorageInv => OneMachineId
    <2> SUFFICES ASSUME StorageInv, ~idsRaced PROVE Cardinality(known) <= 1
      BY DEF OneMachineId
    <2>1. known \subseteq 1..MaxIds /\ \A i, j \in known : i = j
      BY DEF StorageInv, SettingsInv, SettingsTypes, IdInv, Held
    <2>2. CASE known = {}
      BY <2>2, FS_EmptySet
    <2>3. CASE known # {}
      <3>1. PICK i : i \in known
        BY <2>3
      <3>2. known = {i}
        BY <2>1, <3>1
      <3>3. Cardinality({i}) = 1
        BY FS_Singleton
      <3> QED
        BY <3>2, <3>3
    <2> QED
      BY <2>2, <2>3
  <1> QED
    BY <1>1, StorageInvariant, PTL
=============================================================================
