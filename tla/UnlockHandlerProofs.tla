------------------------- MODULE UnlockHandlerProofs -------------------------
(* Proofs about GetResult for every finite set of devices.                   *)
EXTENDS UnlockHandler, FiniteSetTheorems, TLAPS

P == INSTANCE UDPBroadcasterProofs WITH Callers <- Servers \cup {Main}

-----------------------------------------------------------------------------
\* The parts of the inductive invariant.

\* The counter counts the threads that have passed fetch_add.
Uncounted == InRunServer \cup {"count"}
Counted == {s \in Servers : pc[s] \notin Uncounted}
CountInv == completed = Cardinality(Counted)

\* A thread is in a call of the broadcaster only inside RunServer, the calling
\* thread only right after its own Start and Stop.
CallInv ==
    /\ \A s \in Servers : InCall(s) => pc[s] \in InRunServer
    /\ InCall(Main) => mainPc \in {"lock", "delete"}

\* The calling thread goes on only when every thread has been counted.
AllCounted == mainPc \in AfterWake => Counted = Servers

CallType == call \in [Servers \cup {Main} -> {"idle", "assign", "joinable", "join"}]

HandlerInv == HandlerTypeOK /\ CallType /\ CountInv /\ CallInv /\ AllCounted

-----------------------------------------------------------------------------
\* The types of the handler's own variables survive every step.
LEMMA HandlerTypeStep == HandlerTypeOK /\ [Next]_vars => HandlerTypeOK'
<1> SUFFICES ASSUME HandlerTypeOK, [Next]_vars PROVE HandlerTypeOK'
  OBVIOUS
<1> USE HandlerAssumption
<1> USE DEF HandlerTypeOK, Results, Result, States, Answers, InRunServer, InTail,
            BeforeWake, AfterWake, shared, locals, phone, env, mvars, At, Goto, MainAt
<1>1. ASSUME NEW s \in Servers, StartServer(s) PROVE HandlerTypeOK'
  <2>1. result' \in [Servers -> Results] /\ pc' \in [Servers -> InRunServer \cup InTail \cup {"done"}]
    BY <1>1 DEF StartServer
  <2>2. UNCHANGED <<shared, waitingForPhone, state, phone, env, mvars>>
    BY <1>1, Zenon DEF StartServer
  <2> QED
    BY <2>1, <2>2
<1>2. ASSUME NEW s \in Servers, CheckCancel(s) PROVE HandlerTypeOK'
  BY <1>2 DEF CheckCancel, Cancelled, StateWhenCancelled, Leave
<1>3. ASSUME NEW s \in Servers, ClientSeen(s) PROVE HandlerTypeOK'
  <2>1. pc' \in [Servers -> InRunServer \cup InTail \cup {"done"}]
    BY <1>3 DEF ClientSeen
  <2>2. waitingForPhone' \in [Servers -> BOOLEAN]
    BY <1>3, Zenon DEF ClientSeen
  <2>3. UNCHANGED <<shared, state, result, phone, env, mvars>>
    BY <1>3 DEF ClientSeen
  <2> QED
    BY <2>1, <2>2, <2>3
<1>4. ASSUME NEW s \in Servers, Poll(s) PROVE HandlerTypeOK'
  BY <1>4 DEF Poll, Leave
<1>5. ASSUME NEW s \in Servers, Expire(s) PROVE HandlerTypeOK'
  BY <1>5 DEF Expire, Leave, DeadlinePassed
<1>6. ASSUME NEW s \in Servers, ClientLost(s) PROVE HandlerTypeOK'
  <2>1. pc' \in [Servers -> InRunServer \cup InTail \cup {"done"}]
    BY <1>6 DEF ClientLost
  <2>2. waitingForPhone' \in [Servers -> BOOLEAN]
    BY <1>6, Zenon DEF ClientLost
  <2>3. UNCHANGED <<shared, state, result, phone, env, mvars>>
    BY <1>6 DEF ClientLost
  <2> QED
    BY <2>1, <2>2, <2>3
<1>7. ASSUME NEW s \in Servers, StopServer(s) PROVE HandlerTypeOK'
  BY <1>7 DEF StopServer
<1>8. ASSUME NEW s \in Servers, Decrypt(s) PROVE HandlerTypeOK'
  BY <1>8 DEF Decrypt, ServerResult
<1>9. ASSUME NEW s \in Servers, Count(s) PROVE HandlerTypeOK'
  BY <1>9 DEF Count
<1>10. ASSUME NEW s \in Servers, Publish(s) PROVE HandlerTypeOK'
  BY <1>10 DEF Publish
<1>11. ASSUME NEW s \in Servers, IsLast(s) PROVE HandlerTypeOK'
  BY <1>11 DEF IsLast
<1>12. ASSUME NEW s \in Servers, Recheck(s) PROVE HandlerTypeOK'
  BY <1>12 DEF Recheck, KeepsShared
<1>13. ASSUME NEW s \in Servers, Overwrite(s) PROVE HandlerTypeOK'
  BY <1>13 DEF Overwrite, KeepsShared
<1>14. ASSUME NEW s \in Servers, Notify(s) PROVE HandlerTypeOK'
  <2>1. waiting' \in BOOLEAN
    BY <1>14 DEF Notify
  <2> QED
    BY <1>14, <2>1 DEF Notify
<1>15. ASSUME StartBroadcast PROVE HandlerTypeOK'
  BY <1>15 DEF StartBroadcast
<1>16. ASSUME LockMutex PROVE HandlerTypeOK'
  BY <1>16 DEF LockMutex
<1>17. ASSUME EvalPredicate PROVE HandlerTypeOK'
  BY <1>17 DEF EvalPredicate, AllCompleted
<1>18. ASSUME Block PROVE HandlerTypeOK'
  BY <1>18 DEF Block
<1>19. ASSUME WakeUp PROVE HandlerTypeOK'
  BY <1>19 DEF WakeUp
<1>20. ASSUME ReadResult PROVE HandlerTypeOK'
  BY <1>20 DEF ReadResult
<1>21. ASSUME StopBroadcast PROVE HandlerTypeOK'
  BY <1>21 DEF StopBroadcast
<1>22. ASSUME DeleteBroadcaster PROVE HandlerTypeOK'
  BY <1>22 DEF DeleteBroadcaster
<1>23. ASSUME JoinThreads PROVE HandlerTypeOK'
  BY <1>23 DEF JoinThreads, Joinable
<1>24. ASSUME SpuriousWakeUp PROVE HandlerTypeOK'
  <2>1. waiting' \in BOOLEAN
    BY <1>24, Zenon DEF SpuriousWakeUp
  <2>2. mutex' \in {Main, NoDevice} /\ mainPc' \in BeforeWake \cup AfterWake
    BY <1>24 DEF SpuriousWakeUp
  <2>3. UNCHANGED <<currentResult, pc, locals, phone, env, returned, staleOverwrite>>
    BY <1>24, Zenon DEF SpuriousWakeUp
  <2> QED
    BY <2>1, <2>2, <2>3
<1>25. ASSUME NEW s \in Servers, PhoneAttaches(s) PROVE HandlerTypeOK'
  BY <1>25 DEF PhoneAttaches
<1>26. ASSUME NEW s \in Servers, PhoneLeaves(s) PROVE HandlerTypeOK'
  BY <1>26 DEF PhoneLeaves
<1>27. ASSUME NEW s \in Servers, NEW a \in Answers, ConnectionReports(s, a) PROVE HandlerTypeOK'
  BY <1>27 DEF ConnectionReports
<1>28. ASSUME ClockExpires PROVE HandlerTypeOK'
  BY <1>28 DEF ClockExpires
<1>29. ASSUME PressOrReleaseKeys PROVE HandlerTypeOK'
  BY <1>29 DEF PressOrReleaseKeys
<1>30. ASSUME CallerCancels PROVE HandlerTypeOK'
  <2>1. isRunning' \in BOOLEAN
    BY <1>30 DEF CallerCancels
  <2> QED
    BY <1>30, <2>1 DEF CallerCancels
<1>31. ASSUME BroadcasterStep PROVE HandlerTypeOK'
  BY <1>31 DEF BroadcasterStep
<1>33. ASSUME NEW s \in Servers, LateThreadEnds(s) PROVE HandlerTypeOK'
  BY <1>33 DEF LateThreadEnds
<1>32. ASSUME UNCHANGED vars PROVE HandlerTypeOK'
  BY <1>32 DEF vars
<1> HIDE DEF HandlerTypeOK
<1> QED
  BY <1>1, <1>2, <1>3, <1>4, <1>5, <1>6, <1>7, <1>8, <1>9, <1>10, <1>11, <1>12, <1>13, <1>14, <1>15, <1>16, <1>17, <1>18, <1>19, <1>20, <1>21, <1>22, <1>23, <1>24, <1>25, <1>26, <1>27, <1>28, <1>29, <1>30, <1>31, <1>32, <1>33
  DEF Next, ServerStep, MainStep

-----------------------------------------------------------------------------
\* A step of thread s that does not pass fetch_add: it moves between labels on
\* the same side of it, and if it enters a call it stays inside RunServer.
LEMMA ServerFrame ==
  ASSUME HandlerInv, NEW s \in Servers, NEW l,
         pc' = [pc EXCEPT ![s] = l],
         pc[s] \in Uncounted <=> l \in Uncounted,
         UNCHANGED <<completed, mainPc>>,
         CallType',
         \A t \in (Servers \cup {Main}) \ {s} : call'[t] = call[t],
         call'[s] # "idle" => l \in InRunServer
  PROVE  CountInv' /\ CallInv' /\ AllCounted'
<1> USE HandlerAssumption DEF HandlerInv, HandlerTypeOK
<1>1. Counted' = Counted
  BY DEF Counted, Uncounted
<1>2. CallInv'
  BY DEF CallInv, InCall
<1> QED
  BY <1>1, <1>2 DEF CountInv, AllCounted

\* A step that moves no thread past fetch_add and starts no call.
LEMMA OtherFrame ==
  ASSUME HandlerInv, UNCHANGED <<completed, pc, call, mainPc>>
  PROVE  CallType' /\ CountInv' /\ CallInv' /\ AllCounted'
BY DEF HandlerInv, CallType, CountInv, CallInv, AllCounted, Counted, InCall

\* The number of counted threads lies between none and all.
LEMMA CountBound ==
  ASSUME HandlerInv
  PROVE  /\ completed \in 0..Cardinality(Servers)
         /\ completed = Cardinality(Servers) => Counted = Servers
<1>1. IsFiniteSet(Servers) /\ Counted \in SUBSET Servers
  BY HandlerAssumption DEF Counted
<1>2. Cardinality(Servers) \in Nat
  BY <1>1, FS_CardinalityType
<1>3. /\ Cardinality(Counted) \in Nat
      /\ Cardinality(Counted) <= Cardinality(Servers)
      /\ Cardinality(Counted) = Cardinality(Servers) => Counted = Servers
  BY <1>1, FS_Subset, FS_CardinalityType
<1> QED
  BY <1>2, <1>3 DEF HandlerInv, CountInv

\* The labels behind fetch_add.
LEMMA Labels ==
  \A l \in (InTail \ {"count"}) \cup {"done"} : l \notin Uncounted
BY DEF Uncounted, InRunServer, InTail

LEMMA HandlerInvStep ==
  HandlerInv /\ [Next]_vars => CallType' /\ CountInv' /\ CallInv' /\ AllCounted'
<1> SUFFICES ASSUME HandlerInv, [Next]_vars
             PROVE  CallType' /\ CountInv' /\ CallInv' /\ AllCounted'
  OBVIOUS
<1> DEFINE Goal == CallType' /\ CountInv' /\ CallInv' /\ AllCounted'
<1>0. HandlerTypeOK /\ CallType
  BY DEF HandlerInv
<1> USE HandlerAssumption
<1>1. ASSUME NEW s \in Servers, StartServer(s) PROVE Goal
  <2>1. PICK l : /\ pc' = [pc EXCEPT ![s] = l]
                 /\ pc[s] \in Uncounted <=> l \in Uncounted
    BY <1>1 DEF StartServer, At, Goto, Uncounted, InRunServer
  <2>2. call[s] = "idle" /\ UNCHANGED <<completed, mainPc, call>>
    BY <1>1 DEF StartServer, At, InCall, shared, mvars, bvars
  <2> QED
    BY <1>0, <2>1, <2>2, ServerFrame DEF CallType
<1>2. ASSUME NEW s \in Servers, CheckCancel(s) PROVE Goal
  <2>1. PICK l : /\ pc' = [pc EXCEPT ![s] = l]
                 /\ pc[s] \in Uncounted <=> l \in Uncounted
    BY <1>2 DEF CheckCancel, At, Goto, Leave, Uncounted, InRunServer
  <2>2. call[s] = "idle" /\ UNCHANGED <<completed, mainPc, call>>
    BY <1>2 DEF CheckCancel, At, InCall, shared, mvars, bvars
  <2> QED
    BY <1>0, <2>1, <2>2, ServerFrame DEF CallType
<1>3. ASSUME NEW s \in Servers, Poll(s) PROVE Goal
  <2>1. PICK l : /\ pc' = [pc EXCEPT ![s] = l]
                 /\ pc[s] \in Uncounted <=> l \in Uncounted
    BY <1>3 DEF Poll, At, Goto, Leave, Uncounted, InRunServer
  <2>2. call[s] = "idle" /\ UNCHANGED <<completed, mainPc, call>>
    BY <1>3 DEF Poll, At, InCall, shared, mvars, bvars
  <2> QED
    BY <1>0, <2>1, <2>2, ServerFrame DEF CallType
<1>4. ASSUME NEW s \in Servers, Expire(s) PROVE Goal
  <2>1. PICK l : /\ pc' = [pc EXCEPT ![s] = l]
                 /\ pc[s] \in Uncounted <=> l \in Uncounted
    BY <1>4 DEF Expire, At, Goto, Leave, Uncounted, InRunServer
  <2>2. call[s] = "idle" /\ UNCHANGED <<completed, mainPc, call>>
    BY <1>4 DEF Expire, At, InCall, shared, mvars, bvars
  <2> QED
    BY <1>0, <2>1, <2>2, ServerFrame DEF CallType
<1>5. ASSUME NEW s \in Servers, StopServer(s) PROVE Goal
  <2>1. PICK l : /\ pc' = [pc EXCEPT ![s] = l]
                 /\ pc[s] \in Uncounted <=> l \in Uncounted
    BY <1>5 DEF StopServer, At, Goto, Uncounted, InRunServer
  <2>2. call[s] = "idle" /\ UNCHANGED <<completed, mainPc, call>>
    BY <1>5 DEF StopServer, At, InCall, shared, mvars, bvars
  <2> QED
    BY <1>0, <2>1, <2>2, ServerFrame DEF CallType
<1>6. ASSUME NEW s \in Servers, Decrypt(s) PROVE Goal
  <2>1. PICK l : /\ pc' = [pc EXCEPT ![s] = l]
                 /\ pc[s] \in Uncounted <=> l \in Uncounted
    BY <1>6 DEF Decrypt, At, Goto, Uncounted, InRunServer
  <2>2. call[s] = "idle" /\ UNCHANGED <<completed, mainPc, call>>
    BY <1>6 DEF Decrypt, At, InCall, shared, mvars, bvars
  <2> QED
    BY <1>0, <2>1, <2>2, ServerFrame DEF CallType
<1>7. ASSUME NEW s \in Servers, Publish(s) PROVE Goal
  <2>0. pc[s] = "publish" /\ pc' = [pc EXCEPT ![s] = "isLast"]
    BY <1>7 DEF Publish, At, Goto
  <2>1. PICK l : /\ pc' = [pc EXCEPT ![s] = l]
                 /\ pc[s] \in Uncounted <=> l \in Uncounted
    BY <2>0, Labels DEF InTail
  <2>2. call[s] = "idle" /\ UNCHANGED <<completed, mainPc, call>>
    BY <1>7 DEF Publish, At, InCall, shared, mvars, bvars
  <2> QED
    BY <1>0, <2>1, <2>2, ServerFrame DEF CallType
<1>8. ASSUME NEW s \in Servers, IsLast(s) PROVE Goal
  <2>0. pc[s] = "isLast" /\ pc' = [pc EXCEPT ![s] = IF completed = Cardinality(Servers) THEN "recheck" ELSE "done"]
    BY <1>8 DEF IsLast, At, Goto
  <2>1. PICK l : /\ pc' = [pc EXCEPT ![s] = l]
                 /\ pc[s] \in Uncounted <=> l \in Uncounted
    BY <2>0, Labels DEF InTail
  <2>2. call[s] = "idle" /\ UNCHANGED <<completed, mainPc, call>>
    BY <1>8 DEF IsLast, At, InCall, shared, mvars, bvars
  <2> QED
    BY <1>0, <2>1, <2>2, ServerFrame DEF CallType
<1>9. ASSUME NEW s \in Servers, Recheck(s) PROVE Goal
  <2>0. pc[s] = "recheck" /\ pc' = [pc EXCEPT ![s] = IF KeepsShared THEN "notify" ELSE "overwrite"]
    BY <1>9 DEF Recheck, At, Goto
  <2>1. PICK l : /\ pc' = [pc EXCEPT ![s] = l]
                 /\ pc[s] \in Uncounted <=> l \in Uncounted
    BY <2>0, Labels DEF InTail
  <2>2. call[s] = "idle" /\ UNCHANGED <<completed, mainPc, call>>
    BY <1>9 DEF Recheck, At, InCall, shared, mvars, bvars
  <2> QED
    BY <1>0, <2>1, <2>2, ServerFrame DEF CallType
<1>10. ASSUME NEW s \in Servers, Overwrite(s) PROVE Goal
  <2>0. pc[s] = "overwrite" /\ pc' = [pc EXCEPT ![s] = "notify"]
    BY <1>10 DEF Overwrite, At, Goto
  <2>1. PICK l : /\ pc' = [pc EXCEPT ![s] = l]
                 /\ pc[s] \in Uncounted <=> l \in Uncounted
    BY <2>0, Labels DEF InTail
  <2>2. call[s] = "idle" /\ UNCHANGED <<completed, mainPc, call>>
    BY <1>10 DEF Overwrite, At, InCall, shared, mvars, bvars
  <2> QED
    BY <1>0, <2>1, <2>2, ServerFrame DEF CallType
<1>11. ASSUME NEW s \in Servers, Notify(s) PROVE Goal
  <2>0. pc[s] = "notify" /\ pc' = [pc EXCEPT ![s] = "done"]
    BY <1>11 DEF Notify, At, Goto
  <2>1. PICK l : /\ pc' = [pc EXCEPT ![s] = l]
                 /\ pc[s] \in Uncounted <=> l \in Uncounted
    BY <2>0, Labels DEF InTail
  <2>2. call[s] = "idle" /\ UNCHANGED <<completed, mainPc, call>>
    BY <1>11 DEF Notify, At, InCall, shared, mvars, bvars
  <2> QED
    BY <1>0, <2>1, <2>2, ServerFrame DEF CallType
<1>12. ASSUME NEW s \in Servers, ClientSeen(s) PROVE Goal
  <2>1. /\ pc' = [pc EXCEPT ![s] = "poll"]
        /\ pc[s] \in Uncounted /\ "poll" \in InRunServer /\ "poll" \in Uncounted
    BY <1>12 DEF ClientSeen, At, Goto, Uncounted, InRunServer
  <2>2. UNCHANGED <<completed, mainPc>> /\ (UNCHANGED bvars \/ B!StopCall(s))
    BY <1>12 DEF ClientSeen, shared, mvars
  <2>3. CallType' /\ \A t \in (Servers \cup {Main}) \ {s} : call'[t] = call[t]
    BY <1>0, <2>2 DEF CallType, bvars, B!StopCall
  <2> QED
    BY <2>1, <2>2, <2>3, ServerFrame
<1>13. ASSUME NEW s \in Servers, ClientLost(s) PROVE Goal
  <2>1. /\ pc' = [pc EXCEPT ![s] = "check"]
        /\ pc[s] \in Uncounted /\ "check" \in InRunServer /\ "check" \in Uncounted
    BY <1>13 DEF ClientLost, At, Goto, Uncounted, InRunServer
  <2>2. UNCHANGED <<completed, mainPc>> /\ (UNCHANGED bvars \/ B!StartCall(s))
    BY <1>13 DEF ClientLost, shared, mvars
  <2>3. CallType' /\ \A t \in (Servers \cup {Main}) \ {s} : call'[t] = call[t]
    BY <1>0, <2>2 DEF CallType, bvars, B!StartCall
  <2> QED
    BY <2>1, <2>2, <2>3, ServerFrame
<1>14. ASSUME NEW s \in Servers, Count(s) PROVE Goal
  <2>1. Counted' = Counted \cup {s} /\ s \notin Counted
    BY <1>14, <1>0 DEF Count, At, Goto, HandlerTypeOK, Counted, Uncounted, InRunServer
  <2>2. IsFiniteSet(Counted) /\ Cardinality(Counted) \in Nat
    BY FS_Subset, FS_CardinalityType DEF Counted
  <2>3. completed' = Cardinality(Counted')
    BY <1>14, <2>1, <2>2, FS_AddElement DEF Count, HandlerInv, CountInv
  <2>4. UNCHANGED <<mainPc, call>> /\ call[s] = "idle"
    BY <1>14 DEF Count, At, InCall, mvars, bvars
  <2>5. \A t \in Servers : t # s => pc'[t] = pc[t]
    BY <1>14, <1>0 DEF Count, Goto, HandlerTypeOK
  <2>6. CallInv' /\ CallType'
    BY <1>0, <2>4, <2>5 DEF HandlerInv, CallInv, CallType, InCall
  <2>7. AllCounted'
    BY <2>1, <2>4 DEF HandlerInv, AllCounted
  <2> QED
    BY <2>3, <2>6, <2>7 DEF CountInv
<1>15. ASSUME LockMutex PROVE Goal
  <2>1. UNCHANGED <<completed, pc, call>> /\ mainPc' \notin AfterWake /\ call[Main] = "idle"
    BY <1>15 DEF LockMutex, MainAt, InCall, bvars, AfterWake
  <2> QED
    BY <2>1 DEF HandlerInv, CallType, CountInv, CallInv, AllCounted, Counted, InCall
<1>16. ASSUME Block PROVE Goal
  <2>1. UNCHANGED <<completed, pc, call>> /\ mainPc' \notin AfterWake /\ call[Main] = "idle"
    BY <1>16 DEF Block, MainAt, InCall, bvars, AfterWake
  <2> QED
    BY <2>1 DEF HandlerInv, CallType, CountInv, CallInv, AllCounted, Counted, InCall
<1>17. ASSUME WakeUp PROVE Goal
  <2>1. UNCHANGED <<completed, pc, call>> /\ mainPc' \notin AfterWake /\ call[Main] = "idle"
    BY <1>17 DEF WakeUp, MainAt, InCall, bvars, AfterWake
  <2> QED
    BY <2>1 DEF HandlerInv, CallType, CountInv, CallInv, AllCounted, Counted, InCall
<1>18. ASSUME ReadResult PROVE Goal
  <2>1. UNCHANGED <<completed, pc, call>> /\ mainPc \in AfterWake /\ call[Main] = "idle"
    BY <1>18 DEF ReadResult, MainAt, InCall, shared, bvars, AfterWake
  <2> QED
    BY <2>1 DEF HandlerInv, CallType, CountInv, CallInv, AllCounted, Counted, InCall
<1>19. ASSUME JoinThreads PROVE Goal
  <2>1. UNCHANGED <<completed, pc, call>> /\ mainPc \in AfterWake /\ call[Main] = "idle"
    BY <1>19 DEF JoinThreads, MainAt, InCall, shared, bvars, AfterWake
  <2> QED
    BY <2>1 DEF HandlerInv, CallType, CountInv, CallInv, AllCounted, Counted, InCall
<1>20. ASSUME EvalPredicate PROVE Goal
  <2>1. /\ UNCHANGED <<completed, pc, call>> /\ call[Main] = "idle"
        /\ mainPc' \in AfterWake => completed = Cardinality(Servers)
    BY <1>20 DEF EvalPredicate, AllCompleted, MainAt, InCall, shared, bvars, AfterWake
  <2> QED
    BY <2>1, CountBound DEF HandlerInv, CallType, CountInv, CallInv, AllCounted, Counted, InCall
<1>21. ASSUME SpuriousWakeUp PROVE Goal
  <2>1. /\ UNCHANGED <<completed, pc, call>> /\ call[Main] = "idle"
        /\ mainPc' \in AfterWake => completed = Cardinality(Servers)
    BY <1>21 DEF SpuriousWakeUp, AllCompleted, MainAt, InCall, shared, bvars, AfterWake
  <2> QED
    BY <2>1, CountBound DEF HandlerInv, CallType, CountInv, CallInv, AllCounted, Counted, InCall
<1>22. ASSUME StartBroadcast PROVE Goal
  <2>1. /\ UNCHANGED <<completed, pc>> /\ mainPc' = "lock"
        /\ UNCHANGED bvars \/ B!StartCall(Main)
    BY <1>22 DEF StartBroadcast, shared
  <2>2. CallType' /\ \A s \in Servers : call'[s] = call[s]
    BY <1>0, <2>1 DEF CallType, bvars, B!StartCall
  <2> QED
    BY <2>1, <2>2 DEF HandlerInv, CountInv, CallInv, AllCounted, Counted, InCall, AfterWake
<1>23. ASSUME StopBroadcast PROVE Goal
  <2>1. /\ UNCHANGED <<completed, pc>> /\ mainPc \in AfterWake
        /\ \/ UNCHANGED bvars /\ call[Main] = "idle"
           \/ B!StopCall(Main) /\ mainPc' = "delete"
    BY <1>23 DEF StopBroadcast, MainAt, InCall, shared, AfterWake
  <2>2. CallType' /\ \A s \in Servers : call'[s] = call[s]
    BY <1>0, <2>1 DEF CallType, bvars, B!StopCall
  <2>3. call'[Main] # "idle" => mainPc' = "delete"
    BY <2>1 DEF bvars
  <2> QED
    BY <2>1, <2>2, <2>3 DEF HandlerInv, CountInv, CallInv, AllCounted, Counted, InCall
<1>24. ASSUME DeleteBroadcaster PROVE Goal
  <2>1. UNCHANGED <<completed, pc, call>> /\ mainPc \in AfterWake /\ call[Main] = "idle"
    BY <1>24 DEF DeleteBroadcaster, B!Destroy, MainAt, InCall, shared, AfterWake
  <2> QED
    BY <2>1 DEF HandlerInv, CallType, CountInv, CallInv, AllCounted, Counted, InCall
<1>25. ASSUME BroadcasterStep PROVE Goal
  <2>1. UNCHANGED <<completed, pc, mainPc>>
    BY <1>25 DEF BroadcasterStep, shared, mvars
  <2>2. CASE \E b \in live : B!BeaconExit(b)
    BY <2>1, <2>2, OtherFrame DEF B!BeaconExit
  <2>3. CASE \E c \in Servers \cup {Main} : B!CallStep(c)
    <3>1. PICK c \in Servers \cup {Main} : B!CallStep(c)
      BY <2>3
    <3>2. /\ call[c] # "idle" /\ CallType'
          /\ \A t \in (Servers \cup {Main}) \ {c} : call'[t] = call[t]
      BY <1>0, <3>1 DEF B!CallStep, B!StartAssign, B!StopJoinable, B!StopJoin, CallType
    <3> QED
      BY <2>1, <3>2 DEF HandlerInv, CountInv, CallInv, AllCounted, Counted, InCall
  <2> QED
    BY <1>25, <2>2, <2>3 DEF BroadcasterStep
<1>26. ASSUME NEW s \in Servers, PhoneAttaches(s) PROVE Goal
  BY <1>26, OtherFrame DEF PhoneAttaches, shared, mvars, bvars
<1>27. ASSUME NEW s \in Servers, PhoneLeaves(s) PROVE Goal
  BY <1>27, OtherFrame DEF PhoneLeaves, shared, mvars, bvars
<1>28. ASSUME NEW s \in Servers, NEW a \in Answers, ConnectionReports(s, a) PROVE Goal
  BY <1>28, OtherFrame DEF ConnectionReports, shared, mvars, bvars
<1>29. ASSUME ClockExpires PROVE Goal
  BY <1>29, OtherFrame DEF ClockExpires, shared, mvars, bvars
<1>30. ASSUME PressOrReleaseKeys PROVE Goal
  BY <1>30, OtherFrame DEF PressOrReleaseKeys, shared, mvars, bvars
<1>31. ASSUME CallerCancels PROVE Goal
  BY <1>31, OtherFrame DEF CallerCancels, shared, mvars, bvars
<1>33. ASSUME NEW s \in Servers, LateThreadEnds(s) PROVE Goal
  <2>1. PICK l : /\ pc' = [pc EXCEPT ![s] = l]
                 /\ pc[s] \in Uncounted <=> l \in Uncounted
    BY <1>33 DEF LateThreadEnds, At, Goto, Uncounted, InRunServer
  <2>2. call[s] = "idle" /\ UNCHANGED <<completed, mainPc, call>>
    BY <1>33 DEF LateThreadEnds, At, InCall, shared, mvars, bvars
  <2> QED
    BY <1>0, <2>1, <2>2, ServerFrame DEF CallType
<1>32. ASSUME UNCHANGED vars PROVE Goal
  BY <1>32, OtherFrame DEF vars, shared, mvars, bvars
<1> QED
  BY <1>1, <1>2, <1>3, <1>4, <1>5, <1>6, <1>7, <1>8, <1>9, <1>10, <1>11, <1>12, <1>13, <1>14, <1>15, <1>16, <1>17, <1>18, <1>19, <1>20, <1>21, <1>22, <1>23, <1>24, <1>25, <1>26, <1>27, <1>28, <1>29, <1>30, <1>31, <1>32, <1>33
  DEF Next, ServerStep, MainStep

-----------------------------------------------------------------------------
\* The inductive invariant holds in every state of GetResult.
THEOREM HandlerInvariance == Spec => []HandlerInv
<1>1. Init => HandlerInv
  <2> SUFFICES ASSUME Init PROVE HandlerInv
    OBVIOUS
  <2> USE HandlerAssumption
  <2> USE DEF Init, Results, Result, States, Answers, InRunServer, BeforeWake, NoDevice
  <2>1. HandlerTypeOK
    <3>1. currentResult \in Results /\ returned \in Results /\ mutex \in {Main, NoDevice}
      OBVIOUS
    <3>2. /\ pc \in [Servers -> InRunServer \cup InTail \cup {"done"}]
          /\ waitingForPhone \in [Servers -> BOOLEAN] /\ hasClient \in [Servers -> BOOLEAN]
      OBVIOUS
    <3>3. state \in [Servers -> States] /\ result \in [Servers -> Results]
      OBVIOUS
    <3>4. answer \in [Servers -> Answers \cup {"UNKNOWN"}] /\ attached \in [Servers -> 0..MaxAttach]
      OBVIOUS
    <3>5. /\ waiting \in BOOLEAN /\ expired \in BOOLEAN /\ keys \in BOOLEAN
          /\ isRunning \in BOOLEAN /\ staleOverwrite \in BOOLEAN
          /\ mainPc \in BeforeWake \cup AfterWake
      OBVIOUS
    <3> QED
      BY <3>1, <3>2, <3>3, <3>4, <3>5 DEF HandlerTypeOK
  <2>2. CallType /\ \A c \in Servers \cup {Main} : call[c] = "idle"
    BY DEF Init, CallType, B!BroadcasterInit
  <2>3. Counted = {}
    BY DEF Init, Counted, Uncounted, InRunServer
  <2>4. CountInv
    BY <2>3, FS_EmptySet DEF Init, CountInv
  <2>5. CallInv /\ AllCounted
    BY <2>2 DEF Init, CallInv, AllCounted, InCall, AfterWake
  <2> QED
    BY <2>1, <2>2, <2>4, <2>5 DEF HandlerInv
<1>2. HandlerInv /\ [Next]_vars => HandlerInv'
  BY HandlerTypeStep, HandlerInvStep DEF HandlerInv
<1> QED
  BY <1>1, <1>2, PTL DEF Spec

\* The handler uses the broadcaster as its specification allows: every step of
\* GetResult is a step of the object on its own, or leaves it alone, and when it
\* is deleted no thread is inside Start or Stop.
THEOREM HandlerUsesBroadcaster == Spec => UsesBroadcaster
<1>1. Init => B!BroadcasterInit
  BY DEF Init
<1>2. HandlerInv /\ [Next]_vars => [B!BroadcasterNext]_bvars
  <2> SUFFICES ASSUME HandlerInv, Next, ~UNCHANGED bvars PROVE B!BroadcasterNext
    BY DEF vars, bvars
  <2>1. ASSUME NEW s \in Servers, ServerStep(s) PROVE B!StartCall(s) \/ B!StopCall(s)
    BY <2>1 DEF ServerStep, StartServer, CheckCancel, ClientSeen, Poll, Expire, ClientLost,
                StopServer, Decrypt, Count, Publish, IsLast, Recheck, Overwrite, Notify
  <2>2. CASE MainStep \/ SpuriousWakeUp
    <3>1. B!StartCall(Main) \/ B!StopCall(Main) \/ DeleteBroadcaster
      BY <2>2 DEF MainStep, SpuriousWakeUp, StartBroadcast, LockMutex, EvalPredicate, Block,
                  WakeUp, ReadResult, StopBroadcast, JoinThreads
    <3>2. ASSUME DeleteBroadcaster PROVE \A c \in Servers \cup {Main} : B!Idle(c)
      <4>1. mainPc \in AfterWake /\ ~InCall(Main)
        BY <3>2 DEF DeleteBroadcaster, MainAt, AfterWake
      <4>2. \A s \in Servers : pc[s] \notin InRunServer
        BY <4>1 DEF HandlerInv, AllCounted, Counted, Uncounted
      <4> QED
        BY <4>1, <4>2 DEF HandlerInv, CallInv, InCall, B!Idle
    <3> QED
      BY <3>1, <3>2 DEF B!BroadcasterNext, DeleteBroadcaster
  <2>3. CASE BroadcasterStep
    BY <2>3 DEF BroadcasterStep, B!BroadcasterNext
  <2>4. ASSUME NEW s \in Servers, LateThreadEnds(s) \/ PhoneAttaches(s) \/ PhoneLeaves(s)
       PROVE FALSE
    BY <2>4 DEF LateThreadEnds, PhoneAttaches, PhoneLeaves
  <2>5. ASSUME NEW s \in Servers, NEW a \in Answers, ConnectionReports(s, a) PROVE FALSE
    BY <2>5 DEF ConnectionReports
  <2>6. CASE ClockExpires \/ PressOrReleaseKeys \/ CallerCancels
    BY <2>6 DEF ClockExpires, PressOrReleaseKeys, CallerCancels
  <2> QED
    BY <2>1, <2>2, <2>3, <2>4, <2>5, <2>6 DEF Next, B!BroadcasterNext
<1> QED
  BY <1>1, <1>2, HandlerInvariance, PTL DEF Spec, UsesBroadcaster, B!BroadcasterSpec, B!bvars, bvars

\* The object of UnlockHandler and the one the broadcaster's theorems are about.
LEMMA SameBroadcaster == B!BroadcasterSpec => P!BroadcasterSpec
<1>1. B!BroadcasterInit => P!BroadcasterInit
  BY DEF B!BroadcasterInit, P!BroadcasterInit
<1>2. [B!BroadcasterNext]_B!bvars => [P!BroadcasterNext]_P!bvars
  BY DEF B!bvars, P!bvars, B!BroadcasterNext, P!BroadcasterNext, B!StartCall,
      P!StartCall, B!StopCall, P!StopCall, B!CallStep, P!CallStep,
      B!StartAssign, P!StartAssign, B!StopJoinable, P!StopJoinable,
      B!StopJoin, P!StopJoin, B!Destroy, P!Destroy, B!BeaconExit,
      P!BeaconExit, B!Idle, P!Idle, B!Usable, P!Usable, B!Overlaps,
      P!Overlaps
<1> QED
  BY <1>1, <1>2, PTL DEF P!BroadcasterSpec, B!BroadcasterSpec

\* No use after delete: once the calling thread goes on to stop and delete the
\* broadcaster, no thread is inside RunServer (UnlockHandler.cpp, GetResult).
THEOREM HandlerNoUseAfterDelete == Spec => []NoUseAfterDelete
<1>1. HandlerInv => NoUseAfterDelete
  BY DEF HandlerInv, AllCounted, Counted, Uncounted, NoUseAfterDelete
<1> QED
  BY <1>1, HandlerInvariance, PTL

\* Every variable keeps its type; in particular the completion counter never
\* exceeds the number of devices, so that cv.wait can compare for equality.
THEOREM HandlerTypeCorrect == Spec => []TypeOK
<1>1. P!BroadcasterSpec => []P!BroadcasterInv
  BY P!BroadcasterInvariance, PTL
<1>2. P!BroadcasterInv => B!BroadcasterTypeOK
  BY DEF P!BroadcasterInv, P!BroadcasterTypeOK, B!BroadcasterTypeOK
<1>3. HandlerInv /\ B!BroadcasterTypeOK => TypeOK
  BY CountBound DEF TypeOK, HandlerInv
<1> QED
  BY <1>1, <1>2, <1>3, HandlerInvariance, HandlerUsesBroadcaster, SameBroadcaster, PTL
  DEF UsesBroadcaster

\* What the broadcaster promises any well-behaved user, it promises the handler:
\* its calls end the process only if two of them overlap ...
THEOREM HandlerBroadcasterSafe == Spec => []BroadcasterSafe
<1>1. P!BroadcasterSpec => []P!SafeUnlessOverlapped
  BY P!BroadcasterSafety, PTL
<1>2. P!SafeUnlessOverlapped => BroadcasterSafe
  BY DEF P!SafeUnlessOverlapped, BroadcasterSafe, B!SafeUnlessOverlapped, P!Idle, B!Idle
<1> QED
  BY <1>1, <1>2, HandlerUsesBroadcaster, SameBroadcaster, PTL DEF UsesBroadcaster

\* ... and a beacon that one of its threads switched on is being sent.
THEOREM HandlerBeaconIsSent == Spec => []BeaconIsSent
<1>1. P!BroadcasterSpec => []P!OnMeansSending
  BY P!BroadcasterSends, PTL
<1>2. P!OnMeansSending => BeaconIsSent
  BY DEF P!OnMeansSending, BeaconIsSent, B!OnMeansSending, P!Idle, B!Idle, P!Usable, B!Usable
<1> QED
  BY <1>1, <1>2, HandlerUsesBroadcaster, SameBroadcaster, PTL DEF UsesBroadcaster

-----------------------------------------------------------------------------
(***************************************************************************)
(* What GetResult returns, for every finite set of devices.                *)
(***************************************************************************)

\* The parts of the inductive invariants.

\* A success in a result is the one its device's RunServer ended with; RunServer
\* ended with it after a phone had attached, and does not run again.
Sound(r) == r.state = "SUCCESS" => r.device \in Servers /\ result[r.device] = r

PhoneInv == \A s \in Servers :
    hasClient[s] \/ answer[s] = "SUCCESS" \/ state[s] = "SUCCESS" => attached[s] > 0

ResultInv == \A s \in Servers : result[s].state = "SUCCESS" =>
    result[s].device = s /\ state[s] = "SUCCESS" /\ pc[s] \notin InRunServer

GenuineInv == PhoneInv /\ ResultInv /\ Sound(currentResult) /\ Sound(returned)

-----------------------------------------------------------------------------
\* A thread that moves between labels keeps the invariant, unless it moves back
\* into RunServer.
LEMMA GenuineMove ==
  ASSUME HandlerTypeOK, GenuineInv, NEW s \in Servers, NEW l,
         pc' = [pc EXCEPT ![s] = l],
         pc[s] \notin InRunServer => l \notin InRunServer,
         UNCHANGED <<phone, state, result, currentResult, returned>>
  PROVE  GenuineInv'
BY DEF HandlerTypeOK, GenuineInv, PhoneInv, ResultInv, Sound, phone

\* So does every step that leaves threads, phones and results alone.
LEMMA GenuineFrame ==
  ASSUME GenuineInv, UNCHANGED <<pc, phone, state, result, currentResult, returned>>
  PROVE  GenuineInv'
BY DEF GenuineInv, PhoneInv, ResultInv, Sound, phone

\* Leaving the loop with a success takes an attached phone.
LEMMA GenuineLeave ==
  ASSUME HandlerTypeOK, GenuineInv, NEW s \in Servers, NEW st, Leave(s, st),
         pc[s] \in InRunServer, st = "SUCCESS" => attached[s] > 0,
         UNCHANGED <<phone, result, currentResult, returned>>
  PROVE  GenuineInv'
<1>1. PhoneInv'
  BY DEF GenuineInv, PhoneInv, phone, Leave, HandlerTypeOK
<1>2. ResultInv'
  BY DEF GenuineInv, ResultInv, Leave, Goto, HandlerTypeOK
<1> QED
  BY <1>1, <1>2 DEF GenuineInv, Sound

LEMMA GenuineStep == HandlerTypeOK /\ GenuineInv /\ [Next]_vars => GenuineInv'
<1> SUFFICES ASSUME HandlerTypeOK, GenuineInv, [Next]_vars PROVE GenuineInv'
  OBVIOUS
<1> USE DEF InRunServer, At, Goto, shared, locals, env, mvars
<1>1. ASSUME NEW s \in Servers, StartServer(s) PROVE GenuineInv'
  <2>1. PhoneInv'
    BY <1>1 DEF StartServer, GenuineInv, PhoneInv, phone
  <2>2. ResultInv'
    BY <1>1 DEF StartServer, GenuineInv, ResultInv, HandlerTypeOK, Result
  <2>3. result[s].state # "SUCCESS" /\ \A r \in Servers \ {s} : result'[r] = result[r]
    BY <1>1 DEF StartServer, GenuineInv, ResultInv, HandlerTypeOK
  <2>4. Sound(currentResult)' /\ Sound(returned)'
    BY <1>1, <2>3 DEF StartServer, GenuineInv, Sound
  <2> QED
    BY <2>1, <2>2, <2>4 DEF GenuineInv
<1>2. ASSUME NEW s \in Servers, CheckCancel(s) PROVE GenuineInv'
  <2>1. CASE Leave(s, StateWhenCancelled)
    BY <1>2, <2>1, GenuineLeave DEF CheckCancel, StateWhenCancelled
  <2>2. CASE Goto(s, "client") /\ UNCHANGED state
    BY <1>2, <2>2, GenuineMove DEF CheckCancel
  <2> QED
    BY <1>2, <2>1, <2>2 DEF CheckCancel
<1>3. ASSUME NEW s \in Servers, ClientSeen(s) PROVE GenuineInv'
  BY <1>3, GenuineMove DEF ClientSeen
<1>4. ASSUME NEW s \in Servers, Poll(s) PROVE GenuineInv'
  <2>1. CASE Leave(s, answer[s])
    <3>1. answer[s] = "SUCCESS" => attached[s] > 0
      BY DEF GenuineInv, PhoneInv
    <3> QED
      BY <1>4, <2>1, <3>1, GenuineLeave DEF Poll
  <2>2. CASE Goto(s, "expire") /\ UNCHANGED state
    BY <1>4, <2>2, GenuineMove DEF Poll
  <2> QED
    BY <1>4, <2>1, <2>2 DEF Poll
<1>5. ASSUME NEW s \in Servers, Expire(s) PROVE GenuineInv'
  <2>1. CASE Leave(s, "TIMEOUT") \/ Leave(s, "CANCELED")
    BY <1>5, <2>1, GenuineLeave DEF Expire
  <2>2. CASE Goto(s, "lost") /\ UNCHANGED state
    BY <1>5, <2>2, GenuineMove DEF Expire
  <2> QED
    BY <1>5, <2>1, <2>2 DEF Expire
<1>6. ASSUME NEW s \in Servers, ClientLost(s) PROVE GenuineInv'
  BY <1>6, GenuineMove DEF ClientLost
<1>7. ASSUME NEW s \in Servers, StopServer(s) PROVE GenuineInv'
  <2>1. PhoneInv' /\ ResultInv'
    BY <1>7 DEF StopServer, GenuineInv, PhoneInv, ResultInv, HandlerTypeOK
  <2> QED
    BY <1>7, <2>1 DEF StopServer, GenuineInv, Sound
<1>8. ASSUME NEW s \in Servers, Decrypt(s) PROVE GenuineInv'
  <2>1. PICK decrypted \in BOOLEAN : result' = [result EXCEPT ![s] = ServerResult(s, decrypted)]
    BY <1>8 DEF Decrypt
  <2>2. PhoneInv'
    BY <1>8 DEF Decrypt, GenuineInv, PhoneInv, phone
  <2>3. ServerResult(s, decrypted).state = "SUCCESS" =>
            ServerResult(s, decrypted).device = s /\ state[s] = "SUCCESS"
    BY DEF ServerResult, Result
  <2>4. ResultInv'
    BY <1>8, <2>1, <2>3 DEF Decrypt, GenuineInv, ResultInv, HandlerTypeOK
  <2>5. result[s].state # "SUCCESS" /\ \A r \in Servers \ {s} : result'[r] = result[r]
    BY <1>8, <2>1 DEF Decrypt, GenuineInv, ResultInv, HandlerTypeOK
  <2>6. Sound(currentResult)' /\ Sound(returned)'
    BY <1>8, <2>5 DEF Decrypt, GenuineInv, Sound
  <2> QED
    BY <2>2, <2>4, <2>6 DEF GenuineInv
<1>9. ASSUME NEW s \in Servers, Count(s) PROVE GenuineInv'
  BY <1>9, GenuineMove DEF Count
<1>10. ASSUME NEW s \in Servers, Publish(s) PROVE GenuineInv'
  <2>1. PhoneInv' /\ ResultInv'
    BY <1>10 DEF Publish, GenuineInv, PhoneInv, ResultInv, HandlerTypeOK, phone
  <2>2. Sound(currentResult)' /\ Sound(returned)'
    BY <1>10 DEF Publish, GenuineInv, ResultInv, Sound
  <2> QED
    BY <2>1, <2>2 DEF GenuineInv
<1>11. ASSUME NEW s \in Servers, IsLast(s) PROVE GenuineInv'
  BY <1>11, GenuineMove DEF IsLast
<1>12. ASSUME NEW s \in Servers, Recheck(s) PROVE GenuineInv'
  BY <1>12, GenuineMove DEF Recheck
<1>13. ASSUME NEW s \in Servers, Overwrite(s) PROVE GenuineInv'
  <2>1. PhoneInv' /\ ResultInv'
    BY <1>13 DEF Overwrite, GenuineInv, PhoneInv, ResultInv, HandlerTypeOK, phone
  <2>2. Sound(currentResult)' /\ Sound(returned)'
    BY <1>13 DEF Overwrite, GenuineInv, ResultInv, Sound
  <2> QED
    BY <2>1, <2>2 DEF GenuineInv
<1>14. ASSUME NEW s \in Servers, Notify(s) PROVE GenuineInv'
  BY <1>14, GenuineMove DEF Notify
<1>15. ASSUME StartBroadcast PROVE GenuineInv'
  BY <1>15, GenuineFrame DEF StartBroadcast
<1>16. ASSUME LockMutex PROVE GenuineInv'
  BY <1>16, GenuineFrame DEF LockMutex
<1>17. ASSUME EvalPredicate PROVE GenuineInv'
  BY <1>17, GenuineFrame DEF EvalPredicate
<1>18. ASSUME Block PROVE GenuineInv'
  BY <1>18, GenuineFrame DEF Block
<1>19. ASSUME WakeUp PROVE GenuineInv'
  BY <1>19, GenuineFrame DEF WakeUp
<1>20. ASSUME ReadResult PROVE GenuineInv'
  BY <1>20 DEF ReadResult, GenuineInv, PhoneInv, ResultInv, Sound, phone
<1>21. ASSUME StopBroadcast PROVE GenuineInv'
  BY <1>21, GenuineFrame DEF StopBroadcast
<1>22. ASSUME DeleteBroadcaster PROVE GenuineInv'
  BY <1>22, GenuineFrame DEF DeleteBroadcaster
<1>23. ASSUME JoinThreads PROVE GenuineInv'
  BY <1>23, GenuineFrame DEF JoinThreads
<1>24. ASSUME SpuriousWakeUp PROVE GenuineInv'
  BY <1>24, GenuineFrame DEF SpuriousWakeUp
<1>25. ASSUME NEW s \in Servers, PhoneAttaches(s) PROVE GenuineInv'
  <2>1. PhoneInv'
    BY <1>25, HandlerAssumption DEF PhoneAttaches, GenuineInv, PhoneInv, HandlerTypeOK
  <2> QED
    BY <1>25, <2>1 DEF PhoneAttaches, GenuineInv, ResultInv, Sound
<1>26. ASSUME NEW s \in Servers, PhoneLeaves(s) PROVE GenuineInv'
  <2>1. PhoneInv'
    BY <1>26 DEF PhoneLeaves, GenuineInv, PhoneInv, HandlerTypeOK
  <2> QED
    BY <1>26, <2>1 DEF PhoneLeaves, GenuineInv, ResultInv, Sound
<1>27. ASSUME NEW s \in Servers, NEW a \in Answers, ConnectionReports(s, a) PROVE GenuineInv'
  <2>1. PhoneInv'
    BY <1>27 DEF ConnectionReports, GenuineInv, PhoneInv, HandlerTypeOK
  <2> QED
    BY <1>27, <2>1 DEF ConnectionReports, GenuineInv, ResultInv, Sound
<1>28. CASE ClockExpires \/ PressOrReleaseKeys \/ CallerCancels \/ BroadcasterStep
  BY <1>28, GenuineFrame DEF ClockExpires, PressOrReleaseKeys, CallerCancels, BroadcasterStep
<1>30. ASSUME NEW s \in Servers, LateThreadEnds(s) PROVE GenuineInv'
  BY <1>30, GenuineMove DEF LateThreadEnds
<1>29. CASE UNCHANGED vars
  BY <1>29, GenuineFrame DEF vars
<1> QED
  BY <1>1, <1>2, <1>3, <1>4, <1>5, <1>6, <1>7, <1>8, <1>9, <1>10, <1>11, <1>12, <1>13, <1>14, <1>15, <1>16, <1>17, <1>18, <1>19, <1>20, <1>21, <1>22, <1>23, <1>24, <1>25, <1>26, <1>27, <1>28, <1>29, <1>30
  DEF Next, ServerStep, MainStep

\* GetResult reports a success only for a device whose own RunServer ended with
\* one, after a phone had attached to its connection.
THEOREM HandlerSuccessIsGenuine == Spec => []SuccessIsGenuine
<1>1. Init => GenuineInv
  BY DEF Init, GenuineInv, PhoneInv, ResultInv, Sound, Result
<1>2. Spec => []HandlerInv
  BY HandlerInvariance
<1>3. HandlerInv /\ GenuineInv /\ [Next]_vars => GenuineInv'
  BY GenuineStep DEF HandlerInv
<1>4. GenuineInv => SuccessIsGenuine
  BY DEF GenuineInv, PhoneInv, ResultInv, Sound, SuccessIsGenuine, Genuine
<1> QED
  BY <1>1, <1>2, <1>3, <1>4, PTL DEF Spec

-----------------------------------------------------------------------------
\* An approval that was published stays known; the calling thread holds the
\* mutex from the predicate to its return, except while it is blocked; and what
\* it returns knows every approval, or some thread can not end before it does.
Approved(s) == result[s].state = "SUCCESS"
Unpublished == InRunServer \cup {"count", "publish"}
Known(r) == r.state = "SUCCESS" \/ staleOverwrite
Finishing == AfterWake \ {"returned"}

PublishedInv ==
    \A s \in Servers : Approved(s) /\ pc[s] \notin Unpublished => Known(currentResult)
MutexInv == mainPc \in {"wait", "block"} \cup Finishing => mutex = Main
ReturnedInv ==
    mainPc \in AfterWake \ {"read"} => \A s \in Servers :
        Approved(s) => Known(returned) \/ (pc[s] # "done" /\ mainPc # "returned")

KeptInv == PublishedInv /\ MutexInv /\ ReturnedInv

\* A thread that moves on keeps it if it publishes nothing, and ends only when
\* the calling thread is not about to return.
LEMMA KeptMove ==
  ASSUME HandlerTypeOK, KeptInv, NEW s \in Servers, NEW l,
         pc' = [pc EXCEPT ![s] = l],
         l \notin Unpublished => pc[s] \notin Unpublished,
         l = "done" => mainPc \notin Finishing,
         UNCHANGED <<result, currentResult, staleOverwrite, returned, mutex, mainPc>>
  PROVE  KeptInv'
<1>1. PublishedInv'
  BY DEF KeptInv, PublishedInv, Approved, Known, HandlerTypeOK
<1>2. ReturnedInv'
  BY DEF KeptInv, ReturnedInv, Approved, Known, Finishing, HandlerTypeOK
<1> QED
  BY <1>1, <1>2 DEF KeptInv, MutexInv

LEMMA KeptFrame ==
  ASSUME KeptInv, UNCHANGED <<pc, result, currentResult, staleOverwrite, returned, mutex, mainPc>>
  PROVE  KeptInv'
BY DEF KeptInv, PublishedInv, MutexInv, ReturnedInv, Approved, Known, Finishing

\* Steps of the calling thread before it has read the result.
LEMMA KeptBefore ==
  ASSUME KeptInv, mainPc' \in BeforeWake \cup {"read"},
         mainPc' \in {"wait", "block", "read"} => mutex' = Main,
         UNCHANGED <<pc, result, currentResult, staleOverwrite>>
  PROVE  KeptInv'
BY DEF KeptInv, PublishedInv, MutexInv, ReturnedInv, Approved, Known, Finishing, BeforeWake, AfterWake

LEMMA KeptStep == HandlerInv /\ KeptInv /\ [Next]_vars => KeptInv'
<1> SUFFICES ASSUME HandlerInv, KeptInv, [Next]_vars PROVE KeptInv'
  OBVIOUS
<1> USE DEF Goto, shared, locals, phone, env, mvars, Unpublished, InRunServer
<1>a. HandlerTypeOK
  BY DEF HandlerInv
\* While a thread is inside RunServer, the calling thread has not woken up.
<1>b. \A s \in Servers : pc[s] \in InRunServer => mainPc \notin AfterWake
  BY DEF HandlerInv, AllCounted, Counted, Uncounted
<1>1. ASSUME NEW s \in Servers, StartServer(s) PROVE KeptInv'
  <2>1. \A r \in Servers : Approved(r)' => Approved(r) /\ pc'[r] \in {pc[r], "check"}
    BY <1>1, <1>a DEF StartServer, At, Approved, HandlerTypeOK, Result
  <2>2. PublishedInv' /\ MutexInv'
    BY <1>1, <2>1 DEF StartServer, KeptInv, PublishedInv, MutexInv, Known
  <2>3. mainPc' \notin AfterWake
    BY <1>1, <1>b DEF StartServer, At
  <2> QED
    BY <2>2, <2>3 DEF KeptInv, ReturnedInv
<1>2. ASSUME NEW s \in Servers, CheckCancel(s) PROVE KeptInv'
  BY <1>2, <1>a, KeptMove DEF CheckCancel, Leave, At
<1>3. ASSUME NEW s \in Servers, ClientSeen(s) PROVE KeptInv'
  BY <1>3, <1>a, KeptMove DEF ClientSeen, At
<1>4. ASSUME NEW s \in Servers, Poll(s) PROVE KeptInv'
  BY <1>4, <1>a, KeptMove DEF Poll, Leave, At
<1>5. ASSUME NEW s \in Servers, Expire(s) PROVE KeptInv'
  BY <1>5, <1>a, KeptMove DEF Expire, Leave, At
<1>6. ASSUME NEW s \in Servers, ClientLost(s) PROVE KeptInv'
  BY <1>6, <1>a, KeptMove DEF ClientLost, At
<1>7. ASSUME NEW s \in Servers, StopServer(s) PROVE KeptInv'
  BY <1>7, <1>a, KeptMove DEF StopServer, At
<1>8. ASSUME NEW s \in Servers, Decrypt(s) PROVE KeptInv'
  <2>1. pc'[s] = "count" /\ \A r \in Servers \ {s} : pc'[r] = pc[r] /\ result'[r] = result[r]
    BY <1>8, <1>a DEF Decrypt, At, HandlerTypeOK
  <2>2. PublishedInv' /\ MutexInv'
    BY <1>8, <2>1 DEF Decrypt, KeptInv, PublishedInv, MutexInv, Known, Approved
  <2>3. mainPc' \notin AfterWake
    BY <1>8, <1>b DEF Decrypt, At
  <2> QED
    BY <2>2, <2>3 DEF KeptInv, ReturnedInv
<1>9. ASSUME NEW s \in Servers, Count(s) PROVE KeptInv'
  BY <1>9, <1>a, KeptMove DEF Count, At
<1>10. ASSUME NEW s \in Servers, Publish(s) PROVE KeptInv'
  <2>1. PublishedInv'
    BY <1>10, <1>a DEF Publish, At, KeptInv, PublishedInv, Approved, Known, HandlerTypeOK
  <2>2. MutexInv' /\ ReturnedInv'
    BY <1>10, <1>a DEF Publish, At, KeptInv, MutexInv, ReturnedInv, Approved, Known, HandlerTypeOK
  <2> QED
    BY <2>1, <2>2 DEF KeptInv
<1>11. ASSUME NEW s \in Servers, IsLast(s) PROVE KeptInv'
  <2>1. CASE completed = Cardinality(Servers)
    BY <1>11, <1>a, <2>1, KeptMove DEF IsLast, At
  <2>2. CASE completed # Cardinality(Servers)
    <3>1. mainPc \notin Finishing
      BY <2>2 DEF HandlerInv, CountInv, AllCounted, Finishing
    <3> QED
      BY <1>11, <1>a, <2>2, <3>1, KeptMove DEF IsLast, At
  <2> QED
    BY <2>1, <2>2
<1>12. ASSUME NEW s \in Servers, Recheck(s) PROVE KeptInv'
  BY <1>12, <1>a, KeptMove DEF Recheck, At
<1>13. ASSUME NEW s \in Servers, Overwrite(s) PROVE KeptInv'
  <2>1. Known(currentResult) => Known(currentResult)'
    BY <1>13 DEF Overwrite, KeepsShared, Known
  <2>2. PublishedInv'
    BY <1>13, <1>a, <2>1 DEF Overwrite, At, KeptInv, PublishedInv, Approved, HandlerTypeOK
  <2>3. MutexInv' /\ ReturnedInv'
    BY <1>13, <1>a DEF Overwrite, At, KeptInv, MutexInv, ReturnedInv, Approved, Known, HandlerTypeOK
  <2> QED
    BY <2>2, <2>3 DEF KeptInv
<1>14. ASSUME NEW s \in Servers, Notify(s) PROVE KeptInv'
  <2>1. mainPc \notin Finishing
    BY <1>14, HandlerAssumption DEF Notify, MutexFreeForNotify, KeptInv, MutexInv
  <2> QED
    BY <1>14, <1>a, <2>1, KeptMove DEF Notify, At
<1>15. ASSUME StartBroadcast PROVE KeptInv'
  BY <1>15, KeptBefore DEF StartBroadcast, MainAt, BeforeWake
<1>16. ASSUME LockMutex PROVE KeptInv'
  BY <1>16, KeptBefore DEF LockMutex, MainAt, BeforeWake
<1>17. ASSUME EvalPredicate PROVE KeptInv'
  <2>1. mutex' = Main
    BY <1>17 DEF EvalPredicate, MainAt, KeptInv, MutexInv
  <2> QED
    BY <1>17, <2>1, KeptBefore DEF EvalPredicate, BeforeWake
<1>18. ASSUME Block PROVE KeptInv'
  BY <1>18, KeptBefore DEF Block, MainAt, BeforeWake
<1>19. ASSUME WakeUp PROVE KeptInv'
  BY <1>19, KeptBefore DEF WakeUp, MainAt, BeforeWake
<1>20. ASSUME ReadResult PROVE KeptInv'
  \* Every thread has been counted: it has published, or it has not ended.
  <2>1. \A s \in Servers : pc[s] \notin InRunServer \cup {"count"}
    BY <1>20 DEF ReadResult, MainAt, AfterWake, HandlerInv, AllCounted, Counted, Uncounted
  <2>2. \A s \in Servers : Approved(s) => Known(currentResult) \/ pc[s] = "publish"
    BY <2>1 DEF KeptInv, PublishedInv
  <2>3. ReturnedInv'
    BY <1>20, <2>2 DEF ReadResult, ReturnedInv, Approved, Known
  <2> QED
    BY <1>20, <2>3 DEF ReadResult, MainAt, KeptInv, PublishedInv, MutexInv, Approved, Known, Finishing, AfterWake
<1>21. ASSUME StopBroadcast PROVE KeptInv'
  BY <1>21 DEF StopBroadcast, MainAt, KeptInv, PublishedInv, MutexInv, ReturnedInv, Approved, Known, Finishing, AfterWake
<1>22. ASSUME DeleteBroadcaster PROVE KeptInv'
  BY <1>22 DEF DeleteBroadcaster, MainAt, KeptInv, PublishedInv, MutexInv, ReturnedInv, Approved, Known, Finishing, AfterWake
<1>23. ASSUME JoinThreads PROVE KeptInv'
  BY <1>23 DEF JoinThreads, Joinable, MainAt, KeptInv, PublishedInv, MutexInv, ReturnedInv, Approved, Known, Finishing, AfterWake
<1>24. ASSUME SpuriousWakeUp PROVE KeptInv'
  BY <1>24, KeptBefore DEF SpuriousWakeUp, MainAt, BeforeWake
<1>25. ASSUME NEW s \in Servers, PhoneAttaches(s) PROVE KeptInv'
  BY <1>25, KeptFrame DEF PhoneAttaches
<1>26. ASSUME NEW s \in Servers, PhoneLeaves(s) PROVE KeptInv'
  BY <1>26, KeptFrame DEF PhoneLeaves
<1>27. ASSUME NEW s \in Servers, NEW a \in Answers, ConnectionReports(s, a) PROVE KeptInv'
  BY <1>27, KeptFrame DEF ConnectionReports
<1>28. CASE ClockExpires \/ PressOrReleaseKeys \/ CallerCancels \/ BroadcasterStep
  BY <1>28, KeptFrame DEF ClockExpires, PressOrReleaseKeys, CallerCancels, BroadcasterStep
<1>30. ASSUME NEW s \in Servers, LateThreadEnds(s) PROVE KeptInv'
  BY <1>30, <1>a, KeptMove DEF LateThreadEnds, At
<1>29. CASE UNCHANGED vars
  BY <1>29, KeptFrame DEF vars
<1> QED
  BY <1>1, <1>2, <1>3, <1>4, <1>5, <1>6, <1>7, <1>8, <1>9, <1>10, <1>11, <1>12, <1>13, <1>14, <1>15, <1>16, <1>17, <1>18, <1>19, <1>20, <1>21, <1>22, <1>23, <1>24, <1>25, <1>26, <1>27, <1>28, <1>29, <1>30
  DEF Next, ServerStep, MainStep

\* When a device was approved and GetResult returns, it returns a success, but
\* for the one overwrite after a re-check that was stale by then: a thread that
\* is counted and not yet published keeps GetResult from returning at all.
THEOREM HandlerApprovalKept == Spec => []ApprovalLostOnlyByStaleRecheck
<1>1. Init => KeptInv
  BY DEF Init, KeptInv, PublishedInv, MutexInv, ReturnedInv, Approved, Finishing, AfterWake, Result
<1>2. Spec => []HandlerInv
  BY HandlerInvariance
<1>3. HandlerInv /\ KeptInv /\ [Next]_vars => KeptInv'
  BY KeptStep
<1>4. KeptInv => ApprovalLostOnlyByStaleRecheck
  BY DEF KeptInv, ReturnedInv, Approved, Known, AfterWake, ApprovalLostOnlyByStaleRecheck
<1> QED
  BY <1>1, <1>2, <1>3, <1>4, PTL DEF Spec
=============================================================================
