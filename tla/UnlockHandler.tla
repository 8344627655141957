--------------------------- MODULE UnlockHandler ----------------------------
(***************************************************************************)
(* UnlockHandler::GetResult: one thread per paired device runs RunServer   *)
(* on its connection; the calling thread waits on a condition variable     *)
(* until the completion counter reaches the number of devices, reads the   *)
(* shared result, stops the broadcaster and joins the threads.             *)
(*                                                                         *)
(* The threads share an atomic result, an atomic counter, a mutex with its *)
(* condition variable, and the UDP broadcaster (module UDPBroadcaster).    *)
(* A connection is reduced to what RunServer sees of it: whether a phone   *)
(* is attached (HasClient) and the state it reports (PollResult).          *)
(***************************************************************************)
EXTENDS Integers, FiniteSets

CONSTANTS Servers,      \* the connections GetResult created, one per device
          Main,         \* the thread that called GetResult
          HasBroadcast, \* whether a device of them is paired by UDP
          MaxBeacons,   \* bound of module UDPBroadcaster
          Reachable,    \* the connections whose phone is in reach
          MaxAttach,    \* bound: how often a phone attaches to a connection
          MayHang,      \* the connections whose Stop may wait for a late thread
          Causes        \* which causes other than an answer end a RunServer

NoDevice == "none"      \* names no device and no thread

ASSUME HandlerAssumption ==
    /\ IsFiniteSet(Servers) /\ Servers # {}
    /\ Main \notin Servers
    /\ NoDevice \notin Servers \cup {Main}
    /\ HasBroadcast \in BOOLEAN
    /\ Reachable \subseteq Servers
    /\ MayHang \subseteq Servers
    /\ MaxAttach \in Nat
    /\ Causes \subseteq {"deadline", "keys", "cancel"}
    /\ MaxBeacons \in Nat
    /\ MaxBeacons > MaxAttach * Cardinality(Servers)

VARIABLES
    \* the shared state of GetResult
    currentResult, completed, mutex, waiting,
    \* per server thread: position, locals of RunServer, its serverResult
    pc, waitingForPhone, state, result,
    \* per connection: the phone attached, what PollResult returns, attachments
    hasClient, answer, attached,
    \* the clock, the keyboard and the caller's isRunning flag
    expired, keys, isRunning,
    \* the calling thread: position, returned result; observation of lost results
    mainPc, returned, staleOverwrite,
    \* the broadcaster
    running, handle, spawned, live, call, object, overlapped

shared == <<currentResult, completed, mutex, waiting>>
locals == <<waitingForPhone, state, result>>
phone  == <<hasClient, answer, attached>>
env    == <<expired, keys, isRunning>>
mvars  == <<mainPc, returned, staleOverwrite>>
bvars  == <<running, handle, spawned, live, call, object, overlapped>>
vars   == <<shared, pc, locals, phone, env, mvars, bvars>>

B == INSTANCE UDPBroadcaster WITH Callers <- Servers \cup {Main}

\* The states of UnlockState the handler tells apart; CONNECT_ERROR stands for
\* every failure a connection reports.
Answers == {"SUCCESS", "CONNECT_ERROR"}
States  == Answers \cup {"UNKNOWN", "CANCELED", "TIMEOUT", "START_ERROR", "DATA_ERROR"}

\* An UnlockResult: its state and the device it names (none by default).
Result(s, d) == [state |-> s, device |-> d]
Results == [state : States, device : Servers \cup {NoDevice}]

InRunServer == {"start", "check", "client", "poll", "expire", "lost", "stop", "late",
                "decrypt"}
InTail      == {"count", "publish", "isLast", "recheck", "overwrite", "notify"}
BeforeWake  == {"beacon", "lock", "wait", "block", "blocked"}
AfterWake   == {"read", "stopBeacon", "delete", "join", "returned"}

HandlerTypeOK ==
    /\ currentResult \in Results
    /\ mutex \in {Main, NoDevice}
    /\ waiting \in BOOLEAN
    /\ pc \in [Servers -> InRunServer \cup InTail \cup {"done"}]
    /\ waitingForPhone \in [Servers -> BOOLEAN]
    /\ state \in [Servers -> States]
    /\ result \in [Servers -> Results]
    /\ hasClient \in [Servers -> BOOLEAN]
    /\ answer \in [Servers -> Answers \cup {"UNKNOWN"}]
    /\ attached \in [Servers -> 0..MaxAttach]
    /\ expired \in BOOLEAN
    /\ keys \in BOOLEAN
    /\ isRunning \in BOOLEAN
    /\ mainPc \in BeforeWake \cup AfterWake
    /\ returned \in Results
    /\ staleOverwrite \in BOOLEAN

TypeOK ==
    /\ HandlerTypeOK
    /\ completed \in 0..Cardinality(Servers)
    /\ B!BroadcasterTypeOK

Init ==
    /\ currentResult = Result("UNKNOWN", NoDevice)
    /\ completed = 0
    /\ mutex = NoDevice
    /\ waiting = FALSE
    /\ pc = [s \in Servers |-> "start"]
    /\ waitingForPhone = [s \in Servers |-> TRUE]
    /\ state = [s \in Servers |-> "UNKNOWN"]
    /\ result = [s \in Servers |-> Result("UNKNOWN", NoDevice)]
    /\ hasClient = [s \in Servers |-> FALSE]
    /\ answer = [s \in Servers |-> "UNKNOWN"]
    /\ attached = [s \in Servers |-> 0]
    /\ expired = FALSE
    /\ keys = FALSE
    /\ isRunning = TRUE
    /\ mainPc = "beacon"
    /\ returned = Result("UNKNOWN", NoDevice)
    /\ staleOverwrite = FALSE
    /\ B!BroadcasterInit

Alive == object # "terminated"
InCall(t) == call[t] # "idle"

\* A server thread runs from label to label, once the broadcaster's method it
\* called has returned.
At(s, label) == Alive /\ pc[s] = label /\ ~InCall(s)
Goto(s, label) == pc' = [pc EXCEPT ![s] = label]
Leave(s, st) == state' = [state EXCEPT ![s] = st] /\ Goto(s, "stop")

-----------------------------------------------------------------------------
\* RunServer

\* connection->Start() fails, or the thread of the connection is started.
StartServer(s) ==
    /\ At(s, "start")
    /\ \/ /\ result' = [result EXCEPT ![s] = Result("START_ERROR", NoDevice)]
          /\ Goto(s, "count")
       \/ /\ Goto(s, "check")
          /\ UNCHANGED result
    /\ UNCHANGED <<shared, waitingForPhone, state, phone, env, mvars, bvars>>

\* Mutant: forgets that another device may have been approved.
CancelledNoPeer == ~isRunning
\* Mutant: ignores the caller's flag.
CancelledNoFlag == currentResult.state = "SUCCESS"
Cancelled == currentResult.state = "SUCCESS" \/ ~isRunning

\* Mutant: passes on the state of the device that was approved.
StateOfPeer == currentResult.state
StateWhenCancelled == "CANCELED"

CheckCancel(s) ==
    /\ At(s, "check")
    /\ IF Cancelled THEN Leave(s, StateWhenCancelled)
                    ELSE Goto(s, "client") /\ UNCHANGED state
    /\ UNCHANGED <<shared, waitingForPhone, result, phone, env, mvars, bvars>>

\* A phone has attached: no need to be found any more.
ClientSeen(s) ==
    /\ At(s, "client")
    /\ Goto(s, "poll")
    /\ IF hasClient[s] /\ waitingForPhone[s]
       THEN /\ waitingForPhone' = [waitingForPhone EXCEPT ![s] = FALSE]
            /\ IF HasBroadcast THEN B!StopCall(s) ELSE UNCHANGED bvars
       ELSE UNCHANGED <<waitingForPhone, bvars>>
    /\ UNCHANGED <<shared, state, result, phone, env, mvars>>

Poll(s) ==
    /\ At(s, "poll")
    /\ IF answer[s] # "UNKNOWN" THEN Leave(s, answer[s])
                                ELSE Goto(s, "expire") /\ UNCHANGED state
    /\ UNCHANGED <<shared, waitingForPhone, result, phone, env, mvars, bvars>>

\* Mutant: the deadline counts only while a phone is attached.
DeadlineOfClient(s) == hasClient[s] /\ expired
DeadlinePassed(s) == ~hasClient[s] /\ expired

\* CRYPT_PACKET_TIMEOUT without a phone, then left Ctrl + left Alt.
Expire(s) ==
    /\ At(s, "expire")
    /\ IF DeadlinePassed(s) THEN Leave(s, "TIMEOUT")
       ELSE IF keys THEN Leave(s, "CANCELED")
       ELSE Goto(s, "lost") /\ UNCHANGED state
    /\ UNCHANGED <<shared, waitingForPhone, result, phone, env, mvars, bvars>>

\* The phone has gone again: be found again.  Then the loop sleeps and repeats.
ClientLost(s) ==
    /\ At(s, "lost")
    /\ Goto(s, "check")
    /\ IF ~hasClient[s] /\ ~waitingForPhone[s]
       THEN /\ waitingForPhone' = [waitingForPhone EXCEPT ![s] = TRUE]
            /\ IF HasBroadcast THEN B!StartCall(s) ELSE UNCHANGED bvars
       ELSE UNCHANGED <<waitingForPhone, bvars>>
    /\ UNCHANGED <<shared, state, result, phone, env, mvars>>

\* connection->Stop() closes the socket and joins the connection's thread; no
\* answer comes after it.  A thread that opened its socket after it was closed,
\* or reads one that is no longer its own, keeps the join waiting (module
\* UnlockClient; a connection through the cloud has no such socket).
StopServer(s) ==
    /\ At(s, "stop")
    /\ hasClient' = [hasClient EXCEPT ![s] = FALSE]
    /\ \/ Goto(s, "decrypt")
       \/ s \in MayHang /\ Goto(s, "late")
    /\ UNCHANGED <<shared, locals, answer, attached, env, mvars, bvars>>

\* The late thread ends after all: its phone sent something or went away.
LateThreadEnds(s) ==
    /\ At(s, "late")
    /\ Goto(s, "decrypt")
    /\ UNCHANGED <<shared, locals, phone, env, mvars, bvars>>

ServerResult(s, decrypted) ==
    IF state[s] = "SUCCESS" /\ ~decrypted THEN Result("DATA_ERROR", NoDevice)
                                          ELSE Result(state[s], s)

Decrypt(s) ==
    /\ At(s, "decrypt")
    /\ \E decrypted \in BOOLEAN : result' = [result EXCEPT ![s] = ServerResult(s, decrypted)]
    /\ Goto(s, "count")
    /\ UNCHANGED <<shared, waitingForPhone, state, phone, env, mvars, bvars>>

-----------------------------------------------------------------------------
\* The rest of the thread's function, after RunServer has returned.

\* Mutant: a connection that could not be started is counted twice.
CountFailedTwice(s) ==
    /\ At(s, "count")
    /\ completed' = completed + IF result[s].state = "START_ERROR" THEN 2 ELSE 1
    /\ Goto(s, "publish")
    /\ UNCHANGED <<currentResult, mutex, waiting, locals, phone, env, mvars, bvars>>

Count(s) ==
    /\ At(s, "count")
    /\ completed' = completed + 1
    /\ Goto(s, "publish")
    /\ UNCHANGED <<currentResult, mutex, waiting, locals, phone, env, mvars, bvars>>

Publish(s) ==
    /\ At(s, "publish")
    /\ currentResult' = IF result[s].state = "SUCCESS" THEN result[s] ELSE currentResult
    /\ Goto(s, "isLast")
    /\ UNCHANGED <<completed, mutex, waiting, locals, phone, env, mvars, bvars>>

IsLast(s) ==
    /\ At(s, "isLast")
    /\ Goto(s, IF completed = Cardinality(Servers) THEN "recheck" ELSE "done")
    /\ UNCHANGED <<shared, locals, phone, env, mvars, bvars>>

\* Mutant: the last thread always stores its own result.
KeepsSharedNever == FALSE
KeepsShared == currentResult.state = "SUCCESS"

Recheck(s) ==
    /\ At(s, "recheck")
    /\ Goto(s, IF KeepsShared THEN "notify" ELSE "overwrite")
    /\ UNCHANGED <<shared, locals, phone, env, mvars, bvars>>

Overwrite(s) ==
    /\ At(s, "overwrite")
    /\ currentResult' = result[s]
    /\ staleOverwrite' = (staleOverwrite \/ (KeepsShared /\ result[s].state # "SUCCESS"))
    /\ Goto(s, "notify")
    /\ UNCHANGED <<completed, mutex, waiting, locals, phone, env, mainPc, returned, bvars>>

\* Mutant: notifies without taking the mutex first.
MutexFreeForNotifyAlways == TRUE
MutexFreeForNotify == mutex = NoDevice

\* lock_guard, notify_one, unlock.
Notify(s) ==
    /\ At(s, "notify")
    /\ MutexFreeForNotify
    /\ waiting' = FALSE
    /\ Goto(s, "done")
    /\ UNCHANGED <<currentResult, completed, mutex, locals, phone, env, mvars, bvars>>

ServerStep(s) ==
    \/ StartServer(s) \/ CheckCancel(s) \/ ClientSeen(s) \/ Poll(s) \/ Expire(s)
    \/ ClientLost(s) \/ StopServer(s) \/ Decrypt(s) \/ Count(s) \/ Publish(s)
    \/ IsLast(s) \/ Recheck(s) \/ Overwrite(s) \/ Notify(s)

-----------------------------------------------------------------------------
\* GetResult in the calling thread, after it has started the server threads.

MainAt(label) == Alive /\ mainPc = label /\ ~InCall(Main)

StartBroadcast ==
    /\ MainAt("beacon")
    /\ mainPc' = "lock"
    /\ IF HasBroadcast THEN B!StartCall(Main) ELSE UNCHANGED bvars
    /\ UNCHANGED <<shared, pc, locals, phone, env, returned, staleOverwrite>>

\* std::unique_lock lock(mutex), held until GetResult returns except while
\* blocked in cv.wait.
LockMutex ==
    /\ MainAt("lock")
    /\ mutex = NoDevice
    /\ mutex' = Main
    /\ mainPc' = "wait"
    /\ UNCHANGED <<currentResult, completed, waiting, pc, locals, phone, env, returned,
                   staleOverwrite, bvars>>

\* Mutant: the predicate accepts one completion less.
AllCompletedButOne == completed >= Cardinality(Servers) - 1
AllCompleted == completed = Cardinality(Servers)

\* cv.wait evaluates its predicate, and blocks when it does not hold.
EvalPredicate ==
    /\ MainAt("wait")
    /\ mainPc' = IF AllCompleted THEN "read" ELSE "block"
    /\ UNCHANGED <<shared, pc, locals, phone, env, returned, staleOverwrite, bvars>>

\* Blocking and releasing the mutex is one step.
Block ==
    /\ MainAt("block")
    /\ mutex' = NoDevice
    /\ waiting' = TRUE
    /\ mainPc' = "blocked"
    /\ UNCHANGED <<currentResult, completed, pc, locals, phone, env, returned,
                   staleOverwrite, bvars>>

\* Notified, the thread takes the mutex and evaluates the predicate again.
WakeUp ==
    /\ MainAt("blocked")
    /\ ~waiting /\ mutex = NoDevice
    /\ mutex' = Main
    /\ mainPc' = "wait"
    /\ UNCHANGED <<currentResult, completed, waiting, pc, locals, phone, env, returned,
                   staleOverwrite, bvars>>

\* Woken spuriously.  When the predicate does not hold it blocks again, which
\* changes nothing, so only the other case is a step.
SpuriousWakeUp ==
    /\ MainAt("blocked")
    /\ waiting /\ mutex = NoDevice
    /\ AllCompleted
    /\ mutex' = Main
    /\ waiting' = FALSE
    /\ mainPc' = "read"
    /\ UNCHANGED <<currentResult, completed, pc, locals, phone, env, returned,
                   staleOverwrite, bvars>>

ReadResult ==
    /\ MainAt("read")
    /\ returned' = currentResult
    /\ mainPc' = "stopBeacon"
    /\ UNCHANGED <<shared, pc, locals, phone, env, staleOverwrite, bvars>>

StopBroadcast ==
    /\ MainAt("stopBeacon")
    /\ IF HasBroadcast
       THEN mainPc' = "delete" /\ B!StopCall(Main)
       ELSE mainPc' = "join" /\ UNCHANGED bvars
    /\ UNCHANGED <<shared, pc, locals, phone, env, returned, staleOverwrite>>

\* delete udpBroadcaster: the destructors call Stop once more, which finds the
\* flag clear because nobody else uses the object any longer.
DeleteBroadcaster ==
    /\ MainAt("delete")
    /\ B!Destroy(Main)
    /\ mainPc' = "join"
    /\ UNCHANGED <<shared, pc, locals, phone, env, returned, staleOverwrite>>

Joinable == \A s \in Servers : pc[s] = "done"

JoinThreads ==
    /\ MainAt("join")
    /\ Joinable
    /\ mutex' = NoDevice
    /\ mainPc' = "returned"
    /\ UNCHANGED <<currentResult, completed, waiting, pc, locals, phone, env, returned,
                   staleOverwrite, bvars>>

MainStep ==
    \/ StartBroadcast \/ LockMutex \/ EvalPredicate \/ Block \/ WakeUp \/ ReadResult
    \/ StopBroadcast \/ DeleteBroadcaster \/ JoinThreads

-----------------------------------------------------------------------------
\* The phone, the clock, the keyboard and the caller.

\* The connection's thread runs between Start and Stop.
Connected(s) == Alive /\ pc[s] \in InRunServer \ {"start", "late", "decrypt"}

PhoneAttaches(s) ==
    /\ Connected(s)
    /\ s \in Reachable
    /\ ~hasClient[s] /\ attached[s] < MaxAttach
    /\ hasClient' = [hasClient EXCEPT ![s] = TRUE]
    /\ attached' = [attached EXCEPT ![s] = @ + 1]
    /\ UNCHANGED <<shared, pc, locals, answer, env, mvars, bvars>>

PhoneLeaves(s) ==
    /\ Connected(s)
    /\ hasClient[s]
    /\ hasClient' = [hasClient EXCEPT ![s] = FALSE]
    /\ UNCHANGED <<shared, pc, locals, answer, attached, env, mvars, bvars>>

\* The connection's thread records a result; a success needs an attached phone.
\* RunServer reads the first one it sees and never again.
ConnectionReports(s, a) ==
    /\ Connected(s)
    /\ answer[s] = "UNKNOWN"
    /\ a = "SUCCESS" => hasClient[s]
    /\ answer' = [answer EXCEPT ![s] = a]
    /\ UNCHANGED <<shared, pc, locals, hasClient, attached, env, mvars, bvars>>

\* 120 s have passed since the servers were started.
ClockExpires ==
    /\ "deadline" \in Causes /\ Alive /\ ~expired
    /\ expired' = TRUE
    /\ UNCHANGED <<shared, pc, locals, phone, keys, isRunning, mvars, bvars>>

PressOrReleaseKeys ==
    /\ "keys" \in Causes /\ Alive
    /\ keys' = ~keys
    /\ UNCHANGED <<shared, pc, locals, phone, expired, isRunning, mvars, bvars>>

CallerCancels ==
    /\ "cancel" \in Causes /\ Alive /\ isRunning
    /\ isRunning' = FALSE
    /\ UNCHANGED <<shared, pc, locals, phone, expired, keys, mvars, bvars>>

BroadcasterStep ==
    /\ \/ \E c \in Servers \cup {Main} : B!CallStep(c)
       \/ \E b \in live : B!BeaconExit(b)
    /\ UNCHANGED <<shared, pc, locals, phone, env, mvars>>

Next ==
    \/ \E s \in Servers : ServerStep(s)
    \/ MainStep \/ SpuriousWakeUp
    \/ BroadcasterStep
    \/ \E s \in Servers : LateThreadEnds(s) \/ PhoneAttaches(s) \/ PhoneLeaves(s)
    \/ \E s \in Servers, a \in Answers : ConnectionReports(s, a)
    \/ ClockExpires \/ PressOrReleaseKeys \/ CallerCancels

Spec == Init /\ [][Next]_vars

\* Threads are scheduled, but a late thread waits for what its phone need never
\* do.  The mutex is contended by the calling thread alone,
\* which releases it once, so weak fairness is enough for Notify as well.
Fairness ==
    /\ WF_vars(MainStep)
    /\ \A s \in Servers : WF_vars(ServerStep(s))
    /\ WF_vars(BroadcasterStep)
FairSpec == Spec /\ Fairness

-----------------------------------------------------------------------------
\* Properties

Genuine(r) ==
    r.state = "SUCCESS" =>
        /\ r.device \in Servers
        /\ state[r.device] = "SUCCESS"
        /\ attached[r.device] > 0

\* A success names the device that was approved: a phone attached to that very
\* connection and its RunServer left the loop with SUCCESS.  Neither a device
\* cancelled because of another one nor a failing one is ever reported so.
SuccessIsGenuine == Genuine(currentResult) /\ Genuine(returned)

\* When the calling thread goes on to stop and delete the broadcaster, no thread
\* is inside RunServer, where it would use the broadcaster and the connection.
NoUseAfterDelete == mainPc \in AfterWake => \A s \in Servers : pc[s] \notin InRunServer

\* If a device was approved, GetResult returns a success, unless the last
\* thread overwrote it after a recheck that was stale by then.
ApprovalLostOnlyByStaleRecheck ==
    (mainPc = "returned" /\ \E s \in Servers : result[s].state = "SUCCESS") =>
        returned.state = "SUCCESS" \/ staleOverwrite

\* See module UDPBroadcaster: the handler's calls end the process only when
\* they overlap, and a beacon that was switched on is sent.
BroadcasterSafe == B!SafeUnlessOverlapped
BeaconIsSent == B!OnMeansSending

\* The handler keeps to the use the broadcaster is made for: threads call Start
\* and Stop as they like, and it is deleted when none of them is in a call.
UsesBroadcaster == B!BroadcasterSpec

\* Every RunServer has ended, or is past its loop and only joins a late thread.
AllLeftLoop == ~Alive \/ \A s \in Servers : pc[s] \notin InRunServer \ {"late"}

\* No wake-up is lost: once every device has completed, cv.wait returns.
MainWakes == (completed = Cardinality(Servers)) ~> (~Alive \/ mainPc \in AfterWake)

\* The caller's flag ends every RunServer, whatever the phones do, but for one
\* whose connection->Stop() waits for a thread that came late to its socket.
CancelEndsServers == ~isRunning ~> AllLeftLoop

\* One approved device ends the RunServer of all the others, with the same
\* exception: there GetResult has a success and does not return it.
SuccessEndsServers == (currentResult.state = "SUCCESS") ~> AllLeftLoop

\* Once 120 s have passed, every RunServer ends unless a phone stays attached,
\* with the same exception.
DeadlineEndsServers ==
    (<>expired /\ <>[](\A s \in Servers : ~hasClient[s])) => <>AllLeftLoop

\* Holding left Ctrl + left Alt cancels: GetResult returns.
CtrlAltCancels == (<>[]keys) => <>(mainPc = "returned")
=============================================================================
