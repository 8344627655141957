----------------------------- MODULE CloudUnlock -----------------------------
(***************************************************************************)
(* Unlocking over the Internet: CloudUnlockClient on the PC posts a        *)
(* challenge to the relay (module CloudRelay) and polls for its answer;    *)
(* the listener service of the phone polls for challenges, the user taps   *)
(* the notification and decides, and the activity posts the answer.        *)
(*                                                                         *)
(* One phone, paired with one or more PCs, which share its device row; an  *)
(* attempt is one CloudUnlockClient object with its own unlock token.  All *)
(* clocks agree.                                                           *)
(***************************************************************************)
EXTENDS Integers, FiniteSets, Sequences

CONSTANTS Attempts,     \* the CloudUnlockClient objects, named by their token
          Owner,        \* the PC of each attempt: it makes one at a time
          TTL,          \* 120 s, in ticks: of a row, a client and a ciphertext
          MaxSeen,      \* how many request ids the phone remembers (128)
          MaxFaults,    \* bound: calls that fail or lose their reply
          MaxRestarts,  \* bound: how often the phone's process dies
          MaxQueue,     \* bound: answers that wait in the phone
          MaxDelay,     \* bound: ticks that the reply to a new request takes
          LastStart     \* bound: no attempt starts after this tick

ASSUME CloudAssumption ==
    /\ TTL \in Nat \ {0} /\ MaxSeen \in Nat \ {0}
    /\ MaxFaults \in Nat /\ MaxRestarts \in Nat /\ MaxQueue \in Nat
    /\ MaxDelay \in Nat /\ LastStart \in Nat

VARIABLES
    \* the relay, and how many calls have failed
    now, rows, minted, calls, accepted, faults,
    \* per attempt: the relay thread, its members, and the request's id
    thread, running, hasClient, unlock, requestId, deadline,
    \* the phone: lives so far, the request a poll brought, ids seen, the pending
    \* challenge in the store, the biometric prompt, the activity's queue of answers
    lives, polled, seen, pending, prompt, queue,
    \* observations: first approval of an attempt, challenges shown in this life
    approvedAt, shown

pcvars    == <<thread, running, hasClient, unlock, requestId, deadline>>
phonevars == <<lives, polled, seen, pending, prompt, queue, approvedAt, shown>>

\* Who calls the relay: the thread of each client and, in each life of the
\* phone's process, the activity.
Pc(a) == <<"pc", a>>
Activity(n) == <<"activity", n>>
Callers == {Pc(a) : a \in Attempts} \cup {Activity(n) : n \in 0..MaxRestarts}
R == INSTANCE CloudRelay WITH Clients <- Callers
rvars == <<now, rows, minted, calls, accepted, faults>>
vars  == <<rvars, pcvars, phonevars>>

\* A challenge is encrypted with its time of creation; so is an approval, while
\* a refusal is not encrypted.
Challenge(a, t) == [token |-> a, time |-> t]
Approval(a, t)  == [error |-> "", token |-> a, time |-> t]
Refusal         == [error |-> "CANCEL"]
Fresh(t) == now - t <= TTL

Nothing == [id |-> 0]
States  == {"UNKNOWN", "SUCCESS", "CANCELED", "TIMEOUT", "CONNECT_ERROR", "TIME_ERROR",
            "UNK_ERROR"}

TypeOK ==
    /\ R!RelayTypeOK
    /\ faults \in 0..MaxFaults
    /\ thread \in [Attempts -> {"new", "create", "loop", "get", "ended", "joined"}]
    /\ running \in [Attempts -> BOOLEAN]
    /\ hasClient \in [Attempts -> BOOLEAN]
    /\ unlock \in [Attempts -> States]
    /\ requestId \in [Attempts -> 0..minted]
    /\ deadline \in [Attempts -> Nat]
    /\ lives \in 0..MaxRestarts
    /\ seen \in Seq(1..minted) /\ Len(seen) <= MaxSeen
    /\ polled.id \in 0..minted /\ pending.id \in 0..minted /\ prompt.id \in 0..minted
    /\ \A i \in DOMAIN queue : queue[i].id \in 1..minted
    /\ approvedAt \in [Attempts -> 0..now + 1]
    /\ shown \subseteq 1..minted

Init ==
    /\ R!RelayInit
    /\ faults = 0
    /\ thread = [a \in Attempts |-> "new"]
    /\ running = [a \in Attempts |-> FALSE]
    /\ hasClient = [a \in Attempts |-> FALSE]
    /\ unlock = [a \in Attempts |-> "UNKNOWN"]
    /\ requestId = [a \in Attempts |-> 0]
    /\ deadline = [a \in Attempts |-> 0]
    /\ lives = 0
    /\ polled = Nothing
    /\ seen = <<>>
    /\ pending = Nothing
    /\ prompt = Nothing
    /\ queue = <<>>
    /\ approvedAt = [a \in Attempts |-> 0]
    /\ shown = {}

relayRest == <<now, rows, minted, faults, accepted>>

-----------------------------------------------------------------------------
\* CloudUnlockClient

\* RelayThread returns, and its locals are gone; the handler still calls Stop.
End(a, st) ==
    /\ unlock' = [unlock EXCEPT ![a] = st]
    /\ requestId' = [requestId EXCEPT ![a] = 0]
    /\ deadline' = [deadline EXCEPT ![a] = 0]
    /\ running' = [running EXCEPT ![a] = FALSE]
    /\ thread' = [thread EXCEPT ![a] = "ended"]
    /\ UNCHANGED <<hasClient, phonevars>>

\* A PC makes one attempt at a time.
MayStart(a) ==
    /\ thread[a] = "new"
    /\ now <= LastStart
    /\ \A b \in Attempts \ {a} : Owner[b] = Owner[a] => thread[b] \in {"new", "joined"}

\* Start, and RelayThread up to the POST.
StartClient(a) ==
    /\ MayStart(a)
    /\ running' = [running EXCEPT ![a] = TRUE]
    /\ thread' = [thread EXCEPT ![a] = "create"]
    /\ R!Send(Pc(a), "request", Challenge(a, now))
    /\ UNCHANGED <<relayRest, hasClient, unlock, requestId, deadline, phonevars>>

\* The challenge cannot be encrypted.
BuildFails(a) ==
    /\ MayStart(a)
    /\ End(a, "UNK_ERROR")
    /\ UNCHANGED rvars

\* The request is in the table; the deadline counts from the arrival of the reply,
\* which may be later.
Created(a) ==
    /\ thread[a] = "create"
    /\ R!PostRequest(Pc(a))
    /\ requestId' = [requestId EXCEPT ![a] = minted']
    /\ hasClient' = [hasClient EXCEPT ![a] = TRUE]
    /\ \E delay \in 0..MaxDelay : deadline' = [deadline EXCEPT ![a] = now + delay + TTL]
    /\ thread' = [thread EXCEPT ![a] = "loop"]
    /\ UNCHANGED <<running, unlock, phonevars, faults>>

Replied(a) == deadline[a] <= now + TTL

\* Mutant: polls for as long as it is not stopped.
GoesOnForEver(a) == running[a]
GoesOn(a) == running[a] /\ now < deadline[a]

\* The loop's condition holds, and the next GET is sent.
Get(a) ==
    /\ thread[a] = "loop" /\ Replied(a)
    /\ GoesOn(a)
    /\ R!Send(Pc(a), "response", requestId[a])
    /\ thread' = [thread EXCEPT ![a] = "get"]
    /\ UNCHANGED <<relayRest, running, hasClient, unlock, requestId, deadline, phonevars>>

GiveUp(a) ==
    /\ thread[a] = "loop" /\ Replied(a)
    /\ ~GoesOn(a)
    /\ End(a, "TIMEOUT")
    /\ UNCHANGED rvars

Find(a) ==
    /\ thread[a] = "get"
    /\ R!FindResponse(Pc(a))
    /\ UNCHANGED <<pcvars, phonevars, faults>>

GotNothing(a) ==
    /\ thread[a] = "get"
    /\ R!NoResponse(Pc(a))
    /\ thread' = [thread EXCEPT ![a] = "loop"]
    /\ UNCHANGED <<running, hasClient, unlock, requestId, deadline, phonevars, faults>>

\* Mutant: does not look at the time of the answer.
ProcessNoTime(a, answer) ==
    IF answer = Refusal THEN "CANCELED"
    ELSE IF answer.token = a THEN "SUCCESS" ELSE "UNK_ERROR"
\* ProcessUnlockResponseJson
Process(a, answer) ==
    IF answer = Refusal THEN "CANCELED"
    ELSE IF ~Fresh(answer.time) THEN "TIME_ERROR"
    ELSE IF answer.token = a THEN "SUCCESS" ELSE "UNK_ERROR"

Got(a) ==
    /\ thread[a] = "get"
    /\ R!DeliverResponse(Pc(a))
    /\ End(a, Process(a, calls[Pc(a)].row.payload))
    /\ UNCHANGED faults

\* The call fails, or is handled and its reply is lost.
CallFails(a) ==
    /\ faults < MaxFaults
    /\ faults' = faults + 1
    /\ R!Lose(Pc(a)) \/ R!PostRequest(Pc(a)) \/ R!DeliverResponse(Pc(a))
    /\ End(a, "CONNECT_ERROR")

\* Stop, called by the handler whenever it leaves its loop: clears the flag ...
StopClient(a) ==
    /\ running[a]
    /\ running' = [running EXCEPT ![a] = FALSE]
    /\ UNCHANGED <<rvars, thread, hasClient, unlock, requestId, deadline, phonevars>>

\* ... and joins the thread.
JoinClient(a) ==
    /\ thread[a] = "ended"
    /\ thread' = [thread EXCEPT ![a] = "joined"]
    /\ hasClient' = [hasClient EXCEPT ![a] = FALSE]
    /\ UNCHANGED <<rvars, running, unlock, requestId, deadline, phonevars>>

ClientStep(a) ==
    \/ Created(a) \/ Get(a) \/ GiveUp(a) \/ Find(a) \/ GotNothing(a) \/ Got(a)
    \/ JoinClient(a)

-----------------------------------------------------------------------------
\* UnlockListenerService and its CloudController

InSeen(id) == \E i \in DOMAIN seen : seen[i] = id

\* Mutant: evicts the newest id.
RememberDroppingNewest(id) == IF Len(seen) = MaxSeen THEN seen ELSE Append(seen, id)
\* Mutant: never evicts.
RememberAll(id) == Append(seen, id)
\* LinkedHashSet: the oldest ids are evicted.
Remember(id) == IF Len(seen) = MaxSeen THEN Append(Tail(seen), id) ELSE Append(seen, id)

\* GET /v1/relay/devices/:id/requests is answered.  An answer without a request,
\* or with one that is known, changes nothing.
Poll ==
    /\ polled = Nothing
    /\ \E m \in R!PollRequests :
        /\ ~InSeen(m.id)
        /\ polled' = [id |-> m.id, challenge |-> m.payload]
    /\ UNCHANGED <<rvars, pcvars, lives, seen, pending, prompt, queue, approvedAt, shown>>

\* handle: the request counts as seen; if its challenge is fresh it replaces the
\* pending one and is notified, else it does not decrypt and is dropped for good.
Handle ==
    /\ polled # Nothing
    /\ polled' = Nothing
    /\ seen' = Remember(polled.id)
    /\ IF Fresh(polled.challenge.time)
       THEN /\ pending' = [id |-> polled.id, token |-> polled.challenge.token]
            /\ shown' = shown \cup {polled.id}
       ELSE UNCHANGED <<pending, shown>>
    /\ UNCHANGED <<rvars, pcvars, lives, prompt, queue, approvedAt>>

\* MainActivity: the user taps the notification (approvePendingCloud) ...
Tap ==
    /\ pending # Nothing /\ prompt = Nothing
    /\ pending' = Nothing
    /\ prompt' = pending
    /\ UNCHANGED <<rvars, pcvars, lives, polled, seen, queue, approvedAt, shown>>

\* ... and confirms with biometrics or cancels.  The answer is queued to the
\* activity's single background thread.
Decide(ok) ==
    /\ prompt # Nothing
    /\ Len(queue) < MaxQueue
    /\ prompt' = Nothing
    /\ queue' = Append(queue, [id |-> prompt.id, token |-> prompt.token, ok |-> ok])
    /\ approvedAt' = [approvedAt EXCEPT ![prompt.token] =
                          IF ok /\ @ = 0 THEN now + 1 ELSE @]
    /\ UNCHANGED <<rvars, pcvars, lives, polled, seen, pending, shown>>

\* CloudController.approve and deny, on the thread of this life's activity.
Respond ==
    /\ queue # <<>>
    /\ queue' = Tail(queue)
    /\ LET c == Head(queue) IN
       R!Send(Activity(lives),
              "respond", [request |-> c.id,
                          answer |-> IF c.ok THEN Approval(c.token, now) ELSE Refusal])
    /\ UNCHANGED <<relayRest, pcvars, lives, polled, seen, pending, prompt, approvedAt, shown>>

\* Whatever comes back, or nothing, the activity is done with the challenge.  The
\* call of an earlier life is still handled.
Responding(n) ==
    /\ \/ R!RespondStep(Activity(n)) /\ UNCHANGED faults
       \/ R!Lose(Activity(n)) /\ faults < MaxFaults /\ faults' = faults + 1
    /\ UNCHANGED <<pcvars, phonevars>>

\* The process dies with its service and activity, and the service is started
\* again.  Only the store survives.
Die ==
    /\ lives < MaxRestarts
    /\ lives' = lives + 1
    /\ polled' = Nothing /\ seen' = <<>> /\ shown' = {} /\ prompt' = Nothing /\ queue' = <<>>
    /\ UNCHANGED <<rvars, pcvars, pending, approvedAt>>

PhoneStep ==
    \/ Poll \/ Handle \/ Tap \/ (\E ok \in BOOLEAN : Decide(ok)) \/ Respond \/ Die
    \/ \E n \in 0..lives : Responding(n)

-----------------------------------------------------------------------------
\* The clock runs until the last attempt has passed its deadline.
Tick ==
    /\ \/ now < LastStart + TTL
       \/ \E a \in Attempts : thread[a] \in {"loop", "get"} /\ now < deadline[a]
    /\ now' = now + 1
    /\ UNCHANGED <<rows, minted, calls, faults, accepted, pcvars, phonevars>>

Next ==
    \/ \E a \in Attempts : StartClient(a) \/ BuildFails(a) \/ ClientStep(a) \/ CallFails(a)
                            \/ StopClient(a)
    \/ PhoneStep
    \/ Tick

Spec == Init /\ [][Next]_vars

\* The clock runs, and the client's thread is scheduled: a call of its is handled
\* or fails, for httplib gives up after 10 s.  Nothing is assumed of the phone.
Fairness == WF_vars(Tick) /\ \A a \in Attempts : WF_vars(ClientStep(a) \/ CallFails(a))
FairSpec == Spec /\ Fairness

-----------------------------------------------------------------------------
\* Properties

\* An attempt as module UnlockAttempt sees it: the decision is the first answer
\* the relay stored for its challenge, and all failures are one outcome.
Decision ==
    [a \in Attempts |->
        IF \E x \in accepted : x.request.payload.token = a
        THEN IF \E x \in accepted : x.request.payload.token = a /\ x.answer = Refusal
             THEN "deny" ELSE "approve"
        ELSE "none"]
Outcome ==
    [a \in Attempts |-> IF unlock[a] \in {"UNKNOWN", "SUCCESS", "CANCELED"} THEN unlock[a]
                                                                        ELSE "FAILED"]
A == INSTANCE UnlockAttempt WITH decision <- Decision, outcome <- Outcome

\* Over the relay, with calls lost at any point and a phone that dies and asks
\* its user again, an attempt is still decided once, by the first answer stored,
\* and succeeds only by an approval of its own challenge, as long as no
\* handler of an answer takes half of a row's life between its two statements.
DecidedOnce == A!AttemptSpec

\* A request expires: what the user approves later than TTL after it was posted
\* does not unlock, though the client may still be polling then.
LateApprovalNeverUnlocks ==
    \A a \in Attempts : unlock[a] = "SUCCESS" =>
        \E x \in accepted : /\ x.request.payload.token = a
                            /\ approvedAt[a] \in 1..x.request.expires

\* While an answer is stored and has not expired, the client that waits for it
\* is never told that there is none: nobody else takes it from the table.
AnswerIsFound ==
    [][\A a \in Attempts : GotNothing(a) =>
          \A x \in accepted : x.request.id = requestId[a] => x.at + TTL <= now]_vars

\* The user is asked once per request and life of the phone's process, unless
\* more requests of one second alternate than the phone remembers: a poll brings
\* a challenge that was shown only if the table holds another request of its second.
AskedOnce ==
    [][\/ polled' \in {polled, Nothing}
       \/ polled'.id \notin shown
       \/ \E m, n \in R!Requests : m # n /\ m.id = polled'.id /\ m.created = n.created]_vars

\* Whatever the phone, its user and the network do, an attempt comes to an end.
AttemptEnds == \A a \in Attempts : thread[a] = "create" ~> thread[a] = "joined"
=============================================================================
