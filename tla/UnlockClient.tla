---------------------------- MODULE UnlockClient -----------------------------
(***************************************************************************)
(* TCPUnlockClient and BTUnlockClient: a thread that connects to the       *)
(* phone, sends the unlock request and reads packets (ConnectThread,       *)
(* PerformAuthFlow), and Stop, called by the handler's thread, which       *)
(* closes the socket under that thread and joins it.                       *)
(*                                                                         *)
(* The member m_ClientSocket is a plain integer that both threads read and *)
(* reset.  The descriptors are those of the process: the lowest free one   *)
(* is given to whichever connection opens a socket next.  m_HasConnection, *)
(* which only tells the handler when to look, is left out.                 *)
(***************************************************************************)
EXTENDS Integers, FiniteSets, FiniteSetsExt

CONSTANTS Clients,     \* the connections of one GetResult
          Bluetooth,   \* those of them that are BTUnlockClients
          Retries,     \* clientConnectRetries, for each connection
          Answers      \* what the phone of a connection may do, besides accepting it

\* The user's answers to this request; an answer that holds the token of an
\* earlier one; a CANCEL that is about no request, or an earlier one.
Kinds == {"approve", "deny", "stale", "cancel"}
Refusals == {"deny", "cancel"}

ASSUME ClientAssumption ==
    /\ IsFiniteSet(Clients) /\ Bluetooth \subseteq Clients
    /\ Retries \in [Clients -> Nat] /\ Answers \in [Clients -> SUBSET (Kinds \cup {"close"})]

VARIABLES
    \* per connection: the members
    isRunning, unlockState, clientSocket,
    \* ConnectThread: position, retries so far, socket given to PerformAuthFlow
    pc, numRetries, authSocket,
    \* SOCKET_CLOSE by the thread or by Stop: what is left of it, the value it read
    closing,
    \* the handler's thread: position in Stop, the state it polled
    stopPc, polled,
    \* the descriptors of the process
    fds,
    \* the phone: its end of the connection, a packet under way, the user's decision
    link, inbox, decision,
    \* observations: closes of one client overlapped; clients that opened a socket
    \* after Stop looked for one; clients whose last answer before Stop polled was
    \* not their own phone's to this request
    overlapped, late, unbound

members == <<isRunning, unlockState, clientSocket>>
locals  == <<numRetries, authSocket>>
phone   == <<link, inbox, decision>>
caller  == <<stopPc, polled>>
seen    == <<overlapped, late, unbound>>
vars == <<members, pc, locals, closing, caller, fds, phone, seen>>

\* A socket is named by its client and the retry that opened it.
Sockets == UNION {{c} \X (0..Retries[c]) : c \in Clients}
NoSocket == <<>>
INVALID == 0
Descriptors == 1..(2 * Cardinality(Clients))

\* Who closes: the thread of a client, or Stop.
Closers == {"thread", "stop"} \X Clients
Idle == [step |-> "idle", fd |-> INVALID]

NoPacket == "none"
\* FAILED stands for CONNECT_ERROR, DATA_ERROR and UNK_ERROR.
States == {"UNKNOWN", "SUCCESS", "CANCELED", "FAILED"}

TypeOK ==
    /\ isRunning \in [Clients -> BOOLEAN]
    /\ unlockState \in [Clients -> States]
    /\ clientSocket \in [Clients -> Descriptors \cup {INVALID}]
    /\ pc \in [Clients -> {"new", "channel", "open", "connect", "up", "read", "end", "done"}]
    /\ \A c \in Clients : numRetries[c] \in 0..Retries[c]
    /\ authSocket \in [Clients -> Descriptors \cup {INVALID}]
    /\ closing \in [Closers -> [step : {"idle", "close", "store"},
                                fd : Descriptors \cup {INVALID}]]
    /\ stopPc \in [Clients -> {"idle", "load", "close", "stopped"}]
    /\ polled \in [Clients -> States]
    /\ fds \in [Descriptors -> Sockets \cup {NoSocket}]
    /\ link \in [Clients -> {"none", "connected", "asked", "closed"}]
    /\ inbox \in [Clients -> Kinds \cup {NoPacket}]
    /\ decision \in [Clients -> {"none", "approve", "deny"}]
    /\ overlapped \in BOOLEAN /\ late \subseteq Clients /\ unbound \subseteq Clients

Init ==
    /\ isRunning = [c \in Clients |-> FALSE]
    /\ unlockState = [c \in Clients |-> "UNKNOWN"]
    /\ clientSocket = [c \in Clients |-> INVALID]
    /\ pc = [c \in Clients |-> "new"]
    /\ numRetries = [c \in Clients |-> 0]
    /\ authSocket = [c \in Clients |-> INVALID]
    /\ closing = [k \in Closers |-> Idle]
    /\ stopPc = [c \in Clients |-> "idle"]
    /\ polled = [c \in Clients |-> "UNKNOWN"]
    /\ fds = [d \in Descriptors |-> NoSocket]
    /\ link = [c \in Clients |-> "none"]
    /\ inbox = [c \in Clients |-> NoPacket]
    /\ decision = [c \in Clients |-> "none"]
    /\ overlapped = FALSE /\ late = {} /\ unbound = {}

Goto(c, label) == pc' = [pc EXCEPT ![c] = label]
Report(c, st) == unlockState' = [unlockState EXCEPT ![c] = st]

Behind(d) == IF d = INVALID THEN NoSocket ELSE fds[d]
SocketOf(c) == <<c, numRetries[c]>>
\* The client whose connection is behind socket d, if it is connected.
Peers(d) == {p \in Clients : Behind(d) = SocketOf(p) /\ link[p] # "none"}

-----------------------------------------------------------------------------
\* SOCKET_CLOSE(m_ClientSocket): tests and reads the member, closes what it has
\* read, and resets the member.

\* Mutant: the member keeps the number of the closed socket.
AfterCloseSame(d) == d
AfterClose(d) == INVALID

\* Reads the member: there is nothing to close, or a descriptor.
BeginClose(who, c) ==
    LET d == clientSocket[c] IN
    /\ closing' = [closing EXCEPT ![<<who, c>>] =
                       IF d = INVALID THEN Idle ELSE [step |-> "close", fd |-> d]]
    /\ overlapped' = (overlapped \/ \E w \in {"thread", "stop"} \ {who} :
                                        d # INVALID /\ closing[<<w, c>>] # Idle)

\* The connection goes with the socket, and what was under way on it.
Destroy(d) ==
    LET gone == {p \in Clients : fds[d] = SocketOf(p)} IN
    /\ fds' = [fds EXCEPT ![d] = NoSocket]
    /\ link' = [p \in Clients |-> IF p \in gone THEN "none" ELSE link[p]]
    /\ inbox' = [p \in Clients |-> IF p \in gone THEN NoPacket ELSE inbox[p]]

CloseStep(who, c) ==
    LET k == <<who, c>> IN
    /\ \/ /\ closing[k].step = "close"
          /\ Destroy(closing[k].fd)
          /\ closing' = [closing EXCEPT ![k].step = "store"]
          /\ UNCHANGED clientSocket
       \/ /\ closing[k].step = "store"
          /\ clientSocket' = [clientSocket EXCEPT ![c] = AfterClose(@)]
          /\ closing' = [closing EXCEPT ![k] = Idle]
          /\ UNCHANGED <<fds, link, inbox>>
    /\ UNCHANGED <<isRunning, unlockState, pc, locals, caller, decision, seen>>

Closed(who, c) == closing[<<who, c>>] = Idle

-----------------------------------------------------------------------------
\* ConnectThread

Start(c) ==
    /\ pc[c] = "new"
    /\ isRunning' = [isRunning EXCEPT ![c] = TRUE]
    /\ Goto(c, IF c \in Bluetooth THEN "channel" ELSE "open")
    /\ UNCHANGED <<unlockState, clientSocket, locals, closing, caller, fds, phone, seen>>

\* A step of the thread that moves it and may report a state.
Moves(c, label, st) ==
    /\ Goto(c, label)
    /\ Report(c, st)
    /\ UNCHANGED <<isRunning, clientSocket, numRetries, closing, caller, fds, seen>>

\* The thread ends at once: no channel or no socket.
GiveUp(c) ==
    /\ isRunning' = [isRunning EXCEPT ![c] = FALSE]
    /\ Report(c, "FAILED")
    /\ Goto(c, "done")
    /\ UNCHANGED <<clientSocket, locals, closing, caller, fds, phone, seen>>

\* Bluetooth only: look for the phone's service.
FindChannel(c) ==
    /\ pc[c] = "channel"
    /\ \/ GiveUp(c)
       \/ Moves(c, "open", unlockState[c]) /\ UNCHANGED <<authSocket, phone>>

OpenSocket(c) ==
    /\ pc[c] = "open"
    /\ Closed("thread", c)
    /\ \/ GiveUp(c)
       \/ LET d == Min({e \in Descriptors : fds[e] = NoSocket}) IN
          /\ fds' = [fds EXCEPT ![d] = SocketOf(c)]
          /\ clientSocket' = [clientSocket EXCEPT ![c] = d]
          /\ Goto(c, "connect")
          /\ late' = IF stopPc[c] \in {"idle", "load"} THEN late ELSE late \cup {c}
          /\ UNCHANGED <<isRunning, unlockState, locals, closing, caller, phone, overlapped,
                         unbound>>

\* Mutant: one retry too many.
MayRetryOnceMore(c) == numRetries[c] <= Retries[c] /\ isRunning[c]
MayRetry(c) == numRetries[c] < Retries[c] /\ isRunning[c]

\* Mutant: forgets to close the socket before it opens another.
RetryWithoutClose(c) == UNCHANGED <<closing, overlapped>>
CloseForRetry(c) == BeginClose("thread", c)

\* connect and select have failed, or SO_ERROR says so.
ConnectFails(c) ==
    /\ pc[c] = "connect"
    /\ IF MayRetry(c)
       THEN /\ CloseForRetry(c)
            /\ numRetries' = [numRetries EXCEPT ![c] = @ + 1]
            /\ Goto(c, "open")
            /\ UNCHANGED <<members, caller, fds, late, unbound>>
       ELSE Moves(c, "end", "FAILED")
    /\ UNCHANGED <<authSocket, phone>>

\* The socket is set up and the connection requested.  A call may fail outright,
\* and does when Stop has closed the socket; else the phone accepts.
Connect(c) ==
    /\ pc[c] = "connect"
    /\ \/ Moves(c, "end", "FAILED") /\ UNCHANGED link
       \/ /\ Behind(clientSocket[c]) = SocketOf(c)
          /\ link' = [link EXCEPT ![c] = "connected"]
          /\ Moves(c, "up", unlockState[c])
    /\ UNCHANGED <<authSocket, inbox, decision>>

\* threadEnd: the flags, then SOCKET_CLOSE.
End(c) ==
    /\ pc[c] = "end"
    /\ isRunning' = [isRunning EXCEPT ![c] = FALSE]
    /\ BeginClose("thread", c)
    /\ Goto(c, "done")
    /\ authSocket' = [authSocket EXCEPT ![c] = INVALID]
    /\ UNCHANGED <<unlockState, clientSocket, numRetries, caller, fds, phone, late, unbound>>

Ended(c) == pc[c] = "done" /\ Closed("thread", c)

-----------------------------------------------------------------------------
\* PerformAuthFlow on the socket it was given

\* SendUnlockRequest: the request cannot be encrypted or written, or a phone
\* gets it, which can use it if it is its own.
SendRequest(c) ==
    LET d == clientSocket[c] IN
    /\ pc[c] = "up"
    /\ authSocket' = [authSocket EXCEPT ![c] = d]
    /\ \/ Moves(c, "end", "FAILED") /\ UNCHANGED link
       \/ /\ \E p \in Peers(d) : link[p] # "closed"
          /\ link' = [p \in Clients |-> IF p = c /\ c \in Peers(d) THEN "asked" ELSE link[p]]
          /\ Moves(c, "read", unlockState[c])
    /\ UNCHANGED <<inbox, decision>>

\* Mutant: accepts an answer to an earlier request.
ProcessNoToken(c, from, kind) ==
    IF kind \in Refusals THEN "CANCELED" ELSE IF from # c THEN "FAILED" ELSE "SUCCESS"
\* OnPacketReceived and ProcessUnlockResponseJson: a refusal is not encrypted and
\* names no request; an answer is, with the key of its phone, and holds the token
\* of the request it answers.
Process(c, from, kind) ==
    IF kind \in Refusals THEN "CANCELED"
    ELSE IF kind = "stale" \/ from # c THEN "FAILED" ELSE "SUCCESS"

ReadPacket(c) ==
    /\ pc[c] = "read"
    /\ \E p \in Peers(authSocket[c]) :
        /\ inbox[p] # NoPacket
        /\ inbox' = [inbox EXCEPT ![p] = NoPacket]
        /\ Report(c, Process(c, p, inbox[p]))
        /\ unbound' = IF stopPc[c] # "idle" THEN unbound
                      ELSE IF p # c \/ inbox[p] = "cancel" THEN unbound \cup {c}
                      ELSE unbound \ {c}
    /\ UNCHANGED <<isRunning, clientSocket, pc, locals, closing, caller, fds, link, decision,
                   overlapped, late>>

\* The loop ends when the phone has closed the connection, or when there is
\* nothing behind the socket any more; while nothing comes it goes on.
ReadFails(c) ==
    /\ pc[c] = "read"
    /\ \A p \in Peers(authSocket[c]) : link[p] = "closed" /\ inbox[p] = NoPacket
    /\ Moves(c, "end", IF unlockState[c] = "UNKNOWN" THEN "FAILED" ELSE unlockState[c])
    /\ UNCHANGED <<authSocket, phone>>

ConnectThread(c) ==
    \/ OpenSocket(c) \/ ConnectFails(c) \/ Connect(c) \/ SendRequest(c)
    \/ ReadPacket(c) \/ ReadFails(c) \/ End(c) \/ CloseStep("thread", c)

\* The Bluetooth client has the same thread, after it has found the channel.
BTConnectThread(c) == FindChannel(c) \/ ConnectThread(c)

-----------------------------------------------------------------------------
\* The handler's thread: it leaves its loop with the state it has polled, or with
\* none because the attempt is over, and calls Stop.

\* Returns at once when the thread has cleared the flag.
Stop(c) ==
    /\ stopPc[c] = "idle" /\ pc[c] # "new"
    /\ polled' = [polled EXCEPT ![c] = unlockState[c]]
    /\ isRunning' = [isRunning EXCEPT ![c] = FALSE]
    /\ stopPc' = [stopPc EXCEPT ![c] = IF isRunning[c] THEN "load" ELSE "stopped"]
    /\ UNCHANGED <<unlockState, clientSocket, pc, locals, closing, fds, phone, seen>>

\* Mutant: leaves the socket to the thread.
StopLeavesSocket(c) == UNCHANGED <<closing, overlapped>>
StopCloses(c) == BeginClose("stop", c)

StopSocket(c) ==
    /\ stopPc[c] = "load"
    /\ StopCloses(c)
    /\ stopPc' = [stopPc EXCEPT ![c] = "close"]
    /\ UNCHANGED <<members, pc, locals, polled, fds, phone, late, unbound>>

Join(c) ==
    /\ stopPc[c] = "close" /\ Closed("stop", c) /\ Ended(c)
    /\ stopPc' = [stopPc EXCEPT ![c] = "stopped"]
    /\ UNCHANGED <<members, pc, locals, closing, polled, fds, phone, seen>>

StopStep(c) == StopSocket(c) \/ Join(c) \/ CloseStep("stop", c)

-----------------------------------------------------------------------------
\* The phone

\* The user decides once about a request.  Besides, the phone may at any time
\* send an answer to an earlier request, which stands for all packets that fail
\* the attempt, or a CANCEL that the user did not give to this request.
PhoneSends(c, kind) ==
    /\ link[c] \in {"connected", "asked"}
    /\ inbox[c] = NoPacket
    /\ inbox' = [inbox EXCEPT ![c] = kind]
    /\ IF kind \in {"approve", "deny"}
       THEN /\ link[c] = "asked" /\ decision[c] = "none"
            /\ decision' = [decision EXCEPT ![c] = kind]
       ELSE UNCHANGED decision
    /\ UNCHANGED <<members, pc, locals, closing, caller, fds, link, seen>>

PhoneCloses(c) ==
    /\ link[c] \in {"connected", "asked"}
    /\ link' = [link EXCEPT ![c] = "closed"]
    /\ UNCHANGED <<members, pc, locals, closing, caller, fds, inbox, decision, seen>>

ThreadStep(c) == IF c \in Bluetooth THEN BTConnectThread(c) ELSE ConnectThread(c)

Next ==
    \E c \in Clients :
        \/ Start(c) \/ ThreadStep(c) \/ Stop(c) \/ StopStep(c)
        \/ \E kind \in Answers[c] \cap Kinds : PhoneSends(c, kind)
        \/ "close" \in Answers[c] /\ PhoneCloses(c)

Spec == Init /\ [][Next]_vars

\* The threads are scheduled.  Nothing is assumed of the phones or of when the
\* handler stops a connection.
Fairness == \A c \in Clients : WF_vars(ThreadStep(c)) /\ WF_vars(StopStep(c))
FairSpec == Spec /\ Fairness

-----------------------------------------------------------------------------
\* Properties

\* A connection as module UnlockAttempt sees it, through the eyes of the handler.
\* A CANCEL counts whichever request it is about, and after closes that overlapped
\* a thread may read another phone's: such a CANCELED is no refusal of this
\* attempt's user and counts as a failure.
Outcome ==
    [c \in Clients |-> IF polled[c] = "CANCELED" /\ c \in unbound THEN "FAILED" ELSE polled[c]]
A == INSTANCE UnlockAttempt WITH Attempts <- Clients, outcome <- Outcome

\* What the handler polls is decided once; it is a success only by the approval
\* of that connection's own user of this very request, whatever else the phones
\* send and though a thread may read from another's socket; and CANCELED only by
\* that user's refusal of this request, or by a CANCEL that was the last answer
\* and about no request, an earlier one, or another connection's.
ImplementsAttempt == A!AttemptSpec

\* Two closes of one client that overlap may hit a descriptor that has been given
\* to another client meanwhile; nothing else closes another client's socket.
ClosesOwnSocket ==
    [][\A d \in Descriptors :
          fds[d] # NoSocket /\ fds'[d] = NoSocket =>
              overlapped \/ \E k \in Closers : closing[k] = [step |-> "close", fd |-> d]
                                               /\ k[2] = fds[d][1]]_vars

\* When all connections are stopped and their threads have ended, all sockets are
\* closed, those of earlier retries included, unless closes overlapped.
SocketsClosed ==
    (\A c \in Clients : stopPc[c] = "stopped" /\ Ended(c)) /\ ~overlapped
        => \A d \in Descriptors : fds[d] = NoSocket

\* Stop returns, though nothing is heard of the phone, unless the thread reads a
\* socket behind Stop's back: one it opened after Stop looked, or one of another
\* client that took over the descriptor.
Missed(c) ==
    pc[c] = "read" /\ \E s \in Sockets : Behind(authSocket[c]) = s /\ (c \in late \/ s[1] # c)
StopReturns == \A c \in Clients : stopPc[c] # "idle" ~> (stopPc[c] = "stopped" \/ Missed(c))
=============================================================================
