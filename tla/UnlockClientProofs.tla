-------------------------- MODULE UnlockClientProofs --------------------------
(***************************************************************************)
(* For any connections, retries and phones: the clients implement module   *)
(* UnlockAttempt, though their threads race for the socket and a thread    *)
(* may read from another connection's phone; until two closes of one       *)
(* client overlap, every descriptor in use is the member of its client;    *)
(* and, overlapping or not, no client holds more than two descriptors.     *)
(***************************************************************************)
EXTENDS UnlockClient, FiniteSetTheorems, WellFoundedInduction, TLAPS

ClientTypes ==
    /\ unlockState \in [Clients -> States] /\ polled \in [Clients -> States]
    /\ inbox \in [Clients -> Kinds \cup {NoPacket}]
    /\ decision \in [Clients -> {"none", "approve", "deny"}]
    /\ DOMAIN stopPc = Clients

\* Where a decision is between its user and the handler that polls it.
DecisionTraced ==
    \A c \in Clients :
        /\ inbox[c] \in {"approve", "deny"} => decision[c] = inbox[c]
        /\ unlockState[c] = "SUCCESS" => decision[c] = "approve"
        /\ stopPc[c] = "idle" => /\ polled[c] = "UNKNOWN"
                                 /\ unlockState[c] = "CANCELED" /\ c \notin unbound
                                       => decision[c] = "deny"

ClientInv == ClientTypes /\ DecisionTraced

LEMMA ClientInvInit == Init => ClientInv
  BY DEF Init, ClientInv, ClientTypes, DecisionTraced, States, Kinds, NoPacket

\* What a step must leave alone, or may only report as a failure.
Quiet ==
    /\ UNCHANGED <<polled, decision>>
    /\ inbox' \in [Clients -> Kinds \cup {NoPacket}]
    /\ \A c \in Clients : inbox'[c] \in {inbox[c], NoPacket}
    /\ unlockState' \in [Clients -> States]
    /\ \A c \in Clients : unlockState'[c] \in {unlockState[c], "UNKNOWN", "FAILED"}
    /\ DOMAIN stopPc' = Clients
    /\ \A c \in Clients : stopPc'[c] = "idle" => stopPc[c] = "idle"
    /\ unbound' = unbound

\* Such a step keeps the invariant, and the abstract attempt does not move.
LEMMA QuietKeeps ==
    ASSUME ClientInv, Quiet
    PROVE  ClientInv' /\ UNCHANGED <<decision, Outcome>>
  <1>1. ClientTypes'
    BY DEF Quiet, ClientInv, ClientTypes
  <1>2. DecisionTraced'
    BY DEF Quiet, ClientInv, ClientTypes, DecisionTraced, NoPacket
  <1>3. UNCHANGED <<decision, Outcome>>
    BY DEF Quiet, Outcome
  <1> QED
    BY <1>1, <1>2, <1>3 DEF ClientInv

LEMMA ReportTyped ==
    ASSUME ClientInv, NEW c \in Clients, NEW st \in States, Report(c, st)
    PROVE  /\ unlockState' \in [Clients -> States]
           /\ unlockState'[c] = st
           /\ \A b \in Clients \ {c} : unlockState'[b] = unlockState[b]
  BY DEF ClientInv, ClientTypes, Report

\* Closing a socket takes packets away, whoever does it.
LEMMA CloseIsQuiet ==
    ASSUME ClientInv, NEW who, NEW c, CloseStep(who, c)
    PROVE  Quiet
  <1>1. CASE UNCHANGED <<fds, link, inbox>>
    BY <1>1 DEF CloseStep, Quiet, ClientInv, ClientTypes, caller, seen
  <1>2. ASSUME NEW d, Destroy(d) PROVE Quiet
    <2>1. /\ inbox' \in [Clients -> Kinds \cup {NoPacket}]
          /\ \A b \in Clients : inbox'[b] \in {inbox[b], NoPacket}
      BY <1>2 DEF Destroy, ClientInv, ClientTypes
    <2> QED
      BY <2>1 DEF CloseStep, Quiet, ClientInv, ClientTypes, caller, seen
  <1> QED
    BY <1>1, <1>2 DEF CloseStep

\* So do all steps of the thread but the reading of a packet.
LEMMA ThreadIsQuiet ==
    ASSUME ClientInv, NEW c \in Clients,
           FindChannel(c) \/ OpenSocket(c) \/ ConnectFails(c) \/ Connect(c) \/ SendRequest(c)
              \/ ReadFails(c) \/ End(c)
    PROVE  Quiet
  <1> USE DEF caller, seen, phone, members, locals
  <1>1. ASSUME UNCHANGED <<unlockState, inbox, polled, decision, stopPc, unbound>> PROVE Quiet
    BY <1>1 DEF Quiet, ClientInv, ClientTypes
  <1>2. ASSUME NEW st \in {unlockState[c], "FAILED"}, Report(c, st),
               UNCHANGED <<inbox, polled, decision, stopPc, unbound>>
        PROVE  Quiet
    <2>1. st \in States
      BY DEF ClientInv, ClientTypes, States
    <2> QED
      BY <1>2, <2>1, ReportTyped DEF Quiet, ClientInv, ClientTypes
  <1>3. CASE FindChannel(c)
    BY <1>3, <1>2 DEF FindChannel, GiveUp, Moves
  <1>4. CASE OpenSocket(c)
    BY <1>4, <1>1, <1>2 DEF OpenSocket, GiveUp
  <1>5. CASE ConnectFails(c)
    BY <1>5, <1>1, <1>2 DEF ConnectFails, Moves
  <1>6. CASE Connect(c)
    BY <1>6, <1>2 DEF Connect, Moves
  <1>7. CASE SendRequest(c)
    BY <1>7, <1>2 DEF SendRequest, Moves
  <1>8. CASE ReadFails(c)
    BY <1>8, <1>2 DEF ReadFails, Moves
  <1>9. CASE End(c)
    BY <1>9, <1>1 DEF End
  <1> QED
    BY <1>3, <1>4, <1>5, <1>6, <1>7, <1>8, <1>9

\* A packet of the right phone or of another one.
LEMMA ReadKeeps ==
    ASSUME ClientInv, NEW c \in Clients, ReadPacket(c)
    PROVE  ClientInv' /\ UNCHANGED <<decision, Outcome>>
  <1> USE DEF caller, locals
  <1>1. PICK p \in Peers(authSocket[c]) :
           /\ inbox[p] # NoPacket
           /\ inbox' = [inbox EXCEPT ![p] = NoPacket]
           /\ Report(c, Process(c, p, inbox[p]))
           /\ unbound' = IF stopPc[c] # "idle" THEN unbound
                         ELSE IF p # c \/ inbox[p] = "cancel" THEN unbound \cup {c}
                         ELSE unbound \ {c}
    BY DEF ReadPacket
  <1>2. p \in Clients
    BY DEF Peers
  <1>3. UNCHANGED <<polled, stopPc, decision>>
    BY DEF ReadPacket
  <1> DEFINE st == Process(c, p, inbox[p])
  <1>4. /\ inbox[p] \in Kinds
        /\ st \in States
        /\ st = "SUCCESS" => p = c /\ inbox[p] = "approve"
        /\ st = "CANCELED" => inbox[p] \in {"deny", "cancel"}
    BY <1>1, <1>2 DEF ClientInv, ClientTypes, Process, Kinds, Refusals, States, NoPacket
  <1>5. /\ unlockState' \in [Clients -> States]
        /\ unlockState'[c] = st
        /\ \A b \in Clients \ {c} : unlockState'[b] = unlockState[b]
    BY <1>1, <1>4, ReportTyped
  <1> HIDE DEF st
  <1>6. ClientTypes'
    BY <1>1, <1>2, <1>3, <1>5 DEF ClientInv, ClientTypes
  <1>7. DecisionTraced'
    <2> SUFFICES ASSUME NEW b \in Clients
                 PROVE  /\ inbox'[b] \in {"approve", "deny"} => decision'[b] = inbox'[b]
                        /\ unlockState'[b] = "SUCCESS" => decision'[b] = "approve"
                        /\ stopPc'[b] = "idle" =>
                              /\ polled'[b] = "UNKNOWN"
                              /\ unlockState'[b] = "CANCELED" /\ b \notin unbound'
                                    => decision'[b] = "deny"
      BY DEF DecisionTraced
    <2>1. inbox'[b] \in {inbox[b], NoPacket}
      BY <1>1, <1>2 DEF ClientInv, ClientTypes
    <2>2. CASE b # c
      BY <2>1, <2>2, <1>1, <1>3, <1>5 DEF ClientInv, DecisionTraced, NoPacket
    <2>3. CASE b = c
      BY <2>1, <2>3, <1>1, <1>2, <1>3, <1>4, <1>5 DEF ClientInv, DecisionTraced, NoPacket
    <2> QED
      BY <2>2, <2>3
  <1>8. UNCHANGED Outcome
    <2>1. \A b \in Clients : b # c \/ stopPc[c] # "idle" => (b \in unbound' <=> b \in unbound)
      BY <1>1
    <2>2. stopPc[c] = "idle" => polled[c] = "UNKNOWN"
      BY DEF ClientInv, DecisionTraced
    <2> QED
      BY <2>1, <2>2, <1>3 DEF Outcome
  <1> QED
    BY <1>3, <1>6, <1>7, <1>8 DEF ClientInv

LEMMA SendKeeps ==
    ASSUME ClientInv, NEW c \in Clients, NEW kind \in Kinds, PhoneSends(c, kind)
    PROVE  /\ ClientInv'
           /\ UNCHANGED Outcome
           /\ UNCHANGED decision
                 \/ \E d \in {"approve", "deny"} :
                       decision[c] = "none" /\ decision' = [decision EXCEPT ![c] = d]
  <1> USE DEF caller, seen, members, locals
  <1>1. UNCHANGED <<unlockState, polled, stopPc, unbound>>
    BY DEF PhoneSends
  <1>2. inbox' = [inbox EXCEPT ![c] = kind]
    BY DEF PhoneSends
  <1>3. CASE kind \in {"approve", "deny"}
    <2>1. decision[c] = "none" /\ decision' = [decision EXCEPT ![c] = kind]
      BY <1>3 DEF PhoneSends
    <2>2. ClientTypes'
      BY <1>1, <1>2, <2>1, <1>3 DEF ClientInv, ClientTypes
    <2>3. DecisionTraced'
      BY <1>1, <1>2, <2>1, <1>3 DEF ClientInv, ClientTypes, DecisionTraced
    <2> QED
      BY <1>1, <2>1, <2>2, <2>3, <1>3 DEF ClientInv, Outcome
  <1>4. CASE kind \notin {"approve", "deny"}
    <2>1. UNCHANGED decision
      BY <1>4 DEF PhoneSends
    <2>2. ClientTypes'
      BY <1>1, <1>2, <2>1 DEF ClientInv, ClientTypes
    <2>3. DecisionTraced'
      BY <1>1, <1>2, <2>1, <1>4 DEF ClientInv, ClientTypes, DecisionTraced
    <2> QED
      BY <1>1, <2>1, <2>2, <2>3 DEF ClientInv, Outcome
  <1> QED
    BY <1>3, <1>4

\* The handler takes over what the client reports.
LEMMA StopKeeps ==
    ASSUME ClientInv, NEW c \in Clients, Stop(c)
    PROVE  /\ ClientInv'
           /\ UNCHANGED decision
           /\ UNCHANGED Outcome
                 \/ \E o \in {"SUCCESS", "CANCELED", "FAILED"} :
                       /\ Outcome[c] = "UNKNOWN"
                       /\ o = "SUCCESS" => decision[c] = "approve"
                       /\ o = "CANCELED" => decision[c] = "deny"
                       /\ Outcome' = [Outcome EXCEPT ![c] = o]
  <1> USE DEF seen, locals, phone
  <1>1. /\ UNCHANGED <<unlockState, inbox, decision, unbound>>
        /\ stopPc[c] = "idle"
        /\ polled' = [polled EXCEPT ![c] = unlockState[c]]
        /\ stopPc' = [stopPc EXCEPT ![c] = IF isRunning[c] THEN "load" ELSE "stopped"]
    BY DEF Stop
  <1>2. stopPc'[c] # "idle" /\ \A b \in Clients \ {c} : stopPc'[b] = stopPc[b]
    BY <1>1 DEF ClientInv, ClientTypes
  <1>3. ClientTypes'
    BY <1>1 DEF ClientInv, ClientTypes
  <1>4. DecisionTraced'
    BY <1>1, <1>2 DEF ClientInv, ClientTypes, DecisionTraced
  <1> DEFINE o == IF unlockState[c] = "CANCELED" /\ c \in unbound THEN "FAILED"
                                                                  ELSE unlockState[c]
  <1>5. Outcome[c] = "UNKNOWN"
    BY <1>1 DEF ClientInv, DecisionTraced, Outcome
  <1>6. Outcome' = [Outcome EXCEPT ![c] = o]
    BY <1>1 DEF ClientInv, ClientTypes, Outcome
  <1>7. o \in States /\ (o = "SUCCESS" => decision[c] = "approve")
          /\ (o = "CANCELED" => decision[c] = "deny")
    BY <1>1 DEF ClientInv, ClientTypes, DecisionTraced, States
  <1>8. o = "UNKNOWN" => UNCHANGED Outcome
    <2>1. DOMAIN Outcome = Clients
      BY DEF Outcome
    <2> HIDE DEF o
    <2>2. ASSUME NEW f, [Outcome EXCEPT ![c] = "UNKNOWN"] = f PROVE f = Outcome
      <3>1. Outcome = [b \in Clients |-> Outcome[b]]
        BY DEF Outcome
      <3> QED
        BY <2>2, <2>1, <3>1, <1>5
    <2> QED
      BY <1>6, <2>2
  <1> HIDE DEF o
  <1> QED
    BY <1>1, <1>3, <1>4, <1>5, <1>6, <1>7, <1>8 DEF ClientInv, States

\* Every step keeps the invariant and is a step of the abstract attempt or none.
LEMMA ClientStepRefines ==
    ASSUME ClientInv, [Next]_vars
    PROVE  ClientInv' /\ [A!AttemptNext]_(A!avars)
  <1> USE DEF A!avars
  <1>0. ASSUME Quiet PROVE ClientInv' /\ UNCHANGED A!avars
    BY <1>0, QuietKeeps
  <1>1. CASE UNCHANGED vars
    BY <1>1, <1>0 DEF vars, Quiet, ClientInv, ClientTypes, members, caller, phone, seen
  <1>2. ASSUME NEW c \in Clients, Start(c) \/ PhoneCloses(c) \/ StopSocket(c) \/ Join(c)
        PROVE  ClientInv' /\ UNCHANGED A!avars
    <2>1. Quiet
      BY <1>2 DEF Start, PhoneCloses, StopSocket, Join, Quiet, ClientInv, ClientTypes,
                  members, caller, phone, seen
    <2> QED
      BY <2>1, <1>0
  <1>3. ASSUME NEW c \in Clients, ThreadStep(c)
        PROVE  ClientInv' /\ UNCHANGED A!avars
    BY <1>3, <1>0, ThreadIsQuiet, ReadKeeps, CloseIsQuiet
       DEF ThreadStep, BTConnectThread, ConnectThread
  <1>4. ASSUME NEW c \in Clients, StopStep(c)
        PROVE  ClientInv' /\ UNCHANGED A!avars
    BY <1>4, <1>0, <1>2, CloseIsQuiet DEF StopStep
  <1>5. ASSUME NEW c \in Clients, Stop(c)
        PROVE  ClientInv' /\ [A!AttemptNext]_(A!avars)
    BY <1>5, StopKeeps DEF A!AttemptNext, A!Finish, A!Outcomes
  <1>6. ASSUME NEW c \in Clients, NEW kind \in Kinds, PhoneSends(c, kind)
        PROVE  ClientInv' /\ [A!AttemptNext]_(A!avars)
    BY <1>6, SendKeeps DEF A!AttemptNext, A!Decide
  <1> QED
    BY <1>1, <1>2, <1>3, <1>4, <1>5, <1>6 DEF Next

\* What the handler polls from a connection is decided once, and is a success or a
\* refusal only by its own user's decision (UnlockClients, BaseUnlockConnection).
THEOREM ClientImplementsAttempt == Spec => ImplementsAttempt
<1>1. Init => A!AttemptInit
  BY DEF Init, A!AttemptInit, Outcome
<1>2. Init => ClientInv
  BY ClientInvInit
<1>3. ClientInv /\ [Next]_vars => ClientInv' /\ [A!AttemptNext]_(A!avars)
  BY ClientStepRefines
<1> QED
  BY <1>1, <1>2, <1>3, PTL DEF Spec, ImplementsAttempt, A!AttemptSpec

-----------------------------------------------------------------------------
\* The sockets

Thread(c) == <<"thread", c>>
Stopper(c) == <<"stop", c>>
Owns(c, d) == fds[d] # NoSocket /\ fds[d][1] = c
Storing(c) == closing[Thread(c)].step = "store" \/ closing[Stopper(c)].step = "store"

SocketTypes ==
    /\ clientSocket \in [Clients -> Descriptors \cup {INVALID}]
    /\ fds \in [Descriptors -> Sockets \cup {NoSocket}]
    /\ closing \in [Closers -> [step : {"idle", "close", "store"},
                                fd : Descriptors \cup {INVALID}]]
    /\ numRetries \in [Clients -> Nat] /\ \A c \in Clients : numRetries[c] <= Retries[c]
    /\ DOMAIN pc = Clients /\ DOMAIN stopPc = Clients

\* At most one of thread and handler closes a client's socket, and it has read what
\* the member holds.
OneCloser(c) ==
    /\ closing[Thread(c)] = Idle \/ closing[Stopper(c)] = Idle
    /\ \A k \in {Thread(c), Stopper(c)} :
          closing[k] # Idle => /\ closing[k].step # "idle"
                               /\ closing[k].fd = clientSocket[c] /\ clientSocket[c] # INVALID
    /\ closing[Thread(c)] # Idle => pc[c] \in {"open", "done"}
    /\ closing[Stopper(c)] # Idle => stopPc[c] = "close"
    /\ pc[c] \in {"new", "channel"} => clientSocket[c] = INVALID
    /\ pc[c] \in {"open", "done"} =>
          clientSocket[c] = INVALID \/ closing[Thread(c)] # Idle

\* A client's sockets are the one its member holds, until that is destroyed.
OwnsMember(c) ==
    \A d \in Descriptors : Owns(c, d) <=> d = clientSocket[c] /\ ~Storing(c)

SocketInv ==
    overlapped \/ (SocketTypes /\ \A c \in Clients : OneCloser(c) /\ OwnsMember(c))

LEMMA Descriptor ==
    /\ INVALID \notin Descriptors
    /\ Idle.step = "idle" /\ Idle.fd = INVALID
    /\ \A c \in Clients : Thread(c) \in Closers /\ Stopper(c) \in Closers
    /\ \A b, c \in Clients : /\ Thread(b) # Stopper(c)
                             /\ Thread(b) = Thread(c) => b = c
                             /\ Stopper(b) = Stopper(c) => b = c
  BY DEF INVALID, Descriptors, Idle, Closers, Thread, Stopper

LEMMA SocketOfClient ==
    ASSUME SocketTypes, NEW c \in Clients
    PROVE  SocketOf(c) \in Sockets /\ SocketOf(c) # NoSocket /\ SocketOf(c)[1] = c
  <1>1. numRetries[c] \in 0..Retries[c]
    BY ClientAssumption DEF SocketTypes
  <1> QED
    BY <1>1 DEF SocketOf, Sockets, NoSocket

LEMMA SocketHasOwner ==
    ASSUME NEW s \in Sockets
    PROVE  s # NoSocket /\ s[1] \in Clients
  BY DEF Sockets, NoSocket

LEMMA MinIsMember ==
    ASSUME NEW S \in SUBSET Nat, S # {}
    PROVE  Min(S) \in S
  <1>1. \E x \in S : \A y \in S : ~(<<y, x>> \in OpToRel(<, Nat))
    BY NatLessThanWellFounded, WFMin
  <1>2. \A x, y \in Nat : y < x => <<y, x>> \in OpToRel(<, Nat)
    BY DEF OpToRel
  <1>3. \E x \in S : \A y \in S : ~(y < x)
    BY <1>1, <1>2
  <1>4. \E x \in S : \A y \in S : x =< y
    BY <1>3
  <1> QED
    BY <1>4 DEF Min

\* There are two descriptors for each client, of which it owns one at most.
LEMMA DescriptorIsFree ==
    ASSUME SocketTypes, \A c \in Clients : OwnsMember(c), NEW c \in Clients
    PROVE  Min({e \in Descriptors : fds[e] = NoSocket}) \in
              {e \in Descriptors : fds[e] = NoSocket}
  <1> DEFINE free == {e \in Descriptors : fds[e] = NoSocket}
  <1>1. free # {}
    <2> SUFFICES ASSUME free = {} PROVE FALSE
      OBVIOUS
    <2> DEFINE f == [d \in Descriptors |-> fds[d][1]]
    <2>1. f \in [Descriptors -> Clients]
      BY SocketHasOwner DEF SocketTypes
    <2>2. Cardinality(Clients) \in Nat /\ Cardinality(Clients) # 0 /\ IsFiniteSet(Clients)
      BY ClientAssumption, FS_CardinalityType, FS_EmptySet
    <2>3. IsFiniteSet(Descriptors) /\ Cardinality(Descriptors) = 2 * Cardinality(Clients)
      BY <2>2, FS_Interval DEF Descriptors
    <2> HIDE DEF f
    <2>4. PICK x, y \in Descriptors : x # y /\ f[x] = f[y]
      BY <2>1, <2>2, <2>3, FS_PigeonHole
    <2>5. f[x] \in Clients /\ Owns(f[x], x) /\ Owns(f[x], y)
      BY <2>1, <2>4 DEF Owns, f
    <2> QED
      BY <2>4, <2>5 DEF OwnsMember
  <1>2. free \in SUBSET Nat
    BY DEF Descriptors
  <1> HIDE DEF free
  <1>3. Min(free) \in free
    BY <1>1, <1>2, MinIsMember
  <1> QED
    BY <1>3 DEF free

LEMMA SocketInvInit == Init => SocketInv
  <1> SUFFICES ASSUME Init PROVE SocketInv
    OBVIOUS
  <1>1. SocketTypes
    BY ClientAssumption, Descriptor DEF Init, SocketTypes, Idle
  <1>2. ASSUME NEW c \in Clients PROVE OneCloser(c) /\ OwnsMember(c)
    BY Descriptor DEF Init, OneCloser, OwnsMember, Owns, Storing
  <1> QED
    BY <1>1, <1>2 DEF SocketInv

\* A step that does not touch sockets, and takes no client to where it would need to
\* have none.
LEMMA MoveKeeps ==
    ASSUME SocketInv, UNCHANGED <<clientSocket, fds, closing, numRetries, overlapped>>,
           DOMAIN pc' = DOMAIN pc, DOMAIN stopPc' = DOMAIN stopPc,
           \A b \in Clients :
              /\ pc'[b] \in {"open", "done"} => pc[b] \in {"new", "channel", "open", "done"}
              /\ pc'[b] \in {"new", "channel"} => pc[b] \in {"new", "channel"}
              /\ closing[Thread(b)] # Idle => pc'[b] = pc[b]
              /\ closing[Stopper(b)] # Idle => stopPc'[b] = stopPc[b]
    PROVE  SocketInv'
  <1> SUFFICES ASSUME ~overlapped PROVE SocketInv'
    BY DEF SocketInv
  <1>1. SocketTypes'
    BY DEF SocketInv, SocketTypes
  <1>2. ASSUME NEW b \in Clients PROVE OneCloser(b)'
    BY DEF SocketInv, SocketTypes, OneCloser
  <1>3. ASSUME NEW b \in Clients PROVE OwnsMember(b)'
    BY DEF SocketInv, SocketTypes, OwnsMember, Owns, Storing
  <1> QED
    BY <1>1, <1>2, <1>3 DEF SocketInv

\* The thread begins to close: the handler does not, or there is nothing to close,
\* or the two overlap.
LEMMA ThreadBeginsClose ==
    ASSUME SocketInv, NEW c \in Clients, NEW label \in {"open", "done"},
           BeginClose("thread", c), pc[c] \in {"connect", "end"},
           pc' = [pc EXCEPT ![c] = label], UNCHANGED <<clientSocket, fds, stopPc>>,
           numRetries' \in [Clients -> Nat], \A b \in Clients : numRetries'[b] <= Retries[b]
    PROVE  SocketInv'
  <1> SUFFICES ASSUME ~overlapped' PROVE SocketInv'
    BY DEF SocketInv
  <1>0. ~overlapped /\ SocketTypes /\ \A b \in Clients : OneCloser(b) /\ OwnsMember(b)
    BY DEF SocketInv, BeginClose
  <1> DEFINE d == clientSocket[c]
             new == IF d = INVALID THEN Idle ELSE [step |-> "close", fd |-> d]
  <1>1. closing' = [closing EXCEPT ![Thread(c)] = new]
    BY DEF BeginClose, Thread
  <1>2. /\ closing'[Thread(c)] = new
        /\ closing'[Stopper(c)] = Idle /\ closing[Stopper(c)] = Idle
        /\ closing[Thread(c)] = Idle
        /\ \A b \in Clients \ {c} : /\ closing'[Thread(b)] = closing[Thread(b)]
                                   /\ closing'[Stopper(b)] = closing[Stopper(b)]
    <2>1. d = INVALID => closing[Stopper(c)] = Idle
      BY <1>0 DEF OneCloser
    <2>2. d # INVALID => closing[Stopper(c)] = Idle
      BY DEF BeginClose, Stopper
    <2>3. closing[Thread(c)] = Idle
      BY <1>0 DEF OneCloser
    <2> QED
      BY <1>0, <1>1, <2>1, <2>2, <2>3, Descriptor DEF SocketTypes
  <1>3. new = Idle \/ (new.step = "close" /\ new.fd = d)
    OBVIOUS
  <1>4. /\ pc'[c] = label
        /\ \A b \in Clients \ {c} : pc'[b] = pc[b]
    BY <1>0 DEF SocketTypes
  <1>5. SocketTypes'
    <2>1. new \in [step : {"idle", "close", "store"}, fd : Descriptors \cup {INVALID}]
      BY <1>0 DEF SocketTypes, Idle
    <2> HIDE DEF new
    <2> QED
      BY <1>0, <1>1, <2>1 DEF SocketTypes
  <1>6. d = INVALID <=> new = Idle
    BY Descriptor
  <1> HIDE DEF new
  <1>7. ASSUME NEW b \in Clients PROVE OneCloser(b)'
    BY <1>0, <1>2, <1>3, <1>4, <1>6, Descriptor DEF OneCloser
  <1>8. ASSUME NEW b \in Clients PROVE OwnsMember(b)'
    <2>1. Storing(b)' = Storing(b)
      BY <1>2, <1>3, Descriptor DEF Storing
    <2> QED
      BY <1>0, <2>1 DEF OwnsMember, Owns
  <1> QED
    BY <1>5, <1>7, <1>8 DEF SocketInv

\* The same of the handler.
LEMMA StopBeginsClose ==
    ASSUME SocketInv, NEW c \in Clients,
           BeginClose("stop", c), stopPc[c] = "load",
           stopPc' = [stopPc EXCEPT ![c] = "close"],
           UNCHANGED <<clientSocket, fds, pc, numRetries>>
    PROVE  SocketInv'
  <1> SUFFICES ASSUME ~overlapped' PROVE SocketInv'
    BY DEF SocketInv
  <1>0. ~overlapped /\ SocketTypes /\ \A b \in Clients : OneCloser(b) /\ OwnsMember(b)
    BY DEF SocketInv, BeginClose
  <1> DEFINE d == clientSocket[c]
             new == IF d = INVALID THEN Idle ELSE [step |-> "close", fd |-> d]
  <1>1. closing' = [closing EXCEPT ![Stopper(c)] = new]
    BY DEF BeginClose, Stopper
  <1>2. /\ closing'[Stopper(c)] = new
        /\ closing'[Thread(c)] = Idle /\ closing[Thread(c)] = Idle
        /\ closing[Stopper(c)] = Idle
        /\ \A b \in Clients \ {c} : /\ closing'[Thread(b)] = closing[Thread(b)]
                                   /\ closing'[Stopper(b)] = closing[Stopper(b)]
    <2>1. d = INVALID => closing[Thread(c)] = Idle
      BY <1>0 DEF OneCloser
    <2>2. d # INVALID => closing[Thread(c)] = Idle
      BY DEF BeginClose, Thread
    <2>3. closing[Stopper(c)] = Idle
      BY <1>0 DEF OneCloser
    <2> QED
      BY <1>0, <1>1, <2>1, <2>2, <2>3, Descriptor DEF SocketTypes
  <1>3. new = Idle \/ (new.step = "close" /\ new.fd = d)
    OBVIOUS
  <1>4. /\ stopPc'[c] = "close"
        /\ \A b \in Clients \ {c} : stopPc'[b] = stopPc[b]
    BY <1>0 DEF SocketTypes
  <1>5. SocketTypes'
    <2>1. new \in [step : {"idle", "close", "store"}, fd : Descriptors \cup {INVALID}]
      BY <1>0 DEF SocketTypes, Idle
    <2> HIDE DEF new
    <2> QED
      BY <1>0, <1>1, <2>1 DEF SocketTypes
  <1>6. d = INVALID <=> new = Idle
    BY Descriptor
  <1> HIDE DEF new
  <1>7. ASSUME NEW b \in Clients PROVE OneCloser(b)'
    BY <1>0, <1>2, <1>3, <1>4, <1>6, Descriptor DEF OneCloser
  <1>8. ASSUME NEW b \in Clients PROVE OwnsMember(b)'
    <2>1. Storing(b)' = Storing(b)
      BY <1>2, <1>3, Descriptor DEF Storing
    <2> QED
      BY <1>0, <2>1 DEF OwnsMember, Owns
  <1> QED
    BY <1>5, <1>7, <1>8 DEF SocketInv

\* What was read is destroyed, then the member is reset.
LEMMA CloseKeeps ==
    ASSUME SocketInv, NEW who \in {"thread", "stop"}, NEW c \in Clients, CloseStep(who, c)
    PROVE  SocketInv'
  <1> SUFFICES ASSUME ~overlapped' PROVE SocketInv'
    BY DEF SocketInv
  <1> DEFINE k == <<who, c>>
             other == IF who = "thread" THEN Stopper(c) ELSE Thread(c)
  <1>0. /\ ~overlapped /\ SocketTypes /\ \A b \in Clients : OneCloser(b) /\ OwnsMember(b)
        /\ UNCHANGED <<pc, stopPc, numRetries>>
    BY DEF SocketInv, CloseStep, seen, locals, caller
  <1>1. /\ k \in Closers /\ other \in Closers /\ k # other
        /\ {k, other} = {Thread(c), Stopper(c)}
        /\ \A b \in Clients \ {c} : Thread(b) \notin {k, other} /\ Stopper(b) \notin {k, other}
    BY Descriptor DEF Thread, Stopper
  <1>2. /\ closing[k] # Idle
        /\ closing[other] = Idle
        /\ closing[k].fd = clientSocket[c] /\ clientSocket[c] \in Descriptors
    <2>1. closing[k] # Idle
      BY Descriptor DEF CloseStep
    <2>2. closing[k].fd = clientSocket[c] /\ clientSocket[c] # INVALID /\ closing[other] = Idle
      BY <1>0, <1>1, <2>1 DEF OneCloser
    <2> QED
      BY <1>0, <2>1, <2>2 DEF SocketTypes
  <1>3. CASE /\ closing[k].step = "close" /\ Destroy(clientSocket[c])
             /\ closing' = [closing EXCEPT ![k].step = "store"] /\ UNCHANGED clientSocket
    <2>1. /\ closing'[k].step = "store" /\ closing'[k].fd = clientSocket[c]
          /\ closing'[k] # Idle
          /\ \A j \in Closers \ {k} : closing'[j] = closing[j]
      BY <1>0, <1>1, <1>2, <1>3, Descriptor DEF SocketTypes
    <2>2. /\ fds' = [fds EXCEPT ![clientSocket[c]] = NoSocket]
          /\ fds'[clientSocket[c]] = NoSocket
          /\ \A d \in Descriptors \ {clientSocket[c]} : fds'[d] = fds[d]
      BY <1>0, <1>2, <1>3 DEF Destroy, SocketTypes
    <2>3. SocketTypes'
      <3>1. fds' \in [Descriptors -> Sockets \cup {NoSocket}]
        BY <1>0, <2>2 DEF SocketTypes
      <3>2. closing' \in [Closers -> [step : {"idle", "close", "store"},
                                     fd : Descriptors \cup {INVALID}]]
        BY <1>0, <1>1, <1>3 DEF SocketTypes
      <3> QED
        BY <1>0, <1>3, <3>1, <3>2 DEF SocketTypes
    <2>4. ASSUME NEW b \in Clients PROVE OneCloser(b)'
      BY <1>0, <1>1, <1>2, <1>3, <2>1, Descriptor DEF OneCloser
    <2>5. ASSUME NEW b \in Clients PROVE OwnsMember(b)'
      <3>1. CASE b = c
        <4>1. Storing(c)'
          BY <1>1, <2>1 DEF Storing
        <4>2. \A d \in Descriptors : ~Owns(c, d)'
          BY <1>0, <2>2 DEF OwnsMember, Owns
        <4> QED
          BY <3>1, <4>1, <4>2 DEF OwnsMember
      <3>2. CASE b # c
        <4>1. Storing(b)' = Storing(b)
          BY <1>1, <2>1, <3>2, Descriptor DEF Storing
        <4>2. Owns(c, clientSocket[c])
          BY <1>0, <1>1, <1>2, <1>3, Descriptor DEF OwnsMember, Storing
        <4>3. \A d \in Descriptors : Owns(b, d)' <=> Owns(b, d)
          BY <2>2, <3>2, <4>2 DEF Owns
        <4> QED
          BY <1>0, <1>3, <4>1, <4>3 DEF OwnsMember
      <3> QED
        BY <3>1, <3>2
    <2> QED
      BY <2>3, <2>4, <2>5 DEF SocketInv
  <1>4. CASE /\ closing[k].step = "store" /\ UNCHANGED fds
             /\ clientSocket' = [clientSocket EXCEPT ![c] = INVALID]
             /\ closing' = [closing EXCEPT ![k] = Idle]
    <2>1. /\ closing'[k] = Idle /\ closing'[other] = Idle
          /\ \A j \in Closers \ {k} : closing'[j] = closing[j]
      BY <1>0, <1>1, <1>2, <1>4 DEF SocketTypes
    <2>2. /\ clientSocket'[c] = INVALID
          /\ \A b \in Clients \ {c} : clientSocket'[b] = clientSocket[b]
      BY <1>0, <1>4 DEF SocketTypes
    <2>3. SocketTypes'
      BY <1>0, <1>4 DEF SocketTypes, Idle
    <2>4. ASSUME NEW b \in Clients PROVE OneCloser(b)'
      BY <1>0, <1>1, <1>2, <2>1, <2>2, Descriptor DEF OneCloser
    <2>5. ASSUME NEW b \in Clients PROVE OwnsMember(b)'
      <3>1. CASE b = c
        BY <1>0, <1>1, <1>4, <2>2, <3>1, Descriptor DEF OwnsMember, Owns, Storing
      <3>2. CASE b # c
        <4>1. Storing(b)' = Storing(b)
          BY <1>1, <2>1, <3>2, Descriptor DEF Storing
        <4> QED
          BY <1>0, <1>4, <2>2, <3>2, <4>1 DEF OwnsMember, Owns
      <3> QED
        BY <3>1, <3>2
    <2> QED
      BY <2>3, <2>4, <2>5 DEF SocketInv
  <1> QED
    BY <1>2, <1>3, <1>4 DEF CloseStep, AfterClose

\* A new socket: the member's, and nobody else's.
LEMMA OpenKeeps ==
    ASSUME SocketInv, NEW c \in Clients, pc[c] = "open", Closed("thread", c),
           LET d == Min({e \in Descriptors : fds[e] = NoSocket}) IN
              /\ fds' = [fds EXCEPT ![d] = SocketOf(c)]
              /\ clientSocket' = [clientSocket EXCEPT ![c] = d],
           pc' = [pc EXCEPT ![c] = "connect"],
           UNCHANGED <<closing, numRetries, stopPc, overlapped>>
    PROVE  SocketInv'
  <1> SUFFICES ASSUME ~overlapped PROVE SocketInv'
    BY DEF SocketInv
  <1>0. SocketTypes /\ \A b \in Clients : OneCloser(b) /\ OwnsMember(b)
    BY DEF SocketInv
  <1> DEFINE d == Min({e \in Descriptors : fds[e] = NoSocket})
  <1>1. d \in Descriptors /\ fds[d] = NoSocket
    BY <1>0, DescriptorIsFree
  <1>2. /\ fds' = [fds EXCEPT ![d] = SocketOf(c)]
        /\ clientSocket' = [clientSocket EXCEPT ![c] = d]
    OBVIOUS
  <1> HIDE DEF d
  <1>3. /\ fds'[d] = SocketOf(c) /\ \A e \in Descriptors \ {d} : fds'[e] = fds[e]
        /\ clientSocket'[c] = d
        /\ \A b \in Clients \ {c} : clientSocket'[b] = clientSocket[b]
        /\ pc'[c] = "connect" /\ \A b \in Clients \ {c} : pc'[b] = pc[b]
    BY <1>0, <1>1, <1>2 DEF SocketTypes
  <1>4. closing[Thread(c)] = Idle /\ clientSocket[c] = INVALID /\ closing[Stopper(c)] = Idle
    BY <1>0, Descriptor DEF OneCloser, Closed, Thread, Stopper
  <1>5. SocketTypes'
    BY <1>0, <1>1, <1>2, SocketOfClient DEF SocketTypes
  <1>6. ASSUME NEW b \in Clients PROVE OneCloser(b)'
    BY <1>0, <1>3, <1>4 DEF OneCloser
  <1>7. ASSUME NEW b \in Clients PROVE OwnsMember(b)'
    <2>1. Storing(b)' = Storing(b) /\ ~Storing(c)
      BY <1>4, Descriptor DEF Storing
    <2>2. CASE b = c
      BY <1>0, <1>1, <1>3, <1>4, <2>1, <2>2, SocketOfClient, Descriptor DEF OwnsMember, Owns
    <2>3. CASE b # c
      BY <1>0, <1>1, <1>3, <2>1, <2>3, SocketOfClient DEF OwnsMember, Owns
    <2> QED
      BY <2>2, <2>3
  <1> QED
    BY <1>5, <1>6, <1>7 DEF SocketInv

LEMMA SocketInvStep ==
    ASSUME SocketInv, [Next]_vars
    PROVE  SocketInv'
  <1> USE DEF members, locals, phone, caller, seen
  <1>1. CASE overlapped
    <2>1. ASSUME NEW c \in Clients,
                 Start(c) \/ Stop(c) \/ Join(c) \/ PhoneCloses(c)
                    \/ \E kind \in Kinds : PhoneSends(c, kind)
          PROVE  UNCHANGED overlapped
      BY <2>1 DEF Start, Stop, Join, PhoneSends, PhoneCloses
    <2>2. ASSUME NEW c \in Clients, StopSocket(c) \/ ConnectFails(c) \/ End(c)
          PROVE  overlapped'
      BY <1>1, <2>2 DEF StopSocket, StopCloses, BeginClose, ConnectFails, CloseForRetry, End,
                        Moves
    <2>3. ASSUME NEW c \in Clients, FindChannel(c) \/ OpenSocket(c) \/ Connect(c)
          PROVE  UNCHANGED overlapped
      BY <2>3 DEF FindChannel, OpenSocket, GiveUp, Connect, Moves
    <2>4. ASSUME NEW c \in Clients, SendRequest(c) \/ ReadPacket(c) \/ ReadFails(c)
          PROVE  UNCHANGED overlapped
      BY <2>4 DEF SendRequest, ReadPacket, ReadFails, Moves
    <2>5. ASSUME NEW c \in Clients, NEW who, CloseStep(who, c) PROVE UNCHANGED overlapped
      BY <2>5 DEF CloseStep
    <2>6. ASSUME UNCHANGED vars PROVE UNCHANGED overlapped
      BY <2>6 DEF vars
    <2>7. overlapped'
      BY <1>1, <2>1, <2>2, <2>3, <2>4, <2>5, <2>6
         DEF Next, ThreadStep, BTConnectThread, ConnectThread, StopStep
    <2> QED
      BY <2>7 DEF SocketInv
  <1>2. CASE ~overlapped
    <2>0. SocketTypes /\ \A c \in Clients : OneCloser(c) /\ OwnsMember(c)
      BY <1>2 DEF SocketInv
    <2> DEFINE sockets == <<clientSocket, fds, closing, numRetries, overlapped>>
    <2>1. ASSUME UNCHANGED <<sockets, pc, stopPc>> PROVE SocketInv'
      BY <2>1 DEF SocketInv, SocketTypes, OneCloser, OwnsMember, Owns, Storing
    <2>2. ASSUME NEW c \in Clients, NEW label \in {"end", "up", "read"},
                 pc[c] \in {"connect", "up", "read"}, pc' = [pc EXCEPT ![c] = label],
                 UNCHANGED <<sockets, stopPc>>
          PROVE  SocketInv'
      BY <2>0, <2>2, MoveKeeps DEF OneCloser, SocketTypes
    <2>3. ASSUME NEW c \in Clients, GiveUp(c), pc[c] \in {"channel", "open"},
                 closing[Thread(c)] = Idle
          PROVE  SocketInv'
      BY <2>0, <2>3, MoveKeeps DEF GiveUp, Goto, SocketTypes
    <2>4. ASSUME NEW c \in Clients, Start(c) PROVE SocketInv'
      BY <2>0, <2>4, MoveKeeps DEF Start, Goto, OneCloser, SocketTypes
    <2>5. ASSUME NEW c \in Clients, FindChannel(c) PROVE SocketInv'
      <3>1. closing[Thread(c)] = Idle /\ pc[c] = "channel"
        BY <2>0, <2>5 DEF FindChannel, OneCloser
      <3>2. CASE Moves(c, "open", unlockState[c])
        BY <2>0, <3>1, <3>2, MoveKeeps DEF Moves, Goto, SocketTypes
      <3> QED
        BY <2>3, <2>5, <3>1, <3>2 DEF FindChannel
    <2>6. ASSUME NEW c \in Clients, OpenSocket(c) PROVE SocketInv'
      <3>1. pc[c] = "open" /\ closing[Thread(c)] = Idle
        BY <2>6 DEF OpenSocket, Closed, Thread
      <3>2. CASE GiveUp(c)
        BY <2>3, <3>1, <3>2
      <3>3. CASE ~GiveUp(c)
        BY <2>6, <3>3, OpenKeeps DEF OpenSocket, Goto
      <3> QED
        BY <3>2, <3>3
    <2>7. ASSUME NEW c \in Clients, ConnectFails(c) PROVE SocketInv'
      <3>1. pc[c] = "connect"
        BY <2>7 DEF ConnectFails
      <3>2. CASE MayRetry(c)
        <4>1. /\ BeginClose("thread", c)
              /\ numRetries' = [numRetries EXCEPT ![c] = @ + 1]
              /\ pc' = [pc EXCEPT ![c] = "open"]
              /\ UNCHANGED <<clientSocket, fds, stopPc>>
          BY <2>7, <3>2 DEF ConnectFails, CloseForRetry, Goto
        <4>2. /\ numRetries' \in [Clients -> Nat]
              /\ \A b \in Clients : numRetries'[b] <= Retries[b]
          <5>1. numRetries[c] < Retries[c] /\ Retries \in [Clients -> Nat]
            BY <3>2, ClientAssumption DEF MayRetry
          <5>2. /\ numRetries' \in [Clients -> Nat]
                /\ numRetries'[c] = numRetries[c] + 1 /\ numRetries[c] \in Nat
                /\ \A b \in Clients \ {c} : numRetries'[b] = numRetries[b]
            BY <2>0, <4>1 DEF SocketTypes
          <5>3. Retries[c] \in Nat
            BY <5>1
          <5> QED
            BY <2>0, <5>1, <5>2, <5>3 DEF SocketTypes
        <4> QED
          BY <3>1, <4>1, <4>2, ThreadBeginsClose
      <3>3. CASE ~MayRetry(c)
        BY <2>7, <3>1, <3>3, <2>2 DEF ConnectFails, Moves, Goto
      <3> QED
        BY <3>2, <3>3
    <2>8. ASSUME NEW c \in Clients, Connect(c) \/ SendRequest(c) \/ ReadFails(c)
          PROVE  SocketInv'
      BY <2>2, <2>8 DEF Connect, SendRequest, ReadFails, Moves, Goto
    <2>9. ASSUME NEW c \in Clients, ReadPacket(c) PROVE SocketInv'
      BY <2>1, <2>9 DEF ReadPacket
    <2>10. ASSUME NEW c \in Clients, End(c) PROVE SocketInv'
      <3>1. /\ numRetries' \in [Clients -> Nat]
            /\ \A b \in Clients : numRetries'[b] <= Retries[b]
        BY <2>0, <2>10 DEF End, SocketTypes
      <3> QED
        BY <2>10, <3>1, ThreadBeginsClose DEF End, Goto
    <2>11. ASSUME NEW c \in Clients, NEW who \in {"thread", "stop"}, CloseStep(who, c)
           PROVE  SocketInv'
      BY <2>11, CloseKeeps
    <2>12. ASSUME NEW c \in Clients, ThreadStep(c) PROVE SocketInv'
      BY <2>12, <2>5, <2>6, <2>7, <2>8, <2>9, <2>10, <2>11
         DEF ThreadStep, BTConnectThread, ConnectThread
    <2>13. ASSUME NEW c \in Clients, Stop(c) PROVE SocketInv'
      <3>1. closing[Stopper(c)] = Idle
        BY <2>0, <2>13 DEF Stop, OneCloser
      <3>2. \E stop : stopPc' = [stopPc EXCEPT ![c] = stop]
        BY <2>13 DEF Stop
      <3> QED
        BY <2>0, <2>13, <3>1, <3>2, MoveKeeps DEF Stop, SocketTypes, OneCloser
    <2>14. ASSUME NEW c \in Clients, StopSocket(c) PROVE SocketInv'
      BY <2>14, StopBeginsClose DEF StopSocket, StopCloses
    <2>15. ASSUME NEW c \in Clients, Join(c) PROVE SocketInv'
      <3>1. closing[Stopper(c)] = Idle
        BY <2>15 DEF Join, Closed, Stopper
      <3> QED
        BY <2>0, <2>15, <3>1, MoveKeeps DEF Join, SocketTypes, OneCloser
    <2>16. ASSUME NEW c \in Clients, NEW kind \in Kinds, PhoneSends(c, kind) PROVE SocketInv'
      BY <2>16, <2>1 DEF PhoneSends
    <2>17. ASSUME NEW c \in Clients, PhoneCloses(c) PROVE SocketInv'
      BY <2>17, <2>1 DEF PhoneCloses
    <2>18. CASE UNCHANGED vars
      BY <2>18, <2>1 DEF vars
    <2> QED
      BY <2>4, <2>11, <2>12, <2>13, <2>14, <2>15, <2>16, <2>17, <2>18 DEF Next, StopStep
  <1> QED
    BY <1>1, <1>2

THEOREM SocketInvariance == Spec => []SocketInv
  BY SocketInvInit, SocketInvStep, PTL DEF Spec

\* Once all connections are stopped and their threads have ended, no descriptor is
\* left open, unless two closes of one client overlapped (SOCKET_CLOSE in Stop and
\* in the ConnectThreads).
THEOREM ClientSocketsClosed == Spec => []SocketsClosed
<1>1. SocketInv => SocketsClosed
  <2> SUFFICES ASSUME SocketInv, ~overlapped, NEW d \in Descriptors, fds[d] # NoSocket,
                      \A c \in Clients : stopPc[c] = "stopped" /\ Ended(c)
               PROVE  FALSE
    BY DEF SocketsClosed
  <2>1. fds[d][1] \in Clients
    BY SocketHasOwner DEF SocketInv, SocketTypes
  <2>2. PICK c \in Clients : Owns(c, d)
    BY <2>1 DEF Owns
  <2>3. closing[Thread(c)] = Idle /\ pc[c] = "done" /\ OneCloser(c) /\ OwnsMember(c)
    BY DEF Ended, Closed, Thread, SocketInv
  <2> QED
    BY <2>2, <2>3, Descriptor DEF OneCloser, OwnsMember
<1> QED
  BY <1>1, SocketInvariance, PTL

\* Until two closes of one client overlap, whoever closes a descriptor closes a
\* socket of its own client (SOCKET_CLOSE).
THEOREM ClientClosesOwnSocket == Spec => ClosesOwnSocket
<1> DEFINE OwnOnly ==
      \A d \in Descriptors :
          fds[d] # NoSocket /\ fds'[d] = NoSocket =>
              overlapped \/ \E k \in Closers : closing[k] = [step |-> "close", fd |-> d]
                                               /\ k[2] = fds[d][1]
<1>1. SocketInv /\ [Next]_vars => [OwnOnly]_vars
  <2> SUFFICES ASSUME SocketInv, Next, ~overlapped, NEW d \in Descriptors,
                      fds[d] # NoSocket, fds'[d] = NoSocket
               PROVE  \E k \in Closers : closing[k] = [step |-> "close", fd |-> d]
                                         /\ k[2] = fds[d][1]
    BY DEF SocketInv
  <2>0. SocketTypes /\ \A c \in Clients : OneCloser(c) /\ OwnsMember(c)
    BY DEF SocketInv
  <2>1. fds' # fds
    OBVIOUS
  <2>2. PICK c \in Clients : OpenSocket(c) \/ \E who \in {"thread", "stop"} : CloseStep(who, c)
    <3> USE DEF members, locals, phone, caller, seen
    <3>1. ASSUME NEW c \in Clients,
                 Start(c) \/ Stop(c) \/ StopSocket(c) \/ Join(c) \/ PhoneCloses(c)
                    \/ \E kind \in Kinds : PhoneSends(c, kind)
          PROVE  UNCHANGED fds
      BY <3>1 DEF Start, Stop, StopSocket, Join, PhoneSends, PhoneCloses
    <3>2. ASSUME NEW c \in Clients,
                 FindChannel(c) \/ ConnectFails(c) \/ Connect(c) \/ SendRequest(c)
                    \/ ReadPacket(c) \/ ReadFails(c) \/ End(c)
          PROVE  UNCHANGED fds
      BY <3>2 DEF FindChannel, GiveUp, ConnectFails, Connect, SendRequest, ReadPacket,
                  ReadFails, End, Moves
    <3> QED
      BY <2>1, <3>1, <3>2 DEF Next, ThreadStep, BTConnectThread, ConnectThread, StopStep
  <2>3. CASE OpenSocket(c)
    <3> DEFINE e == Min({x \in Descriptors : fds[x] = NoSocket})
    <3>1. fds' = [fds EXCEPT ![e] = SocketOf(c)]
      BY <2>1, <2>3 DEF OpenSocket, GiveUp
    <3> HIDE DEF e
    <3> QED
      BY <2>0, <3>1, SocketOfClient DEF SocketTypes
  <2>4. ASSUME NEW who \in {"thread", "stop"}, CloseStep(who, c)
        PROVE  \E k \in Closers : closing[k] = [step |-> "close", fd |-> d]
                                   /\ k[2] = fds[d][1]
    <3> DEFINE k == <<who, c>>
    <3>1. k \in Closers /\ k[2] = c /\ k \in {Thread(c), Stopper(c)}
      BY DEF Closers, Thread, Stopper
    <3>2. closing[k].step = "close" /\ fds' = [fds EXCEPT ![closing[k].fd] = NoSocket]
      BY <2>1, <2>4 DEF CloseStep, Destroy
    <3> HIDE DEF k
    <3>3. closing[k].fd = d
      BY <2>0, <3>2 DEF SocketTypes
    <3>4. closing[k] = [step |-> "close", fd |-> d]
      <4>1. closing[k] \in [step : {"idle", "close", "store"}, fd : Descriptors \cup {INVALID}]
        BY <2>0, <3>1 DEF SocketTypes
      <4> QED
        BY <4>1, <3>2, <3>3
    <3>5. Owns(c, d)
      <4>1. closing[k] # Idle
        BY <3>2, Descriptor
      <4>2. clientSocket[c] = d /\ ~Storing(c)
        BY <2>0, <3>1, <3>2, <3>3, <4>1, Descriptor DEF OneCloser, Storing
      <4> QED
        BY <2>0, <4>2 DEF OwnsMember
    <3> QED
      BY <3>1, <3>4, <3>5 DEF Owns
  <2> QED
    BY <2>2, <2>3, <2>4
<1> QED
  BY <1>1, SocketInvariance, PTL DEF ClosesOwnSocket, Spec

-----------------------------------------------------------------------------
\* The types, which descriptors must not run out for

\* A client has sockets of its last two attempts to connect, of the last only one
\* before it opens another, and just one while it runs.
Names(c) ==
    /\ pc[c] \notin {"open", "done"} => closing[Thread(c)] = Idle
    /\ pc[c] = "new" => stopPc[c] = "idle"
    /\ isRunning[c] => stopPc[c] = "idle" /\ pc[c] # "done"
    /\ stopPc[c] \in {"idle", "load"} => closing[Stopper(c)] = Idle
    /\ \A d \in Descriptors : Owns(c, d) =>
          /\ pc[c] \notin {"new", "channel"}
          /\ fds[d][2] \in {numRetries[c], numRetries[c] - 1}
          /\ pc[c] = "open" => fds[d][2] # numRetries[c]
          /\ isRunning[c] =>
                /\ clientSocket[c] = d
                /\ IF pc[c] = "open" THEN closing[Thread(c)] = [step |-> "close", fd |-> d]
                                     ELSE fds[d][2] = numRetries[c]
Distinct ==
    \A d, e \in Descriptors : fds[d] = fds[e] /\ fds[d] # NoSocket => d = e

NamesInv ==
    /\ TypeOK /\ numRetries \in [Clients -> Nat]
    /\ Distinct /\ \A c \in Clients : Names(c)

LEMMA SocketNumbered ==
    ASSUME NEW s \in Sockets
    PROVE  s[1] \in Clients /\ s[2] \in Nat /\ s = <<s[1], s[2]>>
  BY ClientAssumption DEF Sockets

\* Two descriptors for each client are enough.
LEMMA OneIsFree ==
    ASSUME NamesInv, NEW c \in Clients, pc[c] = "open"
    PROVE  Min({e \in Descriptors : fds[e] = NoSocket}) \in
              {e \in Descriptors : fds[e] = NoSocket}
  <1> DEFINE free == {e \in Descriptors : fds[e] = NoSocket}
  <1>1. free # {}
    <2> SUFFICES ASSUME free = {} PROVE FALSE
      OBVIOUS
    <2>0. \A d \in Descriptors : fds[d] \in Sockets
      BY DEF NamesInv, TypeOK
    <2> DEFINE All == Clients \X (0..1)
               T == All \ {<<c, 0>>}
               f == [d \in Descriptors |-> <<fds[d][1], numRetries[fds[d][1]] - fds[d][2]>>]
    <2>1. f \in [Descriptors -> T]
      <3> SUFFICES ASSUME NEW d \in Descriptors PROVE f[d] \in T
        OBVIOUS
      <3>1. fds[d][1] \in Clients /\ fds[d][2] \in Nat
        BY <2>0, SocketNumbered
      <3>2. Owns(fds[d][1], d)
        BY <2>0, SocketHasOwner DEF Owns
      <3>3. /\ fds[d][2] \in {numRetries[fds[d][1]], numRetries[fds[d][1]] - 1}
            /\ fds[d][1] = c => fds[d][2] # numRetries[c]
        <4>1. \A b \in Clients : Owns(b, d) =>
                 fds[d][2] \in {numRetries[b], numRetries[b] - 1}
          BY DEF NamesInv, Names
        <4>2. Owns(c, d) => fds[d][2] # numRetries[c]
          BY DEF NamesInv, Names
        <4> QED
          BY <3>1, <3>2, <4>1, <4>2
      <3>4. numRetries[fds[d][1]] \in Nat
        BY <3>1 DEF NamesInv
      <3>5. numRetries[fds[d][1]] - fds[d][2] \in 0..1
        BY <3>1, <3>3, <3>4
      <3>6. fds[d][1] = c => numRetries[c] - fds[d][2] # 0
        BY <3>1, <3>3, <3>4
      <3> QED
        BY <3>1, <3>5, <3>6
    <2>2. Cardinality(Clients) \in Nat /\ Cardinality(Clients) # 0 /\ IsFiniteSet(Clients)
      BY ClientAssumption, FS_CardinalityType, FS_EmptySet
    <2>3. IsFiniteSet(Descriptors) /\ Cardinality(Descriptors) = 2 * Cardinality(Clients)
      BY <2>2, FS_Interval DEF Descriptors
    <2>4. IsFiniteSet(T) /\ Cardinality(T) = 2 * Cardinality(Clients) - 1
      <3>1. IsFiniteSet(0..1) /\ Cardinality(0..1) = 2
        <4>1. ~(0 > 1) /\ 1 - 0 + 1 = 2 /\ 0 \in Int /\ 1 \in Int
          OBVIOUS
        <4> QED
          BY <4>1, FS_Interval
      <3>2. IsFiniteSet(All) /\ Cardinality(All) = Cardinality(Clients) * 2
        BY <2>2, <3>1, FS_Product
      <3>3. <<c, 0>> \in All
        OBVIOUS
      <3> HIDE DEF All
      <3>4. IsFiniteSet(T) /\ Cardinality(T) = Cardinality(All) - 1
        BY <3>2, <3>3, FS_RemoveElement
      <3> QED
        BY <2>2, <3>2, <3>4
    <2> HIDE DEF T, f
    <2>5. PICK x, y \in Descriptors : x # y /\ f[x] = f[y]
      BY <2>1, <2>2, <2>3, <2>4, FS_PigeonHole
    <2>6. /\ fds[x][1] = fds[y][1]
          /\ numRetries[fds[x][1]] - fds[x][2] = numRetries[fds[y][1]] - fds[y][2]
      BY <2>5 DEF f
    <2>7. fds[x][2] = fds[y][2]
      <3>1. fds[x][1] \in Clients /\ fds[x][2] \in Nat /\ fds[y][2] \in Nat
        BY <2>0, SocketNumbered
      <3>2. numRetries[fds[x][1]] \in Nat
        BY <3>1 DEF NamesInv
      <3> QED
        BY <2>6, <3>1, <3>2
    <2>8. fds[x] = fds[y]
      BY <2>0, <2>6, <2>7, SocketNumbered
    <2> QED
      BY <2>0, <2>5, <2>8, SocketHasOwner DEF NamesInv, Distinct
  <1>2. free \in SUBSET Nat
    BY DEF Descriptors
  <1> HIDE DEF free
  <1>3. Min(free) \in free
    BY <1>1, <1>2, MinIsMember
  <1> QED
    BY <1>3 DEF free

LEMMA NamesInit == Init => NamesInv
  <1> SUFFICES ASSUME Init PROVE NamesInv
    OBVIOUS
  <1>1. TypeOK
    <2>1. \A c \in Clients : numRetries[c] \in 0..Retries[c]
      <3>1. \A c \in Clients : Retries[c] \in Nat
        BY ClientAssumption
      <3> QED
        BY <3>1 DEF Init
    <2> QED
      BY <2>1 DEF Init, TypeOK, Idle, States, Kinds, NoPacket
  <1>2. numRetries \in [Clients -> Nat] /\ Distinct
    BY DEF Init, Distinct
  <1>3. ASSUME NEW c \in Clients PROVE Names(c)
    BY Descriptor DEF Init, Names, Owns
  <1> QED
    BY <1>1, <1>2, <1>3 DEF NamesInv

\* A step that neither opens nor closes: one that runs had not begun or runs still.
LEMMA GoesKeepsNames ==
    ASSUME NamesInv, UNCHANGED <<clientSocket, fds, closing, numRetries>>,
           \A b \in Clients :
              /\ isRunning'[b] => isRunning[b] \/ pc[b] = "new"
              /\ \/ pc'[b] = pc[b]
                 \/ pc[b] \in {"new", "channel"} /\ pc'[b] \in {"channel", "open"}
                 \/ pc[b] \in {"channel", "open"} /\ pc'[b] = "done" /\ ~isRunning'[b]
                 \/ pc[b] \in {"connect", "up", "read"} /\ pc'[b] \in {"up", "read", "end"}
              /\ \/ stopPc'[b] = stopPc[b]
                 \/ /\ pc[b] # "new" /\ ~isRunning'[b]
                    /\ stopPc[b] = "idle" \/ stopPc'[b] = "stopped"
    PROVE  Distinct' /\ \A c \in Clients : Names(c)'
  <1>1. Distinct'
    BY DEF NamesInv, Distinct
  <1>2. ASSUME NEW c \in Clients PROVE Names(c)'
    <2>1. \A d \in Descriptors : Owns(c, d)' <=> Owns(c, d)
      BY DEF Owns
    <2>2. Names(c)
      BY DEF NamesInv
    <2>3. pc[c] \in {"new", "channel", "open", "connect", "up", "read", "end", "done"}
      BY DEF NamesInv, TypeOK
    <2> QED
      BY <2>1, <2>2, <2>3 DEF Names
  <1> QED
    BY <1>1, <1>2

\* The steps of a client keep the types, given a descriptor to open.
LEMMA ThreadTyped ==
    ASSUME NamesInv, NEW c \in Clients,
           FindChannel(c) \/ OpenSocket(c) \/ ConnectFails(c) \/ Connect(c) \/ SendRequest(c)
              \/ ReadPacket(c) \/ ReadFails(c) \/ End(c)
    PROVE  TypeOK' /\ numRetries' \in [Clients -> Nat]
  <1> USE DEF members, locals, phone, caller, seen, Goto, Report
  <1>0. TypeOK /\ numRetries \in [Clients -> Nat]
    BY DEF NamesInv
  <1>1. "FAILED" \in States /\ unlockState[c] \in States
    BY <1>0 DEF TypeOK, States
  <1>2. ASSUME NEW label \in {"open", "up", "read", "end"}, NEW st \in States,
               Moves(c, label, st), UNCHANGED <<inbox, decision>>,
               authSocket' \in [Clients -> Descriptors \cup {INVALID}],
               link' \in [Clients -> {"none", "connected", "asked", "closed"}]
        PROVE  TypeOK' /\ numRetries' \in [Clients -> Nat]
    BY <1>0, <1>2 DEF Moves, TypeOK
  <1>3. CASE GiveUp(c)
    BY <1>0, <1>1, <1>3 DEF GiveUp, TypeOK
  <1>4. ASSUME NEW who, BeginClose(who, c)
        PROVE  /\ overlapped' \in BOOLEAN
               /\ closing' \in [Closers -> [step : {"idle", "close", "store"},
                                            fd : Descriptors \cup {INVALID}]]
    BY <1>0, <1>4 DEF BeginClose, TypeOK, Idle
  <1>5. CASE FindChannel(c)
    BY <1>0, <1>1, <1>2, <1>3, <1>5 DEF FindChannel, TypeOK
  <1>6. CASE OpenSocket(c) /\ ~GiveUp(c)
    <2> DEFINE d == Min({e \in Descriptors : fds[e] = NoSocket})
    <2>1. d \in Descriptors
      BY <1>6, OneIsFree DEF OpenSocket
    <2>2. SocketOf(c) \in Sockets
      BY <1>0 DEF TypeOK, SocketOf, Sockets
    <2>3. /\ fds' = [fds EXCEPT ![d] = SocketOf(c)]
          /\ clientSocket' = [clientSocket EXCEPT ![c] = d]
          /\ pc' = [pc EXCEPT ![c] = "connect"]
          /\ late' \subseteq Clients
          /\ UNCHANGED <<isRunning, unlockState, locals, closing, caller, phone, overlapped,
                         unbound>>
      BY <1>0, <1>6 DEF OpenSocket, TypeOK
    <2> HIDE DEF d
    <2> QED
      BY <1>0, <2>1, <2>2, <2>3 DEF TypeOK
  <1>7. CASE ConnectFails(c)
    <2>1. CASE MayRetry(c)
      <3>1. /\ BeginClose("thread", c)
            /\ numRetries' = [numRetries EXCEPT ![c] = @ + 1]
            /\ pc' = [pc EXCEPT ![c] = "open"]
            /\ UNCHANGED <<members, caller, fds, late, unbound, authSocket, phone>>
        BY <1>7, <2>1 DEF ConnectFails, CloseForRetry
      <3>2. /\ numRetries' \in [Clients -> Nat]
            /\ \A b \in Clients : numRetries'[b] \in 0..Retries[b]
        <4>1. Retries[c] \in Nat /\ numRetries[c] < Retries[c]
          BY <2>1, ClientAssumption DEF MayRetry
        <4> QED
          BY <1>0, <3>1, <4>1 DEF TypeOK
      <3> QED
        BY <1>0, <1>4, <3>1, <3>2 DEF TypeOK
    <2>2. CASE ~MayRetry(c)
      BY <1>0, <1>1, <1>2, <1>7, <2>2 DEF ConnectFails, TypeOK
    <2> QED
      BY <2>1, <2>2
  <1>8. CASE Connect(c)
    <2>1. link' \in [Clients -> {"none", "connected", "asked", "closed"}]
      BY <1>0, <1>8 DEF Connect, TypeOK
    <2> QED
      BY <1>0, <1>1, <1>2, <1>8, <2>1 DEF Connect, TypeOK
  <1>9. CASE SendRequest(c)
    <2>1. link' \in [Clients -> {"none", "connected", "asked", "closed"}]
      BY <1>0, <1>9 DEF SendRequest, TypeOK
    <2>2. authSocket' \in [Clients -> Descriptors \cup {INVALID}]
      BY <1>0, <1>9 DEF SendRequest, TypeOK
    <2> QED
      BY <1>0, <1>1, <1>2, <1>9, <2>1, <2>2 DEF SendRequest
  <1>10. CASE ReadPacket(c)
    <2>1. PICK p \in Peers(authSocket[c]) :
             /\ inbox' = [inbox EXCEPT ![p] = NoPacket]
             /\ unlockState' = [unlockState EXCEPT ![c] = Process(c, p, inbox[p])]
             /\ unbound' = IF stopPc[c] # "idle" THEN unbound
                           ELSE IF p # c \/ inbox[p] = "cancel" THEN unbound \cup {c}
                           ELSE unbound \ {c}
      BY <1>10 DEF ReadPacket
    <2>2. Process(c, p, inbox[p]) \in States
      BY DEF Process, States
    <2>3. /\ inbox' \in [Clients -> Kinds \cup {NoPacket}]
          /\ unlockState' \in [Clients -> States] /\ unbound' \subseteq Clients
      BY <1>0, <2>1, <2>2 DEF TypeOK
    <2> QED
      BY <1>0, <1>10, <2>3 DEF ReadPacket, TypeOK
  <1>11. CASE ReadFails(c)
    BY <1>0, <1>1, <1>2, <1>11 DEF ReadFails, TypeOK
  <1>12. CASE End(c)
    BY <1>0, <1>4, <1>12 DEF End, TypeOK
  <1> QED
    BY <1>3, <1>5, <1>6, <1>7, <1>8, <1>9, <1>10, <1>11, <1>12 DEF OpenSocket

\* So do the steps of the handler and of the phone.
LEMMA OthersTyped ==
    ASSUME NamesInv, NEW c \in Clients,
           Start(c) \/ Stop(c) \/ StopSocket(c) \/ Join(c) \/ PhoneCloses(c)
              \/ (\E kind \in Kinds : PhoneSends(c, kind))
              \/ \E who \in {"thread", "stop"} : CloseStep(who, c)
    PROVE  TypeOK' /\ numRetries' \in [Clients -> Nat]
  <1> USE DEF members, locals, phone, caller, seen, Goto
  <1>0. TypeOK /\ numRetries \in [Clients -> Nat]
    BY DEF NamesInv
  <1>1. CASE Start(c)
    BY <1>0, <1>1 DEF Start, TypeOK
  <1>2. CASE Stop(c)
    BY <1>0, <1>2 DEF Stop, TypeOK
  <1>3. CASE StopSocket(c)
    <2>1. /\ overlapped' \in BOOLEAN
          /\ closing' \in [Closers -> [step : {"idle", "close", "store"},
                                       fd : Descriptors \cup {INVALID}]]
      BY <1>0, <1>3 DEF StopSocket, StopCloses, BeginClose, TypeOK, Idle
    <2> QED
      BY <1>0, <1>3, <2>1 DEF StopSocket, TypeOK
  <1>4. CASE Join(c)
    BY <1>0, <1>4 DEF Join, TypeOK
  <1>5. CASE PhoneCloses(c)
    BY <1>0, <1>5 DEF PhoneCloses, TypeOK
  <1>6. ASSUME NEW kind \in Kinds, PhoneSends(c, kind)
        PROVE  TypeOK' /\ numRetries' \in [Clients -> Nat]
    <2>1. decision' \in [Clients -> {"none", "approve", "deny"}]
      BY <1>0, <1>6 DEF PhoneSends, TypeOK
    <2> QED
      BY <1>0, <1>6, <2>1 DEF PhoneSends, TypeOK
  <1>7. ASSUME NEW who \in {"thread", "stop"}, CloseStep(who, c)
        PROVE  TypeOK' /\ numRetries' \in [Clients -> Nat]
    <2>1. CASE closing[<<who, c>>].step = "close"
      <3> DEFINE d == closing[<<who, c>>].fd
                 gone == {p \in Clients : fds[d] = SocketOf(p)}
      <3>1. /\ fds' = [fds EXCEPT ![d] = NoSocket]
            /\ link' = [p \in Clients |-> IF p \in gone THEN "none" ELSE link[p]]
            /\ inbox' = [p \in Clients |-> IF p \in gone THEN NoPacket ELSE inbox[p]]
            /\ closing' = [closing EXCEPT ![<<who, c>>].step = "store"]
            /\ UNCHANGED clientSocket
        BY <1>7, <2>1 DEF CloseStep, Destroy
      <3> HIDE DEF d, gone
      <3>2. closing' \in [Closers -> [step : {"idle", "close", "store"},
                                      fd : Descriptors \cup {INVALID}]]
        BY <1>0, <3>1 DEF TypeOK
      <3> QED
        BY <1>0, <1>7, <3>1, <3>2 DEF CloseStep, TypeOK
    <2>2. CASE closing[<<who, c>>].step = "store"
      <3>1. closing' = [closing EXCEPT ![<<who, c>>] = Idle]
        BY <1>7, <2>2 DEF CloseStep
      <3>2. closing' \in [Closers -> [step : {"idle", "close", "store"},
                                      fd : Descriptors \cup {INVALID}]]
        BY <1>0, <3>1 DEF TypeOK, Idle
      <3> QED
        BY <1>0, <1>7, <2>2, <3>2 DEF CloseStep, TypeOK, AfterClose
    <2> QED
      BY <1>7, <2>1, <2>2 DEF CloseStep
  <1> QED
    BY <1>1, <1>2, <1>3, <1>4, <1>5, <1>6, <1>7

\* The new socket is the second at most, and the only one of a client that runs.
LEMMA OpenKeepsNames ==
    ASSUME NamesInv, NEW c \in Clients, pc[c] = "open", Closed("thread", c),
           LET d == Min({e \in Descriptors : fds[e] = NoSocket}) IN
              /\ fds' = [fds EXCEPT ![d] = SocketOf(c)]
              /\ clientSocket' = [clientSocket EXCEPT ![c] = d],
           pc' = [pc EXCEPT ![c] = "connect"],
           UNCHANGED <<isRunning, closing, numRetries, stopPc>>
    PROVE  Distinct' /\ \A b \in Clients : Names(b)'
  <1> DEFINE d == Min({e \in Descriptors : fds[e] = NoSocket})
  <1>1. d \in Descriptors /\ fds[d] = NoSocket
    BY OneIsFree
  <1>2. /\ fds' = [fds EXCEPT ![d] = SocketOf(c)]
        /\ clientSocket' = [clientSocket EXCEPT ![c] = d]
    OBVIOUS
  <1> HIDE DEF d
  <1>3. /\ TypeOK /\ numRetries \in [Clients -> Nat] /\ Distinct
        /\ \A b \in Clients : Names(b)
    BY DEF NamesInv
  <1>4. /\ fds'[d] = SocketOf(c) /\ \A e \in Descriptors \ {d} : fds'[e] = fds[e]
        /\ clientSocket'[c] = d
        /\ \A b \in Clients \ {c} : clientSocket'[b] = clientSocket[b]
        /\ pc'[c] = "connect" /\ \A b \in Clients \ {c} : pc'[b] = pc[b]
    BY <1>1, <1>2, <1>3 DEF TypeOK
  <1>5. closing[Thread(c)] = Idle
    BY DEF Closed, Thread
  <1>6. /\ SocketOf(c) # NoSocket /\ SocketOf(c)[1] = c /\ SocketOf(c)[2] = numRetries[c]
    BY DEF SocketOf, NoSocket
  <1>7. \A e \in Descriptors : Owns(c, e) => fds[e][2] # numRetries[c] /\ ~isRunning[c]
    <2> SUFFICES ASSUME NEW e \in Descriptors, Owns(c, e)
                 PROVE  fds[e][2] # numRetries[c] /\ ~isRunning[c]
      OBVIOUS
    <2>1. /\ fds[e][2] # numRetries[c]
          /\ isRunning[c] => closing[Thread(c)] = [step |-> "close", fd |-> e]
      BY <1>3 DEF Names
    <2> QED
      BY <1>5, <2>1, Descriptor
  <1>8. Distinct'
    <2>1. \A e \in Descriptors : fds[e] # SocketOf(c)
      BY <1>6, <1>7 DEF Owns
    <2> QED
      BY <1>3, <1>4, <2>1 DEF Distinct
  <1>9. ASSUME NEW b \in Clients PROVE Names(b)'
    <2>1. \A e \in Descriptors : Owns(b, e)' <=> Owns(b, e) \/ (b = c /\ e = d)
      BY <1>1, <1>4, <1>6 DEF Owns
    <2>2. CASE b # c
      BY <1>1, <1>3, <1>4, <2>1, <2>2 DEF Names, Owns
    <2>3. CASE b = c
      <3>1. \A e \in Descriptors : Owns(c, e)' /\ e # d =>
                fds'[e] = fds[e] /\ fds[e][2] = numRetries[c] - 1 /\ ~isRunning[c]
        BY <1>3, <1>4, <1>7, <2>1, <2>3 DEF Names
      <3>2. numRetries[c] \in Nat /\ d \in Descriptors
        BY <1>1, <1>3
      <3>3. \A e \in Descriptors : Owns(c, e)' =>
               /\ fds'[e][2] \in {numRetries[c], numRetries[c] - 1}
               /\ isRunning[c] => e = d /\ fds'[e][2] = numRetries[c]
        BY <1>4, <1>6, <3>1
      <3>4. /\ isRunning[c] => stopPc[c] = "idle"
            /\ stopPc[c] \in {"idle", "load"} => closing[Stopper(c)] = Idle
        BY <1>3 DEF Names
      <3>5. Names(c)'
        BY <1>4, <1>5, <3>2, <3>3, <3>4 DEF Names
      <3> QED
        BY <2>3, <3>5
    <2> QED
      BY <2>2, <2>3
  <1> QED
    BY <1>8, <1>9

\* The thread closes the socket of this attempt, before the next or at its end.
LEMMA CloseKeepsNames ==
    ASSUME NamesInv, NEW c \in Clients, BeginClose("thread", c),
           UNCHANGED <<clientSocket, fds, stopPc>>,
           \/ /\ pc[c] = "connect" /\ pc' = [pc EXCEPT ![c] = "open"]
              /\ isRunning[c] /\ UNCHANGED isRunning
              /\ numRetries' = [numRetries EXCEPT ![c] = @ + 1]
           \/ /\ pc[c] = "end" /\ pc' = [pc EXCEPT ![c] = "done"]
              /\ isRunning' = [isRunning EXCEPT ![c] = FALSE] /\ UNCHANGED numRetries
    PROVE  Distinct' /\ \A b \in Clients : Names(b)'
  <1> DEFINE d == clientSocket[c]
             new == IF d = INVALID THEN Idle ELSE [step |-> "close", fd |-> d]
  <1>1. /\ TypeOK /\ numRetries \in [Clients -> Nat] /\ Distinct
        /\ \A b \in Clients : Names(b)
    BY DEF NamesInv
  <1>2. closing' = [closing EXCEPT ![Thread(c)] = new]
    BY DEF BeginClose, Thread
  <1>3. /\ closing'[Thread(c)] = new /\ closing'[Stopper(c)] = closing[Stopper(c)]
        /\ \A b \in Clients \ {c} : /\ closing'[Thread(b)] = closing[Thread(b)]
                                   /\ closing'[Stopper(b)] = closing[Stopper(b)]
    BY <1>1, <1>2, Descriptor DEF TypeOK
  <1>4. d # INVALID => new = [step |-> "close", fd |-> d]
    OBVIOUS
  <1> HIDE DEF new
  <1>5. Distinct'
    BY <1>1 DEF Distinct
  <1>6. \A b \in Clients : \A e \in Descriptors : Owns(b, e)' <=> Owns(b, e)
    BY DEF Owns
  <1>7. ASSUME NEW b \in Clients \ {c} PROVE Names(b)'
    <2>1. /\ Names(b) /\ pc'[b] = pc[b] /\ isRunning'[b] = isRunning[b]
          /\ numRetries'[b] = numRetries[b]
      BY <1>1 DEF TypeOK
    <2> QED
      BY <1>3, <1>6, <2>1 DEF Names
  <1>8. Names(c)'
    <2>1. CASE pc[c] = "connect"
      <3>1. /\ pc'[c] = "open" /\ isRunning'[c] /\ isRunning[c]
            /\ numRetries'[c] = numRetries[c] + 1 /\ numRetries[c] \in Nat
        BY <1>1, <2>1 DEF TypeOK
      <3>2. \A e \in Descriptors : Owns(c, e) => e = d /\ fds[e][2] = numRetries[c]
        BY <1>1, <2>1, <3>1 DEF Names
      <3> QED
        BY <1>1, <1>3, <1>4, <1>6, <2>1, <3>1, <3>2, Descriptor DEF Names
    <2>2. CASE pc[c] = "end"
      <3>1. pc'[c] = "done" /\ ~isRunning'[c] /\ numRetries' = numRetries
        BY <1>1, <2>2 DEF TypeOK
      <3> QED
        BY <1>1, <1>3, <1>6, <2>2, <3>1 DEF Names
    <2> QED
      BY <2>1, <2>2
  <1> QED
    BY <1>5, <1>7, <1>8

\* Stop closes nothing of a client that runs: it has told it to end.
LEMMA StopKeepsNames ==
    ASSUME NamesInv, NEW c \in Clients, StopSocket(c)
    PROVE  Distinct' /\ \A b \in Clients : Names(b)'
  <1> USE DEF members, locals
  <1>1. /\ TypeOK /\ numRetries \in [Clients -> Nat] /\ Distinct
        /\ \A b \in Clients : Names(b)
    BY DEF NamesInv
  <1>2. /\ \E new : closing' = [closing EXCEPT ![Stopper(c)] = new]
        /\ stopPc[c] = "load" /\ stopPc' = [stopPc EXCEPT ![c] = "close"]
        /\ UNCHANGED <<isRunning, clientSocket, pc, fds, numRetries>>
    BY DEF StopSocket, StopCloses, BeginClose, Stopper
  <1>3. \A b \in Clients : closing'[Thread(b)] = closing[Thread(b)]
                           /\ (b # c => closing'[Stopper(b)] = closing[Stopper(b)])
    BY <1>1, <1>2, Descriptor DEF TypeOK
  <1>4. stopPc'[c] = "close" /\ \A b \in Clients \ {c} : stopPc'[b] = stopPc[b]
    BY <1>1, <1>2 DEF TypeOK
  <1>5. Distinct'
    BY <1>1, <1>2 DEF Distinct
  <1>6. ASSUME NEW b \in Clients PROVE Names(b)'
    <2>1. \A e \in Descriptors : Owns(b, e)' <=> Owns(b, e)
      BY <1>2 DEF Owns
    <2>2. Names(b)
      BY <1>1
    <2>3. CASE b = c
      BY <1>2, <1>3, <1>4, <2>1, <2>2, <2>3 DEF Names
    <2>4. CASE b # c
      BY <1>2, <1>3, <1>4, <2>1, <2>2, <2>4 DEF Names
    <2> QED
      BY <2>3, <2>4
  <1> QED
    BY <1>5, <1>6

\* Whoever destroys a socket, there are fewer; the member of a client that runs is
\* reset when it has none.
LEMMA DestroyKeepsNames ==
    ASSUME NamesInv, NEW who \in {"thread", "stop"}, NEW c \in Clients, CloseStep(who, c)
    PROVE  Distinct' /\ \A b \in Clients : Names(b)'
  <1> DEFINE k == <<who, c>>
             d == closing[k].fd
  <1>0. /\ TypeOK /\ numRetries \in [Clients -> Nat] /\ Distinct
        /\ \A b \in Clients : Names(b)
        /\ UNCHANGED <<isRunning, pc, stopPc, numRetries>>
    BY DEF NamesInv, CloseStep, locals, caller
  <1>1. k \in Closers /\ k \in {Thread(c), Stopper(c)}
    BY DEF Closers, Thread, Stopper
  <1>2. closing[k] # Idle /\ (isRunning[c] => k = Thread(c) /\ pc[c] = "open")
    <2>1. closing[k] # Idle
      BY Descriptor DEF CloseStep
    <2> QED
      BY <1>0, <1>1, <2>1 DEF Names
  <1>3. \A b \in Clients \ {c} : Thread(b) # k /\ Stopper(b) # k
    BY DEF Thread, Stopper
  <1>4. CASE closing[k].step = "close"
    <2>1. /\ fds' = [fds EXCEPT ![d] = NoSocket]
          /\ closing' = [closing EXCEPT ![k].step = "store"] /\ UNCHANGED clientSocket
      BY <1>4 DEF CloseStep, Destroy
    <2>2. \A e \in Descriptors : fds'[e] = IF e = d THEN NoSocket ELSE fds[e]
      BY <1>0, <2>1 DEF TypeOK
    <2> HIDE DEF k, d
    <2>3. \A j \in Closers \ {k} : closing'[j] = closing[j]
      BY <1>0, <2>1 DEF TypeOK
    <2>4. Distinct'
      BY <1>0, <2>2 DEF Distinct
    <2>5. \A b \in Clients : \A e \in Descriptors : Owns(b, e)' => Owns(b, e) /\ e # d
      BY <2>2 DEF Owns
    <2>6. ASSUME NEW b \in Clients, b # c PROVE Names(b)'
      BY <1>0, <1>3, <2>1, <2>2, <2>3, <2>5, <2>6, Descriptor DEF Names
    <2>7. Names(c)'
      <3>1. isRunning[c] => \A e \in Descriptors : ~Owns(c, e)'
        <4> SUFFICES ASSUME isRunning[c], NEW e \in Descriptors, Owns(c, e)' PROVE FALSE
          OBVIOUS
        <4>1. Owns(c, e) /\ e # d /\ k = Thread(c) /\ pc[c] = "open"
          BY <1>2, <2>5
        <4>2. closing[k] = [step |-> "close", fd |-> e]
          BY <1>0, <4>1 DEF Names
        <4> QED
          BY <4>1, <4>2 DEF d
      <3>2. /\ pc[c] \notin {"open", "done"} => closing'[Thread(c)] = Idle
            /\ stopPc[c] \in {"idle", "load"} => closing'[Stopper(c)] = Idle
        BY <1>0, <1>1, <1>2, <2>3, Descriptor DEF Names
      <3> QED
        BY <1>0, <2>2, <2>5, <3>1, <3>2 DEF Names
    <2> QED
      BY <2>4, <2>6, <2>7
  <1>5. CASE closing[k].step = "store"
    <2>1. /\ UNCHANGED fds /\ clientSocket' = [clientSocket EXCEPT ![c] = INVALID]
          /\ closing' = [closing EXCEPT ![k] = Idle]
      BY <1>5 DEF CloseStep, AfterClose
    <2> HIDE DEF k, d
    <2>2. /\ closing'[k] = Idle /\ \A j \in Closers \ {k} : closing'[j] = closing[j]
          /\ \A b \in Clients \ {c} : clientSocket'[b] = clientSocket[b]
      BY <1>0, <1>1, <2>1 DEF TypeOK
    <2>3. Distinct'
      BY <1>0, <2>1 DEF Distinct
    <2>4. \A b \in Clients : \A e \in Descriptors : Owns(b, e)' <=> Owns(b, e)
      BY <2>1 DEF Owns
    <2>5. ASSUME NEW b \in Clients, b # c PROVE Names(b)'
      BY <1>0, <1>3, <2>1, <2>2, <2>4, <2>5, Descriptor DEF Names
    <2>6. Names(c)'
      <3>1. isRunning[c] => \A e \in Descriptors : ~Owns(c, e)'
        <4> SUFFICES ASSUME isRunning[c], NEW e \in Descriptors, Owns(c, e) PROVE FALSE
          BY <2>4
        <4>1. closing[k] = [step |-> "close", fd |-> e]
          BY <1>0, <1>2 DEF Names
        <4> QED
          BY <1>5, <4>1
      <3>2. /\ pc[c] \notin {"open", "done"} => closing'[Thread(c)] = Idle
            /\ stopPc[c] \in {"idle", "load"} => closing'[Stopper(c)] = Idle
        BY <1>0, <1>1, <1>2, <2>2, Descriptor DEF Names
      <3> QED
        BY <1>0, <2>1, <2>4, <3>1, <3>2 DEF Names
    <2> QED
      BY <2>3, <2>5, <2>6
  <1> QED
    BY <1>4, <1>5 DEF CloseStep

LEMMA NamesStep ==
    ASSUME NamesInv, [Next]_vars
    PROVE  NamesInv'
  <1> USE DEF members, locals, phone, caller, seen
  <1>0. TypeOK /\ numRetries \in [Clients -> Nat]
    BY DEF NamesInv
  <1> DEFINE Kept == Distinct' /\ \A b \in Clients : Names(b)'
             sockets == <<clientSocket, fds, closing, numRetries>>
  <1>1. ASSUME UNCHANGED <<sockets, isRunning, pc, stopPc>> PROVE Kept
    BY <1>1, GoesKeepsNames
  <1>2. ASSUME NEW c \in Clients, NEW label \in {"up", "read", "end"},
               pc[c] \in {"connect", "up", "read"}, pc' = [pc EXCEPT ![c] = label],
               UNCHANGED <<sockets, isRunning, stopPc>>
        PROVE  Kept
    BY <1>0, <1>2, GoesKeepsNames DEF TypeOK
  <1>3. ASSUME NEW c \in Clients, GiveUp(c), pc[c] \in {"channel", "open"} PROVE Kept
    BY <1>0, <1>3, GoesKeepsNames DEF GiveUp, Goto, TypeOK
  <1>4. ASSUME NEW c \in Clients, Start(c) PROVE Kept
    BY <1>0, <1>4, GoesKeepsNames DEF Start, Goto, TypeOK
  <1>5. ASSUME NEW c \in Clients, FindChannel(c) PROVE Kept
    <2>1. CASE Moves(c, "open", unlockState[c])
      BY <1>0, <1>5, <2>1, GoesKeepsNames DEF FindChannel, Moves, Goto, TypeOK
    <2> QED
      BY <1>3, <1>5, <2>1 DEF FindChannel
  <1>6. ASSUME NEW c \in Clients, OpenSocket(c) PROVE Kept
    <2>1. CASE ~GiveUp(c)
      BY <1>6, <2>1, OpenKeepsNames DEF OpenSocket, Goto
    <2> QED
      BY <1>3, <1>6, <2>1 DEF OpenSocket
  <1>7. ASSUME NEW c \in Clients, ConnectFails(c) PROVE Kept
    <2>1. CASE MayRetry(c)
      BY <1>7, <2>1, CloseKeepsNames DEF ConnectFails, CloseForRetry, MayRetry, Goto
    <2>2. CASE ~MayRetry(c)
      BY <1>2, <1>7, <2>2 DEF ConnectFails, Moves, Goto
    <2> QED
      BY <2>1, <2>2
  <1>8. ASSUME NEW c \in Clients, Connect(c) \/ SendRequest(c) \/ ReadFails(c) PROVE Kept
    BY <1>2, <1>8 DEF Connect, SendRequest, ReadFails, Moves, Goto
  <1>9. ASSUME NEW c \in Clients, ReadPacket(c) PROVE Kept
    BY <1>1, <1>9 DEF ReadPacket
  <1>10. ASSUME NEW c \in Clients, End(c) PROVE Kept
    BY <1>10, CloseKeepsNames DEF End, Goto
  <1>11. ASSUME NEW c \in Clients, NEW who \in {"thread", "stop"}, CloseStep(who, c)
         PROVE  Kept
    BY <1>11, DestroyKeepsNames
  <1>12. ASSUME NEW c \in Clients, Stop(c) PROVE Kept
    BY <1>0, <1>12, GoesKeepsNames DEF Stop, TypeOK
  <1>13. ASSUME NEW c \in Clients, StopSocket(c) PROVE Kept
    BY <1>13, StopKeepsNames
  <1>14. ASSUME NEW c \in Clients, Join(c) PROVE Kept
    <2>1. pc[c] # "new" /\ ~isRunning[c]
      BY <1>14 DEF Join, Ended, NamesInv, Names
    <2> QED
      BY <1>0, <1>14, <2>1, GoesKeepsNames DEF Join, TypeOK
  <1>15. ASSUME NEW c \in Clients, PhoneCloses(c) \/ \E kind \in Kinds : PhoneSends(c, kind)
         PROVE  Kept
    BY <1>1, <1>15 DEF PhoneSends, PhoneCloses
  <1> HIDE DEF Kept
  <1>16. CASE UNCHANGED vars
    <2>1. TypeOK' /\ numRetries' \in [Clients -> Nat]
      BY <1>0, <1>16 DEF vars, TypeOK
    <2> QED
      BY <1>1, <1>16, <2>1 DEF vars, NamesInv, Kept
  <1>17. CASE Next
    <2>1. PICK c \in Clients :
             \/ Start(c) \/ ThreadStep(c) \/ Stop(c) \/ StopStep(c) \/ PhoneCloses(c)
             \/ \E kind \in Kinds : PhoneSends(c, kind)
      BY <1>17 DEF Next
    <2>2. Kept
      BY <1>4, <1>5, <1>6, <1>7, <1>8, <1>9, <1>10, <1>11, <1>12, <1>13, <1>14, <1>15, <2>1
         DEF ThreadStep, BTConnectThread, ConnectThread, StopStep
    <2>3. TypeOK' /\ numRetries' \in [Clients -> Nat]
      BY <2>1, ThreadTyped, OthersTyped
         DEF ThreadStep, BTConnectThread, ConnectThread, StopStep
    <2> QED
      BY <2>2, <2>3 DEF NamesInv, Kept
  <1> QED
    BY <1>16, <1>17

\* Whatever closes overlap, the clients of a GetResult never hold more than two
\* descriptors each: Stop, which makes them overlap, has ended the retries first
\* (BaseUnlockConnection, TCPUnlockClient and BTUnlockClient: m_IsRunning and
\* SOCKET_CLOSE).  All variables keep their types.
THEOREM ClientTypeOK == Spec => []TypeOK
<1>1. NamesInv => TypeOK
  BY DEF NamesInv
<1> QED
  BY <1>1, NamesInit, NamesStep, PTL DEF Spec
=============================================================================
