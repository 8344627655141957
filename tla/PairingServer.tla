---------------------------- MODULE PairingServer ----------------------------
(***************************************************************************)
(* PairingServer: an accept thread, and one thread for each phone that     *)
(* connects, which reads the phone's first packet, answers it and stores   *)
(* the device.  Module PairingForm starts and stops the server.            *)
(*                                                                         *)
(* A pairing session is named by a number: its server id and its key, which *)
(* are drawn together when the QR code is shown.  A pairing is named by    *)
(* the connection that made it: each has a password key of its own, which  *)
(* phone and PC must both keep.  PairedDevicesStorage is taken as atomic   *)
(* here; module DeviceStorage opens it.                                    *)
(***************************************************************************)
EXTENDS Integers, FiniteSets

CONSTANTS Phones, MaxClients, MaxSessions, MaxConns

ASSUME PairingAssumption ==
    /\ IsFiniteSet(Phones)
    /\ MaxClients \in Nat \ {0} /\ MaxSessions \in Nat /\ MaxConns \in Nat

VARIABLES
    server,     \* the PairingServer object and its accept thread
    conns,      \* the connections and their threads
    phones,     \* the phones
    stored,     \* per phone: the pairing in the device list of the PC, 0 for none
    excused     \* observation: phones that lost an answer or whose device was not saved,
                \* or two of whose connections were being stored at once

svars == <<server, conns, phones, stored, excused>>

Sessions == 1..MaxSessions
Conns == 1..MaxConns
None == 0

NoServer == [socket |-> "none", isRunning |-> FALSE, num |-> 0, key |-> None, pc |-> "ended"]
NoConn == [phone |-> "none", key |-> None, sent |-> FALSE, left |-> FALSE, up |-> FALSE,
           resp |-> "none", pc |-> "none"]
NewPhone == [code |-> None, legacy |-> FALSE, conn |-> None, paired |-> None]

ServerTypeOK ==
    /\ server \in [socket : {"none", "open", "closed"}, isRunning : BOOLEAN, num : 0..MaxConns,
                   key : Sessions \cup {None}, pc : {"start", "setup", "loop", "close", "join", "ended"}]
    /\ conns \in [Conns ->
           [phone : Phones \cup {"none"}, key : Sessions \cup {None}, sent : BOOLEAN,
            left : BOOLEAN, up : BOOLEAN, resp : {"none", "data", "error"},
            pc : {"none", "queued", "new", "read", "serve", "store", "leave", "done"}]]
    /\ phones \in [Phones -> [code : Sessions \cup {None}, legacy : BOOLEAN,
                              conn : Conns \cup {None}, paired : Conns \cup {None}]]
    /\ stored \in [Phones -> Conns \cup {None}]
    /\ excused \subseteq Phones

ServerInit ==
    /\ server = NoServer
    /\ conns = [c \in Conns |-> NoConn]
    /\ phones = [p \in Phones |-> NewPhone]
    /\ stored = [p \in Phones |-> None]
    /\ excused = {}

\* A connection that both ends have closed is forgotten, but for its number.
Forget(cs) == [c \in Conns |-> IF cs[c].pc = "done" /\ cs[c].left
                               THEN [NoConn EXCEPT !.pc = "done", !.left = TRUE] ELSE cs[c]]
Update(c, cn) == conns' = Forget([conns EXCEPT ![c] = cn])

-----------------------------------------------------------------------------
\* The accept thread

AcceptGoto(label) == server' = [server EXCEPT !.pc = label]

\* socket() fails, or the member holds the socket from here on.
AcceptOpen ==
    /\ server.pc = "start"
    /\ \/ server' = [server EXCEPT !.pc = "ended", !.isRunning = FALSE]
       \/ server' = [server EXCEPT !.pc = "setup", !.socket = "open"]
    /\ UNCHANGED <<conns, phones, stored, excused>>

\* Options, bind and listen: fail if the socket has been closed, or the port is taken.
AcceptSetup ==
    /\ server.pc = "setup"
    /\ \/ AcceptGoto("close")
       \/ server.socket = "open" /\ AcceptGoto("loop")
    /\ UNCHANGED <<conns, phones, stored, excused>>

Full == server.num >= MaxClients

\* While the server is full, the loop only sleeps.  Otherwise accept() gives the
\* next connection of the queue to a thread of its own, or fails, in any case
\* when the socket has been closed.
Accept ==
    /\ server.pc = "loop"
    /\ IF ~server.isRunning
       THEN AcceptGoto("close") /\ UNCHANGED conns
       ELSE /\ ~Full
            /\ \/ AcceptGoto("close") /\ UNCHANGED conns
               \/ /\ server.socket = "open"
                  /\ \E c \in Conns :
                       /\ conns[c].pc = "queued"
                       /\ \A d \in Conns : conns[d].pc = "queued" => c <= d
                       /\ conns' = [conns EXCEPT ![c].pc = "new", ![c].up = TRUE]
                  /\ UNCHANGED server
    /\ UNCHANGED <<phones, stored, excused>>

\* Mutant: leaves its own socket, and with it the queue.
CloseClientsOnly ==
    /\ server.pc = "close"
    /\ AcceptGoto("join")
    /\ conns' = [c \in Conns |-> [conns[c] EXCEPT !.up = FALSE]]
    /\ UNCHANGED <<phones, stored, excused>>
\* Mutant: leaves the sockets of the clients to their threads.
CloseServerOnly ==
    /\ server.pc = "close"
    /\ server' = [server EXCEPT !.pc = "join", !.socket = "closed"]
    /\ conns' = Forget([c \in Conns |-> [conns[c] EXCEPT
                    !.pc = IF @ = "queued" THEN "done" ELSE @]])
    /\ UNCHANGED <<phones, stored, excused>>
\* threadEnd: closes the sockets of all clients and its own; the queue is lost.
AcceptClose ==
    /\ server.pc = "close"
    /\ server' = [server EXCEPT !.pc = "join", !.socket = "closed"]
    /\ conns' = Forget([c \in Conns |-> [conns[c] EXCEPT
                    !.up = FALSE, !.pc = IF @ = "queued" THEN "done" ELSE @]])
    /\ UNCHANGED <<phones, stored, excused>>

ClientsEnded == \A c \in Conns : conns[c].pc \in {"none", "done"}

AcceptJoin ==
    /\ server.pc = "join"
    /\ ClientsEnded
    /\ server' = [server EXCEPT !.pc = "ended", !.isRunning = FALSE]
    /\ UNCHANGED <<conns, phones, stored, excused>>

AcceptThread == AcceptOpen \/ AcceptSetup \/ Accept \/ AcceptClose \/ AcceptJoin

-----------------------------------------------------------------------------
\* ClientThread

ClientGoto(c, label) == conns' = [conns EXCEPT ![c].pc = label]

\* Mutant: only takes itself off the count.
ClientStartUncounted(c) ==
    /\ conns[c].pc = "new"
    /\ ClientGoto(c, "read")
    /\ UNCHANGED <<server, phones, stored, excused>>
\* The thread counts itself, after it has been started.
ClientStart(c) ==
    /\ conns[c].pc = "new"
    /\ server' = [server EXCEPT !.num = @ + 1]
    /\ ClientGoto(c, "read")
    /\ UNCHANGED <<phones, stored, excused>>

\* A packet is there and decrypts with the key of the session.
ReadEncryptedPacket(c) == conns[c].up /\ conns[c].sent /\ conns[c].key = server.key
\* The socket is still the thread's.
WriteEncryptedPacket(c) == conns[c].up

\* There is a packet to answer, or none will come: then the thread returns at
\* once and keeps its place in m_NumConnections.
ClientRead(c) ==
    /\ conns[c].pc = "read"
    /\ \/ ReadEncryptedPacket(c) /\ ClientGoto(c, "serve")
       \/ /\ ~ReadEncryptedPacket(c)
          /\ conns[c].sent \/ conns[c].left \/ ~conns[c].up
          /\ Update(c, [conns[c] EXCEPT !.pc = "done", !.up = FALSE])
    /\ UNCHANGED <<server, phones, stored, excused>>

\* Mutant: the device is stored first, whether the phone is told or not.
ServeStoringFirst(c) ==
    /\ conns[c].pc = "serve"
    /\ stored' = [stored EXCEPT ![conns[c].phone] = c]
    /\ \/ /\ WriteEncryptedPacket(c)
          /\ conns' = [conns EXCEPT ![c].pc = "leave", ![c].resp = "data"]
       \/ ClientGoto(c, "leave")
    /\ UNCHANGED <<server, phones, excused>>

\* The answer: an error (another version, an unusable packet), or the pairing.  It can be written to a phone that has
\* left, and can fail to be written.
ClientServe(c) ==
    /\ conns[c].pc = "serve"
    /\ \/ ClientGoto(c, "leave") /\ UNCHANGED excused
       \/ /\ WriteEncryptedPacket(c)
          /\ \/ /\ conns' = [conns EXCEPT ![c].pc = "leave", ![c].resp = "error"]
                /\ UNCHANGED excused
             \/ /\ conns' = [conns EXCEPT ![c].pc = "store", ![c].resp = "data"]
                /\ excused' = IF conns[c].left \/ \E d \in Conns \ {c} :
                                     conns[d].phone = conns[c].phone /\ conns[d].pc = "store"
                              THEN excused \cup {conns[c].phone} ELSE excused
    /\ UNCHANGED <<server, phones, stored>>

\* AddDevice, which may fail without a word.
ClientStore(c) ==
    /\ conns[c].pc = "store"
    /\ \/ stored' = [stored EXCEPT ![conns[c].phone] = c] /\ UNCHANGED excused
       \/ excused' = excused \cup {conns[c].phone} /\ UNCHANGED stored
    /\ ClientGoto(c, "leave")
    /\ UNCHANGED <<server, phones>>

ClientLeave(c) ==
    /\ conns[c].pc = "leave"
    /\ server' = [server EXCEPT !.num = @ - 1]
    /\ Update(c, [conns[c] EXCEPT !.pc = "done", !.up = FALSE])
    /\ UNCHANGED <<phones, stored, excused>>

ClientThread(c) ==
    ClientStart(c) \/ ClientRead(c) \/ ClientServe(c) \/ ClientStore(c) \/ ClientLeave(c)

-----------------------------------------------------------------------------
\* PairingClient on the phone, one attempt at a time

\* discover waits for a beacon with the server id of the code; a legacy code holds
\* the address.  Then the phone connects and sends its packet, or dies before it does.
Dial(p, beacon) ==
    /\ phones[p].code # None /\ phones[p].conn = None
    /\ phones[p].legacy \/ beacon = phones[p].code
    /\ server.pc = "loop" /\ server.socket = "open"
    /\ \E c \in Conns, sent \in BOOLEAN :
        /\ conns[c].pc = "none"
        /\ \A d \in Conns : conns[d].pc = "none" => c <= d
        /\ conns' = [conns EXCEPT ![c] = [NoConn EXCEPT !.phone = p, !.key = phones[p].code,
                                                        !.sent = sent, !.pc = "queued"]]
        /\ phones' = [phones EXCEPT ![p].conn = c]
    /\ UNCHANGED <<server, stored, excused>>

\* The answer arrives: the phone saves the pairing and is done.
Receive(p) ==
    LET c == phones[p].conn IN
    /\ c # None
    /\ conns[c].resp # "none"
    /\ phones' = [phones EXCEPT ![p].conn = None,
                                ![p].paired = IF conns[c].resp = "data" THEN c ELSE @]
    /\ Update(c, [conns[c] EXCEPT !.left = TRUE])
    /\ UNCHANGED <<server, stored, excused>>

\* The phone gives up: its timeout, or the connection is closed or breaks.
Leave(p) ==
    LET c == phones[p].conn IN
    /\ c # None
    /\ phones' = [phones EXCEPT ![p].conn = None]
    /\ Update(c, [conns[c] EXCEPT !.left = TRUE])
    /\ excused' = IF conns[c].resp = "data" THEN excused \cup {p} ELSE excused
    /\ UNCHANGED <<server, stored>>

\* The PC's own threads, and what the world does.
ServerThreads == AcceptThread \/ \E c \in Conns : ClientThread(c)
Phone(p, beacon) == Dial(p, beacon) \/ Receive(p) \/ Leave(p)
=============================================================================
