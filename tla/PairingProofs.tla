---------------------------- MODULE PairingProofs ----------------------------
(***************************************************************************)
(* For any phones, limits and numbers of sessions: phone and PC keep the   *)
(* same pairing, and devices are stored only for the session on the screen.*)
(***************************************************************************)
EXTENDS PairingForm, FiniteSetTheorems, TLAPS

Servers == [socket : {"none", "open", "closed"}, isRunning : BOOLEAN, num : 0..MaxConns,
            key : Sessions \cup {None}, pc : {"start", "setup", "loop", "close", "join", "ended"}]
Connections ==
    [phone : Phones \cup {"none"}, key : Sessions \cup {None}, sent : BOOLEAN,
     left : BOOLEAN, up : BOOLEAN, resp : {"none", "data", "error"},
     pc : {"none", "queued", "new", "read", "serve", "store", "leave", "done"}]
PhoneStates == [code : Sessions \cup {None}, legacy : BOOLEAN,
                conn : Conns \cup {None}, paired : Conns \cup {None}]

-----------------------------------------------------------------------------
\* The parts of the inductive invariant.

\* The threads that have counted themselves and will take themselves off, and all
\* that have ever counted themselves.
Active == {c \in Conns : conns[c].pc \in {"read", "serve", "store", "leave"}}
Started == {c \in Conns : conns[c].pc \in {"read", "serve", "store", "leave", "done"}}
CountInv == Cardinality(Active) <= server.num /\ server.num <= Cardinality(Started)

\* The accept thread ends after the client threads, which have its key.
ThreadsInv ==
    /\ server.pc \in {"start", "setup", "ended"} =>
          \A c \in Conns : conns[c].pc \in {"none", "done"}
    /\ \A c \in Conns : conns[c].pc \in {"serve", "store"} => conns[c].key = server.key

\* The phone and the thread of a connection name each other while the phone stays.
LinkInv ==
    /\ \A p \in Phones : phones[p].conn # None =>
          LET cn == conns[phones[p].conn] IN cn.phone = p /\ ~cn.left /\ cn.pc # "none"
    /\ \A c \in Conns : conns[c].pc # "none" /\ ~conns[c].left =>
          conns[c].phone \in Phones /\ phones[conns[c].phone].conn = c
    /\ \A c \in Conns : conns[c].pc \notin {"none", "done"} => conns[c].phone \in Phones
    /\ \A c \in Conns : conns[c].pc \in {"queued", "new", "read", "serve"} =>
          conns[c].resp = "none"

\* Where a pairing is under way, between the PC's answer and the end of both ends' work.
Storing(p, c) == conns[c].phone = p /\ conns[c].pc = "store"
Receiving(p, c) == phones[p].conn = c /\ conns[c].resp = "data"
UnderWay(p, c) == Storing(p, c) \/ Receiving(p, c)

AgreeInv ==
    \A p \in Phones \ excused :
        /\ \A c, d \in Conns : UnderWay(p, c) /\ UnderWay(p, d) => c = d
        /\ (\A c \in Conns : ~UnderWay(p, c)) => stored[p] = phones[p].paired
        /\ \A c \in Conns :
             /\ Storing(p, c) /\ Receiving(p, c) => stored[p] = phones[p].paired
             /\ Storing(p, c) /\ ~Receiving(p, c) => phones[p].paired = c
             /\ Receiving(p, c) /\ ~Storing(p, c) => stored[p] = c

\* How many pages there can be to go back to.
Depth == [s \in Steps |-> CASE s = "USER_PASSWORD_SELECT" -> 0
                            [] s = "METHOD_TYPE_SELECT" -> 1
                            [] s = "METHOD_SELECT" -> 2
                            [] s = "BLUETOOTH_DEVICE_SELECT" -> 3
                            [] s \in {"BLUETOOTH_PAIRING", "QR_SCAN"} -> 4
                            [] s = "NONE" -> 5]

\* The stack leads back to the first page, and never to the QR page.
StackInv ==
    /\ step \in Steps /\ stepStack \in Seq(Steps) /\ Len(stepStack) <= Depth[step]
    /\ \A i \in 1..Len(stepStack) :
          /\ Len(stepStack) - i <= Depth[stepStack[i]]
          /\ stepStack[i] = "QR_SCAN" => step = "NONE"
    /\ stepStack = <<>> => step = "USER_PASSWORD_SELECT"
    /\ stepStack # <<>> => stepStack[Len(stepStack)] = "USER_PASSWORD_SELECT"
    /\ ui = "page" => step # "NONE"

\* A server runs for the QR page that is shown, or is being joined.
PageInv ==
    /\ server.pc # "ended" => ui = "join" \/ (ui = "page" /\ step = "QR_SCAN"
                                              /\ session = server.key)
    /\ ui = "join" /\ step = "QR_SCAN" => sessions < MaxSessions

-----------------------------------------------------------------------------
\* Forgotten connections, and the count

\* A connection is what an action has made of it, or has been forgotten.
Follows(c, cn) ==
    \/ conns'[c] = cn
    \/ /\ cn.pc = "done" /\ cn.left
       /\ conns'[c].pc = "done" /\ conns'[c].left
       /\ conns'[c].phone = "none" /\ conns'[c].resp = "none"

LEMMA ForgetFollows ==
    ASSUME NEW cs \in [Conns -> Connections], conns' = Forget(cs)
    PROVE  conns' \in [Conns -> Connections] /\ \A c \in Conns : Follows(c, cs[c])
  <1>1. /\ [NoConn EXCEPT !.pc = "done", !.left = TRUE] \in Connections
        /\ [NoConn EXCEPT !.pc = "done", !.left = TRUE].pc = "done"
        /\ [NoConn EXCEPT !.pc = "done", !.left = TRUE].left
        /\ [NoConn EXCEPT !.pc = "done", !.left = TRUE].phone = "none"
        /\ [NoConn EXCEPT !.pc = "done", !.left = TRUE].resp = "none"
    BY DEF NoConn, Connections, None
  <1> QED
    BY <1>1 DEF Forget, Follows

LEMMA UpdateFollows ==
    ASSUME conns \in [Conns -> Connections], NEW c \in Conns, NEW cn \in Connections,
           Update(c, cn)
    PROVE  /\ conns' \in [Conns -> Connections] /\ Follows(c, cn)
           /\ \A d \in Conns \ {c} : Follows(d, conns[d])
  <1> DEFINE cs == [conns EXCEPT ![c] = cn]
  <1>1. /\ cs \in [Conns -> Connections] /\ cs[c] = cn
        /\ \A d \in Conns \ {c} : cs[d] = conns[d]
    OBVIOUS
  <1>2. conns' = Forget(cs)
    BY DEF Update
  <1> HIDE DEF cs
  <1> QED
    BY <1>1, <1>2, ForgetFollows

LEMMA Counts ==
    ASSUME NEW S \in SUBSET Conns
    PROVE  IsFiniteSet(S) /\ Cardinality(S) \in 0..MaxConns
  <1>1. MaxConns \in Nat
    BY PairingAssumption
  <1>2. IsFiniteSet(Conns) /\ Cardinality(Conns) = MaxConns
    BY <1>1, FS_Interval DEF Conns
  <1> QED
    BY <1>1, <1>2, FS_Subset, FS_CardinalityType

LEMMA CountMoves ==
    ASSUME CountInv, ServerTypeOK, server'.num = server.num,
           Active' \subseteq Active, Started \subseteq Started'
    PROVE  CountInv'
  <1>1. /\ Active \in SUBSET Conns /\ Active' \in SUBSET Conns
        /\ Started \in SUBSET Conns /\ Started' \in SUBSET Conns
    BY DEF Active, Started, Conns
  <1>2. /\ Cardinality(Active') <= Cardinality(Active) /\ Cardinality(Active') \in Int
        /\ Cardinality(Started) <= Cardinality(Started') /\ Cardinality(Started') \in Int
        /\ Cardinality(Active) \in Int /\ Cardinality(Started) \in Int
    BY <1>1, Counts, FS_Subset
  <1>3. server.num \in Int
    BY DEF ServerTypeOK
  <1> QED
    BY <1>2, <1>3 DEF CountInv

LEMMA NumBound ==
    ASSUME CountInv', server'.num \in Int
    PROVE  server'.num \in 0..MaxConns
  <1>1. Active' \in SUBSET Conns /\ Started' \in SUBSET Conns
    BY DEF Active, Started, Conns
  <1>2. Cardinality(Active') \in 0..MaxConns /\ Cardinality(Started') \in 0..MaxConns
    BY <1>1, Counts
  <1> QED
    BY <1>2, PairingAssumption DEF CountInv

-----------------------------------------------------------------------------
\* What the threads of the server do

Core == ServerTypeOK /\ CountInv /\ ThreadsInv /\ LinkInv /\ AgreeInv

LEMMA AgreeSame ==
    ASSUME AgreeInv, excused \subseteq excused',
           \A p \in Phones :
              /\ stored'[p] = stored[p] /\ phones'[p].paired = phones[p].paired
              /\ \A c \in Conns : (Storing(p, c)' <=> Storing(p, c))
              /\ \A c \in Conns : (Receiving(p, c)' <=> Receiving(p, c))
    PROVE  AgreeInv'
  <1> SUFFICES ASSUME NEW p \in Phones \ excused'
               PROVE  /\ \A c, d \in Conns : UnderWay(p, c)' /\ UnderWay(p, d)' => c = d
                      /\ (\A c \in Conns : ~UnderWay(p, c)') => stored'[p] = phones'[p].paired
                      /\ \A c \in Conns :
                           /\ Storing(p, c)' /\ Receiving(p, c)' => stored'[p] = phones'[p].paired
                           /\ Storing(p, c)' /\ ~Receiving(p, c)' => phones'[p].paired = c
                           /\ Receiving(p, c)' /\ ~Storing(p, c)' => stored'[p] = c
    BY DEF AgreeInv
  <1>1. p \in Phones \ excused
    OBVIOUS
  <1> QED
    BY <1>1 DEF AgreeInv, UnderWay

\* The accept thread alone changes the server.
LEMMA ServerChanges ==
    ASSUME Core, UNCHANGED <<conns, phones, stored, excused>>,
           server' \in Servers, server'.num = server.num, server'.key = server.key,
           server'.pc \in {"start", "setup", "ended"} =>
               \A c \in Conns : conns[c].pc \in {"none", "done"}
    PROVE  Core'
  <1>1. ServerTypeOK' /\ ThreadsInv' /\ LinkInv'
    BY DEF Core, ServerTypeOK, Servers, ThreadsInv, LinkInv, Conns, Sessions
  <1>2. CountInv'
    BY CountMoves DEF Core, Active, Started
  <1>3. AgreeInv'
    BY AgreeSame DEF Core, Storing, Receiving
  <1> QED
    BY <1>1, <1>2, <1>3 DEF Core

\* Threads go on, and neither begin nor end a pairing.
Moved(c, cn) ==
    /\ cn.phone = conns[c].phone /\ (cn.left <=> conns[c].left)
    /\ cn.pc = "none" <=> conns[c].pc = "none"
    /\ cn.pc = "store" <=> conns[c].pc = "store"
    /\ conns[c].pc = "done" => cn.pc = "done"
    /\ cn.resp = "data" <=> conns[c].resp = "data"
    /\ cn.pc \in {"queued", "new", "read", "serve"} => cn.resp = "none"

LEMMA ThreadsMove ==
    ASSUME Core, NEW cs \in [Conns -> Connections],
           conns' \in [Conns -> Connections],
           \A c \in Conns : Follows(c, cs[c]) /\ Moved(c, cs[c]),
           UNCHANGED <<phones, stored>>, excused \subseteq excused'
    PROVE  LinkInv' /\ AgreeInv'
  <1> LinkInv /\ AgreeInv /\ phones \in [Phones -> PhoneStates]
    BY DEF Core, ServerTypeOK, PhoneStates
  <1>1. ASSUME NEW c \in Conns
        PROVE  /\ conns'[c].left <=> conns[c].left
               /\ conns'[c].pc = "none" <=> conns[c].pc = "none"
               /\ conns'[c].pc = "store" <=> conns[c].pc = "store"
               /\ conns[c].pc = "done" => conns'[c].pc = "done"
               /\ conns'[c].pc \in {"queued", "new", "read", "serve"} => conns'[c].resp = "none"
               /\ \/ conns'[c].phone = conns[c].phone
                        /\ (conns'[c].resp = "data" <=> conns[c].resp = "data")
                  \/ conns'[c].left /\ conns'[c].pc = "done"
    <2>1. Follows(c, cs[c]) /\ Moved(c, cs[c])
      OBVIOUS
    <2> QED
      BY <2>1 DEF Follows, Moved
  <1>2. LinkInv'
    <2>1. \A p \in Phones : phones[p].conn # None =>
            LET cn == conns'[phones[p].conn] IN cn.phone = p /\ ~cn.left /\ cn.pc # "none"
      BY <1>1 DEF LinkInv, PhoneStates
    <2>2. \A c \in Conns : conns'[c].pc # "none" /\ ~conns'[c].left =>
            conns'[c].phone \in Phones /\ phones[conns'[c].phone].conn = c
      BY <1>1 DEF LinkInv
    <2>3. \A c \in Conns : conns'[c].pc \notin {"none", "done"} => conns'[c].phone \in Phones
      BY <1>1 DEF LinkInv
    <2>4. \A c \in Conns : conns'[c].pc \in {"queued", "new", "read", "serve"} =>
            conns'[c].resp = "none"
      BY <1>1
    <2> QED
      BY <2>1, <2>2, <2>3, <2>4 DEF LinkInv
  <1>3. AgreeInv'
    <2>1. \A p \in Phones, c \in Conns : (Storing(p, c)' <=> Storing(p, c))
      BY <1>1 DEF Storing
    <2>2. \A p \in Phones, c \in Conns : (Receiving(p, c)' <=> Receiving(p, c))
      BY <1>1 DEF Receiving, LinkInv, None, Conns
    <2> QED
      BY <2>1, <2>2, AgreeSame
  <1> QED
    BY <1>2, <1>3

LEMMA ThreadMoves ==
    ASSUME Core, NEW c \in Conns, NEW cn \in Connections, Moved(c, cn),
           conns' \in [Conns -> Connections], Follows(c, cn),
           \A d \in Conns \ {c} : Follows(d, conns[d]),
           UNCHANGED <<phones, stored>>, excused \subseteq excused'
    PROVE  LinkInv' /\ AgreeInv'
  <1>0. LinkInv /\ conns \in [Conns -> Connections]
    BY DEF Core, ServerTypeOK, Connections
  <1> DEFINE cs == [conns EXCEPT ![c] = cn]
  <1>1. \A d \in Conns : Moved(d, conns[d])
    BY <1>0 DEF LinkInv, Moved
  <1>2. /\ cs \in [Conns -> Connections]
        /\ \A d \in Conns : Follows(d, cs[d]) /\ Moved(d, cs[d])
    BY <1>0, <1>1
  <1> HIDE DEF cs
  <1> QED
    BY <1>2, ThreadsMove

\* The accept thread.
LEMMA AcceptKeeps ==
    ASSUME Core, AcceptThread
    PROVE  Core' /\ server'.key = server.key /\ server.pc # "ended"
  <1>0. /\ ServerTypeOK /\ ThreadsInv /\ LinkInv /\ server \in Servers
        /\ conns \in [Conns -> Connections]
    BY DEF Core, ServerTypeOK, Servers, Connections
  <1>1. CASE AcceptOpen
    BY <1>0, <1>1, ServerChanges DEF AcceptOpen, Servers, ThreadsInv
  <1>2. CASE AcceptSetup
    BY <1>0, <1>2, ServerChanges DEF AcceptSetup, AcceptGoto, Servers, ThreadsInv
  <1>3. CASE Accept /\ UNCHANGED conns
    BY <1>0, <1>3, ServerChanges DEF Accept, AcceptGoto, Servers, ThreadsInv
  <1>4. CASE Accept /\ ~UNCHANGED conns
    <2>1. PICK c \in Conns : /\ conns[c].pc = "queued"
                             /\ conns' = [conns EXCEPT ![c].pc = "new", ![c].up = TRUE]
      BY <1>4 DEF Accept
    <2>2. UNCHANGED <<server, phones, stored, excused>> /\ server.pc = "loop"
      BY <1>4 DEF Accept
    <2> DEFINE cn == [conns[c] EXCEPT !.pc = "new", !.up = TRUE]
    <2>3. /\ cn \in Connections /\ cn.pc = "new" /\ cn.phone = conns[c].phone
          /\ cn.left = conns[c].left /\ cn.resp = conns[c].resp
      BY <1>0 DEF Connections
    <2>4. /\ conns' \in [Conns -> Connections] /\ conns'[c] = cn
          /\ \A d \in Conns \ {c} : conns'[d] = conns[d]
      BY <1>0, <2>1, <2>3
    <2> HIDE DEF cn
    <2>5. LinkInv' /\ AgreeInv'
      <3>1. Moved(c, cn)
        BY <1>0, <2>1, <2>3 DEF Moved, LinkInv
      <3>2. Follows(c, cn) /\ \A d \in Conns \ {c} : Follows(d, conns[d])
        BY <2>4 DEF Follows
      <3> QED
        BY <2>2, <2>3, <2>4, <3>1, <3>2, ThreadMoves
    <2>6. ServerTypeOK' /\ ThreadsInv'
      BY <1>0, <2>1, <2>2, <2>3, <2>4 DEF ServerTypeOK, Connections, ThreadsInv
    <2>7. CountInv'
      BY <2>1, <2>2, <2>3, <2>4, CountMoves DEF Core, Active, Started
    <2> QED
      BY <1>0, <2>2, <2>5, <2>6, <2>7 DEF Core
  <1>5. CASE AcceptClose
    <2> DEFINE cs == [c \in Conns |-> [conns[c] EXCEPT
                    !.up = FALSE, !.pc = IF @ = "queued" THEN "done" ELSE @]]
    <2>1. \A c \in Conns : /\ cs[c] \in Connections
                           /\ cs[c].pc = IF conns[c].pc = "queued" THEN "done" ELSE conns[c].pc
                           /\ cs[c].phone = conns[c].phone /\ cs[c].key = conns[c].key
                           /\ cs[c].left = conns[c].left /\ cs[c].resp = conns[c].resp
      <3> SUFFICES ASSUME NEW c \in Conns
                   PROVE  /\ cs[c] \in Connections
                          /\ cs[c].pc = IF conns[c].pc = "queued" THEN "done" ELSE conns[c].pc
                          /\ cs[c].phone = conns[c].phone /\ cs[c].key = conns[c].key
                          /\ cs[c].left = conns[c].left /\ cs[c].resp = conns[c].resp
        OBVIOUS
      <3>1. conns[c] \in Connections
        BY <1>0
      <3>2. cs[c] = [conns[c] EXCEPT
                    !.up = FALSE, !.pc = IF @ = "queued" THEN "done" ELSE @]
        OBVIOUS
      <3> HIDE DEF cs
      <3>3. cs[c] \in Connections
        BY <3>1, <3>2 DEF Connections
      <3> QED
        BY <3>1, <3>2, <3>3 DEF Connections
    <2>2. cs \in [Conns -> Connections]
      BY <2>1
    <2>3. conns' = Forget(cs) /\ UNCHANGED <<phones, stored, excused>> /\ server.pc = "close"
      BY <1>5 DEF AcceptClose
    <2>4. server' \in Servers /\ server'.num = server.num /\ server'.key = server.key
          /\ server'.pc = "join"
      BY <1>0, <1>5 DEF AcceptClose, Servers
    <2> HIDE DEF cs
    <2>5. conns' \in [Conns -> Connections] /\ \A c \in Conns : Follows(c, cs[c])
      BY <2>2, <2>3, ForgetFollows
    <2>6. LinkInv' /\ AgreeInv'
      <3>1. \A c \in Conns : Moved(c, cs[c])
        BY <1>0, <2>1 DEF Moved, LinkInv
      <3> QED
        BY <2>2, <2>3, <2>5, <3>1, ThreadsMove
    <2>7. \A c \in Conns : /\ conns'[c].pc = IF conns[c].pc = "queued" THEN "done"
                                                                      ELSE conns[c].pc
                           /\ conns'[c].pc # "done" => conns'[c].key = conns[c].key
      BY <2>1, <2>5 DEF Follows
    <2>8. ServerTypeOK' /\ ThreadsInv'
      BY <1>0, <2>3, <2>4, <2>5, <2>7
      DEF ServerTypeOK, Connections, Servers, ThreadsInv
    <2>9. CountInv'
      BY <2>4, <2>7, CountMoves DEF Core, Active, Started
    <2> QED
      BY <2>3, <2>4, <2>6, <2>8, <2>9 DEF Core
  <1>6. CASE AcceptJoin
    BY <1>0, <1>6, ServerChanges DEF AcceptJoin, ClientsEnded, Servers
  <1> QED
    BY <1>1, <1>2, <1>3, <1>4, <1>5, <1>6 DEF AcceptThread

\* A client thread that only goes on to another label.
LEMMA ClientGoes ==
    ASSUME Core, NEW c \in Conns, NEW cn \in Connections,
           conns[c].pc \in {"read", "serve"}, cn.pc \in {"serve", "leave", "done"},
           cn.phone = conns[c].phone, cn.left = conns[c].left, cn.key = conns[c].key,
           cn.resp = conns[c].resp \/ (cn.pc = "leave" /\ cn.resp = "error"),
           cn.pc = "serve" => cn.key = server.key,
           conns' \in [Conns -> Connections], Follows(c, cn),
           \A d \in Conns \ {c} : Follows(d, conns[d]),
           UNCHANGED <<server, phones, stored, excused>>
    PROVE  Core'
  <1>0. ServerTypeOK /\ LinkInv /\ ThreadsInv
    BY DEF Core
  <1>1. Moved(c, cn)
    BY <1>0 DEF LinkInv, Moved
  <1>2. LinkInv' /\ AgreeInv'
    BY <1>1, ThreadMoves
  <1>3. \A d \in Conns \ {c} : /\ conns'[d].pc = conns[d].pc
                               /\ conns'[d].pc # "done" => conns'[d].key = conns[d].key
    <2>1. ASSUME NEW d \in Conns \ {c}
          PROVE  conns'[d].pc = conns[d].pc /\ (conns'[d].pc # "done" => conns'[d].key = conns[d].key)
      <3>1. Follows(d, conns[d])
        OBVIOUS
      <3> QED
        BY <3>1 DEF Follows
    <2> QED
      BY <2>1
  <1>4. conns'[c].pc = cn.pc /\ (conns'[c].pc # "done" => conns'[c].key = cn.key)
    BY DEF Follows
  <1>5. ServerTypeOK'
    BY <1>0 DEF ServerTypeOK, Connections
  <1>6. ThreadsInv'
    BY <1>0, <1>3, <1>4 DEF ThreadsInv
  <1>7. CountInv'
    BY <1>0, <1>3, <1>4, CountMoves DEF Core, Active, Started
  <1> QED
    BY <1>2, <1>5, <1>6, <1>7 DEF Core

LEMMA ClientStartKeeps ==
    ASSUME Core, NEW c \in Conns, ClientStart(c)
    PROVE  Core'
  <1>0. /\ ServerTypeOK /\ ThreadsInv /\ LinkInv /\ CountInv /\ server \in Servers
        /\ conns \in [Conns -> Connections]
    BY DEF Core, ServerTypeOK, Servers, Connections
  <1> DEFINE cn == [conns[c] EXCEPT !.pc = "read"]
  <1>1. /\ cn \in Connections /\ cn.pc = "read" /\ cn.phone = conns[c].phone
        /\ cn.left = conns[c].left /\ cn.resp = conns[c].resp
    BY <1>0 DEF Connections
  <1>2. /\ conns' \in [Conns -> Connections] /\ conns'[c] = cn /\ conns[c].pc = "new"
        /\ \A d \in Conns \ {c} : conns'[d] = conns[d]
        /\ UNCHANGED <<phones, stored, excused>>
    BY <1>0, <1>1 DEF ClientStart, ClientGoto
  <1>3. server' = [server EXCEPT !.num = server.num + 1]
    BY DEF ClientStart
  <1> HIDE DEF cn
  <1>4. Moved(c, cn)
    BY <1>0, <1>1, <1>2 DEF Moved, LinkInv
  <1>5. Follows(c, cn) /\ \A d \in Conns \ {c} : Follows(d, conns[d])
    BY <1>2 DEF Follows
  <1>6. LinkInv' /\ AgreeInv'
    BY <1>1, <1>2, <1>4, <1>5, ThreadMoves
  <1>7. /\ Active' = Active \cup {c} /\ c \notin Active
        /\ Started' = Started \cup {c} /\ c \notin Started
    BY <1>1, <1>2 DEF Active, Started
  <1>8. Active \in SUBSET Conns /\ Started \in SUBSET Conns
    BY DEF Active, Started
  <1>9. CountInv'
    <2>1. /\ Cardinality(Active') = Cardinality(Active) + 1
          /\ Cardinality(Started') = Cardinality(Started) + 1
      BY <1>7, <1>8, Counts, FS_AddElement
    <2>2. server'.num = server.num + 1 /\ server.num \in Int
      BY <1>0, <1>3 DEF Servers
    <2>3. Cardinality(Active) \in Int /\ Cardinality(Started) \in Int
      BY <1>8, Counts
    <2> QED
      BY <1>0, <2>1, <2>2, <2>3 DEF CountInv
  <1>10. server' \in Servers
    <2>1. server'.num = server.num + 1 /\ server.num \in Int
      BY <1>0, <1>3 DEF Servers
    <2>2. server.num + 1 \in 0..MaxConns
      BY <1>9, <2>1, NumBound
    <2> QED
      BY <1>0, <1>3, <2>2 DEF Servers
  <1>11. ServerTypeOK' /\ ThreadsInv'
    <2>1. server'.pc = server.pc /\ server'.key = server.key
      BY <1>0, <1>3 DEF Servers
    <2> QED
      BY <1>0, <1>1, <1>2, <1>10, <2>1 DEF ServerTypeOK, Servers, Connections, ThreadsInv
  <1> QED
    BY <1>6, <1>9, <1>11 DEF Core

LEMMA ClientLeaveKeeps ==
    ASSUME Core, NEW c \in Conns, ClientLeave(c)
    PROVE  Core'
  <1>0. /\ ServerTypeOK /\ ThreadsInv /\ LinkInv /\ CountInv /\ server \in Servers
        /\ conns \in [Conns -> Connections]
    BY DEF Core, ServerTypeOK, Servers, Connections
  <1> DEFINE cn == [conns[c] EXCEPT !.pc = "done", !.up = FALSE]
  <1>1. /\ cn \in Connections /\ cn.pc = "done" /\ cn.phone = conns[c].phone
        /\ cn.left = conns[c].left /\ cn.resp = conns[c].resp
    BY <1>0 DEF Connections
  <1>2. /\ Update(c, cn) /\ conns[c].pc = "leave"
        /\ UNCHANGED <<phones, stored, excused>>
        /\ server' = [server EXCEPT !.num = server.num - 1]
    BY DEF ClientLeave
  <1> HIDE DEF cn
  <1>3. /\ conns' \in [Conns -> Connections] /\ Follows(c, cn)
        /\ \A d \in Conns \ {c} : Follows(d, conns[d])
    BY <1>0, <1>1, <1>2, UpdateFollows
  <1>4. Moved(c, cn)
    BY <1>0, <1>1, <1>2 DEF Moved, LinkInv
  <1>5. LinkInv' /\ AgreeInv'
    BY <1>1, <1>2, <1>3, <1>4, ThreadMoves
  <1>6. conns'[c].pc = "done" /\ \A d \in Conns \ {c} :
            conns'[d].pc = conns[d].pc /\ (conns'[d].pc # "done" => conns'[d].key = conns[d].key)
    <2>1. ASSUME NEW d \in Conns \ {c}
          PROVE  conns'[d].pc = conns[d].pc /\ (conns'[d].pc # "done" => conns'[d].key = conns[d].key)
      <3>1. Follows(d, conns[d])
        BY <1>3
      <3> QED
        BY <3>1 DEF Follows
    <2> QED
      BY <1>1, <1>3, <2>1 DEF Follows
  <1>7. Active' = Active \ {c} /\ c \in Active /\ Started' = Started
    BY <1>2, <1>6 DEF Active, Started
  <1>8. Active \in SUBSET Conns /\ Started \in SUBSET Conns
    BY DEF Active, Started
  <1>9. CountInv' /\ server' \in Servers
    <2>1. Cardinality(Active') = Cardinality(Active) - 1 /\ Cardinality(Active') \in Nat
      <3>1. Active' \in SUBSET Conns
        BY <1>7, <1>8
      <3> QED
        BY <1>7, <1>8, <3>1, Counts, FS_RemoveElement
    <2>2. server'.num = server.num - 1 /\ server.num \in Int
      BY <1>0, <1>2 DEF Servers
    <2>3. Cardinality(Active) \in Int /\ Cardinality(Started) \in Int
      BY <1>8, Counts
    <2>4. CountInv'
      BY <1>0, <1>7, <2>1, <2>2, <2>3 DEF CountInv
    <2>5. server'.num \in 0..MaxConns
      BY <2>2, <2>4, NumBound
    <2> QED
      BY <1>0, <1>2, <2>2, <2>4, <2>5 DEF Servers
  <1>10. ServerTypeOK' /\ ThreadsInv'
    <2>1. server'.pc = server.pc /\ server'.key = server.key
      BY <1>0, <1>2 DEF Servers
    <2> QED
      BY <1>0, <1>2, <1>3, <1>6, <1>9, <2>1 DEF ServerTypeOK, Servers, Connections, ThreadsInv
  <1> QED
    BY <1>5, <1>9, <1>10 DEF Core

\* The pairing begins: the phone is told, the device is to be stored.
LEMMA PairingBegins ==
    ASSUME Core, NEW c \in Conns, conns[c].pc = "serve",
           conns' = [conns EXCEPT ![c].pc = "store", ![c].resp = "data"],
           excused' = IF conns[c].left \/ \E d \in Conns \ {c} :
                                conns[d].phone = conns[c].phone /\ conns[d].pc = "store"
                      THEN excused \cup {conns[c].phone} ELSE excused,
           UNCHANGED <<server, phones, stored>>
    PROVE  Core'
  <1>0. /\ ServerTypeOK /\ ThreadsInv /\ LinkInv /\ AgreeInv /\ CountInv
        /\ conns \in [Conns -> Connections] /\ conns[c].phone \in Phones
    BY DEF Core, ServerTypeOK, Connections, LinkInv
  <1> DEFINE cn == [conns[c] EXCEPT !.pc = "store", !.resp = "data"]
  <1>1. /\ cn \in Connections /\ cn.pc = "store" /\ cn.phone = conns[c].phone
        /\ cn.left = conns[c].left /\ cn.resp = "data" /\ cn.key = conns[c].key
    BY <1>0 DEF Connections
  <1>2. /\ conns' \in [Conns -> Connections] /\ conns'[c] = cn
        /\ \A d \in Conns \ {c} : conns'[d] = conns[d]
    BY <1>0, <1>1
  <1> HIDE DEF cn
  <1>3. ServerTypeOK' /\ ThreadsInv' /\ LinkInv'
    BY <1>0, <1>1, <1>2 DEF ServerTypeOK, Connections, ThreadsInv, LinkInv
  <1>4. CountInv'
    BY <1>1, <1>2, CountMoves DEF Core, Active, Started
  <1>5. ASSUME NEW p \in Phones \ excused'
        PROVE  /\ \A d, e \in Conns : UnderWay(p, d)' /\ UnderWay(p, e)' => d = e
               /\ (\A d \in Conns : ~UnderWay(p, d)') => stored'[p] = phones'[p].paired
               /\ \A d \in Conns :
                    /\ Storing(p, d)' /\ Receiving(p, d)' => stored'[p] = phones'[p].paired
                    /\ Storing(p, d)' /\ ~Receiving(p, d)' => phones'[p].paired = d
                    /\ Receiving(p, d)' /\ ~Storing(p, d)' => stored'[p] = d
    <2>0. p \in Phones \ excused
      BY <1>5
    <2>1. CASE p # conns[c].phone
      <3>1. \A d \in Conns : (Storing(p, d)' <=> Storing(p, d)) /\ (Receiving(p, d)' <=> Receiving(p, d))
        <4>1. phones[p].conn # c
          BY <1>0, <2>1 DEF LinkInv, None, Conns
        <4> QED
          BY <1>1, <1>2, <2>1, <4>1 DEF Storing, Receiving
      <3> QED
        BY <1>0, <2>0, <3>1 DEF AgreeInv, UnderWay
    <2>2. CASE p = conns[c].phone
      <3>1. /\ ~conns[c].left /\ phones[p].conn = c
            /\ \A d \in Conns \ {c} : ~Storing(p, d)
        BY <1>0, <1>5, <2>2 DEF LinkInv, Storing
      <3>2. \A d \in Conns : ~UnderWay(p, d)
        BY <1>0, <2>2, <3>1 DEF UnderWay, Storing, Receiving, LinkInv
      <3>3. stored[p] = phones[p].paired
        BY <1>0, <2>0, <3>2 DEF AgreeInv
      <3>4. /\ \A d \in Conns \ {c} : ~Storing(p, d)' /\ ~Receiving(p, d)'
            /\ Storing(p, c)' /\ Receiving(p, c)'
        BY <1>1, <1>2, <2>2, <3>1 DEF Storing, Receiving
      <3> QED
        BY <3>3, <3>4 DEF UnderWay
    <2> QED
      BY <2>1, <2>2
  <1>6. AgreeInv'
    BY <1>5 DEF AgreeInv
  <1> QED
    BY <1>3, <1>4, <1>6 DEF Core

\* The device is stored, or is not, and then its phone is excused.
LEMMA ClientStoreKeeps ==
    ASSUME Core, NEW c \in Conns, ClientStore(c)
    PROVE  Core'
  <1>0. /\ ServerTypeOK /\ ThreadsInv /\ LinkInv /\ AgreeInv /\ CountInv
        /\ conns \in [Conns -> Connections] /\ conns[c].phone \in Phones
        /\ stored \in [Phones -> Conns \cup {None}]
    BY DEF ClientStore, Core, ServerTypeOK, Connections, LinkInv
  <1> DEFINE cn == [conns[c] EXCEPT !.pc = "leave"]
  <1>1. /\ cn \in Connections /\ cn.pc = "leave" /\ cn.phone = conns[c].phone
        /\ cn.left = conns[c].left /\ cn.resp = conns[c].resp /\ cn.key = conns[c].key
    BY <1>0 DEF Connections
  <1>2. /\ conns' \in [Conns -> Connections] /\ conns'[c] = cn /\ conns[c].pc = "store"
        /\ \A d \in Conns \ {c} : conns'[d] = conns[d]
        /\ UNCHANGED <<server, phones>>
    BY <1>0, <1>1 DEF ClientStore, ClientGoto
  <1>3. \/ /\ stored'[conns[c].phone] = c /\ excused' = excused
        \/ /\ conns[c].phone \in excused' /\ stored' = stored
    BY <1>0 DEF ClientStore
  <1>4. /\ stored' \in [Phones -> Conns \cup {None}]
        /\ \A p \in Phones \ {conns[c].phone} : stored'[p] = stored[p]
        /\ excused \subseteq excused' /\ excused' \subseteq Phones
    BY <1>0 DEF ClientStore, ServerTypeOK
  <1> HIDE DEF cn
  <1>5. ServerTypeOK' /\ ThreadsInv' /\ LinkInv'
    <2>1. ServerTypeOK'
      BY <1>0, <1>2, <1>4 DEF ServerTypeOK, Connections
    <2>2. ThreadsInv'
      BY <1>0, <1>1, <1>2 DEF ThreadsInv
    <2>3. LinkInv'
      <3>1. \A d \in Conns : /\ conns'[d].phone = conns[d].phone /\ conns'[d].resp = conns[d].resp
                             /\ conns'[d].left = conns[d].left
                             /\ conns'[d].pc = conns[d].pc \/ d = c
        BY <1>1, <1>2
      <3>2. conns'[c].pc = "leave" /\ conns[c].pc = "store" /\ phones' = phones
        BY <1>1, <1>2
      <3>3. phones \in [Phones -> PhoneStates]
        BY <1>0 DEF ServerTypeOK, PhoneStates
      <3>4. \A p \in Phones : phones[p].conn # None =>
              LET x == conns'[phones[p].conn] IN x.phone = p /\ ~x.left /\ x.pc # "none"
        BY <1>0, <3>1, <3>2, <3>3 DEF LinkInv, PhoneStates
      <3>5. \A d \in Conns : conns'[d].pc # "none" /\ ~conns'[d].left =>
              conns'[d].phone \in Phones /\ phones[conns'[d].phone].conn = d
        BY <1>0, <3>1, <3>2 DEF LinkInv
      <3>6. \A d \in Conns : conns'[d].pc \notin {"none", "done"} => conns'[d].phone \in Phones
        BY <1>0, <3>1 DEF LinkInv
      <3>7. \A d \in Conns : conns'[d].pc \in {"queued", "new", "read", "serve"} =>
              conns'[d].resp = "none"
        BY <1>0, <3>1, <3>2 DEF LinkInv
      <3> QED
        BY <3>2, <3>4, <3>5, <3>6, <3>7 DEF LinkInv
    <2> QED
      BY <2>1, <2>2, <2>3
  <1>6. CountInv'
    BY <1>1, <1>2, CountMoves DEF Core, Active, Started
  <1>7. ASSUME NEW p \in Phones \ excused'
        PROVE  /\ \A d, e \in Conns : UnderWay(p, d)' /\ UnderWay(p, e)' => d = e
               /\ (\A d \in Conns : ~UnderWay(p, d)') => stored'[p] = phones'[p].paired
               /\ \A d \in Conns :
                    /\ Storing(p, d)' /\ Receiving(p, d)' => stored'[p] = phones'[p].paired
                    /\ Storing(p, d)' /\ ~Receiving(p, d)' => phones'[p].paired = d
                    /\ Receiving(p, d)' /\ ~Storing(p, d)' => stored'[p] = d
    <2>0. p \in Phones \ excused
      BY <1>4
    <2>1. \A d \in Conns : Receiving(p, d)' <=> Receiving(p, d)
      BY <1>1, <1>2 DEF Receiving
    <2>2. \A d \in Conns \ {c} : Storing(p, d)' <=> Storing(p, d)
      BY <1>2 DEF Storing
    <2>3. ~Storing(p, c)'
      BY <1>1, <1>2 DEF Storing
    <2>4. CASE p # conns[c].phone
      <3>1. ~Storing(p, c) /\ stored'[p] = stored[p] /\ phones' = phones
        BY <1>2, <1>4, <2>4 DEF Storing
      <3> QED
        BY <1>0, <2>0, <2>1, <2>2, <2>3, <3>1 DEF AgreeInv, UnderWay
    <2>5. CASE p = conns[c].phone
      <3>1. stored'[p] = c /\ phones' = phones
        BY <1>2, <1>3, <1>7, <2>5
      <3>2. Storing(p, c)
        BY <1>2, <2>5 DEF Storing
      <3>3. \A d \in Conns \ {c} : ~UnderWay(p, d)
        BY <1>0, <2>0, <3>2 DEF AgreeInv, UnderWay
      <3>4. ~Receiving(p, c) => phones[p].paired = c
        BY <1>0, <2>0, <3>2 DEF AgreeInv
      <3> QED
        BY <2>1, <2>2, <2>3, <3>1, <3>3, <3>4 DEF UnderWay
    <2> QED
      BY <2>4, <2>5
  <1>8. AgreeInv'
    BY <1>7 DEF AgreeInv
  <1> QED
    BY <1>5, <1>6, <1>8 DEF Core

LEMMA ClientKeeps ==
    ASSUME Core, NEW c \in Conns, ClientThread(c)
    PROVE  Core'
  <1>0. /\ ServerTypeOK /\ ThreadsInv /\ LinkInv
        /\ conns \in [Conns -> Connections]
    BY DEF Core, ServerTypeOK, Connections
  <1>1. CASE ClientRead(c) /\ ReadEncryptedPacket(c)
    <2> DEFINE cn == [conns[c] EXCEPT !.pc = "serve"]
    <2>1. /\ conns' = [conns EXCEPT ![c].pc = "serve"] /\ conns[c].pc = "read"
          /\ conns[c].key = server.key /\ UNCHANGED <<server, phones, stored, excused>>
      BY <1>1 DEF ClientRead, ClientGoto, ReadEncryptedPacket
    <2>2. /\ cn \in Connections /\ cn.pc = "serve" /\ cn.phone = conns[c].phone
          /\ cn.left = conns[c].left /\ cn.resp = conns[c].resp /\ cn.key = conns[c].key
      BY <1>0 DEF Connections
    <2>3. /\ conns' \in [Conns -> Connections] /\ Follows(c, cn)
          /\ \A d \in Conns \ {c} : Follows(d, conns[d])
      BY <1>0, <2>1, <2>2 DEF Follows
    <2> HIDE DEF cn
    <2> QED
      BY <2>1, <2>2, <2>3, ClientGoes
  <1>2. CASE ClientRead(c) /\ ~ReadEncryptedPacket(c)
    <2> DEFINE cn == [conns[c] EXCEPT !.pc = "done", !.up = FALSE]
    <2>1. /\ Update(c, cn) /\ conns[c].pc = "read"
          /\ UNCHANGED <<server, phones, stored, excused>>
      BY <1>2 DEF ClientRead
    <2>2. /\ cn \in Connections /\ cn.pc = "done" /\ cn.phone = conns[c].phone
          /\ cn.left = conns[c].left /\ cn.resp = conns[c].resp /\ cn.key = conns[c].key
      BY <1>0 DEF Connections
    <2> HIDE DEF cn
    <2>3. /\ conns' \in [Conns -> Connections] /\ Follows(c, cn)
          /\ \A d \in Conns \ {c} : Follows(d, conns[d])
      BY <1>0, <2>1, <2>2, UpdateFollows
    <2> QED
      BY <2>1, <2>2, <2>3, ClientGoes
  <1>3. CASE ClientServe(c)
    <2>0. conns[c].pc = "serve" /\ UNCHANGED <<server, phones, stored>>
      BY <1>3 DEF ClientServe
    <2>1. CASE conns' = [conns EXCEPT ![c].pc = "leave"] /\ UNCHANGED excused
      <3> DEFINE cn == [conns[c] EXCEPT !.pc = "leave"]
      <3>1. /\ cn \in Connections /\ cn.pc = "leave" /\ cn.phone = conns[c].phone
            /\ cn.left = conns[c].left /\ cn.resp = conns[c].resp /\ cn.key = conns[c].key
        BY <1>0 DEF Connections
      <3>2. /\ conns' \in [Conns -> Connections] /\ Follows(c, cn)
            /\ \A d \in Conns \ {c} : Follows(d, conns[d])
        BY <1>0, <2>1, <3>1 DEF Follows
      <3> HIDE DEF cn
      <3> QED
        BY <2>0, <2>1, <3>1, <3>2, ClientGoes
    <2>2. CASE conns' = [conns EXCEPT ![c].pc = "leave", ![c].resp = "error"] /\ UNCHANGED excused
      <3> DEFINE cn == [conns[c] EXCEPT !.pc = "leave", !.resp = "error"]
      <3>1. /\ cn \in Connections /\ cn.pc = "leave" /\ cn.phone = conns[c].phone
            /\ cn.left = conns[c].left /\ cn.resp = "error" /\ cn.key = conns[c].key
        BY <1>0 DEF Connections
      <3>2. /\ conns' \in [Conns -> Connections] /\ Follows(c, cn)
            /\ \A d \in Conns \ {c} : Follows(d, conns[d])
        BY <1>0, <2>2, <3>1 DEF Follows
      <3> HIDE DEF cn
      <3> QED
        BY <2>0, <2>2, <3>1, <3>2, ClientGoes
    <2> QED
      BY <1>3, <2>0, <2>1, <2>2, PairingBegins DEF ClientServe, ClientGoto
  <1> QED
    BY <1>1, <1>2, <1>3, ClientStartKeeps, ClientStoreKeeps, ClientLeaveKeeps
    DEF ClientThread

-----------------------------------------------------------------------------
\* What the phones do

LEMMA DialKeeps ==
    ASSUME Core, NEW p \in Phones, NEW b, Dial(p, b)
    PROVE  Core'
  <1>0. /\ ServerTypeOK /\ ThreadsInv /\ LinkInv /\ AgreeInv /\ CountInv
        /\ conns \in [Conns -> Connections] /\ phones \in [Phones -> PhoneStates]
    BY DEF Core, ServerTypeOK, Connections, PhoneStates
  <1>1. PICK c \in Conns, sent \in BOOLEAN :
          /\ conns[c].pc = "none"
          /\ conns' = [conns EXCEPT ![c] = [NoConn EXCEPT !.phone = p, !.key = phones[p].code,
                                                          !.sent = sent, !.pc = "queued"]]
          /\ phones' = [phones EXCEPT ![p].conn = c]
    BY DEF Dial
  <1>2. phones[p].conn = None /\ server.pc = "loop" /\ UNCHANGED <<server, stored, excused>>
    BY DEF Dial
  <1> DEFINE cn == [NoConn EXCEPT !.phone = p, !.key = phones[p].code,
                                  !.sent = sent, !.pc = "queued"]
  <1>3. /\ cn \in Connections /\ cn.phone = p /\ ~cn.left /\ cn.pc = "queued"
        /\ cn.resp = "none"
    BY <1>0 DEF NoConn, Connections, PhoneStates
  <1>4. /\ conns' \in [Conns -> Connections] /\ conns'[c] = cn
        /\ \A d \in Conns \ {c} : conns'[d] = conns[d]
    BY <1>0, <1>1, <1>3
  <1> HIDE DEF cn
  <1>5. /\ phones' \in [Phones -> PhoneStates] /\ phones'[p].conn = c
        /\ phones'[p].paired = phones[p].paired
        /\ \A q \in Phones \ {p} : phones'[q] = phones[q]
    BY <1>0, <1>1 DEF PhoneStates
  <1>6. ServerTypeOK' /\ ThreadsInv'
    <2>1. ServerTypeOK'
      BY <1>0, <1>2, <1>4, <1>5 DEF ServerTypeOK, Connections, PhoneStates
    <2>2. ThreadsInv'
      BY <1>0, <1>2, <1>3, <1>4 DEF ThreadsInv
    <2> QED
      BY <2>1, <2>2
  <1>7. LinkInv'
    <2>1. \A q \in Phones : phones[q].conn # c
      BY <1>0, <1>1 DEF LinkInv, None, Conns
    <2>2. \A q \in Phones : phones'[q].conn # None =>
            LET x == conns'[phones'[q].conn] IN x.phone = q /\ ~x.left /\ x.pc # "none"
      BY <1>0, <1>3, <1>4, <1>5, <2>1 DEF LinkInv, PhoneStates
    <2>3. \A d \in Conns : conns'[d].pc # "none" /\ ~conns'[d].left =>
            conns'[d].phone \in Phones /\ phones'[conns'[d].phone].conn = d
      <3>1. None \notin Conns
        BY DEF None, Conns
      <3> QED
        BY <1>0, <1>2, <1>3, <1>4, <1>5, <3>1 DEF LinkInv
    <2>4. \A d \in Conns : conns'[d].pc \notin {"none", "done"} => conns'[d].phone \in Phones
      BY <1>0, <1>3, <1>4 DEF LinkInv
    <2>5. \A d \in Conns : conns'[d].pc \in {"queued", "new", "read", "serve"} =>
            conns'[d].resp = "none"
      BY <1>0, <1>3, <1>4 DEF LinkInv
    <2> QED
      BY <2>2, <2>3, <2>4, <2>5 DEF LinkInv
  <1>8. CountInv'
    BY <1>0, <1>1, <1>2, <1>3, <1>4, CountMoves DEF Active, Started
  <1>9. AgreeInv'
    <2>1. \A q \in Phones, d \in Conns : (Storing(q, d)' <=> Storing(q, d))
      BY <1>1, <1>3, <1>4 DEF Storing
    <2>2. \A q \in Phones, d \in Conns : (Receiving(q, d)' <=> Receiving(q, d))
      <3>1. None \notin Conns /\ \A q \in Phones : phones[q].conn # c
        BY <1>0, <1>1 DEF LinkInv, None, Conns
      <3>2. \A d \in Conns : ~Receiving(p, d) /\ ~Receiving(p, d)'
        BY <1>2, <1>3, <1>4, <1>5, <3>1 DEF Receiving
      <3>3. \A q \in Phones \ {p}, d \in Conns : (Receiving(q, d)' <=> Receiving(q, d))
        BY <1>4, <1>5, <3>1 DEF Receiving
      <3> QED
        BY <3>2, <3>3
    <2> QED
      BY <1>0, <1>2, <1>5, <2>1, <2>2, AgreeSame
  <1> QED
    BY <1>6, <1>7, <1>8, <1>9 DEF Core

\* The phone hangs up, whatever it has received; other connections are as before.
HangsUp(p, c) ==
    /\ c = phones[p].conn /\ c # None
    /\ phones'[p].conn = None
    /\ Update(c, [conns[c] EXCEPT !.left = TRUE])
    /\ phones' \in [Phones -> PhoneStates] /\ \A q \in Phones \ {p} : phones'[q] = phones[q]
    /\ UNCHANGED <<server, stored>>

LEMMA HangUp ==
    ASSUME Core, NEW p \in Phones, NEW c \in Conns, HangsUp(p, c),
           excused \subseteq excused', excused' \subseteq Phones
    PROVE  /\ ServerTypeOK' /\ ThreadsInv' /\ LinkInv' /\ CountInv'
           /\ \A q \in Phones, d \in Conns : (Storing(q, d)' <=> Storing(q, d))
           /\ \A q \in Phones \ {p}, d \in Conns : (Receiving(q, d)' <=> Receiving(q, d))
           /\ \A d \in Conns : ~Receiving(p, d)'
           /\ \A d \in Conns \ {c} : ~Receiving(p, d)
           /\ conns[c].phone = p
  <1>0. /\ ServerTypeOK /\ ThreadsInv /\ LinkInv /\ CountInv
        /\ conns \in [Conns -> Connections] /\ phones \in [Phones -> PhoneStates]
    BY DEF Core, ServerTypeOK, Connections, PhoneStates
  <1>1. /\ phones[p].conn = c /\ conns[c].phone = p /\ ~conns[c].left /\ conns[c].pc # "none"
        /\ phones'[p].conn = None /\ UNCHANGED <<server, stored>>
        /\ \A q \in Phones \ {p} : phones'[q] = phones[q] /\ phones[q].conn # c
    BY <1>0 DEF HangsUp, LinkInv
  <1> DEFINE cn == [conns[c] EXCEPT !.left = TRUE]
  <1>2. /\ cn \in Connections /\ cn.left /\ cn.phone = p /\ cn.pc = conns[c].pc
        /\ cn.resp = conns[c].resp /\ cn.key = conns[c].key
    <2>1. conns[c] \in Connections
      BY <1>0
    <2>2. cn \in Connections /\ cn.left
      BY <2>1 DEF Connections
    <2>3. /\ cn.phone = conns[c].phone /\ cn.pc = conns[c].pc
          /\ cn.resp = conns[c].resp /\ cn.key = conns[c].key
      BY <2>1 DEF Connections
    <2> QED
      BY <1>1, <2>2, <2>3
  <1>3. Update(c, cn)
    BY DEF HangsUp
  <1> HIDE DEF cn
  <1>4. /\ conns' \in [Conns -> Connections] /\ Follows(c, cn)
        /\ \A d \in Conns \ {c} : Follows(d, conns[d])
    BY <1>0, <1>2, <1>3, UpdateFollows
  <1>5. ASSUME NEW d \in Conns
        PROVE  /\ conns'[d].pc = conns[d].pc
               /\ conns'[d].pc # "done" => /\ conns'[d].phone = conns[d].phone
                                           /\ conns'[d].key = conns[d].key
                                           /\ conns'[d].resp = conns[d].resp
               /\ d # c => conns'[d] = conns[d]
                           \/ (conns[d].left /\ conns'[d].left /\ conns'[d].pc = "done")
               /\ d = c => conns'[d].left
    <2>1. CASE d = c
      <3>1. CASE conns'[c] = cn
        BY <1>1, <1>2, <2>1, <3>1
      <3>2. CASE conns'[c] # cn
        <4>1. Follows(c, cn)
          BY <1>4
        <4>2. cn.pc = "done" /\ conns'[c].pc = "done" /\ conns'[c].left
          BY <3>2, <4>1 DEF Follows
        <4> QED
          BY <1>2, <2>1, <4>2
      <3> QED
        BY <3>1, <3>2
    <2>2. CASE d # c
      <3>1. Follows(d, conns[d])
        BY <1>4, <2>2
      <3> QED
        BY <2>2, <3>1 DEF Follows
    <2> QED
      BY <2>1, <2>2
  <1>6. ServerTypeOK' /\ ThreadsInv'
    BY <1>0, <1>1, <1>4, <1>5
    DEF HangsUp, ServerTypeOK, Connections, PhoneStates, ThreadsInv
  <1>7. LinkInv'
    <2>1. \A q \in Phones : phones'[q].conn # None =>
            LET x == conns'[phones'[q].conn] IN x.phone = q /\ ~x.left /\ x.pc # "none"
      BY <1>0, <1>1, <1>5 DEF LinkInv, PhoneStates
    <2>2. \A d \in Conns : conns'[d].pc # "none" /\ ~conns'[d].left =>
            conns'[d].phone \in Phones /\ phones'[conns'[d].phone].conn = d
      BY <1>0, <1>1, <1>5 DEF LinkInv
    <2>3. \A d \in Conns : conns'[d].pc \notin {"none", "done"} => conns'[d].phone \in Phones
      BY <1>0, <1>5 DEF LinkInv
    <2>4. \A d \in Conns : conns'[d].pc \in {"queued", "new", "read", "serve"} =>
            conns'[d].resp = "none"
      BY <1>0, <1>5 DEF LinkInv
    <2> QED
      BY <2>1, <2>2, <2>3, <2>4 DEF LinkInv
  <1>8. CountInv'
    BY <1>0, <1>1, <1>5, CountMoves DEF Active, Started
  <1>9. \A q \in Phones, d \in Conns : (Storing(q, d)' <=> Storing(q, d))
    BY <1>5 DEF Storing
  <1>10. \A q \in Phones \ {p}, d \in Conns : (Receiving(q, d)' <=> Receiving(q, d))
    BY <1>0, <1>1, <1>5 DEF Receiving, LinkInv, None, Conns
  <1>11. /\ \A d \in Conns : ~Receiving(p, d)'
         /\ \A d \in Conns \ {c} : ~Receiving(p, d)
    BY <1>1 DEF Receiving, None, Conns
  <1> QED
    BY <1>1, <1>6, <1>7, <1>8, <1>9, <1>10, <1>11

LEMMA ReceiveKeeps ==
    ASSUME Core, NEW p \in Phones, Receive(p)
    PROVE  Core'
  <1> DEFINE c == phones[p].conn
  <1>0. AgreeInv /\ c \in Conns /\ phones \in [Phones -> PhoneStates]
    BY DEF Core, ServerTypeOK, PhoneStates, Receive
  <1>1. /\ phones' = [phones EXCEPT ![p].conn = None,
                                    ![p].paired = IF conns[c].resp = "data" THEN c ELSE @]
        /\ Update(c, [conns[c] EXCEPT !.left = TRUE]) /\ c # None
        /\ UNCHANGED <<server, stored, excused>>
    BY DEF Receive
  <1>2. /\ phones' \in [Phones -> PhoneStates] /\ phones'[p].conn = None
        /\ phones'[p].paired = IF conns[c].resp = "data" THEN c ELSE phones[p].paired
        /\ \A q \in Phones \ {p} : phones'[q] = phones[q]
    <2> DEFINE ph == [phones[p] EXCEPT !.conn = None,
                                      !.paired = IF conns[c].resp = "data" THEN c ELSE @]
    <2>1. phones[p] \in PhoneStates
      BY <1>0
    <2>2. /\ ph \in PhoneStates /\ ph.conn = None
          /\ ph.paired = IF conns[c].resp = "data" THEN c ELSE phones[p].paired
      BY <1>0, <2>1 DEF PhoneStates
    <2>3. phones' = [phones EXCEPT ![p] = ph]
      BY <1>0, <1>1
    <2> HIDE DEF ph
    <2> QED
      BY <1>0, <2>2, <2>3
  <1>3. HangsUp(p, c)
    BY <1>1, <1>2 DEF HangsUp
  <1>4. Receiving(p, c) <=> conns[c].resp = "data"
    BY DEF Receiving
  <1> HIDE DEF c
  <1>5. /\ ServerTypeOK' /\ ThreadsInv' /\ LinkInv' /\ CountInv'
        /\ \A q \in Phones, d \in Conns : (Storing(q, d)' <=> Storing(q, d))
        /\ \A q \in Phones \ {p}, d \in Conns : (Receiving(q, d)' <=> Receiving(q, d))
        /\ \A d \in Conns : ~Receiving(p, d)'
        /\ \A d \in Conns \ {c} : ~Receiving(p, d)
    <2>1. excused' \subseteq Phones
      BY <1>1 DEF Core, ServerTypeOK
    <2> QED
      BY <1>0, <1>1, <1>3, <2>1, HangUp
  <1>6. ASSUME NEW q \in Phones \ excused'
        PROVE  /\ \A d, e \in Conns : UnderWay(q, d)' /\ UnderWay(q, e)' => d = e
               /\ (\A d \in Conns : ~UnderWay(q, d)') => stored'[q] = phones'[q].paired
               /\ \A d \in Conns :
                    /\ Storing(q, d)' /\ Receiving(q, d)' => stored'[q] = phones'[q].paired
                    /\ Storing(q, d)' /\ ~Receiving(q, d)' => phones'[q].paired = d
                    /\ Receiving(q, d)' /\ ~Storing(q, d)' => stored'[q] = d
    <2>0. q \in Phones \ excused /\ stored' = stored
      BY <1>1, <1>6
    <2>1. CASE q # p
      BY <1>0, <1>2, <1>5, <2>0, <2>1 DEF AgreeInv, UnderWay
    <2>2. CASE q = p /\ Receiving(p, c)
      BY <1>0, <1>2, <1>4, <1>5, <2>0, <2>2 DEF AgreeInv, UnderWay
    <2>3. CASE q = p /\ ~Receiving(p, c)
      BY <1>0, <1>2, <1>4, <1>5, <2>0, <2>3 DEF AgreeInv, UnderWay
    <2> QED
      BY <2>1, <2>2, <2>3
  <1>7. AgreeInv'
    BY <1>6 DEF AgreeInv
  <1> QED
    BY <1>5, <1>7 DEF Core

LEMMA LeaveKeeps ==
    ASSUME Core, NEW p \in Phones, Leave(p)
    PROVE  Core'
  <1> DEFINE c == phones[p].conn
  <1>0. AgreeInv /\ c \in Conns /\ phones \in [Phones -> PhoneStates] /\ excused \subseteq Phones
    BY DEF Core, ServerTypeOK, PhoneStates, Leave
  <1>1. /\ phones' = [phones EXCEPT ![p].conn = None] /\ c # None
        /\ Update(c, [conns[c] EXCEPT !.left = TRUE])
        /\ excused' = IF conns[c].resp = "data" THEN excused \cup {p} ELSE excused
        /\ UNCHANGED <<server, stored>>
    BY DEF Leave
  <1>2. /\ phones' \in [Phones -> PhoneStates] /\ phones'[p].conn = None
        /\ phones'[p].paired = phones[p].paired
        /\ \A q \in Phones \ {p} : phones'[q] = phones[q]
    BY <1>0, <1>1 DEF PhoneStates
  <1>3. HangsUp(p, c)
    BY <1>1, <1>2 DEF HangsUp
  <1>4. Receiving(p, c) <=> conns[c].resp = "data"
    BY DEF Receiving
  <1> HIDE DEF c
  <1>5. /\ ServerTypeOK' /\ ThreadsInv' /\ LinkInv' /\ CountInv'
        /\ \A q \in Phones, d \in Conns : (Storing(q, d)' <=> Storing(q, d))
        /\ \A q \in Phones \ {p}, d \in Conns : (Receiving(q, d)' <=> Receiving(q, d))
        /\ \A d \in Conns : ~Receiving(p, d)'
        /\ \A d \in Conns \ {c} : ~Receiving(p, d)
    BY <1>0, <1>1, <1>3, HangUp
  <1>6. ASSUME NEW q \in Phones \ excused'
        PROVE  /\ \A d, e \in Conns : UnderWay(q, d)' /\ UnderWay(q, e)' => d = e
               /\ (\A d \in Conns : ~UnderWay(q, d)') => stored'[q] = phones'[q].paired
               /\ \A d \in Conns :
                    /\ Storing(q, d)' /\ Receiving(q, d)' => stored'[q] = phones'[q].paired
                    /\ Storing(q, d)' /\ ~Receiving(q, d)' => phones'[q].paired = d
                    /\ Receiving(q, d)' /\ ~Storing(q, d)' => stored'[q] = d
    <2>0. q \in Phones \ excused /\ stored' = stored /\ (q = p => ~Receiving(p, c))
      BY <1>1, <1>4, <1>6
    <2>1. phones'[q].paired = phones[q].paired
      BY <1>2
    <2>2. \A d \in Conns : Receiving(q, d)' <=> Receiving(q, d)
      BY <1>5, <2>0
    <2> QED
      BY <1>0, <1>5, <2>0, <2>1, <2>2 DEF AgreeInv, UnderWay
  <1>7. AgreeInv'
    BY <1>6 DEF AgreeInv
  <1> QED
    BY <1>5, <1>7 DEF Core

-----------------------------------------------------------------------------
\* What the form does

FormTypeOK ==
    /\ method \in {"UDP", "BLUETOOTH"} /\ legacy \in BOOLEAN
    /\ ui \in {"main", "page", "join"}
    /\ {beacon, session} \subseteq Sessions \cup {None} /\ sessions \in 0..MaxSessions

FormInv == FormTypeOK /\ StackInv /\ PageInv

LEMMA Depths ==
    /\ Depth \in [Steps -> 0..5]
    /\ Depth["USER_PASSWORD_SELECT"] = 0 /\ Depth["METHOD_TYPE_SELECT"] = 1
    /\ Depth["METHOD_SELECT"] = 2 /\ Depth["BLUETOOTH_DEVICE_SELECT"] = 3
    /\ Depth["BLUETOOTH_PAIRING"] = 4 /\ Depth["QR_SCAN"] = 4 /\ Depth["NONE"] = 5
  BY DEF Depth, Steps

LEMMA Pushed ==
    ASSUME NEW S, NEW x \in S, NEW st \in Seq(S)
    PROVE  /\ <<x>> \o st \in Seq(S) /\ Len(<<x>> \o st) = Len(st) + 1
           /\ (<<x>> \o st)[1] = x
           /\ \A i \in 2..Len(st) + 1 : (<<x>> \o st)[i] = st[i - 1]
  OBVIOUS

LEMMA Popped ==
    ASSUME NEW S, NEW st \in Seq(S), st # <<>>
    PROVE  /\ Head(st) = st[1] /\ Head(st) \in S /\ Tail(st) \in Seq(S)
           /\ Len(Tail(st)) = Len(st) - 1 /\ Len(st) \in Nat \ {0}
           /\ \A i \in 1..Len(st) - 1 : Tail(st)[i] = st[i + 1]
  OBVIOUS

\* A page can be left, and its server with it.
LEMMA UpdateStepFormKeeps ==
    ASSUME Core, UpdateStepForm
    PROVE  Core' /\ server'.pc = server.pc
  <1>1. server \in Servers /\ UNCHANGED <<conns, phones, stored, excused>>
    BY DEF Core, ServerTypeOK, Servers, UpdateStepForm
  <1>2. /\ server' \in Servers /\ server'.num = server.num /\ server'.key = server.key
        /\ server'.pc = server.pc
    BY <1>1 DEF UpdateStepForm, Servers
  <1> QED
    BY <1>1, <1>2, ServerChanges DEF Core, ThreadsInv

LEMMA NextClickKeeps ==
    ASSUME Core, FormInv, OnNextClicked, sessions = MaxSessions => step = "QR_SCAN"
    PROVE  Core' /\ FormInv'
  <1>0. /\ FormTypeOK /\ StackInv /\ PageInv /\ step \in Steps \ {"NONE"}
        /\ UpdateStepForm /\ ui' = "join" /\ step' = GetNextStep /\ method' = method
        /\ stepStack' = IF step = "BLUETOOTH_PAIRING" THEN stepStack ELSE <<step>> \o stepStack
    BY DEF FormInv, StackInv, OnNextClicked, UpdateStepForm
  <1>1. Core' /\ server'.pc = server.pc
    BY <1>0, UpdateStepFormKeeps
  <1>2. FormTypeOK'
    BY <1>0 DEF FormTypeOK, UpdateStepForm
  <1>3. /\ step' \in Steps
        /\ step' = "QR_SCAN" => step \in {"METHOD_SELECT", "BLUETOOTH_PAIRING"}
        /\ step = "QR_SCAN" => step' = "NONE"
        /\ step = "BLUETOOTH_PAIRING" => Depth[step] <= Depth[step']
        /\ step # "BLUETOOTH_PAIRING" => Depth[step] + 1 <= Depth[step']
    BY <1>0, Depths DEF GetNextStep, Steps
  <1>4. PageInv'
    <2>1. ui' = "join" /\ sessions' = sessions
      BY <1>0 DEF UpdateStepForm
    <2>2. ASSUME step' = "QR_SCAN" PROVE sessions < MaxSessions
      <3>1. sessions # MaxSessions
        BY <1>3, <2>2
      <3> QED
        BY <1>0, <3>1, PairingAssumption DEF FormTypeOK
    <2> QED
      BY <2>1, <2>2 DEF PageInv
  <1>5. StackInv'
    <2>1. CASE step = "BLUETOOTH_PAIRING"
      <3>1. stepStack' = stepStack /\ stepStack # <<>>
        BY <1>0, <2>1 DEF StackInv
      <3>2. Len(stepStack) <= Depth[step']
        BY <1>0, <1>3, <2>1, Depths DEF StackInv
      <3>3. \A i \in 1..Len(stepStack) : stepStack[i] # "QR_SCAN"
        BY <1>0, <2>1 DEF StackInv
      <3> QED
        BY <1>0, <1>3, <3>1, <3>2, <3>3 DEF StackInv
    <2>2. CASE step # "BLUETOOTH_PAIRING"
      <3>1. stepStack' = <<step>> \o stepStack /\ stepStack \in Seq(Steps)
        BY <1>0, <2>2 DEF StackInv
      <3>2. /\ stepStack' \in Seq(Steps) /\ Len(stepStack') = Len(stepStack) + 1
            /\ stepStack'[1] = step
            /\ \A i \in 2..Len(stepStack) + 1 : stepStack'[i] = stepStack[i - 1]
        BY <1>0, <3>1, Pushed
      <3>3. Len(stepStack') <= Depth[step']
        <4>1. Depth[step] \in 0..5 /\ Depth[step'] \in 0..5
          BY <1>0, <1>3, Depths
        <4>2. Len(stepStack) \in Nat /\ Len(stepStack) <= Depth[step]
          BY <1>0, <3>1 DEF StackInv
        <4>3. Depth[step] + 1 <= Depth[step']
          BY <1>3, <2>2
        <4> QED
          BY <3>2, <4>1, <4>2, <4>3
      <3>4. ASSUME NEW i \in 1..Len(stepStack')
            PROVE  /\ Len(stepStack') - i <= Depth[stepStack'[i]]
                   /\ stepStack'[i] = "QR_SCAN" => step' = "NONE"
        <4>1. CASE i = 1
          BY <1>0, <1>3, <3>2, <4>1 DEF StackInv
        <4>2. CASE i # 1
          <5>1. /\ i - 1 \in 1..Len(stepStack) /\ stepStack'[i] = stepStack[i - 1]
                /\ Len(stepStack') - i = Len(stepStack) - (i - 1)
            BY <3>1, <3>2, <3>4, <4>2
          <5>2. stepStack[i - 1] # "QR_SCAN"
            BY <1>0, <5>1 DEF StackInv
          <5> QED
            BY <1>0, <5>1, <5>2 DEF StackInv
        <4> QED
          BY <4>1, <4>2
      <3>5. stepStack' # <<>> /\ stepStack'[Len(stepStack')] = "USER_PASSWORD_SELECT"
        <4>1. CASE stepStack = <<>>
          BY <1>0, <3>1, <3>2, <4>1 DEF StackInv
        <4>2. CASE stepStack # <<>>
          <5>1. Len(stepStack) \in Nat \ {0}
            BY <3>1, <4>2, Popped
          <5> QED
            BY <1>0, <3>2, <4>2, <5>1 DEF StackInv
        <4> QED
          BY <4>1, <4>2
      <3> QED
        BY <1>0, <1>3, <3>2, <3>3, <3>4, <3>5 DEF StackInv
    <2> QED
      BY <2>1, <2>2
  <1> QED
    BY <1>1, <1>2, <1>4, <1>5 DEF FormInv

LEMMA BackClickKeeps ==
    ASSUME Core, FormInv, OnBackClicked
    PROVE  Core' /\ FormInv'
  <1>0. /\ FormTypeOK /\ StackInv /\ PageInv /\ step \in Steps \ {"NONE"} /\ ui = "page"
        /\ method' = method /\ stepStack \in Seq(Steps)
    BY DEF FormInv, StackInv, OnBackClicked
  <1>1. CASE stepStack = <<>>
    <2>1. ui' = "main" /\ UNCHANGED <<step, stepStack, legacy, beacon, session, sessions, svars>>
      BY <1>1 DEF OnBackClicked
    <2>2. Core'
      BY <2>1 DEF svars, Core, ServerTypeOK, CountInv, Active, Started, ThreadsInv, LinkInv,
                  AgreeInv, UnderWay, Storing, Receiving
    <2>3. FormTypeOK' /\ StackInv'
      BY <1>0, <2>1 DEF FormTypeOK, StackInv
    <2>4. PageInv'
      BY <1>0, <1>1, <2>1 DEF PageInv, StackInv, svars
    <2> QED
      BY <2>2, <2>3, <2>4 DEF FormInv
  <1>2. CASE stepStack # <<>>
    <2>1. /\ step' = Head(stepStack) /\ stepStack' = Tail(stepStack)
          /\ UpdateStepForm /\ ui' = "join"
      BY <1>2 DEF OnBackClicked, UpdateStepForm
    <2>2. /\ step' = stepStack[1] /\ step' \in Steps /\ stepStack' \in Seq(Steps)
          /\ Len(stepStack') = Len(stepStack) - 1 /\ Len(stepStack) \in Nat \ {0}
          /\ \A i \in 1..Len(stepStack) - 1 : stepStack'[i] = stepStack[i + 1]
      BY <1>0, <1>2, <2>1, Popped
    <2>3. Core' /\ server'.pc = server.pc
      BY <2>1, UpdateStepFormKeeps
    <2>4. step' # "QR_SCAN" /\ Len(stepStack') <= Depth[step']
      BY <1>0, <2>2 DEF StackInv
    <2>5. FormTypeOK' /\ PageInv'
      BY <1>0, <2>1, <2>4 DEF FormTypeOK, PageInv, UpdateStepForm, None
    <2>6. ASSUME NEW i \in 1..Len(stepStack')
          PROVE  /\ Len(stepStack') - i <= Depth[stepStack'[i]]
                 /\ stepStack'[i] # "QR_SCAN"
      <3>1. /\ i + 1 \in 1..Len(stepStack) /\ stepStack'[i] = stepStack[i + 1]
            /\ Len(stepStack') - i = Len(stepStack) - (i + 1)
        BY <2>2, <2>6
      <3> QED
        BY <1>0, <3>1 DEF StackInv
    <2>7. /\ stepStack' = <<>> => step' = "USER_PASSWORD_SELECT"
          /\ stepStack' # <<>> => stepStack'[Len(stepStack')] = "USER_PASSWORD_SELECT"
      <3>1. stepStack[Len(stepStack)] = "USER_PASSWORD_SELECT"
        BY <1>0, <1>2 DEF StackInv
      <3>2. stepStack' # <<>> => Len(stepStack') \in Nat \ {0}
        BY <2>2, Popped
      <3> QED
        BY <2>2, <3>1, <3>2
    <2>8. StackInv'
      BY <2>1, <2>2, <2>4, <2>6, <2>7 DEF StackInv
    <2> QED
      BY <2>3, <2>5, <2>8 DEF FormInv
  <1> QED
    BY <1>1, <1>2

LEMMA UnchangedKeeps ==
    ASSUME Core, UNCHANGED svars
    PROVE  Core'
  BY DEF svars, Core, ServerTypeOK, CountInv, Active, Started, ThreadsInv, LinkInv,
         AgreeInv, UnderWay, Storing, Receiving

LEMMA ShowKeeps ==
    ASSUME Core, FormInv, Show
    PROVE  Core' /\ FormInv'
  <1>0. /\ FormTypeOK /\ StackInv /\ PageInv /\ ui = "main" /\ ui' = "page"
        /\ step' = "USER_PASSWORD_SELECT" /\ stepStack' = <<>>
        /\ method' = "UDP" /\ legacy' = FALSE
        /\ UNCHANGED <<beacon, session, sessions, svars>>
    BY DEF FormInv, Show
  <1>1. Core'
    BY <1>0, UnchangedKeeps
  <1>2. FormTypeOK'
    BY <1>0 DEF FormTypeOK
  <1>3. StackInv'
    BY <1>0, Depths DEF StackInv, Steps
  <1>4. PageInv'
    BY <1>0 DEF PageInv, svars
  <1> QED
    BY <1>1, <1>2, <1>3, <1>4 DEF FormInv

LEMMA SetDataKeeps ==
    ASSUME Core, FormInv, SetData
    PROVE  Core' /\ FormInv'
  <1>0. /\ FormTypeOK /\ StackInv /\ PageInv
        /\ method' \in {"UDP", "BLUETOOTH"} /\ legacy' \in BOOLEAN
        /\ UNCHANGED <<step, stepStack, ui, beacon, session, sessions, svars>>
    BY DEF FormInv, FormTypeOK, SetData
  <1>1. Core'
    BY <1>0, UnchangedKeeps
  <1>2. FormTypeOK' /\ StackInv' /\ PageInv'
    BY <1>0 DEF FormTypeOK, StackInv, PageInv, svars
  <1> QED
    BY <1>1, <1>2 DEF FormInv

\* The page of the new step, when the server has ended: the QR page has a server of
\* its own, which no thread of an earlier one can serve.
LEMMA StoppedKeeps ==
    ASSUME Core, FormInv, Stopped
    PROVE  Core' /\ FormInv'
  <1>0. /\ FormTypeOK /\ StackInv /\ PageInv /\ ServerTypeOK /\ ThreadsInv /\ server \in Servers
        /\ ui = "join" /\ server.pc = "ended" /\ step \in Steps
        /\ method' = IF step = "METHOD_SELECT" THEN "UDP" ELSE method
        /\ ui' = IF step = "NONE" THEN "main" ELSE "page"
        /\ UNCHANGED <<step, stepStack, legacy, conns, phones, stored, excused>>
    BY DEF Core, FormInv, ServerTypeOK, Servers, StackInv, Stopped, ServerEnded
  <1>1. \A c \in Conns : conns[c].pc \in {"none", "done"}
    BY <1>0 DEF ThreadsInv
  <1>2. StackInv'
    BY <1>0 DEF StackInv
  <1>3. CASE step = "QR_SCAN"
    <2>1. /\ sessions' = sessions + 1 /\ session' = sessions + 1
          /\ server' = [NoServer EXCEPT !.isRunning = TRUE, !.key = sessions + 1, !.pc = "start"]
          /\ beacon' = IF legacy THEN None ELSE sessions + 1
      BY <1>3 DEF Stopped
    <2>2. sessions + 1 \in Sessions
      BY <1>0, <1>3, PairingAssumption DEF FormTypeOK, PageInv, Sessions
    <2>3. server' \in Servers /\ server'.num = 0 /\ server'.key = sessions + 1 /\ server'.pc = "start"
      <3>1. server' = [socket |-> "none", isRunning |-> TRUE, num |-> 0,
                       key |-> sessions + 1, pc |-> "start"]
        BY <2>1 DEF NoServer
      <3>2. 0 \in 0..MaxConns
        BY PairingAssumption
      <3> QED
        BY <2>2, <3>1, <3>2 DEF Servers
    <2>4. ServerTypeOK' /\ ThreadsInv' /\ LinkInv'
      <3>1. ServerTypeOK'
        BY <1>0, <2>3 DEF ServerTypeOK, Servers, Conns, Sessions
      <3>2. ThreadsInv' /\ LinkInv'
        BY <1>0, <1>1, <2>3 DEF Core, ThreadsInv, LinkInv
      <3> QED
        BY <3>1, <3>2
    <2>5. CountInv'
      <3>1. Active' = {}
        BY <1>0, <1>1 DEF Active
      <3>2. Started' \in SUBSET Conns
        BY DEF Started, Conns
      <3>3. Cardinality(Active') = 0 /\ Cardinality(Started') \in 0..MaxConns
        BY <3>1, <3>2, Counts, FS_EmptySet
      <3> QED
        BY <2>3, <3>3, PairingAssumption DEF CountInv
    <2>6. AgreeInv'
      BY <1>0, AgreeSame DEF Core, Storing, Receiving
    <2>7. FormTypeOK'
      BY <1>0, <1>3, <2>1, <2>2, PairingAssumption DEF FormTypeOK, Sessions
    <2>8. PageInv'
      BY <1>0, <1>3, <2>1, <2>3 DEF PageInv
    <2> QED
      BY <1>2, <2>4, <2>5, <2>6, <2>7, <2>8 DEF Core, FormInv
  <1>4. CASE step # "QR_SCAN"
    <2>1. /\ server' = [server EXCEPT !.isRunning = FALSE] /\ beacon' = None
          /\ UNCHANGED <<session, sessions>>
      BY <1>4 DEF Stopped
    <2>2. /\ server' \in Servers /\ server'.num = server.num /\ server'.key = server.key
          /\ server'.pc = "ended"
      BY <1>0, <2>1 DEF Servers
    <2>3. Core'
      BY <1>0, <1>1, <2>2, ServerChanges
    <2>4. FormTypeOK' /\ PageInv'
      BY <1>0, <1>4, <2>1, <2>2 DEF FormTypeOK, PageInv
    <2> QED
      BY <1>2, <2>3, <2>4 DEF FormInv
  <1> QED
    BY <1>3, <1>4

LEMMA ScanKeeps ==
    ASSUME Core, FormInv, NEW p \in Phones, Scan(p)
    PROVE  Core' /\ FormInv'
  <1>0. /\ FormTypeOK /\ ServerTypeOK /\ ThreadsInv /\ LinkInv /\ CountInv
        /\ phones \in [Phones -> PhoneStates]
        /\ phones' = [phones EXCEPT ![p].code = session, ![p].legacy = legacy]
        /\ UNCHANGED <<form, server, conns, stored, excused>>
    BY DEF Core, FormInv, ServerTypeOK, PhoneStates, Scan
  <1>1. session \in Sessions \cup {None} /\ legacy \in BOOLEAN
    BY <1>0 DEF FormTypeOK
  <1>2. /\ phones' \in [Phones -> PhoneStates]
        /\ \A q \in Phones : phones'[q].conn = phones[q].conn
                             /\ phones'[q].paired = phones[q].paired
    BY <1>0, <1>1 DEF PhoneStates
  <1>3. ServerTypeOK' /\ ThreadsInv' /\ LinkInv'
    BY <1>0, <1>2 DEF ServerTypeOK, PhoneStates, ThreadsInv, LinkInv, Conns, Sessions
  <1>4. CountInv'
    BY <1>0 DEF CountInv, Active, Started
  <1>5. AgreeInv'
    BY <1>0, <1>2, AgreeSame DEF Core, Storing, Receiving
  <1>6. FormInv'
    BY <1>0 DEF FormInv, FormTypeOK, StackInv, PageInv, form
  <1> QED
    BY <1>3, <1>4, <1>5, <1>6 DEF Core

\* The form stays as it is while the server and the phones go on.
LEMMA FormStays ==
    ASSUME FormInv, UNCHANGED form, server'.key = server.key,
           server.pc = "ended" => server'.pc = "ended"
    PROVE  FormInv'
  BY DEF FormInv, FormTypeOK, StackInv, PageInv, form

-----------------------------------------------------------------------------
\* The invariant

LEMMA PairingInvInit == Init => Core /\ FormInv
  <1> SUFFICES ASSUME Init PROVE Core /\ FormInv
    OBVIOUS
  <1>0. /\ ServerInit /\ MaxConns \in Nat /\ MaxSessions \in Nat
        /\ step = "USER_PASSWORD_SELECT" /\ stepStack = <<>>
        /\ method = "UDP" /\ legacy = FALSE
        /\ ui = "main" /\ beacon = None /\ session = None /\ sessions = 0
    BY PairingAssumption DEF Init
  <1>1. /\ server = NoServer /\ excused = {}
        /\ \A c \in Conns : conns[c] = NoConn
        /\ \A p \in Phones : phones[p] = NewPhone /\ stored[p] = None
    BY <1>0 DEF ServerInit
  <1>2. NoServer \in Servers /\ NoConn \in Connections /\ NewPhone \in PhoneStates
    BY <1>0 DEF NoServer, NoConn, NewPhone, Servers, Connections, PhoneStates, None
  <1>3. ServerTypeOK
    BY <1>0, <1>1, <1>2 DEF ServerInit, ServerTypeOK, Servers, Connections, PhoneStates
  <1>4. ThreadsInv /\ LinkInv
    BY <1>1 DEF ThreadsInv, LinkInv, NoServer, NoConn, NewPhone, None
  <1>5. CountInv
    <2>1. Active = {} /\ Started = {}
      BY <1>1 DEF Active, Started, NoConn
    <2>2. Cardinality(Active) = 0 /\ Cardinality(Started) = 0 /\ server.num = 0
      BY <1>1, <2>1, FS_EmptySet DEF NoServer
    <2> QED
      BY <2>2 DEF CountInv
  <1>6. AgreeInv
    BY <1>1 DEF AgreeInv, UnderWay, Storing, Receiving, NoConn, NewPhone, None
  <1>7. FormTypeOK /\ PageInv
    <2>1. 0 \in 0..MaxSessions
      BY <1>0
    <2>2. FormTypeOK
      BY <1>0, <2>1 DEF FormTypeOK
    <2>3. PageInv
      BY <1>0, <1>1 DEF PageInv, NoServer
    <2> QED
      BY <2>2, <2>3
  <1>8. StackInv
    BY <1>0, Depths DEF StackInv, Steps
  <1> QED
    BY <1>3, <1>4, <1>5, <1>6, <1>7, <1>8 DEF Core, FormInv

LEMMA PairingInvStep == Core /\ FormInv /\ [Next]_vars => Core' /\ FormInv'
  <1> SUFFICES ASSUME Core, FormInv, [Next]_vars PROVE Core' /\ FormInv'
    OBVIOUS
  <1>1. CASE UNCHANGED vars
    <2>1. UNCHANGED svars /\ UNCHANGED form /\ server' = server
      BY <1>1 DEF vars, svars
    <2> QED
      BY <2>1, UnchangedKeeps, FormStays
  <1>2. CASE User
    BY <1>2, ShowKeeps, SetDataKeeps, NextClickKeeps, BackClickKeeps DEF User
  <1>3. CASE Stopped
    BY <1>3, StoppedKeeps
  <1>4. CASE AcceptThread /\ UNCHANGED form
    BY <1>4, AcceptKeeps, FormStays
  <1>5. ASSUME NEW c \in Conns, ClientThread(c), UNCHANGED form
        PROVE  Core' /\ FormInv'
    <2>1. server \in Servers
      BY DEF Core, ServerTypeOK, Servers
    <2>2. server'.key = server.key /\ server'.pc = server.pc
      BY <1>5, <2>1 DEF ClientThread, ClientStart, ClientRead, ClientServe, ClientStore,
                        ClientLeave, Servers
    <2> QED
      BY <1>5, <2>2, ClientKeeps, FormStays
  <1>6. ASSUME NEW p \in Phones, Scan(p)
        PROVE  Core' /\ FormInv'
    BY <1>6, ScanKeeps
  <1>7. ASSUME NEW p \in Phones, Phone(p, beacon), UNCHANGED form
        PROVE  Core' /\ FormInv'
    <2>1. Core'
      BY <1>7, DialKeeps, ReceiveKeeps, LeaveKeeps DEF Phone
    <2>2. server' = server
      BY <1>7 DEF Phone, Dial, Receive, Leave
    <2> QED
      BY <1>7, <2>1, <2>2, FormStays
  <1> QED
    BY <1>1, <1>2, <1>3, <1>4, <1>5, <1>6, <1>7 DEF Next, ServerThreads

LEMMA PairingInvariant == Spec => [](Core /\ FormInv)
  <1> QED
    BY PairingInvInit, PairingInvStep, PTL DEF Spec

\* The count of client threads (m_NumConnections) never leaves 0..MaxConns, and the
\* assistant never has more than five pages to go back to.
THEOREM PairingTypes == Spec => []TypeOK
  <1>1. Core /\ FormInv => TypeOK
    <2> SUFFICES ASSUME Core, FormInv PROVE TypeOK
      OBVIOUS
    <2>1. ServerTypeOK /\ FormTypeOK /\ StackInv
      BY DEF Core, FormInv
    <2>2. Depth[step] \in 0..5 /\ Len(stepStack) \in Nat /\ Len(stepStack) <= Depth[step]
      BY <2>1, Depths DEF StackInv
    <2>3. Len(stepStack) <= 5
      BY <2>2
    <2> QED
      BY <2>1, <2>3 DEF FormTypeOK, StackInv, TypeOK
  <1> QED
    BY <1>1, PairingInvariant, PTL

\* However the answers of ClientThread, its saves, and the phones' timeouts and
\* retries interleave over any sessions: a phone that lost no answer, whose device
\* was saved, and of which no two connections were stored at once, holds the key
\* that the PC holds.
THEOREM PairingAgreement == Spec => []KeysAgree
  <1>1. Core /\ FormInv => KeysAgree
    <2> SUFFICES ASSUME Core, FormInv, NEW p \in Phones \ excused,
                        \A c \in Conns : conns[c].phone = p => conns[c].pc # "store"
                             /\ (phones[p].conn = c => conns[c].resp # "data")
                 PROVE  stored[p] = phones[p].paired
      BY DEF KeysAgree
    <2>1. AgreeInv /\ LinkInv
      BY DEF Core
    <2>2. \A c \in Conns : ~Storing(p, c) /\ ~Receiving(p, c)
      BY <2>1 DEF LinkInv, Storing, Receiving, Conns, None
    <2> QED
      BY <2>1, <2>2 DEF AgreeInv, UnderWay
  <1> QED
    BY <1>1, PairingInvariant, PTL

\* ClientThread adds a device only with the key of the session that the QR page
\* shows, or that the form is about to end: no thread of an earlier session is
\* left when the page comes back.
THEOREM PairingStores == Spec => StoredOnlyInSession
  <1> DEFINE Stores ==
        \A p \in Phones : stored'[p] # stored[p] =>
            /\ conns[stored'[p]].key = server.key
            /\ ui = "join" \/ (step = "QR_SCAN" /\ session = server.key)
  <1>1. Core /\ FormInv /\ [Next]_vars => [Stores]_vars
    <2> SUFFICES ASSUME Core, FormInv, Next, NEW p \in Phones, stored'[p] # stored[p]
                 PROVE  /\ conns[stored'[p]].key = server.key
                        /\ ui = "join" \/ (step = "QR_SCAN" /\ session = server.key)
      OBVIOUS
    <2>1. PICK c \in Conns : ClientStore(c)
      <3>1. ~Show /\ ~SetData /\ ~OnNextClicked /\ ~OnBackClicked /\ ~Stopped
        BY DEF Show, SetData, OnNextClicked, OnBackClicked, UpdateStepForm, Stopped, svars
      <3>2. ~AcceptThread
        BY DEF AcceptThread, AcceptOpen, AcceptSetup, Accept, AcceptClose, AcceptJoin
      <3>3. \A q \in Phones : ~Scan(q) /\ ~Phone(q, beacon)
        BY DEF Scan, Phone, Dial, Receive, Leave
      <3>4. \A c \in Conns : ~ClientStart(c) /\ ~ClientRead(c) /\ ~ClientServe(c) /\ ~ClientLeave(c)
        BY DEF ClientStart, ClientRead, ClientServe, ClientLeave
      <3> QED
        BY <3>1, <3>2, <3>3, <3>4 DEF Next, User, ServerThreads, ClientThread
    <2>2. stored \in [Phones -> Conns \cup {None}] /\ ThreadsInv /\ PageInv
      BY DEF Core, ServerTypeOK, FormInv
    <2>3. stored'[p] = c /\ conns[c].pc = "store"
      BY <2>1, <2>2 DEF ClientStore
    <2>4. conns[c].key = server.key /\ server.pc # "ended"
      BY <2>2, <2>3 DEF ThreadsInv
    <2> QED
      BY <2>2, <2>3, <2>4 DEF PageInv
  <1> QED
    BY <1>1, PairingInvariant, PTL DEF Spec, StoredOnlyInSession
=============================================================================
