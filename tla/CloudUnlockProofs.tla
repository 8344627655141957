-------------------------- MODULE CloudUnlockProofs --------------------------
(***************************************************************************)
(* For any attempts, PCs, faults, deaths of the phone's process and bounds *)
(* of its memory: what is approved too late does not unlock; below, that   *)
(* an answer is found, that the user is asked once, and that an attempt is *)
(* decided once.                                                           *)
(*                                                                         *)
(* The approval and the request it is for meet again only by the id that   *)
(* the relay has minted; the row itself may be gone by then.  The proof    *)
(* keeps a book of what has been minted: the token and the expiry of every *)
(* id, with which all copies of them agree.                                *)
(***************************************************************************)
EXTENDS CloudUnlock, TLAPS

Challenges == [token : Attempts, time : Nat]
Items(n) == [id : 1..n, token : Attempts, ok : BOOLEAN]

\* An answer is a refusal, or stems from an approval in time for a request with the
\* answer's token that has been answered: acc are the requests answered, at[a] is
\* when attempt a was approved.
Justified(answer, acc, at) ==
    \/ answer = Refusal
    \/ \E x \in acc, token \in Attempts, t \in Nat :
          /\ answer = Approval(token, t)
          /\ x.request.payload.token = token
          /\ at[token] \in 1..x.request.expires

RowOK(m, acc, at) ==
    /\ DOMAIN m = {"id", "direction", "request", "payload", "created", "expires", "consumed"}
    /\ m.created \in Nat
    /\ m.direction = "pc_to_phone" => m.payload \in Challenges
    /\ m.direction = "phone_to_pc" => Justified(m.payload, acc, at)

CallOK(call, t, n, acc, at) ==
    /\ call.phase = "sent" /\ call.op = "request" => call.arg \in Challenges
    /\ call.phase = "selected" =>
          call.t \in Nat /\ call.t <= t /\ call.row.id \in 1..n
    /\ call.phase = "selected" /\ call.op = "response" => Justified(call.row.payload, acc, at)

RelayInv ==
    /\ R!RelayTypeOK
    /\ \A m \in rows : RowOK(m, accepted, approvedAt)
    /\ \A c \in Callers : CallOK(calls[c], now, minted, accepted, approvedAt)

PcInv ==
    /\ faults \in 0..MaxFaults
    /\ thread \in [Attempts -> {"new", "create", "loop", "get", "ended", "joined"}]
    /\ running \in [Attempts -> BOOLEAN]
    /\ hasClient \in [Attempts -> BOOLEAN]
    /\ unlock \in [Attempts -> States]
    /\ requestId \in [Attempts -> 0..minted]
    /\ deadline \in [Attempts -> Nat]
    /\ LateApprovalNeverUnlocks

PhoneInv ==
    /\ lives \in 0..MaxRestarts
    /\ seen \in Seq(1..minted) /\ Len(seen) <= MaxSeen
    /\ polled = Nothing \/ polled \in [id : 1..minted, challenge : Challenges]
    /\ pending = Nothing \/ pending \in [id : 1..minted, token : Attempts]
    /\ prompt = Nothing \/ prompt \in [id : 1..minted, token : Attempts]
    /\ queue \in Seq(Items(minted))
    /\ approvedAt \in [Attempts -> 0..now + 1]
    /\ shown \subseteq 1..minted

\* A call of the phone that answers a request, approving or refusing it.
AnswersBy(token, arg, n, at) ==
    /\ arg.request \in 1..n
    /\ \/ arg.answer = Refusal
       \/ /\ \E t \in Nat : arg.answer = Approval(token[arg.request], t)
          /\ token[arg.request] \in Attempts /\ at[token[arg.request]] >= 1

\* A copy of a row of the book.
Copy(token, expiry, m, n) ==
    m.id \in 1..n /\ token[m.id] = m.payload.token /\ expiry[m.id] = m.expires

BookedCall(token, expiry, call, n, at) ==
    /\ call.phase \in {"sent", "selected"} /\ call.op = "respond" =>
          AnswersBy(token, call.arg, n, at)
    /\ call.phase = "selected" /\ call.op = "respond" =>
          /\ call.row.id = call.arg.request
          /\ Copy(token, expiry, call.row, n)
          /\ call.arg.answer = Refusal
                \/ at[token[call.row.id]] \in 1..call.row.expires

BookedItem(token, item, at) ==
    /\ token[item.id] = item.token
    /\ item.ok => at[item.token] >= 1

Book(token, expiry) ==
    /\ DOMAIN token = Nat /\ DOMAIN expiry = Nat
    /\ \A m \in R!Requests : Copy(token, expiry, m, minted)
    /\ \A x \in accepted : Copy(token, expiry, x.request, minted)
    /\ polled # Nothing => token[polled.id] = polled.challenge.token
    /\ pending # Nothing => token[pending.id] = pending.token
    /\ prompt # Nothing => token[prompt.id] = prompt.token
    /\ \A i \in DOMAIN queue : BookedItem(token, queue[i], approvedAt)
    /\ \A c \in Callers : BookedCall(token, expiry, calls[c], minted, approvedAt)

CloudInv == RelayInv /\ PcInv /\ PhoneInv /\ \E token, expiry : Book(token, expiry)

LEMMA ItemsTyped ==
    ASSUME NEW n, NEW q \in Seq(Items(n))
    PROVE  \A i \in DOMAIN q : q[i] \in Items(n)
  <1> DEFINE I == Items(n)
  <1> HIDE DEF I
  <1>1. \A i \in DOMAIN q : q[i] \in I
    <2>1. q \in Seq(I)
      BY DEF I
    <2> QED
      BY <2>1
  <1> QED
    BY <1>1 DEF I

LEMMA CloudInvImpliesTypeOK == CloudInv => TypeOK /\ LateApprovalNeverUnlocks
  <1> SUFFICES ASSUME CloudInv PROVE TypeOK /\ LateApprovalNeverUnlocks
    OBVIOUS
  <1>1. polled.id \in 0..minted /\ pending.id \in 0..minted /\ prompt.id \in 0..minted
    BY DEF CloudInv, PhoneInv, RelayInv, R!RelayTypeOK, Nothing
  <1>2. \A i \in DOMAIN queue : queue[i].id \in 1..minted
    <2>1. \A i \in DOMAIN queue : queue[i] \in Items(minted)
      BY ItemsTyped DEF CloudInv, PhoneInv
    <2> QED
      BY <2>1 DEF Items
  <1>3. R!RelayTypeOK
    BY DEF CloudInv, RelayInv
  <1>4. PcInv
    BY DEF CloudInv
  <1>5. /\ lives \in 0..MaxRestarts /\ seen \in Seq(1..minted) /\ Len(seen) <= MaxSeen
        /\ approvedAt \in [Attempts -> 0..now + 1] /\ shown \subseteq 1..minted
    BY DEF CloudInv, PhoneInv
  <1> QED
    BY <1>1, <1>2, <1>3, <1>4, <1>5 DEF PcInv, TypeOK

LEMMA CloudInvInit == Init => CloudInv
  <1> SUFFICES ASSUME Init PROVE CloudInv
    OBVIOUS
  <1>0. /\ now = 0 /\ rows = {} /\ minted = 0 /\ accepted = {}
        /\ DOMAIN calls = Callers /\ \A c \in Callers : calls[c].phase = "idle"
    BY DEF Init, R!RelayInit, R!NoCall
  <1>1. RelayInv
    BY <1>0 DEF RelayInv, R!RelayTypeOK, R!Requests, R!Responses, CallOK
  <1>2. PcInv
    BY CloudAssumption DEF Init, R!RelayInit, PcInv, LateApprovalNeverUnlocks, States
  <1>3. PhoneInv
    BY CloudAssumption DEF Init, PhoneInv, R!RelayInit, Nothing
  <1>4. Book([i \in Nat |-> 0], [i \in Nat |-> 0])
    BY <1>0 DEF Init, Book, R!Requests, BookedCall, Nothing
  <1> QED
    BY <1>1, <1>2, <1>3, <1>4 DEF CloudInv

-----------------------------------------------------------------------------
\* What is known stays true while time passes, ids are minted, answers are accepted
\* and attempts approved, each for the first time.

Later(n, n2, acc, acc2, at, at2) ==
    /\ n \in Nat /\ n2 \in Nat /\ n <= n2
    /\ acc \subseteq acc2
    /\ \A a \in Attempts : at[a] >= 1 => at2[a] = at[a]

LEMMA JustifiedStable ==
    ASSUME NEW n, NEW n2, NEW acc, NEW acc2, NEW at \in [Attempts -> Nat], NEW at2,
           Later(n, n2, acc, acc2, at, at2), NEW answer, Justified(answer, acc, at)
    PROVE  Justified(answer, acc2, at2)
  <1>1. CASE answer = Refusal
    BY <1>1 DEF Justified
  <1>2. CASE answer # Refusal
    <2>1. PICK x \in acc, token \in Attempts, t \in Nat :
               /\ answer = Approval(token, t)
               /\ x.request.payload.token = token
               /\ at[token] \in 1..x.request.expires
      BY <1>2 DEF Justified
    <2>2. at2[token] \in 1..x.request.expires
      BY <2>1 DEF Later
    <2>3. x \in acc2
      BY DEF Later
    <2> QED
      BY <2>1, <2>2, <2>3 DEF Justified
  <1> QED
    BY <1>1, <1>2

LEMMA RowStable ==
    ASSUME NEW n, NEW n2, NEW acc, NEW acc2, NEW at \in [Attempts -> Nat], NEW at2,
           Later(n, n2, acc, acc2, at, at2), NEW m, RowOK(m, acc, at)
    PROVE  RowOK(m, acc2, at2)
  BY JustifiedStable DEF RowOK

LEMMA CallStable ==
    ASSUME NEW n, NEW n2, NEW acc, NEW acc2, NEW at \in [Attempts -> Nat], NEW at2,
           Later(n, n2, acc, acc2, at, at2), NEW t \in Nat, NEW t2 \in Nat, t <= t2,
           NEW call, CallOK(call, t, n, acc, at)
    PROVE  CallOK(call, t2, n2, acc2, at2)
  <1>1. call.phase = "selected" /\ call.op = "response" =>
           Justified(call.row.payload, acc2, at2)
    BY JustifiedStable DEF CallOK
  <1> QED
    BY <1>1 DEF CallOK, Later

LEMMA BookedCallStable ==
    ASSUME NEW n, NEW n2, NEW acc, NEW acc2, NEW at \in [Attempts -> Nat], NEW at2,
           Later(n, n2, acc, acc2, at, at2),
           NEW token, NEW expiry, NEW token2, NEW expiry2,
           \A i \in 1..n : token2[i] = token[i] /\ expiry2[i] = expiry[i],
           NEW call, BookedCall(token, expiry, call, n, at)
    PROVE  BookedCall(token2, expiry2, call, n2, at2)
  <1>1. ASSUME NEW arg, AnswersBy(token, arg, n, at) PROVE AnswersBy(token2, arg, n2, at2)
    BY <1>1 DEF AnswersBy, Later
  <1>2. ASSUME NEW m, Copy(token, expiry, m, n) PROVE Copy(token2, expiry2, m, n2)
    BY <1>2 DEF Copy, Later
  <1>3. CASE call.phase = "selected" /\ call.op = "respond" /\ call.arg.answer # Refusal
    <2>1. /\ AnswersBy(token, call.arg, n, at) /\ call.row.id = call.arg.request
          /\ at[token[call.row.id]] \in 1..call.row.expires
      BY <1>3 DEF BookedCall
    <2>2. /\ token2[call.row.id] = token[call.row.id]
          /\ at2[token[call.row.id]] = at[token[call.row.id]]
      BY <1>3, <2>1 DEF AnswersBy, Later
    <2> QED
      BY <1>1, <1>2, <2>1, <2>2 DEF BookedCall
  <1> QED
    BY <1>1, <1>2, <1>3 DEF BookedCall

-----------------------------------------------------------------------------
\* The relay: what a call does to its rows

LEMMA SeqOfMore ==
    ASSUME NEW S, NEW T, S \subseteq T, NEW s \in Seq(S)
    PROVE  s \in Seq(T)
  <1>1. Len(s) \in Nat /\ s \in [1..Len(s) -> S]
    OBVIOUS
  <1>2. s \in [1..Len(s) -> T]
    BY <1>1
  <1> QED
    BY <1>1, <1>2

LEMMA Counters ==
    ASSUME CloudInv
    PROVE  /\ now \in Nat /\ minted \in Nat /\ DOMAIN calls = Callers
           /\ approvedAt \in [Attempts -> Nat]
           /\ \A c \in Callers : calls[c].phase \in {"idle", "sent", "selected"}
  <1>1. now \in Nat /\ approvedAt \in [Attempts -> 0..now + 1]
    BY DEF CloudInv, RelayInv, R!RelayTypeOK, PhoneInv
  <1>2. approvedAt \in [Attempts -> Nat]
    BY <1>1
  <1> QED
    BY <1>1, <1>2 DEF CloudInv, RelayInv, R!RelayTypeOK

LEMMA PhoneKept ==
    ASSUME CloudInv, UNCHANGED phonevars, now' \in Nat, minted' \in Nat,
           now <= now', minted <= minted'
    PROVE  PhoneInv'
  <1>1. 1..minted \subseteq 1..minted' /\ 0..now + 1 \subseteq 0..now' + 1
    BY Counters
  <1>2. seen \in Seq(1..minted') /\ queue \in Seq(Items(minted'))
    <2>1. Items(minted) \subseteq Items(minted')
      BY <1>1 DEF Items
    <2> QED
      BY <1>1, <2>1, SeqOfMore DEF CloudInv, PhoneInv
  <1>3. approvedAt \in [Attempts -> 0..now' + 1] /\ shown \subseteq 1..minted'
    BY <1>1 DEF CloudInv, PhoneInv
  <1>4. \A S, T : S \subseteq T =>
           /\ [id : S, challenge : Challenges] \subseteq [id : T, challenge : Challenges]
           /\ [id : S, token : Attempts] \subseteq [id : T, token : Attempts]
    OBVIOUS
  <1> QED
    BY <1>1, <1>2, <1>3, <1>4 DEF CloudInv, PhoneInv, phonevars

\* A call moves, and no row does.
LEMMA CallMoves ==
    ASSUME CloudInv, UNCHANGED <<now, rows, minted, accepted, phonevars>>,
           NEW c \in Callers, NEW call, calls' = [calls EXCEPT ![c] = call],
           call.phase \in {"idle", "sent", "selected"},
           CallOK(call, now, minted, accepted, approvedAt),
           \A token, expiry :
              Book(token, expiry) => BookedCall(token, expiry, call, minted, approvedAt)
    PROVE  RelayInv' /\ PhoneInv' /\ \E token, expiry : Book(token, expiry)'
  <1>1. /\ DOMAIN calls' = Callers /\ calls'[c] = call
        /\ \A d \in Callers \ {c} : calls'[d] = calls[d]
    BY Counters
  <1>2. R!RelayTypeOK'
    BY <1>1 DEF CloudInv, RelayInv, R!RelayTypeOK
  <1>3. RelayInv'
    BY <1>1, <1>2 DEF CloudInv, RelayInv, phonevars
  <1>4. PhoneInv'
    BY Counters, PhoneKept
  <1>5. PICK token, expiry : Book(token, expiry)
    BY DEF CloudInv
  <1>6. Book(token, expiry)'
    BY <1>1, <1>5 DEF Book, R!Requests, phonevars
  <1> QED
    BY <1>3, <1>4, <1>6

LEMMA CallEnds ==
    ASSUME CloudInv, UNCHANGED <<now, rows, minted, accepted, phonevars>>,
           NEW c \in Callers, R!Return(c)
    PROVE  RelayInv' /\ PhoneInv' /\ \E token, expiry : Book(token, expiry)'
  <1>1. CallOK(R!NoCall, now, minted, accepted, approvedAt)
    BY DEF CallOK, R!NoCall
  <1>2. \A token, expiry : BookedCall(token, expiry, R!NoCall, minted, approvedAt)
    BY DEF BookedCall, R!NoCall
  <1> QED
    BY <1>1, <1>2, CallMoves DEF R!Return, R!NoCall

LEMMA PcSends ==
    ASSUME CloudInv, UNCHANGED <<now, rows, minted, accepted, phonevars>>,
           NEW c \in Callers, NEW op \in {"request", "response"}, NEW arg, R!Send(c, op, arg),
           op = "request" => arg \in Challenges
    PROVE  RelayInv' /\ PhoneInv' /\ \E token, expiry : Book(token, expiry)'
  <1> DEFINE call == [phase |-> "sent", op |-> op, arg |-> arg]
  <1>1. CallOK(call, now, minted, accepted, approvedAt)
    BY DEF CallOK
  <1>2. \A token, expiry : BookedCall(token, expiry, call, minted, approvedAt)
    BY DEF BookedCall
  <1>3. calls' = [calls EXCEPT ![c] = call] /\ call.phase = "sent"
    BY DEF R!Send
  <1> HIDE DEF call
  <1> QED
    BY <1>1, <1>2, <1>3, CallMoves

\* What a SELECT found.
LEMMA RowFound ==
    ASSUME CloudInv, NEW m \in rows
    PROVE  /\ m.id \in 1..minted /\ m.created \in Nat /\ m.created <= now
           /\ m.expires = m.created + TTL /\ m.expires \in Nat
  BY CloudAssumption DEF CloudInv, RelayInv, RowOK, R!RelayTypeOK

LEMMA FindsRequest ==
    ASSUME CloudInv, UNCHANGED phonevars, NEW c \in Callers, R!FindRequest(c)
    PROVE  RelayInv' /\ PhoneInv' /\ \E token, expiry : Book(token, expiry)'
  <1>1. PICK m \in R!Requests :
           m.id = calls[c].arg.request /\ R!Open(m) /\ R!Select(c, m)
    BY DEF R!FindRequest
  <1> DEFINE call == [phase |-> "selected", op |-> calls[c].op, arg |-> calls[c].arg,
                      row |-> m, t |-> now]
  <1>2. calls' = [calls EXCEPT ![c] = call]
    BY <1>1 DEF R!Select
  <1>3. /\ calls[c].phase = "sent" /\ calls[c].op = "respond" /\ m \in rows
        /\ now \in Nat /\ m.id \in 1..minted /\ m.expires \in Nat /\ m.expires > now
    BY <1>1, RowFound, Counters DEF R!FindRequest, R!Arrived, R!Open, R!Requests
  <1>4. CallOK(call, now, minted, accepted, approvedAt)
    BY <1>3 DEF CallOK
  <1>5. ASSUME NEW token, NEW expiry, Book(token, expiry)
        PROVE  BookedCall(token, expiry, call, minted, approvedAt)
    <2>1. AnswersBy(token, calls[c].arg, minted, approvedAt)
      BY <1>3, <1>5 DEF Book, BookedCall
    <2>2. Copy(token, expiry, m, minted)
      BY <1>5 DEF Book
    <2>3. calls[c].arg.answer # Refusal => approvedAt[token[m.id]] \in 1..m.expires
      <3> SUFFICES ASSUME calls[c].arg.answer # Refusal
                   PROVE  approvedAt[token[m.id]] \in 1..m.expires
        OBVIOUS
      <3>1. token[m.id] \in Attempts /\ approvedAt[token[m.id]] >= 1
        BY <1>1, <2>1 DEF AnswersBy
      <3>2. approvedAt[token[m.id]] \in 0..now + 1
        BY <3>1 DEF CloudInv, PhoneInv
      <3> QED
        BY <1>3, <3>1, <3>2
    <2> QED
      BY <1>1, <1>3, <2>1, <2>2, <2>3 DEF BookedCall
  <1>6. call.phase = "selected" /\ UNCHANGED <<now, rows, minted, accepted>>
    BY DEF R!FindRequest
  <1> HIDE DEF call
  <1> QED
    BY <1>2, <1>4, <1>5, <1>6, CallMoves

LEMMA FindsResponse ==
    ASSUME CloudInv, UNCHANGED phonevars, NEW c \in Callers, R!FindResponse(c)
    PROVE  RelayInv' /\ PhoneInv' /\ \E token, expiry : Book(token, expiry)'
  <1>1. PICK m \in R!Responses : R!Select(c, m)
    BY DEF R!FindResponse
  <1> DEFINE call == [phase |-> "selected", op |-> calls[c].op, arg |-> calls[c].arg,
                      row |-> m, t |-> now]
  <1>2. calls' = [calls EXCEPT ![c] = call]
    BY <1>1 DEF R!Select
  <1>3. /\ calls[c].op = "response" /\ m \in rows /\ now \in Nat /\ m.id \in 1..minted
        /\ m.direction = "phone_to_pc"
    BY <1>1, RowFound, Counters DEF R!FindResponse, R!Arrived, R!Responses
  <1>4. CallOK(call, now, minted, accepted, approvedAt)
    <2>1. Justified(m.payload, accepted, approvedAt)
      BY <1>3 DEF CloudInv, RelayInv, RowOK
    <2> QED
      BY <1>3, <2>1 DEF CallOK
  <1>5. \A token, expiry : BookedCall(token, expiry, call, minted, approvedAt)
    BY <1>3 DEF BookedCall
  <1>6. call.phase = "selected" /\ UNCHANGED <<now, rows, minted, accepted>>
    BY DEF R!FindResponse
  <1> HIDE DEF call
  <1> QED
    BY <1>2, <1>4, <1>5, <1>6, CallMoves

\* The book goes on: what it says of the ids minted so far stands.
Continues(token, expiry, token2, expiry2) ==
    /\ Book(token, expiry)
    /\ DOMAIN token2 = Nat /\ DOMAIN expiry2 = Nat
    /\ \A i \in 1..minted : token2[i] = token[i] /\ expiry2[i] = expiry[i]
    /\ \A m \in R!Requests' : Copy(token2, expiry2, m, minted')
    /\ \A x \in accepted' : Copy(token2, expiry2, x.request, minted')

\* The rows change: those that stay are copies, consumed or not, and one may be new.
LEMMA RowsMove ==
    ASSUME CloudInv, UNCHANGED <<now, phonevars>>, NEW c \in Callers, R!Return(c),
           minted' \in Nat, minted <= minted', accepted \subseteq accepted',
           \A m \in rows' : RowOK(m, accepted', approvedAt),
           R!RelayTypeOK', NEW token, NEW expiry, NEW token2, NEW expiry2,
           Continues(token, expiry, token2, expiry2)
    PROVE  RelayInv' /\ PhoneInv' /\ Book(token2, expiry2)'
  <1> USE DEF Continues
  <1>1. /\ DOMAIN calls' = Callers /\ calls'[c] = R!NoCall
        /\ \A d \in Callers \ {c} : calls'[d] = calls[d]
    BY Counters DEF R!Return
  <1>2. Later(minted, minted', accepted, accepted', approvedAt, approvedAt)
    BY Counters DEF Later
  <1>3. PhoneInv'
    BY Counters, PhoneKept
  <1>4. UNCHANGED <<approvedAt, polled, pending, prompt, queue>>
    BY DEF phonevars
  <1>5. \A d \in Callers : CallOK(calls'[d], now, minted', accepted', approvedAt)
    <2>1. CallOK(R!NoCall, now, minted', accepted', approvedAt)
      BY DEF CallOK, R!NoCall
    <2>2. ASSUME NEW d \in Callers \ {c}
          PROVE  CallOK(calls[d], now, minted', accepted', approvedAt)
      <3>1. CallOK(calls[d], now, minted, accepted, approvedAt)
        BY DEF CloudInv, RelayInv
      <3> QED
        BY <1>2, <3>1, CallStable, Counters
    <2> QED
      BY <1>1, <2>1, <2>2
  <1>6. RelayInv'
    BY <1>4, <1>5 DEF RelayInv
  <1>7. \A d \in Callers : BookedCall(token2, expiry2, calls'[d], minted', approvedAt)
    <2>1. BookedCall(token2, expiry2, R!NoCall, minted', approvedAt)
      BY DEF BookedCall, R!NoCall
    <2>2. ASSUME NEW d \in Callers \ {c}
          PROVE  BookedCall(token2, expiry2, calls[d], minted', approvedAt)
      <3>1. BookedCall(token, expiry, calls[d], minted, approvedAt)
        BY DEF Book
      <3> QED
        BY <1>2, <3>1, BookedCallStable, Counters
    <2> QED
      BY <1>1, <2>1, <2>2
  <1>8. \A i \in DOMAIN queue : BookedItem(token2, queue[i], approvedAt)
    <2>1. \A i \in DOMAIN queue : queue[i] \in Items(minted)
      BY ItemsTyped DEF CloudInv, PhoneInv
    <2> QED
      BY <2>1 DEF Book, BookedItem, Items
  <1>9. /\ polled # Nothing => token2[polled.id] = polled.challenge.token
        /\ pending # Nothing => token2[pending.id] = pending.token
        /\ prompt # Nothing => token2[prompt.id] = prompt.token
    BY DEF CloudInv, PhoneInv, Book
  <1> QED
    BY <1>3, <1>4, <1>6, <1>7, <1>8, <1>9 DEF Book

LEMMA PostsRequest ==
    ASSUME CloudInv, UNCHANGED phonevars, NEW c \in Callers, R!PostRequest(c)
    PROVE  /\ RelayInv' /\ PhoneInv' /\ \E token, expiry : Book(token, expiry)'
           /\ minted' = minted + 1 /\ UNCHANGED <<now, accepted>>
  <1> DEFINE new == R!Row(minted + 1, "pc_to_phone", 0, calls[c].arg, now)
  <1>1. /\ rows' = {m \in rows : ~R!Expired(m)} \cup {new}
        /\ minted' = minted + 1 /\ R!Return(c) /\ UNCHANGED <<now, accepted>>
        /\ calls[c].phase = "sent" /\ calls[c].op = "request"
    BY DEF R!PostRequest, R!Arrived
  <1>2. calls[c].arg \in Challenges
    BY <1>1 DEF CloudInv, RelayInv, CallOK
  <1>3. /\ new.id = minted + 1 /\ new.direction = "pc_to_phone" /\ new.request = 0
        /\ new.payload = calls[c].arg /\ new.created = now /\ new.expires = now + TTL
        /\ new.consumed = FALSE
        /\ DOMAIN new = {"id", "direction", "request", "payload", "created", "expires",
                         "consumed"}
    BY DEF R!Row
  <1>4. now \in Nat /\ minted \in Nat /\ TTL \in Nat /\ minted + 1 \in 1..(minted + 1)
        /\ 1..minted \subseteq 1..(minted + 1)
    BY Counters, CloudAssumption
  <1> HIDE DEF new
  <1>5. \A m \in rows' : RowOK(m, accepted', approvedAt)
    BY <1>1, <1>2, <1>3, <1>4 DEF CloudInv, RelayInv, RowOK
  <1>6. R!RelayTypeOK'
    <2>1. \A m \in rows : /\ m.id \in 1..minted /\ m.request \in 0..minted
                         /\ m.direction \in {"pc_to_phone", "phone_to_pc"}
                         /\ m.created <= now /\ m.expires = m.created + TTL
                         /\ m.consumed \in BOOLEAN
      BY DEF CloudInv, RelayInv, R!RelayTypeOK
    <2>2. \A m, n \in rows' : m.id = n.id => m = n
      BY <1>1, <1>3, <1>4, <2>1 DEF CloudInv, RelayInv, R!RelayTypeOK
    <2>3. /\ DOMAIN calls' = Callers
          /\ \A d \in Callers : calls'[d].phase \in {"idle", "sent", "selected"}
      BY <1>1, Counters DEF R!Return, R!NoCall
    <2>4. \A m \in rows' : /\ m.id \in 1..minted' /\ m.request \in 0..minted'
                          /\ m.direction \in {"pc_to_phone", "phone_to_pc"}
                          /\ m.created <= now' /\ m.expires = m.created + TTL
                          /\ m.consumed \in BOOLEAN
      <3>1. \A i \in 0..minted : i \in 0..(minted + 1)
        BY <1>4
      <3>2. now <= now /\ 0 \in 0..(minted + 1)
        BY <1>4
      <3> QED
        BY <1>1, <1>3, <1>4, <2>1, <3>1, <3>2
    <2> QED
      BY <1>1, <1>4, <2>2, <2>3, <2>4 DEF R!RelayTypeOK
  <1>7. PICK token, expiry : Book(token, expiry)
    BY DEF CloudInv
  <1>8. PICK token2, expiry2 :
           /\ DOMAIN token2 = Nat /\ DOMAIN expiry2 = Nat
           /\ \A i \in 1..minted : token2[i] = token[i] /\ expiry2[i] = expiry[i]
           /\ token2[minted + 1] = calls[c].arg.token /\ expiry2[minted + 1] = now + TTL
    <2> WITNESS [token EXCEPT ![minted + 1] = calls[c].arg.token],
                [expiry EXCEPT ![minted + 1] = now + TTL]
    <2> QED
      BY <1>4, <1>7 DEF Book
  <1>9. ASSUME NEW m, Copy(token, expiry, m, minted) PROVE Copy(token2, expiry2, m, minted')
    BY <1>1, <1>4, <1>8, <1>9 DEF Copy
  <1>10. \A m \in R!Requests' : Copy(token2, expiry2, m, minted')
    <2>1. Copy(token2, expiry2, new, minted')
      BY <1>1, <1>3, <1>4, <1>8 DEF Copy
    <2>2. \A m \in R!Requests : Copy(token, expiry, m, minted)
      BY <1>7 DEF Book
    <2> QED
      BY <1>1, <1>9, <2>1, <2>2 DEF R!Requests
  <1>11. \A x \in accepted' : Copy(token2, expiry2, x.request, minted')
    BY <1>1, <1>7, <1>9 DEF Book
  <1>12. Continues(token, expiry, token2, expiry2)
    BY <1>7, <1>8, <1>10, <1>11 DEF Continues
  <1>13. RelayInv' /\ PhoneInv' /\ Book(token2, expiry2)'
    <2>1. minted' \in Nat /\ minted <= minted' /\ accepted \subseteq accepted'
      BY <1>1, <1>4
    <2>2. R!Return(c) /\ UNCHANGED <<now, phonevars>>
      BY <1>1
    <2> QED
      BY <1>5, <1>6, <1>12, <2>1, <2>2, RowsMove
  <1> QED
    BY <1>1, <1>13

\* Consuming a row changes nothing else.
LEMMA Consumed ==
    ASSUME CloudInv, NEW id, NEW m \in R!Consume(id)
    PROVE  \E n \in rows : /\ m = n \/ m = [n EXCEPT !.consumed = TRUE]
                          /\ m.id = n.id /\ m.request = n.request /\ m.direction = n.direction
                          /\ m.payload = n.payload /\ m.created = n.created
                          /\ m.expires = n.expires /\ m.consumed \in BOOLEAN
                          /\ DOMAIN m = DOMAIN n
  <1>1. PICK n \in rows : m = IF n.id = id THEN [n EXCEPT !.consumed = TRUE] ELSE n
    BY DEF R!Consume
  <1>2. /\ n.consumed \in BOOLEAN
        /\ DOMAIN n = {"id", "direction", "request", "payload", "created", "expires",
                       "consumed"}
    BY DEF CloudInv, RelayInv, R!RelayTypeOK, RowOK
  <1> QED
    BY <1>1, <1>2

LEMMA ConsumedOnce ==
    ASSUME CloudInv, NEW id, NEW m \in R!Consume(id), NEW n \in R!Consume(id), m.id = n.id
    PROVE  m = n
  <1>1. PICK x \in rows : m = IF x.id = id THEN [x EXCEPT !.consumed = TRUE] ELSE x
    BY DEF R!Consume
  <1>2. PICK y \in rows : n = IF y.id = id THEN [y EXCEPT !.consumed = TRUE] ELSE y
    BY DEF R!Consume
  <1>3. m.id = x.id /\ n.id = y.id
    <2>1. "id" \in DOMAIN x /\ "id" \in DOMAIN y
      BY DEF CloudInv, RelayInv, RowOK
    <2> QED
      BY <1>1, <1>2, <2>1
  <1>4. x = y
    BY <1>3 DEF CloudInv, RelayInv, R!RelayTypeOK
  <1> QED
    BY <1>1, <1>2, <1>4

LEMMA DeliversResponse ==
    ASSUME CloudInv, UNCHANGED phonevars, NEW c \in Callers, R!DeliverResponse(c)
    PROVE  /\ RelayInv' /\ PhoneInv' /\ \E token, expiry : Book(token, expiry)'
           /\ Justified(calls[c].row.payload, accepted, approvedAt)
           /\ UNCHANGED <<now, minted, accepted>>
  <1>1. /\ rows' = R!Consume(calls[c].row.id)
        /\ R!Return(c) /\ UNCHANGED <<now, minted, accepted>>
        /\ calls[c].phase = "selected" /\ calls[c].op = "response"
    BY DEF R!DeliverResponse, R!Selected
  <1>2. \A m \in rows' : RowOK(m, accepted', approvedAt)
    BY <1>1, Consumed DEF CloudInv, RelayInv, RowOK
  <1>3. R!RelayTypeOK'
    <2>1. \A m, n \in rows' : m.id = n.id => m = n
      BY <1>1, ConsumedOnce
    <2>2. /\ DOMAIN calls' = Callers
          /\ \A d \in Callers : calls'[d].phase \in {"idle", "sent", "selected"}
      BY <1>1, Counters DEF R!Return, R!NoCall
    <2>3. \A m \in rows' : /\ m.id \in 1..minted' /\ m.request \in 0..minted'
                          /\ m.direction \in {"pc_to_phone", "phone_to_pc"}
                          /\ m.created <= now' /\ m.expires = m.created + TTL
                          /\ m.consumed \in BOOLEAN
      BY <1>1, Consumed DEF CloudInv, RelayInv, R!RelayTypeOK
    <2> QED
      BY <1>1, <2>1, <2>2, <2>3, Counters DEF R!RelayTypeOK
  <1>4. PICK token, expiry : Book(token, expiry)
    BY DEF CloudInv
  <1>5. \A m \in R!Requests' : Copy(token, expiry, m, minted')
    <2> SUFFICES ASSUME NEW m \in R!Requests' PROVE Copy(token, expiry, m, minted)
      BY <1>1
    <2>1. PICK n \in rows : /\ m.id = n.id /\ m.direction = n.direction
                           /\ m.payload = n.payload /\ m.expires = n.expires
      BY <1>1, Consumed DEF R!Requests
    <2>2. n \in R!Requests
      BY <2>1 DEF R!Requests
    <2> QED
      BY <1>4, <2>1, <2>2 DEF Book, Copy
  <1>6. /\ \A x \in accepted' : Copy(token, expiry, x.request, minted')
        /\ DOMAIN token = Nat /\ DOMAIN expiry = Nat
    BY <1>1, <1>4 DEF Book
  <1>7. RelayInv' /\ PhoneInv' /\ Book(token, expiry)'
    <2>1. Continues(token, expiry, token, expiry)
      BY <1>4, <1>5, <1>6 DEF Continues
    <2> QED
      BY <1>1, <1>2, <1>3, <2>1, RowsMove, Counters
  <1>8. Justified(calls[c].row.payload, accepted, approvedAt)
    BY <1>1 DEF CloudInv, RelayInv, CallOK
  <1> QED
    BY <1>1, <1>7, <1>8

LEMMA StoresResponse ==
    ASSUME CloudInv, UNCHANGED phonevars, NEW c \in Callers, R!StoreResponse(c)
    PROVE  /\ RelayInv' /\ PhoneInv' /\ \E token, expiry : Book(token, expiry)'
           /\ minted' = minted + 1 /\ UNCHANGED now /\ accepted \subseteq accepted'
  <1> DEFINE request == calls[c].row
             answer == calls[c].arg.answer
             new == R!Row(minted + 1, "phone_to_pc", request.id, answer, calls[c].t)
             first == [request |-> request, at |-> calls[c].t, answer |-> answer]
  <1>1. /\ rows' = R!Consume(request.id) \cup {new}
        /\ accepted' = IF \E x \in accepted : x.request.id = request.id THEN accepted
                                                                 ELSE accepted \cup {first}
        /\ minted' = minted + 1 /\ R!Return(c) /\ UNCHANGED now
        /\ calls[c].phase = "selected" /\ calls[c].op = "respond"
    BY DEF R!StoreResponse, R!Selected
  <1>2. /\ new.id = minted + 1 /\ new.direction = "phone_to_pc" /\ new.request = request.id
        /\ new.payload = answer /\ new.created = calls[c].t
        /\ new.expires = calls[c].t + TTL /\ new.consumed = FALSE
        /\ DOMAIN new = {"id", "direction", "request", "payload", "created", "expires",
                         "consumed"}
        /\ first.request = request
    BY DEF R!Row
  <1>3. /\ now \in Nat /\ minted \in Nat /\ TTL \in Nat /\ minted + 1 \in 1..(minted + 1)
        /\ 1..minted \subseteq 1..(minted + 1) /\ 1..minted \subseteq 0..(minted + 1)
        /\ 0..minted \subseteq 0..(minted + 1)
    BY Counters, CloudAssumption
  <1>4. calls[c].t \in Nat /\ calls[c].t <= now /\ request.id \in 1..minted
    BY <1>1 DEF CloudInv, RelayInv, CallOK
  <1> HIDE DEF new, first
  <1>5. accepted \subseteq accepted' /\ \E x \in accepted' : x.request.id = request.id
    BY <1>1, <1>2
  <1>6. PICK token, expiry : Book(token, expiry)
    BY DEF CloudInv
  <1>7. /\ AnswersBy(token, calls[c].arg, minted, approvedAt)
        /\ request.id = calls[c].arg.request
        /\ Copy(token, expiry, request, minted)
        /\ answer = Refusal \/ approvedAt[token[request.id]] \in 1..request.expires
    BY <1>1, <1>6 DEF Book, BookedCall
  <1>8. \A x \in accepted' : Copy(token, expiry, x.request, minted)
    BY <1>1, <1>2, <1>6, <1>7 DEF Book
  <1>9. Justified(answer, accepted', approvedAt)
    <2>1. CASE answer = Refusal
      BY <2>1 DEF Justified
    <2>2. CASE answer # Refusal
      <3>1. PICK t \in Nat : answer = Approval(token[request.id], t)
        BY <1>7, <2>2 DEF AnswersBy
      <3>2. token[request.id] \in Attempts
        BY <1>7, <2>2 DEF AnswersBy
      <3>3. PICK x \in accepted' : x.request.id = request.id
        BY <1>5
      <3>4. /\ x.request.payload.token = token[request.id]
            /\ x.request.expires = request.expires
        BY <1>7, <1>8, <3>3 DEF Copy
      <3> QED
        BY <1>7, <2>2, <3>1, <3>2, <3>4 DEF Justified
    <2> QED
      BY <2>1, <2>2
  <1> HIDE DEF answer
  <1>10. Later(minted, minted', accepted, accepted', approvedAt, approvedAt)
    BY <1>1, <1>3, <1>5 DEF Later
  <1>11. \A m \in rows' : RowOK(m, accepted', approvedAt)
    <2>1. RowOK(new, accepted', approvedAt)
      BY <1>2, <1>4, <1>9 DEF RowOK
    <2>2. ASSUME NEW m \in R!Consume(request.id) PROVE RowOK(m, accepted', approvedAt)
      <3>1. PICK n \in rows : /\ m.direction = n.direction /\ m.payload = n.payload
                             /\ m.created = n.created /\ DOMAIN m = DOMAIN n
        BY Consumed
      <3>2. RowOK(n, accepted', approvedAt)
        <4>1. RowOK(n, accepted, approvedAt)
          BY DEF CloudInv, RelayInv
        <4> QED
          BY <1>10, <4>1, RowStable, Counters
      <3> QED
        BY <3>1, <3>2 DEF RowOK
    <2> QED
      BY <1>1, <2>1, <2>2
  <1>12. R!RelayTypeOK'
    <2>1. \A m \in R!Consume(request.id) :
             /\ m.id \in 1..minted /\ m.request \in 0..minted
             /\ m.direction \in {"pc_to_phone", "phone_to_pc"}
             /\ m.created <= now /\ m.expires = m.created + TTL
             /\ m.consumed \in BOOLEAN
      BY Consumed DEF CloudInv, RelayInv, R!RelayTypeOK
    <2>2. \A m, n \in rows' : m.id = n.id => m = n
      BY <1>1, <1>2, <1>3, <2>1, ConsumedOnce
    <2>3. /\ DOMAIN calls' = Callers
          /\ \A d \in Callers : calls'[d].phase \in {"idle", "sent", "selected"}
      BY <1>1, Counters DEF R!Return, R!NoCall
    <2>4. \A m \in rows' : /\ m.id \in 1..minted' /\ m.request \in 0..minted'
                          /\ m.direction \in {"pc_to_phone", "phone_to_pc"}
                          /\ m.created <= now' /\ m.expires = m.created + TTL
                          /\ m.consumed \in BOOLEAN
      BY <1>1, <1>2, <1>3, <1>4, <2>1
    <2> QED
      BY <1>1, <1>3, <2>2, <2>3, <2>4 DEF R!RelayTypeOK
  <1>13. \A m \in R!Requests' : Copy(token, expiry, m, minted')
    <2> SUFFICES ASSUME NEW m \in R!Requests' PROVE Copy(token, expiry, m, minted')
      OBVIOUS
    <2>1. m \in R!Consume(request.id)
      BY <1>1, <1>2 DEF R!Requests
    <2>2. PICK n \in rows : /\ m.id = n.id /\ m.direction = n.direction
                           /\ m.payload = n.payload /\ m.expires = n.expires
      BY <2>1, Consumed
    <2>3. n \in R!Requests
      BY <2>2 DEF R!Requests
    <2> QED
      BY <1>1, <1>3, <1>6, <2>2, <2>3 DEF Book, Copy
  <1>14. \A x \in accepted' : Copy(token, expiry, x.request, minted')
    BY <1>1, <1>3, <1>8 DEF Copy
  <1>15. DOMAIN token = Nat /\ DOMAIN expiry = Nat
    BY <1>6 DEF Book
  <1>16. RelayInv' /\ PhoneInv' /\ Book(token, expiry)'
    <2>1. Continues(token, expiry, token, expiry)
      BY <1>6, <1>13, <1>14, <1>15 DEF Continues
    <2>2. minted' \in Nat /\ minted <= minted'
      BY <1>1, <1>3
    <2> QED
      BY <1>1, <1>5, <1>11, <1>12, <2>1, <2>2, RowsMove
  <1> QED
    BY <1>1, <1>5, <1>16

-----------------------------------------------------------------------------
\* The PC

LEMMA Steps ==
    ASSUME CloudInv, PcInv', RelayInv' /\ PhoneInv' /\ \E token, expiry : Book(token, expiry)'
    PROVE  CloudInv'
  BY DEF CloudInv

\* No attempt ends.
LEMMA PcKept ==
    ASSUME CloudInv, UNCHANGED unlock, faults' \in 0..MaxFaults, accepted \subseteq accepted',
           \A a \in Attempts : approvedAt[a] >= 1 => approvedAt'[a] = approvedAt[a],
           thread' \in [Attempts -> {"new", "create", "loop", "get", "ended", "joined"}],
           running' \in [Attempts -> BOOLEAN], hasClient' \in [Attempts -> BOOLEAN],
           requestId' \in [Attempts -> 0..minted'], deadline' \in [Attempts -> Nat]
    PROVE  PcInv'
  <1>1. LateApprovalNeverUnlocks'
    <2> SUFFICES ASSUME NEW a \in Attempts, unlock[a] = "SUCCESS"
                 PROVE  \E x \in accepted' : /\ x.request.payload.token = a
                                            /\ approvedAt'[a] \in 1..x.request.expires
      BY DEF LateApprovalNeverUnlocks
    <2>1. PICK x \in accepted : /\ x.request.payload.token = a
                               /\ approvedAt[a] \in 1..x.request.expires
      BY DEF CloudInv, PcInv, LateApprovalNeverUnlocks
    <2> QED
      BY <2>1
  <1> QED
    BY <1>1 DEF CloudInv, PcInv

\* Attempt a ends, in success only when it was approved in time.
LEMMA PcEnds ==
    ASSUME CloudInv, NEW a \in Attempts, NEW st \in States, End(a, st),
           UNCHANGED accepted, minted' \in Nat, minted <= minted', faults' \in 0..MaxFaults,
           st = "SUCCESS" => \E x \in accepted : /\ x.request.payload.token = a
                                                 /\ approvedAt[a] \in 1..x.request.expires
    PROVE  PcInv'
  <1> USE DEF CloudInv, PcInv, End
  <1>1. LateApprovalNeverUnlocks'
    BY DEF LateApprovalNeverUnlocks, phonevars
  <1>2. 0 \in 0..minted' /\ 0 \in Nat /\ \A b \in Attempts : requestId[b] \in 0..minted'
    BY Counters
  <1>3. /\ requestId' \in [Attempts -> 0..minted'] /\ deadline' \in [Attempts -> Nat]
        /\ running' \in [Attempts -> BOOLEAN] /\ unlock' \in [Attempts -> States]
        /\ thread' \in [Attempts -> {"new", "create", "loop", "get", "ended", "joined"}]
    BY <1>2
  <1> QED
    BY <1>1, <1>3

\* The relay and the phone stand still while the PC works by itself.
LEMMA OnlyPc ==
    ASSUME CloudInv, UNCHANGED <<now, rows, minted, calls, accepted, phonevars>>
    PROVE  RelayInv' /\ PhoneInv' /\ \E token, expiry : Book(token, expiry)'
  <1>1. RelayInv' /\ PhoneInv'
    BY DEF CloudInv, RelayInv, PhoneInv, R!RelayTypeOK, phonevars
  <1>2. PICK token, expiry : Book(token, expiry)
    BY DEF CloudInv
  <1>3. Book(token, expiry)'
    BY <1>2 DEF Book, R!Requests, phonevars
  <1> QED
    BY <1>1, <1>3

LEMMA PcIsCaller == \A a \in Attempts : Pc(a) \in Callers
  BY DEF Callers

LEMMA FaultsCount ==
    ASSUME CloudInv, faults' = faults + 1, faults < MaxFaults
    PROVE  faults' \in 0..MaxFaults
  BY CloudAssumption DEF CloudInv, PcInv

LEMMA ClientStarts ==
    ASSUME CloudInv, NEW a \in Attempts, StartClient(a) \/ BuildFails(a)
    PROVE  CloudInv'
  <1>1. CASE StartClient(a)
    <2>1. UNCHANGED <<now, rows, minted, accepted, phonevars, faults>>
      BY <1>1 DEF StartClient, relayRest
    <2>2. Challenge(a, now) \in Challenges
      BY Counters DEF Challenge, Challenges
    <2>3. R!Send(Pc(a), "request", Challenge(a, now))
      BY <1>1 DEF StartClient
    <2>4. RelayInv' /\ PhoneInv' /\ \E token, expiry : Book(token, expiry)'
      BY <2>1, <2>2, <2>3, PcSends, PcIsCaller
    <2>5. PcInv'
      BY <1>1, <2>1, PcKept DEF StartClient, CloudInv, PcInv, phonevars
    <2> QED
      BY <2>4, <2>5, Steps
  <1>2. CASE BuildFails(a)
    <2>1. End(a, "UNK_ERROR") /\ UNCHANGED rvars
      BY <1>2 DEF BuildFails
    <2>2. PcInv'
      BY <2>1, PcEnds, Counters DEF rvars, States, CloudInv, PcInv
    <2> QED
      BY <2>1, <2>2, OnlyPc, Steps DEF rvars, End
  <1> QED
    BY <1>1, <1>2

LEMMA ClientWorks ==
    ASSUME CloudInv, NEW a \in Attempts,
           Get(a) \/ GiveUp(a) \/ Find(a) \/ GotNothing(a) \/ StopClient(a) \/ JoinClient(a)
    PROVE  CloudInv'
  <1>1. CASE Get(a)
    <2>1. UNCHANGED <<now, rows, minted, accepted, phonevars, faults>>
      BY <1>1 DEF Get, relayRest
    <2>2. R!Send(Pc(a), "response", requestId[a])
      BY <1>1 DEF Get
    <2>3. RelayInv' /\ PhoneInv' /\ \E token, expiry : Book(token, expiry)'
      BY <2>1, <2>2, PcSends, PcIsCaller
    <2>4. PcInv'
      BY <1>1, <2>1, PcKept DEF Get, CloudInv, PcInv, phonevars
    <2> QED
      BY <2>3, <2>4, Steps
  <1>2. CASE GiveUp(a)
    <2>1. End(a, "TIMEOUT") /\ UNCHANGED rvars
      BY <1>2 DEF GiveUp
    <2>2. PcInv'
      BY <2>1, PcEnds, Counters DEF rvars, States, CloudInv, PcInv
    <2> QED
      BY <2>1, <2>2, OnlyPc, Steps DEF rvars, End
  <1>3. CASE Find(a)
    <2>1. R!FindResponse(Pc(a)) /\ UNCHANGED <<pcvars, phonevars, faults, accepted, minted>>
      BY <1>3 DEF Find, R!FindResponse
    <2>2. PcInv'
      BY <2>1, PcKept DEF CloudInv, PcInv, phonevars, pcvars
    <2> QED
      BY <2>1, <2>2, FindsResponse, PcIsCaller, Steps
  <1>4. CASE GotNothing(a)
    <2>1. /\ R!Return(Pc(a)) /\ UNCHANGED <<now, rows, minted, accepted, phonevars, faults>>
          /\ UNCHANGED <<running, hasClient, unlock, requestId, deadline>>
          /\ thread' = [thread EXCEPT ![a] = "loop"]
      BY <1>4 DEF GotNothing, R!NoResponse
    <2>2. PcInv'
      BY <2>1, PcKept DEF CloudInv, PcInv, phonevars
    <2> QED
      BY <2>1, <2>2, CallEnds, PcIsCaller, Steps
  <1>5. CASE StopClient(a) \/ JoinClient(a)
    <2>1. UNCHANGED <<now, rows, minted, calls, accepted, phonevars, faults>>
      BY <1>5 DEF StopClient, JoinClient, rvars
    <2>2. PcInv'
      BY <1>5, <2>1, PcKept DEF StopClient, JoinClient, CloudInv, PcInv, phonevars
    <2> QED
      BY <2>1, <2>2, OnlyPc, Steps
  <1> QED
    BY <1>1, <1>2, <1>3, <1>4, <1>5

\* The answer that ends an attempt is justified, and one that unlocks it names it.
LEMMA ClientAnswered ==
    ASSUME CloudInv, NEW a \in Attempts, Created(a) \/ Got(a) \/ CallFails(a)
    PROVE  CloudInv'
  <1>1. CASE Created(a)
    <2>1. R!PostRequest(Pc(a)) /\ UNCHANGED <<phonevars, unlock, running, faults>>
      BY <1>1 DEF Created
    <2>2. /\ RelayInv' /\ PhoneInv' /\ \E token, expiry : Book(token, expiry)'
          /\ minted' = minted + 1 /\ UNCHANGED <<now, accepted>>
      BY <2>1, PostsRequest, PcIsCaller
    <2>3. /\ minted' \in 0..minted' /\ \A d \in 0..MaxDelay : now + d + TTL \in Nat
          /\ 0..minted \subseteq 0..minted'
      BY <2>2, Counters, CloudAssumption
    <2>4. /\ requestId' \in [Attempts -> 0..minted'] /\ deadline' \in [Attempts -> Nat]
          /\ thread' \in [Attempts -> {"new", "create", "loop", "get", "ended", "joined"}]
          /\ hasClient' \in [Attempts -> BOOLEAN]
      <3>1. \A b \in Attempts : requestId[b] \in 0..minted'
        BY <2>3 DEF CloudInv, PcInv
      <3> QED
        BY <1>1, <2>3, <3>1 DEF Created, CloudInv, PcInv
    <2>5. PcInv'
      BY <2>1, <2>2, <2>4, PcKept DEF CloudInv, PcInv, phonevars
    <2> QED
      BY <2>2, <2>5, Steps
  <1>2. CASE Got(a)
    <2> DEFINE answer == calls[Pc(a)].row.payload
    <2>1. R!DeliverResponse(Pc(a)) /\ End(a, Process(a, answer)) /\ UNCHANGED faults
      BY <1>2 DEF Got
    <2>2. /\ RelayInv' /\ PhoneInv' /\ \E token, expiry : Book(token, expiry)'
          /\ Justified(answer, accepted, approvedAt) /\ UNCHANGED <<minted, accepted>>
      BY <2>1, DeliversResponse, PcIsCaller DEF End
    <2> HIDE DEF answer
    <2>3. Process(a, answer) \in States
      BY DEF Process, States
    <2>4. Process(a, answer) = "SUCCESS" =>
             \E x \in accepted : /\ x.request.payload.token = a
                                 /\ approvedAt[a] \in 1..x.request.expires
      <3> SUFFICES ASSUME Process(a, answer) = "SUCCESS"
                   PROVE  \E x \in accepted : /\ x.request.payload.token = a
                                              /\ approvedAt[a] \in 1..x.request.expires
        OBVIOUS
      <3>1. answer # Refusal /\ answer.token = a
        BY DEF Process
      <3>2. PICK x \in accepted, token \in Attempts, t \in Nat :
               /\ answer = Approval(token, t)
               /\ x.request.payload.token = token
               /\ approvedAt[token] \in 1..x.request.expires
        BY <2>2, <3>1 DEF Justified
      <3>3. token = a
        BY <3>1, <3>2 DEF Approval
      <3> QED
        BY <3>2, <3>3
    <2>5. PcInv'
      BY <2>1, <2>2, <2>3, <2>4, PcEnds, Counters DEF CloudInv, PcInv
    <2> QED
      BY <2>2, <2>5, Steps
  <1>3. CASE CallFails(a)
    <2>1. End(a, "CONNECT_ERROR") /\ UNCHANGED phonevars /\ faults' \in 0..MaxFaults
      BY <1>3, FaultsCount DEF CallFails, End
    <2>2. CASE R!Lose(Pc(a))
      <3>1. R!Return(Pc(a)) /\ UNCHANGED <<now, rows, minted, accepted>>
        BY <2>2 DEF R!Lose
      <3>2. PcInv'
        BY <2>1, <3>1, PcEnds, Counters DEF States
      <3> QED
        BY <2>1, <3>1, <3>2, CallEnds, PcIsCaller, Steps
    <2>3. CASE R!PostRequest(Pc(a))
      <3>1. /\ RelayInv' /\ PhoneInv' /\ \E token, expiry : Book(token, expiry)'
            /\ minted' = minted + 1 /\ UNCHANGED <<now, accepted>>
        BY <2>1, <2>3, PostsRequest, PcIsCaller
      <3>2. PcInv'
        BY <2>1, <3>1, PcEnds, Counters DEF States
      <3> QED
        BY <3>1, <3>2, Steps
    <2>4. CASE R!DeliverResponse(Pc(a))
      <3>1. /\ RelayInv' /\ PhoneInv' /\ \E token, expiry : Book(token, expiry)'
            /\ UNCHANGED <<minted, accepted>>
        BY <2>1, <2>4, DeliversResponse, PcIsCaller
      <3>2. PcInv'
        BY <2>1, <3>1, PcEnds, Counters DEF States
      <3> QED
        BY <3>1, <3>2, Steps
    <2> QED
      BY <1>3, <2>2, <2>3, <2>4 DEF CallFails
  <1> QED
    BY <1>1, <1>2, <1>3

-----------------------------------------------------------------------------
\* The phone

\* The phone works by itself.
LEMMA OnlyPhone ==
    ASSUME CloudInv, UNCHANGED <<rvars, pcvars, approvedAt>>, PhoneInv',
           \A token, expiry : Book(token, expiry) =>
               /\ polled' # Nothing => token[polled'.id] = polled'.challenge.token
               /\ pending' # Nothing => token[pending'.id] = pending'.token
               /\ prompt' # Nothing => token[prompt'.id] = prompt'.token
               /\ \A i \in DOMAIN queue' : BookedItem(token, queue'[i], approvedAt)
    PROVE  CloudInv'
  <1>1. RelayInv'
    BY DEF CloudInv, RelayInv, R!RelayTypeOK, rvars
  <1>2. PcInv'
    BY DEF CloudInv, PcInv, LateApprovalNeverUnlocks, rvars, pcvars
  <1>3. PICK token, expiry : Book(token, expiry)
    BY DEF CloudInv
  <1>4. Book(token, expiry)'
    BY <1>3 DEF Book, R!Requests, rvars
  <1> QED
    BY <1>1, <1>2, <1>4 DEF CloudInv

LEMMA PhonePolls ==
    ASSUME CloudInv, Poll PROVE CloudInv'
  <1>1. PICK m \in R!PollRequests : polled' = [id |-> m.id, challenge |-> m.payload]
    BY DEF Poll
  <1>2. m \in R!Requests /\ m \in rows
    BY DEF R!PollRequests, R!Requests
  <1>3. m.id \in 1..minted /\ m.payload \in Challenges
    BY <1>2, RowFound DEF CloudInv, RelayInv, RowOK, R!Requests
  <1>4. UNCHANGED <<rvars, pcvars, approvedAt, lives, seen, pending, prompt, queue, shown>>
    BY DEF Poll
  <1>5. PhoneInv'
    BY <1>1, <1>3, <1>4 DEF CloudInv, PhoneInv, rvars
  <1>6. \A token, expiry : Book(token, expiry) => token[polled'.id] = polled'.challenge.token
    BY <1>1, <1>2 DEF Book, Copy
  <1> QED
    BY <1>4, <1>5, <1>6, OnlyPhone DEF Book

LEMMA Remembered ==
    ASSUME NEW S, seen \in Seq(S), Len(seen) <= MaxSeen, NEW id \in S
    PROVE  Remember(id) \in Seq(S) /\ Len(Remember(id)) <= MaxSeen
  <1>1. CASE Len(seen) = MaxSeen
    <2>1. seen # <<>>
      BY <1>1, CloudAssumption
    <2>2. Tail(seen) \in Seq(S) /\ Len(Tail(seen)) = Len(seen) - 1
      BY <2>1
    <2> QED
      BY <1>1, <2>2, CloudAssumption DEF Remember
  <1>2. CASE Len(seen) # MaxSeen
    <2>1. Append(seen, id) \in Seq(S) /\ Len(Append(seen, id)) = Len(seen) + 1
      OBVIOUS
    <2>2. Len(seen) \in Nat
      OBVIOUS
    <2> QED
      BY <1>2, <2>1, <2>2, CloudAssumption DEF Remember
  <1> QED
    BY <1>1, <1>2

LEMMA PhoneHandles ==
    ASSUME CloudInv, Handle PROVE CloudInv'
  <1>1. /\ UNCHANGED <<rvars, pcvars, approvedAt, lives, prompt, queue>>
        /\ polled' = Nothing /\ polled # Nothing /\ seen' = Remember(polled.id)
        /\ \/ /\ pending' = [id |-> polled.id, token |-> polled.challenge.token]
              /\ shown' = shown \cup {polled.id}
           \/ UNCHANGED <<pending, shown>>
    BY DEF Handle
  <1>2. polled.id \in 1..minted /\ polled.challenge.token \in Attempts
    BY <1>1 DEF CloudInv, PhoneInv, Challenges
  <1>3. seen' \in Seq(1..minted) /\ Len(seen') <= MaxSeen
    BY <1>1, <1>2, Remembered DEF CloudInv, PhoneInv
  <1>4. PhoneInv'
    <2>1. pending' = Nothing \/ pending' \in [id : 1..minted, token : Attempts]
      BY <1>1, <1>2 DEF CloudInv, PhoneInv
    <2>2. shown' \subseteq 1..minted
      BY <1>1, <1>2 DEF CloudInv, PhoneInv
    <2> QED
      BY <1>1, <1>3, <2>1, <2>2 DEF CloudInv, PhoneInv, rvars
  <1>5. \A token, expiry : Book(token, expiry) =>
            (pending' # Nothing => token[pending'.id] = pending'.token)
    BY <1>1 DEF Book
  <1> QED
    BY <1>1, <1>4, <1>5, OnlyPhone DEF Book

LEMMA PhoneTaps ==
    ASSUME CloudInv, Tap PROVE CloudInv'
  <1>1. /\ UNCHANGED <<rvars, pcvars, approvedAt, lives, polled, seen, queue, shown>>
        /\ pending' = Nothing /\ prompt' = pending
    BY DEF Tap
  <1>2. PhoneInv'
    BY <1>1 DEF CloudInv, PhoneInv, rvars
  <1>3. \A token, expiry : Book(token, expiry) =>
            (prompt' # Nothing => token[prompt'.id] = prompt'.token)
    BY <1>1 DEF Book
  <1> QED
    BY <1>1, <1>2, <1>3, OnlyPhone DEF Book

LEMMA PhoneDies ==
    ASSUME CloudInv, Die PROVE CloudInv'
  <1>1. /\ UNCHANGED <<rvars, pcvars, approvedAt, pending>> /\ lives' \in 0..MaxRestarts
        /\ polled' = Nothing /\ seen' = <<>> /\ shown' = {} /\ prompt' = Nothing
        /\ queue' = <<>>
    BY CloudAssumption DEF Die, CloudInv, PhoneInv
  <1>2. PhoneInv'
    BY <1>1, CloudAssumption DEF CloudInv, PhoneInv, rvars
  <1> QED
    BY <1>1, <1>2, OnlyPhone DEF Book

LEMMA Appended ==
    ASSUME NEW S, NEW q \in Seq(S), NEW e \in S
    PROVE  \A i \in DOMAIN Append(q, e) :
              (i \in DOMAIN q /\ Append(q, e)[i] = q[i]) \/ Append(q, e)[i] = e
  OBVIOUS

\* An approval is noted when it is the first; what earlier ones justified stands.
LEMMA PhoneDecides ==
    ASSUME CloudInv, NEW ok \in BOOLEAN, Decide(ok) PROVE CloudInv'
  <1> DEFINE item == [id |-> prompt.id, token |-> prompt.token, ok |-> ok]
  <1>1. /\ UNCHANGED <<rvars, pcvars, lives, polled, seen, pending, shown>>
        /\ prompt # Nothing /\ prompt' = Nothing /\ queue' = Append(queue, item)
        /\ approvedAt' = [approvedAt EXCEPT ![prompt.token] =
                              IF ok /\ @ = 0 THEN now + 1 ELSE @]
    BY DEF Decide
  <1>2. prompt.id \in 1..minted /\ prompt.token \in Attempts
    BY <1>1 DEF CloudInv, PhoneInv
  <1>3. /\ now \in Nat /\ minted \in Nat /\ approvedAt \in [Attempts -> Nat]
        /\ approvedAt \in [Attempts -> 0..now + 1] /\ now + 1 \in 0..now + 1
    BY Counters DEF CloudInv, PhoneInv
  <1>4. approvedAt' \in [Attempts -> 0..now + 1]
    BY <1>1, <1>3
  <1>5. Later(minted, minted, accepted, accepted, approvedAt, approvedAt')
    BY <1>1, <1>2, <1>3 DEF Later
  <1>6. ok => approvedAt'[prompt.token] >= 1
    BY <1>1, <1>2, <1>3
  <1>7. item \in Items(minted)
    BY <1>2 DEF Items
  <1> HIDE DEF item
  <1>8. PhoneInv'
    <2>1. queue' \in Seq(Items(minted))
      BY <1>1, <1>7 DEF CloudInv, PhoneInv
    <2> QED
      BY <1>1, <1>4, <2>1 DEF CloudInv, PhoneInv, rvars
  <1>9. RelayInv'
    <2>1. \A m \in rows : RowOK(m, accepted, approvedAt')
      BY <1>3, <1>5, RowStable DEF CloudInv, RelayInv
    <2>2. \A c \in Callers : CallOK(calls[c], now, minted, accepted, approvedAt')
      BY <1>3, <1>5, CallStable DEF CloudInv, RelayInv
    <2> QED
      BY <1>1, <2>1, <2>2 DEF CloudInv, RelayInv, R!RelayTypeOK, rvars
  <1>10. PcInv'
    BY <1>1, <1>5, PcKept DEF CloudInv, PcInv, Later, rvars, pcvars
  <1>11. PICK token, expiry : Book(token, expiry)
    BY DEF CloudInv
  <1>12. \A i \in DOMAIN queue' : BookedItem(token, queue'[i], approvedAt')
    <2>1. BookedItem(token, item, approvedAt')
      BY <1>1, <1>6, <1>11 DEF Book, BookedItem, item
    <2>2. ASSUME NEW i \in DOMAIN queue PROVE BookedItem(token, queue[i], approvedAt')
      <3>1. queue[i] \in Items(minted)
        BY ItemsTyped DEF CloudInv, PhoneInv
      <3>2. queue[i].token \in Attempts /\ BookedItem(token, queue[i], approvedAt)
        BY <1>11, <3>1 DEF Items, Book
      <3> QED
        BY <1>5, <3>2 DEF BookedItem, Later
    <2>3. \A i \in DOMAIN queue' :
             (i \in DOMAIN queue /\ queue'[i] = queue[i]) \/ queue'[i] = item
      <3>1. queue \in Seq(Items(minted))
        BY DEF CloudInv, PhoneInv
      <3> QED
        BY <1>1, <1>7, <3>1, Appended
    <2> QED
      BY <2>1, <2>2, <2>3
  <1>13. \A c \in Callers : BookedCall(token, expiry, calls[c], minted, approvedAt')
    <2> TAKE c \in Callers
    <2>1. BookedCall(token, expiry, calls[c], minted, approvedAt)
      BY <1>11 DEF Book
    <2> QED
      BY <1>3, <1>5, <2>1, BookedCallStable
  <1>14. Book(token, expiry)'
    BY <1>1, <1>11, <1>12, <1>13 DEF Book, R!Requests, rvars
  <1> QED
    BY <1>8, <1>9, <1>10, <1>14 DEF CloudInv

LEMMA HeadOf ==
    ASSUME NEW S, NEW q \in Seq(S), q # <<>>
    PROVE  Head(q) = q[1] /\ Head(q) \in S /\ 1 \in DOMAIN q
  OBVIOUS

LEMMA TailOf ==
    ASSUME NEW S, NEW q \in Seq(S), q # <<>>
    PROVE  \A i \in DOMAIN Tail(q) : i + 1 \in DOMAIN q /\ Tail(q)[i] = q[i + 1]
  OBVIOUS

\* The activity posts what was decided.
LEMMA PhoneResponds ==
    ASSUME CloudInv, Respond PROVE CloudInv'
  <1> DEFINE item == Head(queue)
             arg == [request |-> item.id,
                     answer |-> IF item.ok THEN Approval(item.token, now) ELSE Refusal]
             call == [phase |-> "sent", op |-> "respond", arg |-> arg]
             c == Activity(lives)
  <1>1. /\ UNCHANGED <<now, rows, minted, accepted, faults, pcvars>>
        /\ UNCHANGED <<lives, polled, seen, pending, prompt, approvedAt, shown>>
        /\ queue # <<>> /\ queue' = Tail(queue)
        /\ calls' = [calls EXCEPT ![c] = call]
    BY DEF Respond, relayRest, R!Send
  <1>2. c \in Callers
    BY DEF Callers, CloudInv, PhoneInv
  <1>3. /\ queue \in Seq(Items(minted)) /\ item \in Items(minted) /\ item = queue[1]
        /\ 1 \in DOMAIN queue
    <2>1. queue \in Seq(Items(minted))
      BY DEF CloudInv, PhoneInv
    <2> QED
      BY <1>1, <2>1, HeadOf
  <1>4. PhoneInv'
    <2>1. queue' \in Seq(Items(minted))
      BY <1>1, <1>3
    <2> QED
      BY <1>1, <2>1 DEF CloudInv, PhoneInv
  <1>5. /\ DOMAIN calls' = Callers /\ calls'[c] = call
        /\ \A d \in Callers \ {c} : calls'[d] = calls[d]
    BY <1>1, <1>2, Counters
  <1>6. call.phase = "sent" /\ call.op = "respond" /\ call.arg = arg
    OBVIOUS
  <1>7. PICK token, expiry : Book(token, expiry)
    BY DEF CloudInv
  <1>8. BookedCall(token, expiry, call, minted, approvedAt)
    <2>1. BookedItem(token, item, approvedAt)
      BY <1>3, <1>7 DEF Book
    <2>2. item.id \in 1..minted /\ item.token \in Attempts /\ now \in Nat
      BY <1>3, Counters DEF Items
    <2> HIDE DEF item
    <2>3. AnswersBy(token, arg, minted, approvedAt)
      BY <2>1, <2>2 DEF AnswersBy, BookedItem
    <2> HIDE DEF arg
    <2> QED
      BY <1>6, <2>3 DEF BookedCall
  <1>9. CallOK(call, now, minted, accepted, approvedAt)
    BY <1>6 DEF CallOK
  <1> HIDE DEF call, c
  <1>10. RelayInv'
    <2>1. R!RelayTypeOK'
      BY <1>1, <1>5, <1>6 DEF CloudInv, RelayInv, R!RelayTypeOK
    <2> QED
      BY <1>1, <1>5, <1>9, <2>1 DEF CloudInv, RelayInv
  <1>11. PcInv'
    BY <1>1 DEF CloudInv, PcInv, LateApprovalNeverUnlocks, pcvars
  <1>12. \A i \in DOMAIN queue' : BookedItem(token, queue'[i], approvedAt)
    <2>1. \A i \in DOMAIN queue' : i + 1 \in DOMAIN queue /\ queue'[i] = queue[i + 1]
      BY <1>1, <1>3, TailOf
    <2> QED
      BY <1>7, <2>1 DEF Book
  <1>13. Book(token, expiry)'
    BY <1>1, <1>5, <1>7, <1>8, <1>12 DEF Book, R!Requests
  <1> QED
    BY <1>4, <1>10, <1>11, <1>13 DEF CloudInv

LEMMA PhoneAnswered ==
    ASSUME CloudInv, NEW n \in 0..lives, Responding(n) PROVE CloudInv'
  <1>1. Activity(n) \in Callers
    <2>1. n \in 0..MaxRestarts
      BY CloudAssumption DEF CloudInv, PhoneInv
    <2> QED
      BY <2>1 DEF Callers
  <1>2. UNCHANGED <<pcvars, phonevars>> /\ faults' \in 0..MaxFaults
    BY FaultsCount DEF Responding, CloudInv, PcInv
  <1>3. CASE R!FindRequest(Activity(n))
    <2>1. UNCHANGED <<minted, accepted>>
      BY <1>3 DEF R!FindRequest
    <2>2. PcInv'
      BY <1>2, <2>1, PcKept DEF CloudInv, PcInv, pcvars, phonevars
    <2> QED
      BY <1>1, <1>2, <1>3, <2>2, FindsRequest, Steps
  <1>4. CASE R!StoreResponse(Activity(n))
    <2>1. /\ RelayInv' /\ PhoneInv' /\ \E token, expiry : Book(token, expiry)'
          /\ minted' = minted + 1 /\ accepted \subseteq accepted'
      BY <1>1, <1>2, <1>4, StoresResponse
    <2>2. requestId' \in [Attempts -> 0..minted']
      <3>1. 0..minted \subseteq 0..minted'
        BY <2>1, Counters
      <3> QED
        BY <1>2, <3>1 DEF CloudInv, PcInv, pcvars
    <2>3. PcInv'
      BY <1>2, <2>1, <2>2, PcKept DEF CloudInv, PcInv, pcvars, phonevars
    <2> QED
      BY <2>1, <2>3, Steps
  <1>5. CASE \/ R!NoRequest(Activity(n)) \/ R!RejectResponse(Activity(n))
             \/ R!Lose(Activity(n))
    <2>1. R!Return(Activity(n)) /\ UNCHANGED <<now, rows, minted, accepted>>
      BY <1>5 DEF R!NoRequest, R!RejectResponse, R!Lose
    <2>2. PcInv'
      BY <1>2, <2>1, PcKept DEF CloudInv, PcInv, pcvars, phonevars
    <2> QED
      BY <1>1, <1>2, <2>1, <2>2, CallEnds, Steps
  <1> QED
    BY <1>3, <1>4, <1>5 DEF Responding, R!RespondStep

-----------------------------------------------------------------------------

LEMMA TimePasses ==
    ASSUME CloudInv, Tick PROVE CloudInv'
  <1>1. /\ UNCHANGED <<rows, minted, calls, faults, accepted, pcvars, phonevars>>
        /\ now' = now + 1 /\ now' \in Nat /\ now \in Nat /\ now <= now' /\ minted \in Nat
    BY Counters DEF Tick
  <1>2. PhoneInv'
    BY <1>1, PhoneKept
  <1>3. PcInv'
    BY <1>1 DEF CloudInv, PcInv, LateApprovalNeverUnlocks, pcvars, phonevars
  <1>4. Later(minted, minted, accepted, accepted, approvedAt, approvedAt)
    BY <1>1 DEF Later
  <1>5. R!RelayTypeOK'
    <2>1. \A m \in rows : m.created <= now'
      BY <1>1, RowFound
    <2> QED
      BY <1>1, <2>1 DEF CloudInv, RelayInv, R!RelayTypeOK
  <1>6. RelayInv'
    <2>1. \A c \in Callers : CallOK(calls[c], now', minted, accepted, approvedAt)
      BY <1>1, <1>4, CallStable, Counters DEF CloudInv, RelayInv
    <2> QED
      BY <1>1, <1>5, <2>1 DEF CloudInv, RelayInv, phonevars
  <1>7. PICK token, expiry : Book(token, expiry)
    BY DEF CloudInv
  <1>8. Book(token, expiry)'
    BY <1>1, <1>7 DEF Book, R!Requests, phonevars
  <1> QED
    BY <1>2, <1>3, <1>6, <1>8 DEF CloudInv

LEMMA CloudInvStep == CloudInv /\ [Next]_vars => CloudInv'
  <1> SUFFICES ASSUME CloudInv, [Next]_vars PROVE CloudInv'
    OBVIOUS
  <1>1. CASE \E a \in Attempts : \/ StartClient(a) \/ BuildFails(a) \/ ClientStep(a)
                                 \/ CallFails(a) \/ StopClient(a)
    BY <1>1, ClientStarts, ClientWorks, ClientAnswered DEF ClientStep
  <1>2. CASE PhoneStep
    BY <1>2, PhonePolls, PhoneHandles, PhoneTaps, PhoneDecides, PhoneResponds, PhoneDies,
       PhoneAnswered DEF PhoneStep
  <1>3. CASE Tick
    BY <1>3, TimePasses
  <1>4. CASE UNCHANGED vars
    <2>1. UNCHANGED <<rvars, pcvars, phonevars>>
      BY <1>4 DEF vars
    <2>2. PcInv'
      BY <2>1 DEF CloudInv, PcInv, LateApprovalNeverUnlocks, rvars, pcvars, phonevars
    <2> QED
      BY <2>1, <2>2, OnlyPc, Steps DEF rvars
  <1> QED
    BY <1>1, <1>2, <1>3, <1>4 DEF Next

LEMMA CloudInvariance == Spec => []CloudInv
  <1> QED
    BY CloudInvInit, CloudInvStep, PTL DEF Spec

\* The relay's rows have ids that were minted, and no two the same; every id that the
\* PCs and the phone hold is one the relay gave out, and the phone remembers no more of
\* them than it may (cloud/src/index.ts, UnlockListenerService.kt,
\* CloudUnlockClient.cpp).
THEOREM CloudTypeOK == Spec => []TypeOK
  <1> QED
    BY CloudInvariance, CloudInvImpliesTypeOK, PTL

\* CloudUnlockClient reports an unlock only for an approval that the user gave before
\* the request expired at the relay, however long the phone, the activity's thread or
\* the call that posts the answer took afterwards: expiry is checked by the SELECT of
\* POST /v1/relay/requests/:id/response, on the row as it was inserted.
THEOREM CloudLateApproval == Spec => []LateApprovalNeverUnlocks
  <1> QED
    BY CloudInvariance, CloudInvImpliesTypeOK, PTL

-----------------------------------------------------------------------------
(***************************************************************************)
(* For any attempts and PCs: a client that polls is not told that there is *)
(* no answer while one is stored and has not expired.                      *)
(***************************************************************************)

\* A client asks for its own request, and requests differ.
Asks ==
    /\ \A a \in Attempts : thread[a] \notin {"create", "get"} => calls[Pc(a)].phase = "idle"
    /\ \A a \in Attempts : calls[Pc(a)].phase # "idle" /\ calls[Pc(a)].op = "response" =>
                               calls[Pc(a)].arg = requestId[a]
    /\ \A a, b \in Attempts : requestId[a] = requestId[b] => a = b \/ requestId[a] = 0

\* The row that a call consumes is none that another call waits for.
Chosen ==
    /\ \A c \in Callers : R!Selected(c, "respond") =>
           \A m \in R!Responses : m.id # calls[c].row.id
    /\ \A c \in Callers : R!Selected(c, "response") =>
           \A m \in rows : m.id = calls[c].row.id => m.request = calls[c].arg

\* An accepted answer is in the table until it expires.
Stored(x) ==
    \/ x.at + TTL <= now
    \/ \E m \in R!Responses : /\ m.request = x.request.id /\ ~m.consumed
                              /\ m.expires = x.at + TTL

Waiting ==
    \A x \in accepted :
        /\ x.at \in Nat
        /\ \A a \in Attempts : requestId[a] = x.request.id => Stored(x)

AnswerInv == CloudInv /\ Asks /\ Chosen /\ Waiting

-----------------------------------------------------------------------------

LEMMA AcceptedIds ==
    ASSUME CloudInv, NEW x \in accepted PROVE x.request.id \in 1..minted
  <1>1. PICK token, expiry : Book(token, expiry)
    BY DEF CloudInv
  <1> QED
    BY <1>1 DEF Book, Copy

LEMMA AnswerInvInit == Init => AnswerInv
  <1> SUFFICES ASSUME Init PROVE AnswerInv
    OBVIOUS
  <1>1. CloudInv
    BY CloudInvInit
  <1>2. \A c \in Callers : calls[c].phase = "idle"
    BY DEF Init, R!RelayInit, R!NoCall
  <1>3. Asks
    BY <1>2, PcIsCaller DEF Init, Asks
  <1>4. Chosen /\ Waiting
    BY <1>2 DEF Init, R!RelayInit, Chosen, Waiting, R!Selected
  <1> QED
    BY <1>1, <1>3, <1>4 DEF AnswerInv

LEMMA CallersDiffer ==
    /\ \A a, b \in Attempts : Pc(a) = Pc(b) => a = b
    /\ \A a \in Attempts : \A n : Pc(a) # Activity(n)
  BY DEF Pc, Activity

\* Attempt a and its call go on.
LEMMA AsksMoves ==
    ASSUME AnswerInv, NEW a \in Attempts,
           \A b \in Attempts \ {a} : /\ thread'[b] = thread[b] /\ requestId'[b] = requestId[b]
                                    /\ calls'[Pc(b)] = calls[Pc(b)],
           thread'[a] \notin {"create", "get"} => calls'[Pc(a)].phase = "idle",
           calls'[Pc(a)].phase # "idle" /\ calls'[Pc(a)].op = "response" =>
               calls'[Pc(a)].arg = requestId'[a],
           requestId'[a] \in {requestId[a], 0, minted + 1}
    PROVE  Asks'
  <1>1. minted \in Nat /\ \A b \in Attempts : requestId[b] \in 0..minted
    BY Counters DEF AnswerInv, CloudInv, PcInv
  <1>2. \A b, d \in Attempts : requestId'[b] = requestId'[d] => b = d \/ requestId'[b] = 0
    BY <1>1 DEF AnswerInv, Asks
  <1> QED
    BY <1>2 DEF AnswerInv, Asks

\* A call goes on; rows keep what they are, and new ones have new ids.
LEMMA ChosenMoves ==
    ASSUME AnswerInv, NEW c \in Callers,
           \A d \in Callers \ {c} : calls'[d] = calls[d],
           \A m \in rows' : \/ m.id = minted + 1
                            \/ \E n \in rows : /\ n.id = m.id /\ n.direction = m.direction
                                               /\ n.request = m.request,
           R!Selected(c, "respond")' => \A m \in R!Responses' : m.id # calls'[c].row.id,
           R!Selected(c, "response")' =>
               \A m \in rows' : m.id = calls'[c].row.id => m.request = calls'[c].arg
    PROVE  Chosen'
  <1>1. ASSUME NEW d \in Callers \ {c}, calls[d].phase = "selected"
        PROVE  calls[d].row.id # minted + 1
    <2>1. calls[d].row.id \in 1..minted /\ minted \in Nat
      BY <1>1, Counters DEF AnswerInv, CloudInv, RelayInv, CallOK
    <2> QED
      BY <2>1
  <1>2. ASSUME NEW d \in Callers \ {c}, R!Selected(d, "respond"), NEW m \in R!Responses'
        PROVE  m.id # calls[d].row.id
    <2>1. CASE m.id = minted + 1
      BY <1>1, <1>2, <2>1 DEF R!Selected
    <2>2. CASE m.id # minted + 1
      BY <1>2, <2>2 DEF AnswerInv, Chosen, R!Responses
    <2> QED
      BY <2>1, <2>2
  <1>3. ASSUME NEW d \in Callers \ {c}, R!Selected(d, "response"), NEW m \in rows',
               m.id = calls[d].row.id
        PROVE  m.request = calls[d].arg
    BY <1>1, <1>3 DEF AnswerInv, Chosen, R!Selected
  <1> QED
    BY <1>2, <1>3 DEF Chosen, R!Selected

-----------------------------------------------------------------------------
\* What happens in the table

LEMMA CallChanged ==
    ASSUME CloudInv, NEW c \in Callers, NEW call, calls' = [calls EXCEPT ![c] = call]
    PROVE  calls'[c] = call /\ \A d \in Callers \ {c} : calls'[d] = calls[d]
  BY Counters

LEMMA ClientCallChanged ==
    ASSUME AnswerInv, NEW a \in Attempts, NEW call, calls' = [calls EXCEPT ![Pc(a)] = call]
    PROVE  /\ calls'[Pc(a)] = call
           /\ \A b \in Attempts \ {a} : calls'[Pc(b)] = calls[Pc(b)]
  <1>1. CloudInv /\ Pc(a) \in Callers
    BY PcIsCaller DEF AnswerInv
  <1>2. calls'[Pc(a)] = call /\ \A d \in Callers \ {Pc(a)} : calls'[d] = calls[d]
    BY <1>1, CallChanged
  <1> QED
    BY <1>2, PcIsCaller, CallersDiffer

LEMMA Selects ==
    ASSUME CloudInv, NEW c \in Callers, NEW m, R!Select(c, m)
    PROVE  /\ calls'[c].phase = "selected" /\ calls'[c].row = m
           /\ calls'[c].op = calls[c].op /\ calls'[c].arg = calls[c].arg
           /\ \A d \in Callers \ {c} : calls'[d] = calls[d]
  <1> DEFINE call == [phase |-> "selected", op |-> calls[c].op, arg |-> calls[c].arg,
                      row |-> m, t |-> now]
  <1>1. calls' = [calls EXCEPT ![c] = call]
    BY DEF R!Select
  <1>2. calls'[c] = call /\ \A d \in Callers \ {c} : calls'[d] = calls[d]
    BY <1>1, Counters
  <1> QED
    BY <1>2

\* No row changes, and no call finds one.
LEMMA NoRowMoves ==
    ASSUME AnswerInv, UNCHANGED <<now, rows, minted, accepted>>, NEW c \in Callers,
           NEW call, calls' = [calls EXCEPT ![c] = call], call.phase # "selected"
    PROVE  Chosen' /\ \A x \in accepted : Stored(x) => Stored(x)'
  <1>1. calls'[c] = call /\ \A d \in Callers \ {c} : calls'[d] = calls[d]
    BY CallChanged DEF AnswerInv
  <1>2. ~R!Selected(c, "respond")' /\ ~R!Selected(c, "response")'
    BY <1>1 DEF R!Selected
  <1>3. Chosen'
    BY <1>1, <1>2, ChosenMoves
  <1> QED
    BY <1>3 DEF Stored, R!Responses

LEMMA CallReturns ==
    ASSUME CloudInv, NEW c \in Callers, R!Return(c)
    PROVE  /\ calls'[c].phase = "idle" /\ ~R!Selected(c, "respond")'
           /\ ~R!Selected(c, "response")'
           /\ \A d \in Callers \ {c} : calls'[d] = calls[d]
  <1>1. calls'[c] = R!NoCall /\ \A d \in Callers \ {c} : calls'[d] = calls[d]
    BY CallChanged DEF R!Return
  <1> QED
    BY <1>1 DEF R!NoCall, R!Selected

LEMMA EndsChangeNoRow ==
    ASSUME AnswerInv, UNCHANGED <<now, rows, minted, accepted>>, NEW c \in Callers, R!Return(c)
    PROVE  Chosen' /\ \A x \in accepted : Stored(x) => Stored(x)'
  <1>1. R!NoCall.phase # "selected"
    BY DEF R!NoCall
  <1> QED
    BY <1>1, NoRowMoves DEF R!Return

LEMMA ChoosesRequest ==
    ASSUME AnswerInv, NEW c \in Callers, R!FindRequest(c)
    PROVE  Chosen' /\ \A x \in accepted : Stored(x) => Stored(x)'
  <1>1. PICK m \in R!Requests : R!Select(c, m)
    BY DEF R!FindRequest
  <1>2. UNCHANGED <<now, rows, minted, accepted>> /\ calls[c].op = "respond"
    BY DEF R!FindRequest, R!Arrived
  <1>3. /\ calls'[c].row = m /\ calls'[c].op = "respond"
        /\ \A d \in Callers \ {c} : calls'[d] = calls[d]
    BY <1>1, <1>2, Selects DEF AnswerInv
  <1>4. \A n \in R!Responses : n.id # m.id
    BY DEF R!Requests, R!Responses, AnswerInv, CloudInv, RelayInv, R!RelayTypeOK
  <1>5. /\ R!Selected(c, "respond")' => \A n \in R!Responses' : n.id # calls'[c].row.id
        /\ ~R!Selected(c, "response")'
    BY <1>2, <1>3, <1>4 DEF R!Selected, R!Responses
  <1>6. Chosen'
    BY <1>2, <1>3, <1>5, ChosenMoves
  <1> QED
    BY <1>2, <1>6 DEF Stored, R!Responses

LEMMA ChoosesResponse ==
    ASSUME AnswerInv, NEW c \in Callers, R!FindResponse(c)
    PROVE  /\ Chosen' /\ \A x \in accepted : Stored(x) => Stored(x)'
           /\ calls'[c].phase = "selected" /\ calls'[c].op = "response"
           /\ calls'[c].arg = calls[c].arg
           /\ \A d \in Callers \ {c} : calls'[d] = calls[d]
  <1>1. PICK m \in R!Responses : R!Answers(m, calls[c].arg) /\ R!Select(c, m)
    BY DEF R!FindResponse
  <1>2. UNCHANGED <<now, rows, minted, accepted>> /\ calls[c].op = "response"
    BY DEF R!FindResponse, R!Arrived
  <1>3. /\ calls'[c].row = m /\ calls'[c].op = "response" /\ calls'[c].phase = "selected"
        /\ calls'[c].arg = calls[c].arg
        /\ \A d \in Callers \ {c} : calls'[d] = calls[d]
    BY <1>1, <1>2, Selects DEF AnswerInv
  <1>4. \A n \in rows : n.id = m.id => n.request = calls[c].arg
    BY <1>1 DEF R!Responses, R!Answers, AnswerInv, CloudInv, RelayInv, R!RelayTypeOK
  <1>5. /\ R!Selected(c, "response")' =>
               \A n \in rows' : n.id = calls'[c].row.id => n.request = calls'[c].arg
        /\ ~R!Selected(c, "respond")'
    BY <1>2, <1>3, <1>4 DEF R!Selected
  <1>6. Chosen'
    BY <1>2, <1>3, <1>5, ChosenMoves
  <1> QED
    BY <1>2, <1>3, <1>6 DEF Stored, R!Responses

\* The cleanup before a request is stored takes only rows that have expired.
LEMMA PostKeepsAnswers ==
    ASSUME AnswerInv, NEW c \in Callers, R!PostRequest(c)
    PROVE  Chosen' /\ \A x \in accepted : Stored(x) => Stored(x)'
  <1> DEFINE new == R!Row(minted + 1, "pc_to_phone", 0, calls[c].arg, now)
  <1>1. /\ rows' = {m \in rows : ~R!Expired(m)} \cup {new} /\ new.id = minted + 1
        /\ R!Return(c) /\ UNCHANGED now
    BY DEF R!PostRequest, R!Row
  <1> HIDE DEF new
  <1>2. Chosen'
    <2>1. \A m \in rows' : m.id = minted + 1 \/ m \in rows
      BY <1>1
    <2> QED
      BY <1>1, <2>1, CallReturns, ChosenMoves DEF AnswerInv
  <1>3. ASSUME NEW x \in accepted, Stored(x) PROVE Stored(x)'
    <2>1. CASE x.at + TTL <= now
      BY <1>1, <2>1 DEF Stored
    <2>2. CASE ~(x.at + TTL <= now)
      <3>1. PICK m \in R!Responses : /\ m.request = x.request.id /\ ~m.consumed
                                    /\ m.expires = x.at + TTL
        BY <1>3, <2>2 DEF Stored
      <3>2. m \in R!Responses'
        BY <1>1, <2>2, <3>1 DEF R!Responses, R!Expired
      <3> QED
        BY <3>1, <3>2 DEF Stored
    <2> QED
      BY <2>1, <2>2
  <1> QED
    BY <1>2, <1>3

\* A client takes the answers to its own request.
LEMMA DeliveryKeepsAnswers ==
    ASSUME AnswerInv, NEW c \in Callers, R!DeliverResponse(c)
    PROVE  /\ Chosen'
           /\ \A x \in accepted : Stored(x) /\ x.request.id # calls[c].arg => Stored(x)'
  <1>1. /\ rows' = R!Consume(calls[c].row.id) /\ R!Return(c) /\ UNCHANGED now
        /\ R!Selected(c, "response")
    BY DEF R!DeliverResponse
  <1>2. Chosen'
    <2>1. \A m \in rows' : \E n \in rows : /\ n.id = m.id /\ n.direction = m.direction
                                          /\ n.request = m.request
      BY <1>1, Consumed DEF AnswerInv
    <2> QED
      BY <1>1, <2>1, CallReturns, ChosenMoves DEF AnswerInv
  <1>3. ASSUME NEW x \in accepted, Stored(x), x.request.id # calls[c].arg
        PROVE  Stored(x)'
    <2>1. CASE x.at + TTL <= now
      BY <1>1, <2>1 DEF Stored
    <2>2. CASE ~(x.at + TTL <= now)
      <3>1. PICK m \in R!Responses : /\ m.request = x.request.id /\ ~m.consumed
                                    /\ m.expires = x.at + TTL
        BY <1>3, <2>2 DEF Stored
      <3>2. m.id # calls[c].row.id
        BY <1>1, <1>3, <3>1 DEF AnswerInv, Chosen, R!Responses
      <3>3. m \in R!Responses'
        BY <1>1, <3>2 DEF R!Responses, R!Consume
      <3> QED
        BY <3>1, <3>3 DEF Stored
    <2> QED
      BY <2>1, <2>2
  <1> QED
    BY <1>2, <1>3

\* An answer is stored, and its request is consumed.
LEMMA AnswerStored ==
    ASSUME AnswerInv, NEW c \in Callers, R!StoreResponse(c)
    PROVE  /\ Chosen'
           /\ \A x \in accepted : Stored(x) => Stored(x)'
           /\ \A x \in accepted' : x \in accepted \/ (x.at \in Nat /\ Stored(x)')
  <1> DEFINE request == calls[c].row
             new == R!Row(minted + 1, "phone_to_pc", request.id, calls[c].arg.answer,
                          calls[c].t)
             first == [request |-> request, at |-> calls[c].t,
                       answer |-> calls[c].arg.answer]
  <1>1. /\ rows' = R!Consume(request.id) \cup {new} /\ R!Return(c) /\ UNCHANGED now
        /\ R!Selected(c, "respond")
        /\ \A x \in accepted' : x \in accepted \/ x = first
    BY DEF R!StoreResponse
  <1>2. /\ new.id = minted + 1 /\ new.direction = "phone_to_pc" /\ new.request = request.id
        /\ new.expires = calls[c].t + TTL /\ new.consumed = FALSE
        /\ first.request = request /\ first.at = calls[c].t
    BY DEF R!Row
  <1>3. calls[c].t \in Nat
    BY <1>1 DEF AnswerInv, CloudInv, RelayInv, CallOK, R!Selected
  <1> HIDE DEF new, first
  <1>4. Chosen'
    <2>1. \A m \in R!Consume(request.id) :
             \E n \in rows : /\ n.id = m.id /\ n.direction = m.direction
                             /\ n.request = m.request
      BY Consumed DEF AnswerInv
    <2> QED
      BY <1>1, <1>2, <2>1, CallReturns, ChosenMoves DEF AnswerInv
  <1>5. ASSUME NEW x \in accepted, Stored(x) PROVE Stored(x)'
    <2>1. CASE x.at + TTL <= now
      BY <1>1, <2>1 DEF Stored
    <2>2. CASE ~(x.at + TTL <= now)
      <3>1. PICK m \in R!Responses : /\ m.request = x.request.id /\ ~m.consumed
                                    /\ m.expires = x.at + TTL
        BY <1>5, <2>2 DEF Stored
      <3>2. m.id # request.id
        BY <1>1 DEF AnswerInv, Chosen
      <3>3. m \in R!Responses'
        BY <1>1, <3>2 DEF R!Responses, R!Consume
      <3> QED
        BY <3>1, <3>3 DEF Stored
    <2> QED
      BY <2>1, <2>2
  <1>6. ASSUME NEW x \in accepted', x = first PROVE x.at \in Nat /\ Stored(x)'
    <2>1. new \in R!Responses'
      BY <1>1, <1>2 DEF R!Responses
    <2>2. x.request.id = request.id /\ x.at = calls[c].t
      BY <1>2, <1>6
    <2>3. \E m \in R!Responses' : /\ m.request = x.request.id /\ ~m.consumed
                                  /\ m.expires = x.at + TTL
      BY <1>2, <2>1, <2>2
    <2> QED
      BY <1>3, <2>2, <2>3 DEF Stored
  <1> QED
    BY <1>1, <1>4, <1>5, <1>6

-----------------------------------------------------------------------------
\* The steps

LEMMA AnswerSteps ==
    ASSUME CloudInv', Asks', Chosen', Waiting' PROVE AnswerInv'
  BY DEF AnswerInv

\* No answer is accepted, and no client begins to wait for one that was.
LEMMA WaitingKept ==
    ASSUME AnswerInv, UNCHANGED accepted,
           \A a \in Attempts : requestId'[a] \in {requestId[a], 0, minted + 1},
           \A x \in accepted : Stored(x) => Stored(x)'
    PROVE  Waiting'
  <1> SUFFICES ASSUME NEW x \in accepted
               PROVE  /\ x.at \in Nat
                      /\ \A a \in Attempts : requestId'[a] = x.request.id => Stored(x)'
    BY DEF Waiting
  <1>1. x.request.id \in 1..minted /\ minted \in Nat
    BY AcceptedIds, Counters DEF AnswerInv
  <1>2. \A a \in Attempts : requestId'[a] = x.request.id => requestId[a] = x.request.id
    BY <1>1
  <1> QED
    BY <1>2 DEF AnswerInv, Waiting

\* Only the phone is at work.
LEMMA AsksKept ==
    ASSUME AnswerInv, UNCHANGED pcvars,
           \A a \in Attempts : calls'[Pc(a)] = calls[Pc(a)]
    PROVE  Asks'
  BY DEF AnswerInv, Asks, pcvars

LEMMA TableStays ==
    ASSUME AnswerInv, UNCHANGED <<now, rows, minted, calls, accepted>>
    PROVE  Chosen' /\ \A x \in accepted : Stored(x) => Stored(x)'
  BY DEF AnswerInv, Chosen, Stored, R!Responses, R!Selected

LEMMA AtTyped ==
    ASSUME AnswerInv PROVE \A x \in accepted : x.at \in Nat
  BY DEF AnswerInv, Waiting

\* How the members of a client change.
LEMMA Members ==
    ASSUME AnswerInv
    PROVE  /\ thread \in [Attempts -> {"new", "create", "loop", "get", "ended", "joined"}]
           /\ requestId \in [Attempts -> 0..minted]
  BY DEF AnswerInv, CloudInv, PcInv

\* A client ends with its call.
LEMMA EndsWithCall ==
    ASSUME AnswerInv, NEW a \in Attempts, NEW st, End(a, st), R!Return(Pc(a))
    PROVE  Asks' /\ \A b \in Attempts : requestId'[b] \in {requestId[b], 0, minted + 1}
  <1>1. /\ calls'[Pc(a)].phase = "idle"
        /\ \A b \in Attempts \ {a} : calls'[Pc(b)] = calls[Pc(b)]
    BY CallReturns, PcIsCaller, CallersDiffer DEF AnswerInv
  <1>2. /\ \A b \in Attempts \ {a} : thread'[b] = thread[b] /\ requestId'[b] = requestId[b]
        /\ requestId'[a] = 0
    BY Members DEF End
  <1> QED
    BY <1>1, <1>2, AsksMoves

LEMMA EndsWithoutCall ==
    ASSUME AnswerInv, NEW a \in Attempts, NEW st, End(a, st), UNCHANGED rvars,
           thread[a] \notin {"create", "get"}
    PROVE  Asks' /\ Chosen' /\ Waiting'
  <1>1. /\ \A b \in Attempts \ {a} : thread'[b] = thread[b] /\ requestId'[b] = requestId[b]
        /\ requestId'[a] = 0
    BY Members DEF End
  <1>2. Asks'
    BY <1>1, AsksMoves DEF rvars, AnswerInv, Asks
  <1> QED
    BY <1>1, <1>2, TableStays, WaitingKept DEF rvars

LEMMA StartKeepsAnswers ==
    ASSUME AnswerInv, NEW a \in Attempts, StartClient(a) \/ BuildFails(a)
    PROVE  Asks' /\ Chosen' /\ Waiting'
  <1>1. CASE StartClient(a)
    <2> DEFINE call == [phase |-> "sent", op |-> "request", arg |-> Challenge(a, now)]
    <2>1. /\ calls' = [calls EXCEPT ![Pc(a)] = call]
          /\ UNCHANGED <<now, rows, minted, accepted, requestId>>
          /\ thread' = [thread EXCEPT ![a] = "create"]
      BY <1>1 DEF StartClient, relayRest, R!Send
    <2>2. /\ calls'[Pc(a)] = call
          /\ \A b \in Attempts \ {a} : calls'[Pc(b)] = calls[Pc(b)]
      BY <2>1, ClientCallChanged
    <2>3. call.phase = "sent" /\ call.op = "request"
      OBVIOUS
    <2> HIDE DEF call
    <2>4. Asks'
      BY <2>1, <2>2, <2>3, Members, AsksMoves
    <2> QED
      BY <2>1, <2>3, <2>4, NoRowMoves, PcIsCaller, WaitingKept
  <1>2. CASE BuildFails(a)
    BY <1>2, EndsWithoutCall DEF BuildFails, MayStart
  <1> QED
    BY <1>1, <1>2

LEMMA WorkKeepsAnswers ==
    ASSUME AnswerInv, NEW a \in Attempts,
           Get(a) \/ GiveUp(a) \/ Find(a) \/ GotNothing(a) \/ StopClient(a) \/ JoinClient(a)
    PROVE  Asks' /\ Chosen' /\ Waiting'
  <1>1. CASE Get(a)
    <2> DEFINE call == [phase |-> "sent", op |-> "response", arg |-> requestId[a]]
    <2>1. /\ calls' = [calls EXCEPT ![Pc(a)] = call]
          /\ UNCHANGED <<now, rows, minted, accepted, requestId>>
          /\ thread' = [thread EXCEPT ![a] = "get"]
      BY <1>1 DEF Get, relayRest, R!Send
    <2>2. /\ calls'[Pc(a)] = call
          /\ \A b \in Attempts \ {a} : calls'[Pc(b)] = calls[Pc(b)]
      BY <2>1, ClientCallChanged
    <2>3. call.phase = "sent" /\ call.arg = requestId[a]
      OBVIOUS
    <2> HIDE DEF call
    <2>4. Asks'
      BY <2>1, <2>2, <2>3, Members, AsksMoves
    <2> QED
      BY <2>1, <2>3, <2>4, NoRowMoves, PcIsCaller, WaitingKept
  <1>2. CASE GiveUp(a)
    BY <1>2, EndsWithoutCall DEF GiveUp
  <1>3. CASE Find(a)
    <2>1. R!FindResponse(Pc(a)) /\ UNCHANGED <<thread, requestId, accepted>>
      BY <1>3 DEF Find, pcvars, R!FindResponse
    <2>2. /\ Chosen' /\ \A x \in accepted : Stored(x) => Stored(x)'
          /\ calls'[Pc(a)].arg = calls[Pc(a)].arg
          /\ \A b \in Attempts \ {a} : calls'[Pc(b)] = calls[Pc(b)]
      BY <2>1, ChoosesResponse, PcIsCaller, CallersDiffer
    <2>3. calls[Pc(a)].arg = requestId[a] /\ thread[a] = "get"
      BY <1>3, <2>1 DEF Find, AnswerInv, Asks, R!FindResponse, R!Arrived
    <2>4. Asks'
      BY <2>1, <2>2, <2>3, AsksMoves
    <2> QED
      BY <2>1, <2>2, <2>4, WaitingKept
  <1>4. CASE GotNothing(a)
    <2>1. /\ R!Return(Pc(a)) /\ UNCHANGED <<now, rows, minted, accepted, requestId>>
          /\ thread' = [thread EXCEPT ![a] = "loop"]
      BY <1>4 DEF GotNothing, R!NoResponse
    <2>2. /\ calls'[Pc(a)].phase = "idle"
          /\ \A b \in Attempts \ {a} : calls'[Pc(b)] = calls[Pc(b)]
      BY <2>1, CallReturns, PcIsCaller, CallersDiffer DEF AnswerInv
    <2>3. Asks'
      BY <2>1, <2>2, Members, AsksMoves
    <2> QED
      BY <2>1, <2>3, EndsChangeNoRow, PcIsCaller, WaitingKept
  <1>5. CASE StopClient(a) \/ JoinClient(a)
    <2>1. /\ UNCHANGED <<now, rows, minted, calls, accepted, requestId>>
          /\ \/ UNCHANGED thread
             \/ thread[a] = "ended" /\ thread' = [thread EXCEPT ![a] = "joined"]
      BY <1>5 DEF StopClient, JoinClient, rvars
    <2>2. Asks'
      BY <2>1, Members, AsksMoves DEF AnswerInv, Asks
    <2> QED
      BY <2>1, <2>2, TableStays, WaitingKept
  <1> QED
    BY <1>1, <1>2, <1>3, <1>4, <1>5

\* The client that an answer is delivered to, or lost for, waits for none any more.
LEMMA DeliveredToOne ==
    ASSUME AnswerInv, NEW a \in Attempts, NEW st, R!DeliverResponse(Pc(a)), End(a, st)
    PROVE  Asks' /\ Chosen' /\ Waiting'
  <1>1. R!Return(Pc(a)) /\ UNCHANGED accepted /\ R!Selected(Pc(a), "response")
    BY DEF R!DeliverResponse
  <1>2. Asks'
    BY <1>1, EndsWithCall
  <1>3. /\ Chosen'
        /\ \A x \in accepted : Stored(x) /\ x.request.id # calls[Pc(a)].arg => Stored(x)'
    BY DeliveryKeepsAnswers, PcIsCaller
  <1>4. Waiting'
    <2> SUFFICES ASSUME NEW x \in accepted, NEW b \in Attempts, requestId'[b] = x.request.id
                 PROVE  x.at \in Nat /\ Stored(x)'
      BY <1>1, AtTyped DEF Waiting
    <2>1. x.request.id \in 1..minted /\ minted \in Nat
      BY AcceptedIds, Counters DEF AnswerInv
    <2>2. /\ requestId'[a] = 0
          /\ \A d \in Attempts \ {a} : requestId'[d] = requestId[d]
      BY Members DEF End
    <2>3. b # a /\ requestId[b] = x.request.id
      BY <2>1, <2>2
    <2>4. calls[Pc(a)].arg = requestId[a]
      BY <1>1 DEF AnswerInv, Asks, R!Selected
    <2>5. x.request.id # calls[Pc(a)].arg
      BY <2>1, <2>3, <2>4 DEF AnswerInv, Asks
    <2> QED
      BY <1>3, <2>3, <2>5 DEF AnswerInv, Waiting
  <1> QED
    BY <1>2, <1>3, <1>4

LEMMA ReplyKeepsAnswers ==
    ASSUME AnswerInv, NEW a \in Attempts, Created(a) \/ Got(a) \/ CallFails(a)
    PROVE  Asks' /\ Chosen' /\ Waiting'
  <1>1. CASE Created(a)
    <2>1. /\ R!PostRequest(Pc(a)) /\ R!Return(Pc(a)) /\ UNCHANGED accepted
          /\ minted' = minted + 1 /\ requestId' = [requestId EXCEPT ![a] = minted']
          /\ thread' = [thread EXCEPT ![a] = "loop"]
      BY <1>1 DEF Created, R!PostRequest
    <2>2. /\ calls'[Pc(a)].phase = "idle"
          /\ \A b \in Attempts \ {a} : calls'[Pc(b)] = calls[Pc(b)]
      BY <2>1, CallReturns, PcIsCaller, CallersDiffer DEF AnswerInv
    <2>3. /\ requestId'[a] = minted + 1
          /\ \A b \in Attempts \ {a} : thread'[b] = thread[b] /\ requestId'[b] = requestId[b]
      BY <2>1, Members
    <2>4. Asks'
      BY <2>2, <2>3, AsksMoves
    <2> QED
      BY <2>1, <2>3, <2>4, PostKeepsAnswers, PcIsCaller, WaitingKept
  <1>2. CASE Got(a)
    BY <1>2, DeliveredToOne DEF Got
  <1>3. CASE CallFails(a)
    <2>1. End(a, "CONNECT_ERROR")
      BY <1>3 DEF CallFails
    <2>2. CASE R!DeliverResponse(Pc(a))
      BY <2>1, <2>2, DeliveredToOne
    <2>3. CASE R!PostRequest(Pc(a))
      <3>1. R!Return(Pc(a)) /\ UNCHANGED accepted
        BY <2>3 DEF R!PostRequest
      <3> QED
        BY <2>1, <2>3, <3>1, EndsWithCall, PostKeepsAnswers, PcIsCaller, WaitingKept
    <2>4. CASE R!Lose(Pc(a))
      <3>1. R!Return(Pc(a)) /\ UNCHANGED <<now, rows, minted, accepted>>
        BY <2>4 DEF R!Lose
      <3> QED
        BY <2>1, <3>1, EndsWithCall, EndsChangeNoRow, PcIsCaller, WaitingKept
    <2> QED
      BY <1>3, <2>2, <2>3, <2>4 DEF CallFails
  <1> QED
    BY <1>1, <1>2, <1>3

LEMMA PhoneKeepsAnswers ==
    ASSUME AnswerInv, PhoneStep
    PROVE  Asks' /\ Chosen' /\ Waiting'
  <1>1. CASE Poll \/ Handle \/ Tap \/ (\E ok \in BOOLEAN : Decide(ok)) \/ Die
    <2>1. UNCHANGED <<rvars, pcvars>>
      BY <1>1 DEF Poll, Handle, Tap, Decide, Die
    <2> QED
      BY <2>1, AsksKept, TableStays, WaitingKept DEF rvars, pcvars
  <1>2. CASE Respond
    <2> DEFINE call ==
          [phase |-> "sent", op |-> "respond",
           arg |-> [request |-> Head(queue).id,
                    answer |-> IF Head(queue).ok THEN Approval(Head(queue).token, now)
                                                 ELSE Refusal]]
    <2>1. /\ calls' = [calls EXCEPT ![Activity(lives)] = call]
          /\ UNCHANGED <<now, rows, minted, accepted, pcvars>>
      BY <1>2 DEF Respond, relayRest, R!Send
    <2>2. call.phase # "selected"
      OBVIOUS
    <2> HIDE DEF call
    <2>3. Activity(lives) \in Callers
      BY DEF AnswerInv, CloudInv, PhoneInv, Callers
    <2>4. \A a \in Attempts : calls'[Pc(a)] = calls[Pc(a)]
      BY <2>1, <2>3, CallChanged, PcIsCaller, CallersDiffer DEF AnswerInv
    <2> QED
      BY <2>1, <2>2, <2>3, <2>4, AsksKept, NoRowMoves, WaitingKept DEF pcvars
  <1>3. ASSUME NEW n \in 0..lives, Responding(n) PROVE Asks' /\ Chosen' /\ Waiting'
    <2>1. Activity(n) \in Callers
      <3>1. n \in 0..MaxRestarts
        BY CloudAssumption DEF AnswerInv, CloudInv, PhoneInv
      <3> QED
        BY <3>1 DEF Callers
    <2>2. UNCHANGED pcvars
      BY <1>3 DEF Responding
    <2>3. CASE R!FindRequest(Activity(n))
      <3>1. PICK m \in R!Requests : R!Select(Activity(n), m)
        BY <2>3 DEF R!FindRequest
      <3>2. \A a \in Attempts : calls'[Pc(a)] = calls[Pc(a)]
        BY <2>1, <3>1, Selects, PcIsCaller, CallersDiffer DEF AnswerInv
      <3> QED
        BY <2>1, <2>2, <2>3, <3>2, AsksKept, ChoosesRequest, WaitingKept
           DEF pcvars, R!FindRequest
    <2>4. CASE \/ R!NoRequest(Activity(n)) \/ R!RejectResponse(Activity(n))
               \/ R!Lose(Activity(n))
      <3>1. R!Return(Activity(n)) /\ UNCHANGED <<now, rows, minted, accepted>>
        BY <2>4 DEF R!NoRequest, R!RejectResponse, R!Lose
      <3>2. \A a \in Attempts : calls'[Pc(a)] = calls[Pc(a)]
        BY <2>1, <3>1, CallReturns, PcIsCaller, CallersDiffer DEF AnswerInv
      <3> QED
        BY <2>1, <2>2, <3>1, <3>2, AsksKept, EndsChangeNoRow, WaitingKept DEF pcvars
    <2>5. CASE R!StoreResponse(Activity(n))
      <3>1. R!Return(Activity(n))
        BY <2>5 DEF R!StoreResponse
      <3>2. \A a \in Attempts : calls'[Pc(a)] = calls[Pc(a)]
        BY <2>1, <3>1, CallReturns, PcIsCaller, CallersDiffer DEF AnswerInv
      <3>3. /\ Chosen'
            /\ \A x \in accepted : Stored(x) => Stored(x)'
            /\ \A x \in accepted' : x \in accepted \/ (x.at \in Nat /\ Stored(x)')
        BY <2>1, <2>5, AnswerStored
      <3>4. Waiting'
        BY <2>2, <3>3 DEF AnswerInv, Waiting, pcvars
      <3> QED
        BY <2>2, <3>2, <3>3, <3>4, AsksKept
    <2> QED
      BY <1>3, <2>3, <2>4, <2>5 DEF Responding, R!RespondStep
  <1> QED
    BY <1>1, <1>2, <1>3 DEF PhoneStep

LEMMA TimeKeepsAnswers ==
    ASSUME AnswerInv, Tick
    PROVE  Asks' /\ Chosen' /\ Waiting'
  <1>1. UNCHANGED <<rows, minted, calls, accepted, pcvars>> /\ now' = now + 1
    BY DEF Tick
  <1>2. Asks'
    BY <1>1, AsksKept
  <1>3. Chosen'
    BY <1>1 DEF AnswerInv, Chosen, R!Selected, R!Responses
  <1>4. ASSUME NEW x \in accepted, Stored(x) PROVE Stored(x)'
    <2>1. x.at + TTL <= now => x.at + TTL <= now'
      BY <1>1, AtTyped, Counters, CloudAssumption DEF AnswerInv
    <2> QED
      BY <1>1, <1>4, <2>1 DEF Stored, R!Responses
  <1> QED
    BY <1>1, <1>2, <1>3, <1>4, WaitingKept DEF pcvars

LEMMA AnswerInvStep == AnswerInv /\ CloudInv' /\ [Next]_vars => AnswerInv'
  <1> SUFFICES ASSUME AnswerInv, CloudInv', [Next]_vars PROVE AnswerInv'
    OBVIOUS
  <1>1. CASE \E a \in Attempts : \/ StartClient(a) \/ BuildFails(a) \/ ClientStep(a)
                                 \/ CallFails(a) \/ StopClient(a)
    <2>1. Asks' /\ Chosen' /\ Waiting'
      BY <1>1, StartKeepsAnswers, WorkKeepsAnswers, ReplyKeepsAnswers DEF ClientStep
    <2> QED
      BY <2>1, AnswerSteps
  <1>2. CASE PhoneStep
    BY <1>2, PhoneKeepsAnswers, AnswerSteps
  <1>3. CASE Tick
    BY <1>3, TimeKeepsAnswers, AnswerSteps
  <1>4. CASE UNCHANGED vars
    <2>1. UNCHANGED <<rvars, pcvars>>
      BY <1>4 DEF vars
    <2> QED
      BY <2>1, AsksKept, TableStays, WaitingKept, AnswerSteps DEF rvars, pcvars
  <1> QED
    BY <1>1, <1>2, <1>3, <1>4 DEF Next

\* GET /v1/relay/requests/:id/response finds no answer only when none was accepted for
\* the client's request or the accepted one has expired: neither the cleanup, nor the
\* phone's answers to other requests, nor another PC's client take it from the table
\* (cloud/src/index.ts, CloudUnlockClient.cpp).
THEOREM CloudAnswerIsFound == Spec => AnswerIsFound
  <1>1. ASSUME AnswerInv, NEW a \in Attempts, GotNothing(a), NEW x \in accepted,
               x.request.id = requestId[a]
        PROVE  x.at + TTL <= now
    <2>1. /\ calls[Pc(a)].arg = requestId[a]
          /\ \A m \in R!Responses : m.request = requestId[a] => ~R!Open(m)
      BY <1>1 DEF GotNothing, R!NoResponse, R!Arrived, R!Answers, AnswerInv, Asks
    <2>2. Stored(x) /\ x.at \in Nat
      BY <1>1 DEF AnswerInv, Waiting
    <2>3. now \in Nat /\ TTL \in Nat
      BY <1>1, Counters, CloudAssumption DEF AnswerInv
    <2> QED
      BY <1>1, <2>1, <2>2, <2>3 DEF Stored, R!Open
  <1>2. AnswerInv => [\A a \in Attempts : GotNothing(a) =>
                         \A x \in accepted :
                            x.request.id = requestId[a] => x.at + TTL <= now]_vars
    BY <1>1
  <1> QED
    BY <1>2, AnswerInvInit, AnswerInvStep, CloudInvariance, PTL DEF Spec, AnswerIsFound

-----------------------------------------------------------------------------
(***************************************************************************)
(* For any attempts, PCs and sizes of the phone's memory: the phone polls  *)
(* again what it has shown only while the table holds another request of   *)
(* the same second.                                                        *)
(*                                                                         *)
(* The relay hands out the oldest open request.  An open one that the      *)
(* phone has forgotten made room for a later poll; both were open then, so *)
(* neither is older than the other, and what is as old as an open row is   *)
(* not purged either.                                                      *)
(***************************************************************************)

OpenRequests == {m \in R!Requests : R!Open(m)}

\* An open request that was shown and forgotten has a rival of its second.
Forgotten ==
    \A m \in OpenRequests : m.id \in shown /\ ~InSeen(m.id) =>
        \E n \in R!Requests : n.id # m.id /\ n.created = m.created

\* No open request is older than one that a poll has brought.
PolledOldest ==
    \A m \in R!Requests : InSeen(m.id) \/ polled.id = m.id =>
        \A n \in OpenRequests : m.created <= n.created

\* A request that is polled while a remembered one is open is of its second.
PolledRival ==
    polled # Nothing =>
        /\ ~InSeen(polled.id)
        /\ \A m \in OpenRequests : InSeen(m.id) =>
              \E n \in R!Requests : n.id = polled.id /\ n.created = m.created

AskInv == CloudInv /\ Forgotten /\ PolledOldest /\ PolledRival

LEMMA AskInvInit == Init => AskInv
  <1> SUFFICES ASSUME Init PROVE AskInv
    OBVIOUS
  <1>1. CloudInv
    BY CloudInvInit
  <1> QED
    BY <1>1 DEF Init, R!RelayInit, AskInv, Forgotten, PolledOldest, PolledRival,
                OpenRequests, R!Requests

\* The request m and what has become of it, n.
Same(m, n) == m.id = n.id /\ m.created = n.created

\* Requests are added and consumed, and only those that have expired are purged.
TableMoves ==
    /\ \A n \in R!Requests' :
          \/ n.id = minted + 1 /\ n.created = now
          \/ \E m \in R!Requests : Same(m, n) /\ (R!Open(n)' => R!Open(m))
    /\ \A m \in R!Requests : m.expires > now' => \E n \in R!Requests' : Same(m, n)

LEMMA TableWaits ==
    ASSUME CloudInv, UNCHANGED rows, now' \in Nat, now <= now'
    PROVE  TableMoves
  <1>1. \A m \in rows : m.expires \in Nat
    BY RowFound
  <1>2. \A m \in rows : R!Open(m)' => R!Open(m)
    BY <1>1, Counters DEF R!Open
  <1> QED
    BY <1>2 DEF TableMoves, Same, R!Requests

\* A row is consumed, and a response may be stored.
LEMMA TableConsumes ==
    ASSUME CloudInv, UNCHANGED now, NEW id, NEW new,
           rows' = R!Consume(id) \/ rows' = R!Consume(id) \cup {new},
           new.direction = "phone_to_pc"
    PROVE  TableMoves
  <1>1. ASSUME NEW n \in R!Requests'
        PROVE  \E m \in R!Requests : Same(m, n) /\ (R!Open(n)' => R!Open(m))
    <2>1. n \in R!Consume(id) /\ n.direction = "pc_to_phone"
      BY <1>1 DEF R!Requests
    <2>2. PICK m \in rows : m.direction = n.direction /\ Same(m, n) /\ m.expires = n.expires
                            /\ (n = m \/ n = [m EXCEPT !.consumed = TRUE])
      BY <2>1, Consumed DEF Same
    <2>3. "consumed" \in DOMAIN m
      BY DEF CloudInv, RelayInv, RowOK
    <2>4. R!Open(n)' => R!Open(m)
      BY <2>2, <2>3 DEF R!Open
    <2> QED
      BY <2>1, <2>2, <2>4 DEF R!Requests
  <1>2. ASSUME NEW m \in R!Requests PROVE \E n \in R!Requests' : Same(m, n)
    <2> DEFINE n == IF m.id = id THEN [m EXCEPT !.consumed = TRUE] ELSE m
    <2>1. m \in rows /\ m.direction = "pc_to_phone"
      BY DEF R!Requests
    <2>2. /\ DOMAIN m = {"id", "direction", "request", "payload", "created", "expires",
                         "consumed"}
      BY <2>1 DEF CloudInv, RelayInv, RowOK
    <2>3. n \in R!Consume(id)
      BY <2>1 DEF R!Consume
    <2>4. n.direction = "pc_to_phone" /\ Same(m, n)
      BY <2>1, <2>2 DEF Same
    <2> HIDE DEF n
    <2> QED
      BY <2>3, <2>4 DEF R!Requests
  <1> QED
    BY <1>1, <1>2 DEF TableMoves

LEMMA TablePosts ==
    ASSUME CloudInv, NEW c, R!PostRequest(c)
    PROVE  TableMoves
  <1> DEFINE new == R!Row(minted + 1, "pc_to_phone", 0, calls[c].arg, now)
  <1>1. /\ rows' = {m \in rows : ~R!Expired(m)} \cup {new} /\ UNCHANGED now
        /\ new.id = minted + 1 /\ new.created = now
    BY DEF R!PostRequest, R!Row
  <1> HIDE DEF new
  <1>2. \A m \in rows : m.expires > now' => m \in rows'
    BY <1>1, RowFound, Counters DEF R!Expired
  <1>3. \A m \in rows : R!Open(m)' => R!Open(m)
    BY <1>1 DEF R!Open
  <1> QED
    BY <1>1, <1>2, <1>3 DEF TableMoves, Same, R!Requests

LEMMA StepMovesTable == CloudInv /\ [Next]_vars => TableMoves
  <1> SUFFICES ASSUME CloudInv, [Next]_vars PROVE TableMoves
    OBVIOUS
  <1>1. CASE UNCHANGED <<now, rows>>
    BY <1>1, TableWaits, Counters
  <1>2. ASSUME NEW c, R!DeliverResponse(c) PROVE TableMoves
    <2> DEFINE new == R!Row(0, "phone_to_pc", 0, 0, 0)
    <2>1. new.direction = "phone_to_pc"
      BY DEF R!Row
    <2> HIDE DEF new
    <2> QED
      BY <1>2, <2>1, TableConsumes DEF R!DeliverResponse
  <1>3. ASSUME NEW c, R!StoreResponse(c) PROVE TableMoves
    <2> DEFINE new == R!Row(minted + 1, "phone_to_pc", calls[c].row.id, calls[c].arg.answer,
                            calls[c].t)
    <2>1. rows' = R!Consume(calls[c].row.id) \cup {new} /\ new.direction = "phone_to_pc"
      BY <1>3 DEF R!StoreResponse, R!Row
    <2> HIDE DEF new
    <2> QED
      BY <1>3, <2>1, TableConsumes DEF R!StoreResponse
  <1>4. ASSUME NEW a \in Attempts,
               \/ StartClient(a) \/ BuildFails(a) \/ ClientStep(a) \/ CallFails(a)
               \/ StopClient(a)
        PROVE  TableMoves
    <2>1. CASE StartClient(a) \/ BuildFails(a) \/ StopClient(a)
      BY <1>1, <2>1 DEF StartClient, BuildFails, StopClient, relayRest, rvars
    <2>2. CASE Get(a) \/ GiveUp(a) \/ Find(a) \/ GotNothing(a) \/ JoinClient(a)
      BY <1>1, <2>2 DEF Get, GiveUp, Find, GotNothing, JoinClient, relayRest, rvars,
                        R!FindResponse, R!NoResponse
    <2>3. CASE Created(a) \/ Got(a)
      BY <1>2, <2>3, TablePosts DEF Created, Got
    <2>4. CASE CallFails(a)
      BY <1>1, <1>2, <2>4, TablePosts DEF CallFails, R!Lose
    <2> QED
      BY <1>4, <2>1, <2>2, <2>3, <2>4 DEF ClientStep
  <1>5. CASE PhoneStep
    <2>1. CASE Poll \/ Handle \/ Tap \/ (\E ok \in BOOLEAN : Decide(ok)) \/ Respond \/ Die
      BY <1>1, <2>1 DEF Poll, Handle, Tap, Decide, Respond, Die, rvars, relayRest
    <2>2. ASSUME NEW n \in 0..lives, Responding(n) PROVE TableMoves
      BY <1>1, <1>3, <2>2 DEF Responding, R!RespondStep, R!FindRequest, R!NoRequest,
                              R!RejectResponse, R!Lose
    <2> QED
      BY <1>5, <2>1, <2>2 DEF PhoneStep
  <1>6. CASE Tick
    BY <1>6, TableWaits, Counters DEF Tick
  <1>7. CASE UNCHANGED vars
    BY <1>1, <1>7 DEF vars, rvars
  <1> QED
    BY <1>4, <1>5, <1>6, <1>7 DEF Next

\* What the phone holds are ids that were minted, or none.
LEMMA PhoneIds ==
    ASSUME CloudInv
    PROVE  /\ polled.id \in 0..minted /\ shown \subseteq 1..minted
           /\ \A id : InSeen(id) => id \in 1..minted
           /\ \A m \in R!Requests : m \in rows /\ m.id \in 1..minted
           /\ minted \in Nat
  <1>1. seen \in Seq(1..minted)
    BY DEF CloudInv, PhoneInv
  <1>2. \A S : seen \in Seq(S) => \A i \in DOMAIN seen : seen[i] \in S
    OBVIOUS
  <1>3. \A id : InSeen(id) => id \in 1..minted
    BY <1>1, <1>2 DEF InSeen
  <1> QED
    BY <1>3, RowFound, Counters DEF CloudInv, PhoneInv, Nothing, R!Requests

\* While an open request of the table is there, so is everything of its second.
LEMMA RivalStays ==
    ASSUME CloudInv, CloudInv', TableMoves,
           NEW m \in OpenRequests', NEW n \in R!Requests, n.created = m.created
    PROVE  \E x \in R!Requests' : Same(n, x)
  <1>1. m \in rows' /\ m.expires = m.created + TTL /\ m.expires > now'
    BY DEF OpenRequests, R!Requests, R!Open, CloudInv, RelayInv, R!RelayTypeOK
  <1>2. n \in rows /\ n.expires = n.created + TTL
    BY RowFound DEF R!Requests
  <1> QED
    BY <1>1, <1>2 DEF TableMoves

\* A request that is open now was open before, unless it is new.
LEMMA WasOpen ==
    ASSUME CloudInv, TableMoves, NEW m \in OpenRequests'
    PROVE  \/ m.id = minted + 1 /\ m.created = now
           \/ \E n \in OpenRequests : Same(n, m)
  BY DEF TableMoves, OpenRequests

LEMMA AskKept ==
    ASSUME AskInv, CloudInv', TableMoves, UNCHANGED <<polled, seen, shown>>
    PROVE  AskInv'
  <1>1. \A id : InSeen(id)' <=> InSeen(id)
    BY DEF InSeen
  <1>2. /\ minted \in Nat /\ polled.id \in 0..minted /\ shown \subseteq 1..minted
        /\ \A id : InSeen(id) => id \in 1..minted
    BY PhoneIds DEF AskInv
  <1>3. Forgotten'
    <2> SUFFICES ASSUME NEW m \in OpenRequests', m.id \in shown, ~InSeen(m.id)
                 PROVE  \E x \in R!Requests' : x.id # m.id /\ x.created = m.created
      BY <1>1 DEF Forgotten
    <2>1. PICK y \in OpenRequests : Same(y, m)
      BY <1>2, WasOpen DEF AskInv
    <2>2. PICK n \in R!Requests : n.id # y.id /\ n.created = y.created
      BY <2>1 DEF AskInv, Forgotten, Same
    <2>3. PICK x \in R!Requests' : Same(n, x)
      BY <2>1, <2>2, RivalStays DEF AskInv, Same
    <2> QED
      BY <2>1, <2>2, <2>3 DEF Same
  <1>4. PolledOldest'
    <2> SUFFICES ASSUME NEW m \in R!Requests', InSeen(m.id) \/ polled.id = m.id,
                        NEW n \in OpenRequests'
                 PROVE  m.created <= n.created
      BY <1>1 DEF PolledOldest
    <2>1. m.id # minted + 1
      BY <1>2
    <2>2. PICK x \in R!Requests : Same(x, m)
      BY <2>1 DEF TableMoves
    <2>3. x \in rows /\ x.created <= now
      BY RowFound DEF R!Requests, AskInv
    <2>4. CASE n.created = now
      BY <2>2, <2>3, <2>4 DEF Same
    <2>5. CASE \E y \in OpenRequests : Same(y, n)
      BY <2>2, <2>5 DEF AskInv, PolledOldest, Same
    <2> QED
      BY <2>4, <2>5, WasOpen DEF AskInv
  <1>5. PolledRival'
    <2> SUFFICES ASSUME polled # Nothing, NEW m \in OpenRequests', InSeen(m.id)
                 PROVE  \E x \in R!Requests' : x.id = polled.id /\ x.created = m.created
      BY <1>1 DEF PolledRival, AskInv, Nothing
    <2>1. PICK y \in OpenRequests : Same(y, m)
      BY <1>2, WasOpen DEF AskInv
    <2>2. PICK n \in R!Requests : n.id = polled.id /\ n.created = y.created
      BY <2>1 DEF AskInv, PolledRival, Same
    <2>3. PICK x \in R!Requests' : Same(n, x)
      BY <2>1, <2>2, RivalStays DEF AskInv, Same
    <2> QED
      BY <2>1, <2>2, <2>3 DEF Same
  <1> QED
    BY <1>3, <1>4, <1>5 DEF AskInv

LEMMA AskPolls ==
    ASSUME AskInv, CloudInv', Poll PROVE AskInv'
  <1>1. PICK q \in R!PollRequests : /\ ~InSeen(q.id)
                                    /\ polled' = [id |-> q.id, challenge |-> q.payload]
    BY DEF Poll
  <1>2. UNCHANGED <<now, rows, seen, shown>> /\ polled = Nothing /\ polled'.id = q.id
    BY <1>1 DEF Poll, rvars
  <1>3. q \in OpenRequests /\ \A n \in OpenRequests : q.created <= n.created
    BY DEF R!PollRequests, OpenRequests
  <1>4. /\ R!Requests' = R!Requests /\ OpenRequests' = OpenRequests
        /\ \A id : InSeen(id)' <=> InSeen(id)
    BY <1>2 DEF R!Requests, OpenRequests, R!Open, InSeen
  <1>5. \A m \in R!Requests : m.id = q.id => m = q
    BY <1>3 DEF AskInv, CloudInv, RelayInv, R!RelayTypeOK, OpenRequests, R!Requests
  <1>6. Forgotten'
    BY <1>2, <1>4 DEF AskInv, Forgotten
  <1>7. PolledOldest'
    BY <1>2, <1>3, <1>4, <1>5 DEF AskInv, PolledOldest
  <1>8. PolledRival'
    <2> SUFFICES ASSUME NEW m \in OpenRequests, InSeen(m.id) PROVE q.created = m.created
      BY <1>1, <1>2, <1>3, <1>4 DEF PolledRival, OpenRequests
    <2>1. q.created <= m.created /\ m.created <= q.created
      BY <1>3 DEF AskInv, PolledOldest, OpenRequests
    <2>2. q.created \in Nat /\ m.created \in Nat
      BY <1>3, RowFound DEF AskInv, OpenRequests, R!Requests
    <2> QED
      BY <2>1, <2>2
  <1> QED
    BY <1>6, <1>7, <1>8 DEF AskInv

\* One more id is remembered, and one is forgotten when there are too many.
LEMMA Recalls ==
    ASSUME CloudInv, NEW id, seen' = Remember(id)
    PROVE  /\ InSeen(id)'
           /\ \A x : InSeen(x)' => x = id \/ InSeen(x)
  <1>1. seen \in Seq(1..minted) /\ Len(seen) \in Nat /\ DOMAIN seen = 1..Len(seen)
    BY DEF CloudInv, PhoneInv
  <1>2. CASE Len(seen) = MaxSeen
    <2>1. seen # <<>>
      BY <1>1, <1>2, CloudAssumption
    <2>2. /\ DOMAIN Tail(seen) = 1..(Len(seen) - 1)
          /\ Len(Tail(seen)) = Len(seen) - 1
          /\ \A i \in 1..(Len(seen) - 1) : Tail(seen)[i] = seen[i + 1]
      BY <1>1, <2>1
    <2>3. /\ DOMAIN Append(Tail(seen), id) = 1..Len(seen)
          /\ Append(Tail(seen), id)[Len(seen)] = id
          /\ \A i \in 1..(Len(seen) - 1) : Append(Tail(seen), id)[i] = seen[i + 1]
      BY <1>1, <2>1, <2>2
    <2>4. seen' = Append(Tail(seen), id)
      BY <1>2 DEF Remember
    <2>5. InSeen(id)'
      BY <1>1, <2>1, <2>3, <2>4 DEF InSeen
    <2>6. ASSUME NEW x, InSeen(x)' PROVE x = id \/ InSeen(x)
      <3>1. PICK i \in 1..Len(seen) : seen'[i] = x
        BY <2>3, <2>4, <2>6 DEF InSeen
      <3> DEFINE n == Len(seen)
      <3>2. n \in Nat /\ DOMAIN seen = 1..n
        BY <1>1
      <3> HIDE DEF n
      <3>3. i \in 1..n
        BY <3>1 DEF n
      <3>4. i = n \/ (i \in 1..(n - 1) /\ i + 1 \in 1..n)
        BY <3>2, <3>3
      <3> QED
        BY <2>3, <2>4, <3>1, <3>2, <3>3, <3>4 DEF InSeen, n
    <2> QED
      BY <2>5, <2>6
  <1>3. CASE Len(seen) # MaxSeen
    <2>1. seen' = Append(seen, id)
      BY <1>3 DEF Remember
    <2>2. /\ DOMAIN Append(seen, id) = 1..(Len(seen) + 1)
          /\ Append(seen, id)[Len(seen) + 1] = id
          /\ \A i \in 1..Len(seen) : Append(seen, id)[i] = seen[i]
      BY <1>1
    <2>3. InSeen(id)'
      BY <1>1, <2>1, <2>2 DEF InSeen
    <2>4. ASSUME NEW x, InSeen(x)' PROVE x = id \/ InSeen(x)
      <3>1. PICK i \in 1..(Len(seen) + 1) : seen'[i] = x
        BY <2>1, <2>2, <2>4 DEF InSeen
      <3>2. i = Len(seen) + 1 \/ i \in 1..Len(seen)
        BY <1>1
      <3> QED
        BY <1>1, <2>1, <2>2, <3>1, <3>2 DEF InSeen
    <2> QED
      BY <2>3, <2>4
  <1> QED
    BY <1>2, <1>3

LEMMA AskHandles ==
    ASSUME AskInv, CloudInv', Handle PROVE AskInv'
  <1>1. /\ UNCHANGED <<now, rows>> /\ polled # Nothing /\ polled' = Nothing
        /\ seen' = Remember(polled.id) /\ shown' \subseteq shown \cup {polled.id}
    BY DEF Handle, rvars
  <1>0. PICK id : id = polled.id
    OBVIOUS
  <1>2. InSeen(id)' /\ \A x : InSeen(x)' => x = id \/ InSeen(x)
    BY <1>0, <1>1, Recalls DEF AskInv
  <1>3. R!Requests' = R!Requests /\ OpenRequests' = OpenRequests
    BY <1>1 DEF R!Requests, OpenRequests, R!Open
  <1>4. OpenRequests \subseteq R!Requests /\ \A m \in R!Requests : m.id # 0
    BY PhoneIds DEF AskInv, OpenRequests
  <1>5. Forgotten'
    <2> SUFFICES ASSUME NEW m \in OpenRequests, m.id \in shown', ~InSeen(m.id)'
                 PROVE  \E n \in R!Requests : n.id # m.id /\ n.created = m.created
      BY <1>3 DEF Forgotten
    <2>1. m.id # id /\ m.id \in shown
      BY <1>0, <1>1, <1>2
    <2>2. CASE InSeen(m.id)
      BY <1>0, <1>1, <2>1, <2>2 DEF AskInv, PolledRival
    <2>3. CASE ~InSeen(m.id)
      BY <2>1, <2>3 DEF AskInv, Forgotten
    <2> QED
      BY <2>2, <2>3
  <1>6. PolledOldest'
    <2>1. \A m \in R!Requests : polled'.id # m.id
      BY <1>1, <1>4 DEF Nothing
    <2> QED
      BY <1>0, <1>2, <1>3, <2>1 DEF AskInv, PolledOldest
  <1>7. PolledRival'
    BY <1>1 DEF PolledRival, Nothing
  <1> QED
    BY <1>5, <1>6, <1>7 DEF AskInv

\* A new life of the phone's process remembers nothing.
LEMMA AskForgets ==
    ASSUME AskInv, CloudInv', Die PROVE AskInv'
  <1>1. UNCHANGED <<now, rows>> /\ polled' = Nothing /\ seen' = <<>> /\ shown' = {}
    BY DEF Die, rvars
  <1>2. \A id : ~InSeen(id)'
    BY <1>1 DEF InSeen
  <1>3. \A m \in R!Requests' : polled'.id # m.id
    BY <1>1, PhoneIds DEF AskInv, Nothing, R!Requests
  <1> QED
    BY <1>1, <1>2, <1>3 DEF AskInv, Forgotten, PolledOldest, PolledRival, Nothing

LEMMA AskInvStep == AskInv /\ CloudInv' /\ [Next]_vars => AskInv'
  <1> SUFFICES ASSUME AskInv, CloudInv', [Next]_vars PROVE AskInv'
    OBVIOUS
  <1>1. TableMoves
    BY StepMovesTable DEF AskInv
  <1>2. CASE UNCHANGED <<polled, seen, shown>>
    BY <1>1, <1>2, AskKept
  <1>3. ASSUME NEW a \in Attempts,
               \/ StartClient(a) \/ BuildFails(a) \/ ClientStep(a) \/ CallFails(a)
               \/ StopClient(a)
        PROVE  UNCHANGED phonevars
    BY <1>3 DEF StartClient, BuildFails, ClientStep, CallFails, StopClient, Created, Get,
                GiveUp, Find, GotNothing, Got, JoinClient, End
  <1>4. CASE PhoneStep
    <2>1. CASE Poll \/ Handle \/ Die
      BY <2>1, AskPolls, AskHandles, AskForgets
    <2>2. CASE Tap \/ (\E ok \in BOOLEAN : Decide(ok)) \/ Respond
      BY <1>2, <2>2 DEF Tap, Decide, Respond
    <2>3. CASE \E n \in 0..lives : Responding(n)
      BY <1>2, <2>3 DEF Responding, phonevars
    <2> QED
      BY <1>4, <2>1, <2>2, <2>3 DEF PhoneStep
  <1>5. CASE Tick
    BY <1>2, <1>5 DEF Tick, phonevars
  <1>6. CASE UNCHANGED vars
    BY <1>2, <1>6 DEF vars, phonevars
  <1> QED
    BY <1>2, <1>3, <1>4, <1>5, <1>6 DEF Next, phonevars

\* The phone's process polls a request that it has already shown its user only when the
\* relay holds another request of the same second: ORDER BY created_at orders them no
\* further, and of the set of seen ids the oldest is evicted, however small it is
\* (cloud/src/index.ts, CloudController.kt).
THEOREM CloudAskedOnce == Spec => AskedOnce
  <1>1. AskInv /\ [Next]_vars =>
           [\/ polled' \in {polled, Nothing}
            \/ polled'.id \notin shown
            \/ \E m, n \in R!Requests :
                  m # n /\ m.id = polled'.id /\ m.created = n.created]_vars
    <2> SUFFICES ASSUME AskInv, Next, polled' \notin {polled, Nothing}, polled'.id \in shown
                 PROVE  \E m, n \in R!Requests :
                           m # n /\ m.id = polled'.id /\ m.created = n.created
      OBVIOUS
    <2>1. Poll
      <3>1. ~UNCHANGED phonevars
        BY DEF phonevars
      <3> QED
        BY <3>1 DEF Next, StartClient, BuildFails, ClientStep, CallFails, StopClient,
                    Created, Get, GiveUp, Find, GotNothing, Got, JoinClient, End, PhoneStep,
                    Handle, Tap, Decide, Respond, Responding, Die, Tick
    <2>2. PICK q \in R!PollRequests : ~InSeen(q.id) /\ polled'.id = q.id
      BY <2>1 DEF Poll
    <2>3. q \in OpenRequests /\ q \in R!Requests
      BY DEF R!PollRequests, OpenRequests
    <2> QED
      BY <2>2, <2>3 DEF AskInv, Forgotten
  <1> QED
    BY <1>1, AskInvInit, AskInvStep, CloudInvariance, PTL DEF Spec, AskedOnce

-----------------------------------------------------------------------------
(***************************************************************************)
(* For any attempts, PCs, faults and lives of the phone: over the relay an *)
(* attempt is decided once, by the first answer stored, as long as no      *)
(* handler of an answer takes half of a row's life between its two         *)
(* statements.                                                             *)
(*                                                                         *)
(* The index admits one answer for as long as its row is in the table.     *)
(* Whoever answers second has found the request open, so before the first  *)
(* answer was stored; both handlers being quick, the first is still there  *)
(* when the second is stored.                                              *)
(***************************************************************************)

\* POST /v1/relay/requests/:id/response takes less than 60 s from its SELECT to its batch.
HandledSoon ==
    \A c \in Callers : R!Selected(c, "respond") => 2 * (now - calls[c].t) < TTL

Undecided ==
    \A a \in Attempts :
        thread[a] \in {"new", "create", "loop", "get"} => unlock[a] = "UNKNOWN"

\* Only a client posts a challenge, its own, and once.
Posts ==
    \A c \in Callers : R!Arrived(c, "request") =>
        \E a \in Attempts : c = Pc(a) /\ thread[a] = "create" /\ calls[c].arg.token = a

\* The copies of requests, in the table and outside.
Copies == R!Requests \cup {calls[c].row : c \in {d \in Callers : R!Selected(d, "respond")}}
                     \cup {x.request : x \in accepted}

\* One request for each attempt, the one its client knows.
Named ==
    /\ \A a \in Attempts : thread[a] \in {"new", "create"} =>
           \A m \in Copies : m.payload.token # a
    /\ \A m, n \in Copies : m.payload.token = n.payload.token <=> m.id = n.id
    /\ \A a \in Attempts : \A m \in Copies : requestId[a] = m.id => m.payload.token = a

\* One answer is accepted for a request, and what is stored or found is that answer.
OneAnswer ==
    /\ \A x, y \in accepted : x.request.id = y.request.id => x = y
    /\ \A m \in R!Responses : \E x \in accepted :
           x.request.id = m.request /\ x.answer = m.payload
    /\ \A c \in Callers : R!Selected(c, "response") =>
           \E x \in accepted :
              x.request.id = calls[c].arg /\ x.answer = calls[c].row.payload

\* An answered request is not open, the answer is in the table until it expires, and who
\* has found the request open did so at most half a life after the accepted answer.
Closed ==
    \A x \in accepted :
        /\ \A m \in R!Requests : m.id = x.request.id => m.consumed
        /\ \/ x.at + TTL <= now
           \/ \E m \in R!Responses : m.request = x.request.id /\ m.expires = x.at + TTL
        /\ \A c \in Callers : R!Selected(c, "respond") /\ calls[c].row.id = x.request.id =>
              2 * (calls[c].t - x.at) < TTL

OnceInv == AnswerInv /\ Undecided /\ Posts /\ Named /\ OneAnswer /\ Closed

LEMMA OnceInvInit == Init => OnceInv
  <1> SUFFICES ASSUME Init PROVE OnceInv
    OBVIOUS
  <1>1. AnswerInv
    BY AnswerInvInit
  <1>2. /\ rows = {} /\ accepted = {} /\ \A c \in Callers : calls[c].phase = "idle"
    BY DEF Init, R!RelayInit, R!NoCall
  <1>3. Undecided /\ Posts
    BY <1>2 DEF Init, Undecided, Posts, R!Arrived
  <1>4. Copies = {}
    BY <1>2 DEF Copies, R!Requests, R!Selected
  <1>5. Named /\ OneAnswer /\ Closed
    BY <1>2, <1>4 DEF Named, OneAnswer, Closed, R!Responses, R!Selected
  <1> QED
    BY <1>1, <1>3, <1>5 DEF OnceInv

LEMMA OnceTyped ==
    ASSUME OnceInv
    PROVE  /\ CloudInv /\ now \in Nat /\ minted \in Nat /\ TTL \in Nat
           /\ \A x \in accepted : x.at \in Nat /\ x.request.id \in 1..minted
           /\ \A m \in Copies : m.id \in 1..minted
           /\ \A a \in Attempts : requestId[a] \in 0..minted
  <1>1. CloudInv /\ AnswerInv
    BY DEF OnceInv, AnswerInv
  <1>2. \A x \in accepted : x.at \in Nat /\ x.request.id \in 1..minted
    BY <1>1, AtTyped, AcceptedIds
  <1>3. \A c \in Callers : R!Selected(c, "respond") => calls[c].row.id \in 1..minted
    BY <1>1 DEF CloudInv, RelayInv, CallOK, R!Selected
  <1>4. \A m \in Copies : m.id \in 1..minted
    BY <1>1, <1>2, <1>3, RowFound DEF Copies, R!Requests
  <1> QED
    BY <1>1, <1>2, <1>4, Counters, Members, CloudAssumption

-----------------------------------------------------------------------------
\* What the relay does

\* No row changes, and no call finds one.
LEMMA AnswersRest ==
    ASSUME OnceInv, UNCHANGED <<rows, accepted>>, now' \in Nat, now <= now',
           \A c \in Callers : calls'[c].phase = "selected" => calls'[c] = calls[c]
    PROVE  /\ OneAnswer' /\ Closed'
           /\ \A m \in Copies' : \E n \in Copies : n.id = m.id /\ n.payload = m.payload
  <1>1. \A c \in Callers : \A op : R!Selected(c, op)' =>
           R!Selected(c, op) /\ calls'[c] = calls[c]
    BY DEF R!Selected
  <1>2. R!Requests' = R!Requests /\ R!Responses' = R!Responses
    BY DEF R!Requests, R!Responses
  <1>3. OneAnswer'
    BY <1>1, <1>2 DEF OnceInv, OneAnswer
  <1>4. \A x \in accepted : x.at + TTL <= now => x.at + TTL <= now'
    BY OnceTyped
  <1>5. Closed'
    BY <1>1, <1>2, <1>4 DEF OnceInv, Closed
  <1>6. Copies' \subseteq Copies
    BY <1>1, <1>2 DEF Copies
  <1> QED
    BY <1>3, <1>5, <1>6

LEMMA AnswersFindRequest ==
    ASSUME OnceInv, NEW c \in Callers, R!FindRequest(c)
    PROVE  /\ OneAnswer' /\ Closed'
           /\ \A m \in Copies' : \E n \in Copies : n.id = m.id /\ n.payload = m.payload
  <1>1. PICK m \in R!Requests : R!Open(m) /\ R!Select(c, m)
    BY DEF R!FindRequest
  <1>2. /\ UNCHANGED <<now, rows, accepted>> /\ calls'[c].row = m /\ calls'[c].op = "respond"
        /\ \A d \in Callers \ {c} : calls'[d] = calls[d]
    BY <1>1, OnceTyped, Selects DEF R!FindRequest, R!Arrived
  <1>3. R!Requests' = R!Requests /\ R!Responses' = R!Responses
    BY <1>2 DEF R!Requests, R!Responses
  <1>4. OneAnswer'
    BY <1>2, <1>3 DEF OnceInv, OneAnswer, R!Selected
  <1>5. \A x \in accepted : x.request.id # m.id
    BY <1>1 DEF OnceInv, Closed, R!Open
  <1>6. Closed'
    BY <1>2, <1>3, <1>5 DEF OnceInv, Closed, R!Selected
  <1>7. Copies' \subseteq Copies
    BY <1>2, <1>3 DEF Copies, R!Selected
  <1> QED
    BY <1>4, <1>6, <1>7

LEMMA AnswersFindResponse ==
    ASSUME OnceInv, NEW c \in Callers, R!FindResponse(c)
    PROVE  /\ OneAnswer' /\ Closed'
           /\ \A m \in Copies' : \E n \in Copies : n.id = m.id /\ n.payload = m.payload
  <1>1. PICK m \in R!Responses : R!Answers(m, calls[c].arg) /\ R!Select(c, m)
    BY DEF R!FindResponse
  <1>2. /\ UNCHANGED <<now, rows, accepted>> /\ calls'[c].row = m /\ calls'[c].op = "response"
        /\ calls'[c].arg = calls[c].arg
        /\ \A d \in Callers \ {c} : calls'[d] = calls[d]
    BY <1>1, OnceTyped, Selects DEF R!FindResponse, R!Arrived
  <1>3. R!Requests' = R!Requests /\ R!Responses' = R!Responses
    BY <1>2 DEF R!Requests, R!Responses
  <1>4. OneAnswer'
    BY <1>1, <1>2, <1>3 DEF OnceInv, OneAnswer, R!Selected, R!Answers
  <1>5. Closed'
    BY <1>2, <1>3 DEF OnceInv, Closed, R!Selected
  <1>6. Copies' \subseteq Copies
    BY <1>2, <1>3 DEF Copies, R!Selected
  <1> QED
    BY <1>4, <1>5, <1>6

\* The cleanup takes no accepted answer that has not expired.
LEMMA AnswersPost ==
    ASSUME OnceInv, NEW c \in Callers, R!PostRequest(c)
    PROVE  /\ OneAnswer' /\ Closed'
           /\ \A m \in Copies' : m \in Copies \/ (m.id = minted + 1 /\ m.payload = calls[c].arg)
  <1> DEFINE new == R!Row(minted + 1, "pc_to_phone", 0, calls[c].arg, now)
  <1>1. /\ rows' = {m \in rows : ~R!Expired(m)} \cup {new} /\ UNCHANGED <<now, accepted>>
        /\ new.id = minted + 1 /\ new.payload = calls[c].arg /\ new.direction = "pc_to_phone"
        /\ R!Return(c)
    BY DEF R!PostRequest, R!Row
  <1>2. /\ ~R!Selected(c, "respond")' /\ ~R!Selected(c, "response")'
        /\ \A d \in Callers \ {c} : calls'[d] = calls[d]
    BY <1>1, OnceTyped, CallReturns
  <1> HIDE DEF new
  <1>3. /\ \A m \in R!Requests' : m = new \/ m \in R!Requests
        /\ \A m \in R!Responses' : m \in R!Responses
        /\ \A m \in R!Responses : m.expires > now => m \in R!Responses'
    BY <1>1, RowFound, OnceTyped DEF R!Requests, R!Responses, R!Expired
  <1>4. OneAnswer'
    BY <1>1, <1>2, <1>3 DEF OnceInv, OneAnswer, R!Selected
  <1>5. Closed'
    <2> SUFFICES ASSUME NEW x \in accepted
                 PROVE  /\ \A m \in R!Requests' : m.id = x.request.id => m.consumed
                        /\ \/ x.at + TTL <= now
                           \/ \E m \in R!Responses' : /\ m.request = x.request.id
                                                      /\ m.expires = x.at + TTL
                        /\ \A d \in Callers :
                              R!Selected(d, "respond")' /\ calls'[d].row.id = x.request.id =>
                                 2 * (calls'[d].t - x.at) < TTL
      BY <1>1 DEF Closed
    <2>1. x.request.id # minted + 1 /\ x.at \in Nat
      BY OnceTyped
    <2>2. \A m \in R!Requests' : m.id = x.request.id => m.consumed
      BY <1>1, <1>3, <2>1 DEF OnceInv, Closed
    <2>3. \/ x.at + TTL <= now
          \/ \E m \in R!Responses' : m.request = x.request.id /\ m.expires = x.at + TTL
      BY <1>3, <2>1, OnceTyped DEF OnceInv, Closed
    <2>4. \A d \in Callers :
             R!Selected(d, "respond")' /\ calls'[d].row.id = x.request.id =>
                2 * (calls'[d].t - x.at) < TTL
      BY <1>2 DEF OnceInv, Closed, R!Selected
    <2> QED
      BY <2>2, <2>3, <2>4
  <1>6. \A m \in Copies' : m \in Copies \/ m = new
    BY <1>1, <1>2, <1>3 DEF Copies, R!Selected
  <1> QED
    BY <1>1, <1>4, <1>5, <1>6

\* A row that is consumed is the same row otherwise.
LEMMA AfterConsume ==
    ASSUME CloudInv, NEW id
    PROVE  /\ \A m \in R!Consume(id) : \E n \in rows :
                 /\ n.id = m.id /\ n.request = m.request /\ n.direction = m.direction
                 /\ n.payload = m.payload /\ n.expires = m.expires
                 /\ n.consumed => m.consumed
                 /\ m.id = id => m.consumed
           /\ \A n \in rows : \E m \in R!Consume(id) :
                 /\ n.id = m.id /\ n.request = m.request /\ n.direction = m.direction
                 /\ n.expires = m.expires
  <1>0. \A n \in rows : /\ n.consumed \in BOOLEAN
                        /\ DOMAIN n = {"id", "direction", "request", "payload", "created",
                                       "expires", "consumed"}
    BY DEF CloudInv, RelayInv, R!RelayTypeOK, RowOK
  <1>1. ASSUME NEW m \in R!Consume(id)
        PROVE  \E n \in rows :
                 /\ n.id = m.id /\ n.request = m.request /\ n.direction = m.direction
                 /\ n.payload = m.payload /\ n.expires = m.expires
                 /\ n.consumed => m.consumed
                 /\ m.id = id => m.consumed
    <2>1. PICK n \in rows : m = IF n.id = id THEN [n EXCEPT !.consumed = TRUE] ELSE n
      BY <1>1 DEF R!Consume
    <2> QED
      BY <1>0, <2>1
  <1>2. ASSUME NEW n \in rows
        PROVE  \E m \in R!Consume(id) :
                 /\ n.id = m.id /\ n.request = m.request /\ n.direction = m.direction
                 /\ n.expires = m.expires
    <2> DEFINE m == IF n.id = id THEN [n EXCEPT !.consumed = TRUE] ELSE n
    <2>1. m \in R!Consume(id)
      BY <1>2 DEF R!Consume
    <2>2. /\ n.id = m.id /\ n.request = m.request /\ n.direction = m.direction
          /\ n.expires = m.expires
      BY <1>0, <1>2
    <2> HIDE DEF m
    <2> QED
      BY <2>1, <2>2
  <1> QED
    BY <1>1, <1>2

LEMMA AnswersDeliver ==
    ASSUME OnceInv, NEW c \in Callers, R!DeliverResponse(c)
    PROVE  /\ OneAnswer' /\ Closed'
           /\ \A m \in Copies' : \E n \in Copies : n.id = m.id /\ n.payload = m.payload
  <1>1. /\ rows' = R!Consume(calls[c].row.id) /\ UNCHANGED <<now, accepted>> /\ R!Return(c)
    BY DEF R!DeliverResponse
  <1>2. /\ ~R!Selected(c, "respond")' /\ ~R!Selected(c, "response")'
        /\ \A d \in Callers \ {c} : calls'[d] = calls[d]
    BY <1>1, OnceTyped, CallReturns
  <1>3. /\ \A m \in rows' : \E n \in rows :
                 /\ n.id = m.id /\ n.request = m.request /\ n.direction = m.direction
                 /\ n.payload = m.payload /\ n.expires = m.expires
                 /\ n.consumed => m.consumed
        /\ \A n \in rows : \E m \in rows' :
                 /\ n.id = m.id /\ n.request = m.request /\ n.direction = m.direction
                 /\ n.expires = m.expires
    BY <1>1, AfterConsume, OnceTyped
  <1>4. /\ \A m \in R!Requests' : \E n \in R!Requests :
              n.id = m.id /\ n.payload = m.payload /\ (n.consumed => m.consumed)
        /\ \A m \in R!Responses' : \E n \in R!Responses :
              n.request = m.request /\ n.payload = m.payload
        /\ \A n \in R!Responses : \E m \in R!Responses' :
              n.request = m.request /\ n.expires = m.expires
    BY <1>3 DEF R!Requests, R!Responses
  <1>5. OneAnswer'
    BY <1>1, <1>2, <1>4 DEF OnceInv, OneAnswer, R!Selected
  <1>6. Closed'
    <2> SUFFICES ASSUME NEW x \in accepted
                 PROVE  /\ \A m \in R!Requests' : m.id = x.request.id => m.consumed
                        /\ \/ x.at + TTL <= now
                           \/ \E m \in R!Responses' : /\ m.request = x.request.id
                                                      /\ m.expires = x.at + TTL
                        /\ \A d \in Callers :
                              R!Selected(d, "respond")' /\ calls'[d].row.id = x.request.id =>
                                 2 * (calls'[d].t - x.at) < TTL
      BY <1>1 DEF Closed
    <2>1. \A m \in R!Requests' : m.id = x.request.id => m.consumed
      BY <1>4 DEF OnceInv, Closed
    <2>2. \/ x.at + TTL <= now
          \/ \E m \in R!Responses' : m.request = x.request.id /\ m.expires = x.at + TTL
      BY <1>4 DEF OnceInv, Closed
    <2>3. \A d \in Callers :
             R!Selected(d, "respond")' /\ calls'[d].row.id = x.request.id =>
                2 * (calls'[d].t - x.at) < TTL
      BY <1>2 DEF OnceInv, Closed, R!Selected
    <2> QED
      BY <2>1, <2>2, <2>3
  <1>7. ASSUME NEW m \in Copies' PROVE \E n \in Copies : n.id = m.id /\ n.payload = m.payload
    <2>1. m \in Copies \/ m \in R!Requests'
      BY <1>1, <1>2, <1>7 DEF Copies, R!Selected
    <2> QED
      BY <1>4, <2>1 DEF Copies
  <1> QED
    BY <1>5, <1>6, <1>7

\* The second answer to a request is rejected: the first is in the table still.
LEMMA FirstIsThere ==
    ASSUME OnceInv, HandledSoon, NEW c \in Callers, R!Selected(c, "respond"),
           NEW x \in accepted, x.request.id = calls[c].row.id
    PROVE  ~R!OneResponse(calls[c].row.id)
  <1>1. 2 * (calls[c].t - x.at) < TTL /\ 2 * (now - calls[c].t) < TTL
    BY DEF OnceInv, Closed, HandledSoon
  <1>2. x.at \in Nat /\ calls[c].t \in Nat /\ now \in Nat /\ TTL \in Nat
    BY OnceTyped DEF CloudInv, RelayInv, CallOK, R!Selected
  <1>3. ~(x.at + TTL <= now)
    BY <1>1, <1>2
  <1> QED
    BY <1>3 DEF OnceInv, Closed, R!OneResponse

LEMMA AnswersStore ==
    ASSUME OnceInv, HandledSoon, NEW c \in Callers, R!StoreResponse(c)
    PROVE  /\ OneAnswer' /\ Closed'
           /\ \A m \in Copies' : \E n \in Copies : n.id = m.id /\ n.payload = m.payload
           /\ \A x \in accepted : x.request.id # calls[c].row.id
           /\ accepted' = accepted \cup {[request |-> calls[c].row, at |-> calls[c].t,
                                          answer |-> calls[c].arg.answer]}
  <1> DEFINE request == calls[c].row
             new == R!Row(minted + 1, "phone_to_pc", request.id, calls[c].arg.answer,
                          calls[c].t)
             first == [request |-> request, at |-> calls[c].t, answer |-> calls[c].arg.answer]
  <1>1. /\ rows' = R!Consume(request.id) \cup {new} /\ UNCHANGED now /\ R!Return(c)
        /\ R!Selected(c, "respond") /\ R!OneResponse(request.id)
        /\ new.direction = "phone_to_pc" /\ new.request = request.id
        /\ new.payload = calls[c].arg.answer /\ new.expires = calls[c].t + TTL
    BY DEF R!StoreResponse, R!Row
  <1>2. \A x \in accepted : x.request.id # request.id
    BY <1>1, FirstIsThere
  <1>3. accepted' = accepted \cup {first}
    BY <1>2 DEF R!StoreResponse
  <1>4. first.request = request /\ first.at = calls[c].t /\ first.answer = calls[c].arg.answer
    OBVIOUS
  <1>5. /\ ~R!Selected(c, "respond")' /\ ~R!Selected(c, "response")'
        /\ \A d \in Callers \ {c} : calls'[d] = calls[d]
    BY <1>1, OnceTyped, CallReturns
  <1>6. request \in Copies
    BY <1>1 DEF Copies
  <1> HIDE DEF new, first, request
  <1>7. /\ \A m \in R!Consume(request.id) : \E n \in rows :
                 /\ n.id = m.id /\ n.request = m.request /\ n.direction = m.direction
                 /\ n.payload = m.payload /\ n.expires = m.expires
                 /\ n.consumed => m.consumed
                 /\ m.id = request.id => m.consumed
        /\ \A n \in rows : \E m \in R!Consume(request.id) :
                 /\ n.id = m.id /\ n.request = m.request /\ n.direction = m.direction
                 /\ n.expires = m.expires
    BY AfterConsume, OnceTyped
  <1>8. /\ \A m \in R!Requests' : \E n \in R!Requests :
              /\ n.id = m.id /\ n.payload = m.payload /\ (n.consumed => m.consumed)
              /\ m.id = request.id => m.consumed
        /\ \A m \in R!Responses' : m = new \/ \E n \in R!Responses :
              n.request = m.request /\ n.payload = m.payload
        /\ \A n \in R!Responses : \E m \in R!Responses' :
              n.request = m.request /\ n.expires = m.expires
        /\ new \in R!Responses'
    <2>1. \A m \in rows' : m = new \/ m \in R!Consume(request.id)
      BY <1>1
    <2>2. R!Consume(request.id) \subseteq rows' /\ new \in rows'
      BY <1>1
    <2> QED
      BY <1>1, <1>7, <2>1, <2>2 DEF R!Requests, R!Responses
  <1>9. OneAnswer'
    <2>1. \A x, y \in accepted' : x.request.id = y.request.id => x = y
      BY <1>2, <1>3, <1>4 DEF OnceInv, OneAnswer
    <2>2. \A m \in R!Responses' : \E x \in accepted' :
             x.request.id = m.request /\ x.answer = m.payload
      BY <1>1, <1>3, <1>4, <1>8 DEF OnceInv, OneAnswer
    <2>3. \A d \in Callers : R!Selected(d, "response")' =>
             \E x \in accepted' : /\ x.request.id = calls'[d].arg
                                  /\ x.answer = calls'[d].row.payload
      BY <1>3, <1>5 DEF OnceInv, OneAnswer, R!Selected
    <2> QED
      BY <2>1, <2>2, <2>3 DEF OneAnswer
  <1>10. Closed'
    <2> SUFFICES ASSUME NEW x \in accepted'
                 PROVE  /\ \A m \in R!Requests' : m.id = x.request.id => m.consumed
                        /\ \/ x.at + TTL <= now
                           \/ \E m \in R!Responses' : /\ m.request = x.request.id
                                                      /\ m.expires = x.at + TTL
                        /\ \A d \in Callers :
                              R!Selected(d, "respond")' /\ calls'[d].row.id = x.request.id =>
                                 2 * (calls'[d].t - x.at) < TTL
      BY <1>1 DEF Closed
    <2>1. CASE x \in accepted
      <3>1. \A m \in R!Requests' : m.id = x.request.id => m.consumed
        BY <1>8, <2>1 DEF OnceInv, Closed
      <3>2. \/ x.at + TTL <= now
            \/ \E m \in R!Responses' : m.request = x.request.id /\ m.expires = x.at + TTL
        BY <1>8, <2>1 DEF OnceInv, Closed
      <3>3. \A d \in Callers :
               R!Selected(d, "respond")' /\ calls'[d].row.id = x.request.id =>
                  2 * (calls'[d].t - x.at) < TTL
        BY <1>5, <2>1 DEF OnceInv, Closed, R!Selected
      <3> QED
        BY <3>1, <3>2, <3>3
    <2>2. CASE x = first
      <3>1. \A m \in R!Requests' : m.id = x.request.id => m.consumed
        BY <1>4, <1>8, <2>2
      <3>2. \E m \in R!Responses' : m.request = x.request.id /\ m.expires = x.at + TTL
        BY <1>1, <1>4, <1>8, <2>2
      <3>3. ASSUME NEW d \in Callers, R!Selected(d, "respond")'
            PROVE  2 * (calls'[d].t - x.at) < TTL
        <4>1. calls'[d] = calls[d] /\ R!Selected(d, "respond")
          BY <1>5, <3>3 DEF R!Selected
        <4>2. /\ calls[d].t \in Nat /\ calls[d].t <= now /\ calls[c].t \in Nat
              /\ now \in Nat /\ TTL \in Nat
          BY <1>1, <4>1, OnceTyped DEF CloudInv, RelayInv, CallOK, R!Selected
        <4>3. 2 * (now - calls[c].t) < TTL
          BY <1>1 DEF HandledSoon
        <4>4. x.at = calls[c].t
          BY <1>4, <2>2
        <4>5. 2 * (calls[d].t - calls[c].t) < TTL
          BY <4>2, <4>3
        <4> QED
          BY <4>1, <4>4, <4>5
      <3> QED
        BY <3>1, <3>2, <3>3
    <2> QED
      BY <1>3, <2>1, <2>2
  <1>11. ASSUME NEW m \in Copies' PROVE \E n \in Copies : n.id = m.id /\ n.payload = m.payload
    <2>1. m \in Copies \/ m \in R!Requests' \/ m = request
      BY <1>3, <1>4, <1>5, <1>11 DEF Copies, R!Selected
    <2> QED
      BY <1>6, <1>8, <2>1 DEF Copies
  <1> QED
    BY <1>2, <1>3, <1>9, <1>10, <1>11 DEF request, first

-----------------------------------------------------------------------------
\* What the PCs and the phone do

LEMMA UndecidedKept ==
    ASSUME OnceInv,
           \A a \in Attempts : thread'[a] \in {"new", "create", "loop", "get"} =>
               thread[a] \in {"new", "create", "loop", "get"} /\ unlock'[a] = unlock[a]
    PROVE  Undecided'
  BY DEF OnceInv, Undecided

LEMMA PostsKept ==
    ASSUME OnceInv,
           \A c \in Callers : R!Arrived(c, "request")' =>
               R!Arrived(c, "request") /\ calls'[c] = calls[c],
           \A a \in Attempts : thread[a] = "create" =>
               thread'[a] = "create" \/ ~R!Arrived(Pc(a), "request")'
    PROVE  Posts'
  <1> SUFFICES ASSUME NEW c \in Callers, R!Arrived(c, "request")'
               PROVE  \E a \in Attempts :
                         c = Pc(a) /\ thread'[a] = "create" /\ calls'[c].arg.token = a
    BY DEF Posts
  <1>1. PICK a \in Attempts : c = Pc(a) /\ thread[a] = "create" /\ calls[c].arg.token = a
    BY DEF OnceInv, Posts
  <1> QED
    BY <1>1 DEF R!Arrived

LEMMA NamedKept ==
    ASSUME OnceInv,
           \A m \in Copies' : \E n \in Copies : n.id = m.id /\ n.payload = m.payload,
           \A a \in Attempts : requestId'[a] \in {requestId[a], 0},
           \A a \in Attempts : thread'[a] \in {"new", "create"} => thread[a] \in {"new", "create"}
    PROVE  Named'
  <1>1. \A a \in Attempts : thread'[a] \in {"new", "create"} =>
           \A m \in Copies' : m.payload.token # a
    BY DEF OnceInv, Named
  <1>2. \A m, n \in Copies' : m.payload.token = n.payload.token <=> m.id = n.id
    <2> SUFFICES ASSUME NEW m \in Copies', NEW n \in Copies'
                 PROVE  m.payload.token = n.payload.token <=> m.id = n.id
      OBVIOUS
    <2>1. PICK x \in Copies : x.id = m.id /\ x.payload = m.payload
      OBVIOUS
    <2>2. PICK y \in Copies : y.id = n.id /\ y.payload = n.payload
      OBVIOUS
    <2> QED
      BY <2>1, <2>2 DEF OnceInv, Named
  <1>3. ASSUME NEW a \in Attempts, NEW m \in Copies', requestId'[a] = m.id
        PROVE  m.payload.token = a
    <2>1. PICK n \in Copies : n.id = m.id /\ n.payload = m.payload
      OBVIOUS
    <2>2. n.id # 0
      BY OnceTyped
    <2> QED
      BY <1>3, <2>1, <2>2 DEF OnceInv, Named
  <1> QED
    BY <1>1, <1>2, <1>3 DEF Named

\* The steps of a client change its own members only.
LEMMA Ended ==
    ASSUME OnceInv, NEW a \in Attempts, NEW st, End(a, st)
    PROVE  /\ thread'[a] = "ended" /\ requestId'[a] = 0 /\ unlock'[a] = st
           /\ \A b \in Attempts \ {a} : /\ thread'[b] = thread[b] /\ unlock'[b] = unlock[b]
                                       /\ requestId'[b] = requestId[b]
  BY Members DEF OnceInv, AnswerInv, CloudInv, PcInv, End

LEMMA EndsOnce ==
    ASSUME OnceInv, NEW a \in Attempts, NEW st, End(a, st),
           R!Return(Pc(a)) \/ (UNCHANGED calls /\ thread[a] # "create")
    PROVE  /\ Undecided' /\ Posts'
           /\ \A b \in Attempts : requestId'[b] \in {requestId[b], 0}
           /\ \A b \in Attempts : thread'[b] \in {"new", "create"} =>
                 b # a /\ thread[b] \in {"new", "create"}
  <1>1. /\ thread'[a] = "ended" /\ requestId'[a] = 0
        /\ \A b \in Attempts \ {a} : /\ thread'[b] = thread[b] /\ unlock'[b] = unlock[b]
                                    /\ requestId'[b] = requestId[b]
    BY Ended
  <1>2. Undecided'
    BY <1>1, UndecidedKept
  <1>3. Posts'
    <2>1. CASE R!Return(Pc(a))
      <3>1. /\ calls'[Pc(a)].phase = "idle"
            /\ \A d \in Callers \ {Pc(a)} : calls'[d] = calls[d]
        BY <2>1, CallReturns, PcIsCaller, OnceTyped
      <3> QED
        BY <1>1, <3>1, PostsKept DEF R!Arrived
    <2>2. CASE UNCHANGED calls /\ thread[a] # "create"
      BY <1>1, <2>2, PostsKept DEF R!Arrived
    <2> QED
      BY <2>1, <2>2
  <1> QED
    BY <1>1, <1>2, <1>3

\* A client's request is stored: it is the first with this token.
LEMMA NamesNew ==
    ASSUME OnceInv, NEW a \in Attempts, R!PostRequest(Pc(a)),
           thread'[a] \notin {"new", "create"}, requestId'[a] \in {minted + 1, 0},
           \A b \in Attempts \ {a} : thread'[b] = thread[b] /\ requestId'[b] = requestId[b]
    PROVE  Named'
  <1>1. thread[a] = "create" /\ calls[Pc(a)].arg.token = a
    <2>1. R!Arrived(Pc(a), "request")
      BY DEF R!PostRequest
    <2> QED
      BY <2>1, PcIsCaller, CallersDiffer DEF OnceInv, Posts
  <1>2. \A m \in Copies' : m \in Copies \/ (m.id = minted + 1 /\ m.payload.token = a)
    BY AnswersPost, PcIsCaller, <1>1
  <1>3. /\ minted \in Nat /\ \A m \in Copies : m.id \in 1..minted /\ m.payload.token # a
        /\ \A b \in Attempts : requestId[b] \in 0..minted
    BY <1>1, OnceTyped DEF OnceInv, Named
  <1>4. \A m \in Copies : m.id # minted + 1 /\ m.id # 0
    BY <1>3
  <1>5. \A b \in Attempts : requestId[b] # minted + 1
    BY <1>3
  <1>6. \A b \in Attempts : thread'[b] \in {"new", "create"} =>
           \A m \in Copies' : m.payload.token # b
    BY <1>2 DEF OnceInv, Named
  <1>7. \A m, n \in Copies' : m.payload.token = n.payload.token <=> m.id = n.id
    <2> SUFFICES ASSUME NEW m \in Copies', NEW n \in Copies'
                 PROVE  m.payload.token = n.payload.token <=> m.id = n.id
      OBVIOUS
    <2>1. CASE m \in Copies /\ n \in Copies
      BY <2>1 DEF OnceInv, Named
    <2> QED
      BY <1>2, <1>3, <1>4, <2>1
  <1>8. \A b \in Attempts : \A m \in Copies' : requestId'[b] = m.id => m.payload.token = b
    <2> SUFFICES ASSUME NEW b \in Attempts, NEW m \in Copies', requestId'[b] = m.id
                 PROVE  m.payload.token = b
      OBVIOUS
    <2>1. CASE b = a
      <3>1. m.id = minted + 1 \/ m.id = 0
        BY <2>1
      <3>2. minted + 1 # 0
        BY <1>3
      <3> QED
        BY <1>2, <1>4, <2>1, <3>1, <3>2
    <2>2. CASE b # a
      <3>1. m \in Copies
        BY <1>2, <1>5, <2>2
      <3> QED
        BY <2>2, <3>1 DEF OnceInv, Named
    <2> QED
      BY <2>1, <2>2
  <1> QED
    BY <1>6, <1>7, <1>8 DEF Named

\* A call begins or ends, and no row changes.
LEMMA CallsRest ==
    ASSUME OnceInv, UNCHANGED <<now, rows, accepted>>, NEW c \in Callers, NEW call,
           calls' = [calls EXCEPT ![c] = call], call.phase # "selected"
    PROVE  /\ OneAnswer' /\ Closed'
           /\ \A m \in Copies' : \E n \in Copies : n.id = m.id /\ n.payload = m.payload
  <1>1. calls'[c] = call /\ \A d \in Callers \ {c} : calls'[d] = calls[d]
    BY CallChanged, OnceTyped
  <1>2. now' \in Nat /\ now <= now'
    BY OnceTyped
  <1> QED
    BY <1>1, <1>2, AnswersRest

LEMMA ReturnsRest ==
    ASSUME OnceInv, UNCHANGED <<now, rows, accepted>>, NEW c \in Callers, R!Return(c)
    PROVE  /\ OneAnswer' /\ Closed'
           /\ \A m \in Copies' : \E n \in Copies : n.id = m.id /\ n.payload = m.payload
  <1>1. R!NoCall.phase # "selected"
    BY DEF R!NoCall
  <1> QED
    BY <1>1, CallsRest DEF R!Return

LEMMA OnceStarts ==
    ASSUME OnceInv, NEW a \in Attempts, StartClient(a)
    PROVE  Undecided' /\ Posts' /\ Named' /\ OneAnswer' /\ Closed'
  <1> DEFINE call == [phase |-> "sent", op |-> "request", arg |-> Challenge(a, now)]
  <1>1. /\ calls' = [calls EXCEPT ![Pc(a)] = call] /\ thread[a] = "new"
        /\ UNCHANGED <<now, rows, accepted, requestId, unlock>>
        /\ thread' = [thread EXCEPT ![a] = "create"]
    BY DEF StartClient, MayStart, relayRest, R!Send
  <1>2. call.phase = "sent" /\ call.op = "request" /\ call.arg.token = a
    BY DEF Challenge
  <1> HIDE DEF call
  <1>3. calls'[Pc(a)] = call /\ \A d \in Callers \ {Pc(a)} : calls'[d] = calls[d]
    BY <1>1, CallChanged, PcIsCaller, OnceTyped
  <1>4. /\ thread'[a] = "create"
        /\ \A b \in Attempts \ {a} : thread'[b] = thread[b]
    BY <1>1, Members DEF OnceInv
  <1>5. Undecided'
    BY <1>1, <1>4, UndecidedKept
  <1>6. Posts'
    <2> SUFFICES ASSUME NEW c \in Callers, R!Arrived(c, "request")'
                 PROVE  \E b \in Attempts :
                           c = Pc(b) /\ thread'[b] = "create" /\ calls'[c].arg.token = b
      BY DEF Posts
    <2>1. CASE c = Pc(a)
      BY <1>2, <1>3, <1>4, <2>1
    <2>2. CASE c # Pc(a)
      BY <1>3, <1>4, <2>2 DEF OnceInv, Posts, R!Arrived
    <2> QED
      BY <2>1, <2>2
  <1>7. /\ OneAnswer' /\ Closed'
        /\ \A m \in Copies' : \E n \in Copies : n.id = m.id /\ n.payload = m.payload
    BY <1>1, <1>2, CallsRest, PcIsCaller
  <1>8. Named'
    BY <1>1, <1>4, <1>7, NamedKept
  <1> QED
    BY <1>5, <1>6, <1>7, <1>8

LEMMA OnceEnds ==
    ASSUME OnceInv, NEW a \in Attempts,
           BuildFails(a) \/ GiveUp(a) \/ Got(a) \/ CallFails(a)
    PROVE  Undecided' /\ Posts' /\ Named' /\ OneAnswer' /\ Closed'
  <1>1. CASE BuildFails(a) \/ GiveUp(a)
    <2>1. PICK st : End(a, st)
      BY <1>1 DEF BuildFails, GiveUp
    <2>2. UNCHANGED <<now, rows, accepted, calls>> /\ thread[a] # "create"
      BY <1>1 DEF BuildFails, GiveUp, MayStart, rvars
    <2>3. /\ OneAnswer' /\ Closed'
          /\ \A m \in Copies' : \E n \in Copies : n.id = m.id /\ n.payload = m.payload
      BY <2>2, AnswersRest, OnceTyped
    <2>4. Undecided' /\ Posts' /\ Named'
      BY <2>1, <2>2, <2>3, EndsOnce, NamedKept
    <2> QED
      BY <2>3, <2>4
  <1>2. ASSUME NEW st, End(a, st), R!DeliverResponse(Pc(a)) \/ R!Lose(Pc(a))
        PROVE  Undecided' /\ Posts' /\ Named' /\ OneAnswer' /\ Closed'
    <2>1. R!Return(Pc(a))
      BY <1>2 DEF R!DeliverResponse, R!Lose
    <2>2. /\ OneAnswer' /\ Closed'
          /\ \A m \in Copies' : \E n \in Copies : n.id = m.id /\ n.payload = m.payload
      <3>1. CASE R!DeliverResponse(Pc(a))
        BY <3>1, AnswersDeliver, PcIsCaller
      <3>2. CASE R!Lose(Pc(a))
        BY <3>2, ReturnsRest, PcIsCaller DEF R!Lose
      <3> QED
        BY <1>2, <3>1, <3>2
    <2>3. Undecided' /\ Posts' /\ Named'
      BY <1>2, <2>1, <2>2, EndsOnce, NamedKept
    <2> QED
      BY <2>2, <2>3
  <1>3. ASSUME NEW st, End(a, st), R!PostRequest(Pc(a))
        PROVE  Undecided' /\ Posts' /\ Named' /\ OneAnswer' /\ Closed'
    <2>1. R!Return(Pc(a))
      BY <1>3 DEF R!PostRequest
    <2>2. OneAnswer' /\ Closed'
      BY <1>3, AnswersPost, PcIsCaller
    <2>3. Undecided' /\ Posts'
      BY <1>3, <2>1, EndsOnce
    <2>4. Named'
      BY <1>3, Ended, NamesNew
    <2> QED
      BY <2>2, <2>3, <2>4
  <1>4. CASE Got(a)
    <2>1. PICK st : End(a, st)
      BY <1>4 DEF Got
    <2> QED
      BY <1>2, <1>4, <2>1 DEF Got
  <1>5. CASE CallFails(a)
    BY <1>2, <1>3, <1>5 DEF CallFails
  <1> QED
    BY <1>1, <1>4, <1>5

LEMMA OnceCreated ==
    ASSUME OnceInv, NEW a \in Attempts, Created(a)
    PROVE  Undecided' /\ Posts' /\ Named' /\ OneAnswer' /\ Closed'
  <1>1. /\ R!PostRequest(Pc(a)) /\ R!Return(Pc(a)) /\ minted' = minted + 1
        /\ UNCHANGED unlock /\ thread[a] = "create"
        /\ requestId' = [requestId EXCEPT ![a] = minted']
        /\ thread' = [thread EXCEPT ![a] = "loop"]
    BY DEF Created, R!PostRequest
  <1>2. /\ thread'[a] = "loop" /\ requestId'[a] = minted + 1
        /\ \A b \in Attempts \ {a} : thread'[b] = thread[b] /\ requestId'[b] = requestId[b]
    BY <1>1, Members DEF OnceInv
  <1>3. /\ calls'[Pc(a)].phase = "idle"
        /\ \A d \in Callers \ {Pc(a)} : calls'[d] = calls[d]
    BY <1>1, CallReturns, PcIsCaller, OnceTyped
  <1>4. Undecided'
    BY <1>1, <1>2, UndecidedKept
  <1>5. Posts'
    BY <1>2, <1>3, PostsKept DEF R!Arrived
  <1>6. Named'
    BY <1>1, <1>2, NamesNew
  <1>7. OneAnswer' /\ Closed'
    BY <1>1, AnswersPost, PcIsCaller
  <1> QED
    BY <1>4, <1>5, <1>6, <1>7

LEMMA OnceWorks ==
    ASSUME OnceInv, NEW a \in Attempts,
           Get(a) \/ Find(a) \/ GotNothing(a) \/ StopClient(a) \/ JoinClient(a)
    PROVE  Undecided' /\ Posts' /\ Named' /\ OneAnswer' /\ Closed'
  <1>1. /\ UNCHANGED <<requestId, unlock>>
        /\ \A b \in Attempts \ {a} : thread'[b] = thread[b]
        /\ \/ thread'[a] = thread[a]
           \/ thread[a] \in {"loop", "get"} /\ thread'[a] \in {"loop", "get"}
           \/ thread[a] = "ended" /\ thread'[a] = "joined"
    BY Members DEF Get, Find, GotNothing, StopClient, JoinClient, pcvars, OnceInv
  <1>2. Undecided'
    BY <1>1, UndecidedKept
  <1>3. /\ OneAnswer' /\ Closed'
        /\ \A m \in Copies' : \E n \in Copies : n.id = m.id /\ n.payload = m.payload
        /\ \A c \in Callers : R!Arrived(c, "request")' =>
              R!Arrived(c, "request") /\ calls'[c] = calls[c]
    <2>1. CASE Get(a)
      <3> DEFINE call == [phase |-> "sent", op |-> "response", arg |-> requestId[a]]
      <3>1. /\ calls' = [calls EXCEPT ![Pc(a)] = call] /\ UNCHANGED <<now, rows, accepted>>
        BY <2>1 DEF Get, relayRest, R!Send
      <3>2. call.phase = "sent" /\ call.op = "response"
        OBVIOUS
      <3> HIDE DEF call
      <3>3. calls'[Pc(a)] = call /\ \A d \in Callers \ {Pc(a)} : calls'[d] = calls[d]
        BY <3>1, CallChanged, PcIsCaller, OnceTyped
      <3> QED
        BY <3>1, <3>2, <3>3, CallsRest, PcIsCaller DEF R!Arrived
    <2>2. CASE Find(a)
      <3>1. R!FindResponse(Pc(a)) /\ \E m : R!Select(Pc(a), m)
        BY <2>2 DEF Find, R!FindResponse
      <3>2. /\ calls'[Pc(a)].phase = "selected"
            /\ \A d \in Callers \ {Pc(a)} : calls'[d] = calls[d]
        BY <3>1, Selects, PcIsCaller, OnceTyped
      <3> QED
        BY <3>1, <3>2, AnswersFindResponse, PcIsCaller DEF R!Arrived
    <2>3. CASE GotNothing(a)
      <3>1. R!Return(Pc(a)) /\ UNCHANGED <<now, rows, accepted>>
        BY <2>3 DEF GotNothing, R!NoResponse
      <3>2. /\ calls'[Pc(a)].phase = "idle"
            /\ \A d \in Callers \ {Pc(a)} : calls'[d] = calls[d]
        BY <3>1, CallReturns, PcIsCaller, OnceTyped
      <3> QED
        BY <3>1, <3>2, ReturnsRest, PcIsCaller DEF R!Arrived
    <2>4. CASE StopClient(a) \/ JoinClient(a)
      <3>1. UNCHANGED <<now, rows, accepted, calls>>
        BY <2>4 DEF StopClient, JoinClient, rvars
      <3> QED
        BY <3>1, AnswersRest, OnceTyped DEF R!Arrived
    <2> QED
      BY <2>1, <2>2, <2>3, <2>4
  <1>4. Posts'
    BY <1>1, <1>3, PostsKept
  <1>5. Named'
    BY <1>1, <1>3, NamedKept
  <1> QED
    BY <1>2, <1>3, <1>4, <1>5

\* The phone's calls answer requests.
LEMMA OncePhone ==
    ASSUME OnceInv, UNCHANGED pcvars, OneAnswer', Closed',
           \A m \in Copies' : \E n \in Copies : n.id = m.id /\ n.payload = m.payload,
           NEW c \in Callers, \A d \in Callers \ {c} : calls'[d] = calls[d],
           ~R!Arrived(c, "request")'
    PROVE  Undecided' /\ Posts' /\ Named' /\ OneAnswer' /\ Closed'
  <1>1. UNCHANGED <<thread, unlock, requestId>>
    BY DEF pcvars
  <1>2. Undecided'
    BY <1>1, UndecidedKept
  <1>3. Posts'
    BY <1>1, PostsKept DEF R!Arrived
  <1>4. Named'
    BY <1>1, NamedKept
  <1> QED
    BY <1>2, <1>3, <1>4

LEMMA OnceStays ==
    ASSUME OnceInv, UNCHANGED <<rows, accepted, calls, pcvars>>, now' \in Nat, now <= now'
    PROVE  Undecided' /\ Posts' /\ Named' /\ OneAnswer' /\ Closed'
  <1>1. UNCHANGED <<thread, unlock, requestId>>
    BY DEF pcvars
  <1>2. Undecided'
    BY <1>1, UndecidedKept
  <1>3. Posts'
    BY <1>1, PostsKept DEF R!Arrived
  <1>4. /\ OneAnswer' /\ Closed'
        /\ \A m \in Copies' : \E n \in Copies : n.id = m.id /\ n.payload = m.payload
    BY AnswersRest
  <1>5. Named'
    BY <1>1, <1>4, NamedKept
  <1> QED
    BY <1>2, <1>3, <1>4, <1>5

LEMMA OnceAnswers ==
    ASSUME OnceInv, HandledSoon, PhoneStep
    PROVE  Undecided' /\ Posts' /\ Named' /\ OneAnswer' /\ Closed'
  <1>1. CASE Poll \/ Handle \/ Tap \/ (\E ok \in BOOLEAN : Decide(ok)) \/ Die
    <2>1. UNCHANGED <<rvars, pcvars>>
      BY <1>1 DEF Poll, Handle, Tap, Decide, Die
    <2> QED
      BY <2>1, OnceStays, OnceTyped DEF rvars
  <1>2. CASE Respond
    <2> DEFINE call ==
          [phase |-> "sent", op |-> "respond",
           arg |-> [request |-> Head(queue).id,
                    answer |-> IF Head(queue).ok THEN Approval(Head(queue).token, now)
                                                 ELSE Refusal]]
    <2>1. /\ calls' = [calls EXCEPT ![Activity(lives)] = call]
          /\ UNCHANGED <<now, rows, accepted, pcvars>>
      BY <1>2 DEF Respond, relayRest, R!Send
    <2>2. call.phase = "sent" /\ call.op = "respond"
      OBVIOUS
    <2> HIDE DEF call
    <2>3. Activity(lives) \in Callers
      BY OnceTyped DEF CloudInv, PhoneInv, Callers
    <2>4. /\ calls'[Activity(lives)] = call
          /\ \A d \in Callers \ {Activity(lives)} : calls'[d] = calls[d]
      BY <2>1, <2>3, CallChanged, OnceTyped
    <2>5. /\ OneAnswer' /\ Closed'
          /\ \A m \in Copies' : \E n \in Copies : n.id = m.id /\ n.payload = m.payload
      BY <2>1, <2>2, <2>3, CallsRest
    <2> QED
      BY <2>1, <2>2, <2>3, <2>4, <2>5, OncePhone DEF R!Arrived
  <1>3. ASSUME NEW n \in 0..lives, Responding(n)
        PROVE  Undecided' /\ Posts' /\ Named' /\ OneAnswer' /\ Closed'
    <2>1. Activity(n) \in Callers
      <3>1. n \in 0..MaxRestarts
        BY CloudAssumption, OnceTyped DEF CloudInv, PhoneInv
      <3> QED
        BY <3>1 DEF Callers
    <2>2. UNCHANGED pcvars
      BY <1>3 DEF Responding
    <2>3. CASE R!FindRequest(Activity(n))
      <3>1. PICK m : R!Select(Activity(n), m)
        BY <2>3 DEF R!FindRequest
      <3>2. /\ calls'[Activity(n)].phase = "selected"
            /\ \A d \in Callers \ {Activity(n)} : calls'[d] = calls[d]
        BY <2>1, <3>1, Selects, OnceTyped
      <3> QED
        BY <2>1, <2>2, <2>3, <3>2, AnswersFindRequest, OncePhone DEF R!Arrived
    <2>4. CASE R!StoreResponse(Activity(n))
      <3>1. R!Return(Activity(n))
        BY <2>4 DEF R!StoreResponse
      <3>2. /\ calls'[Activity(n)].phase = "idle"
            /\ \A d \in Callers \ {Activity(n)} : calls'[d] = calls[d]
        BY <2>1, <3>1, CallReturns, OnceTyped
      <3> QED
        BY <2>1, <2>2, <2>4, <3>2, AnswersStore, OncePhone DEF R!Arrived
    <2>5. CASE \/ R!NoRequest(Activity(n)) \/ R!RejectResponse(Activity(n))
               \/ R!Lose(Activity(n))
      <3>1. R!Return(Activity(n)) /\ UNCHANGED <<now, rows, accepted>>
        BY <2>5 DEF R!NoRequest, R!RejectResponse, R!Lose
      <3>2. /\ calls'[Activity(n)].phase = "idle"
            /\ \A d \in Callers \ {Activity(n)} : calls'[d] = calls[d]
        BY <2>1, <3>1, CallReturns, OnceTyped
      <3> QED
        BY <2>1, <2>2, <3>1, <3>2, ReturnsRest, OncePhone DEF R!Arrived
    <2> QED
      BY <1>3, <2>3, <2>4, <2>5 DEF Responding, R!RespondStep
  <1> QED
    BY <1>1, <1>2, <1>3 DEF PhoneStep

LEMMA OnceInvStep ==
    OnceInv /\ HandledSoon /\ AnswerInv' /\ [Next]_vars => OnceInv'
  <1> SUFFICES ASSUME OnceInv, HandledSoon, AnswerInv', [Next]_vars PROVE OnceInv'
    OBVIOUS
  <1>1. CASE \E a \in Attempts : \/ StartClient(a) \/ BuildFails(a) \/ ClientStep(a)
                                 \/ CallFails(a) \/ StopClient(a)
    BY <1>1, OnceStarts, OnceEnds, OnceCreated, OnceWorks DEF ClientStep, OnceInv
  <1>2. CASE PhoneStep
    BY <1>2, OnceAnswers DEF OnceInv
  <1>3. CASE Tick
    <2>1. now' \in Nat /\ now <= now'
      BY <1>3, OnceTyped DEF Tick
    <2> QED
      BY <1>3, <2>1, OnceStays DEF Tick, OnceInv
  <1>4. CASE UNCHANGED vars
    BY <1>4, OnceStays, OnceTyped DEF vars, rvars, OnceInv
  <1> QED
    BY <1>1, <1>2, <1>3, <1>4 DEF Next

-----------------------------------------------------------------------------
\* The refinement

\* A client ends, with a decision that was taken for it or with a failure.
LEMMA EndsFinish ==
    ASSUME OnceInv, NEW a \in Attempts, NEW st \in States, End(a, st), UNCHANGED accepted,
           thread[a] \in {"new", "create", "loop", "get"}, st # "UNKNOWN",
           st = "SUCCESS" => Decision[a] = "approve", st = "CANCELED" => Decision[a] = "deny"
    PROVE  A!AttemptNext
  <1> DEFINE o == IF st \in {"UNKNOWN", "SUCCESS", "CANCELED"} THEN st ELSE "FAILED"
  <1>1. /\ unlock'[a] = st /\ unlock[a] = "UNKNOWN"
        /\ \A b \in Attempts \ {a} : unlock'[b] = unlock[b]
    BY Ended DEF OnceInv, Undecided
  <1>2. Outcome[a] = "UNKNOWN"
    BY <1>1 DEF Outcome
  <1>3. Outcome' = [Outcome EXCEPT ![a] = o]
    BY <1>1 DEF Outcome
  <1>4. Decision' = Decision
    BY DEF Decision
  <1>5. o \in A!Outcomes \ {"UNKNOWN"}
    BY DEF A!Outcomes
  <1>6. o = "SUCCESS" => st = "SUCCESS"
    OBVIOUS
  <1>7. o = "CANCELED" => st = "CANCELED"
    OBVIOUS
  <1> HIDE DEF o
  <1>8. A!Finish(a, o)
    BY <1>2, <1>3, <1>4, <1>6, <1>7 DEF A!Finish
  <1> QED
    BY <1>5, <1>8 DEF A!AttemptNext

\* What a client is given is the answer that was accepted for its request.
LEMMA GivenIsDecision ==
    ASSUME OnceInv, NEW a \in Attempts, R!Selected(Pc(a), "response")
    PROVE  Decision[a] = IF calls[Pc(a)].row.payload = Refusal THEN "deny" ELSE "approve"
  <1>1. calls[Pc(a)].arg = requestId[a]
    BY DEF OnceInv, AnswerInv, Asks, R!Selected
  <1>2. PICK x \in accepted : /\ x.request.id = requestId[a]
                              /\ x.answer = calls[Pc(a)].row.payload
    BY <1>1, PcIsCaller DEF OnceInv, OneAnswer
  <1>3. x.request \in Copies /\ \A y \in accepted : y.request \in Copies
    BY DEF Copies
  <1>4. x.request.payload.token = a
    BY <1>2, <1>3 DEF OnceInv, Named
  <1>5. \A y \in accepted : y.request.payload.token = a => y = x
    BY <1>3, <1>4 DEF OnceInv, Named, OneAnswer
  <1> QED
    BY <1>2, <1>4, <1>5 DEF Decision

\* An answer is accepted: it is the first for its attempt.
LEMMA StoreDecides ==
    ASSUME OnceInv, HandledSoon, NEW c \in Callers, R!StoreResponse(c), UNCHANGED unlock
    PROVE  A!AttemptNext \/ UNCHANGED <<Decision, Outcome>>
  <1> DEFINE first == [request |-> calls[c].row, at |-> calls[c].t,
                       answer |-> calls[c].arg.answer]
             t == first.request.payload.token
             d == IF first.answer = Refusal THEN "deny" ELSE "approve"
  <1>1. accepted' = accepted \cup {first} /\ \A x \in accepted : x.request.id # first.request.id
    BY AnswersStore
  <1>2. first.request \in Copies /\ \A x \in accepted : x.request \in Copies
    BY DEF Copies, R!StoreResponse
  <1> HIDE DEF first
  <1>3. \A x \in accepted : x.request.payload.token # t
    BY <1>1, <1>2 DEF OnceInv, Named
  <1>4. Outcome' = Outcome
    BY DEF Outcome
  <1>5. CASE t \in Attempts
    <2>1. Decision[t] = "none"
      BY <1>3, <1>5 DEF Decision
    <2>2. \A b \in Attempts \ {t} : Decision'[b] = Decision[b]
      BY <1>1 DEF Decision
    <2>3. Decision'[t] = d
      BY <1>1, <1>3, <1>5 DEF Decision
    <2>4. Decision' = [Decision EXCEPT ![t] = d]
      <3>1. /\ Decision = [b \in Attempts |-> Decision[b]]
            /\ Decision' = [b \in Attempts |-> Decision'[b]]
        BY DEF Decision
      <3> HIDE DEF t, d
      <3> QED
        BY <2>2, <2>3, <3>1
    <2> HIDE DEF t
    <2>5. A!Decide(t, d) /\ d \in {"approve", "deny"}
      BY <1>4, <2>1, <2>4 DEF A!Decide
    <2> QED
      BY <1>5, <2>5 DEF A!AttemptNext
  <1>6. CASE t \notin Attempts
    <2>1. \A b \in Attempts : Decision'[b] = Decision[b]
      BY <1>1, <1>6 DEF Decision
    <2>2. Decision' = Decision
      BY <2>1 DEF Decision
    <2> QED
      BY <1>4, <2>2
  <1> QED
    BY <1>5, <1>6

LEMMA StepRefines ==
    OnceInv /\ HandledSoon /\ [Next]_vars => [A!AttemptNext]_A!avars
  <1> SUFFICES ASSUME OnceInv, HandledSoon, [Next]_vars
               PROVE  A!AttemptNext \/ UNCHANGED <<Decision, Outcome>>
    BY DEF A!avars
  <1>1. CASE UNCHANGED <<accepted, unlock>>
    BY <1>1 DEF Decision, Outcome
  <1>2. ASSUME NEW a \in Attempts, BuildFails(a) \/ GiveUp(a) PROVE A!AttemptNext
    <2>1. UNCHANGED accepted /\ thread[a] \in {"new", "create", "loop", "get"}
      BY <1>2 DEF BuildFails, GiveUp, MayStart, rvars
    <2>2. \E st \in {"UNK_ERROR", "TIMEOUT"} : End(a, st)
      BY <1>2 DEF BuildFails, GiveUp
    <2> QED
      BY <2>1, <2>2, EndsFinish DEF States
  <1>3. ASSUME NEW a \in Attempts, CallFails(a) PROVE A!AttemptNext
    <2>1. UNCHANGED accepted /\ End(a, "CONNECT_ERROR") /\ calls[Pc(a)].phase # "idle"
      BY <1>3 DEF CallFails, R!Lose, R!PostRequest, R!DeliverResponse, R!Arrived, R!Selected
    <2>2. thread[a] \in {"new", "create", "loop", "get"}
      BY <2>1 DEF OnceInv, AnswerInv, Asks
    <2> QED
      BY <2>1, <2>2, EndsFinish DEF States
  <1>4. ASSUME NEW a \in Attempts, Got(a) PROVE A!AttemptNext
    <2> DEFINE st == Process(a, calls[Pc(a)].row.payload)
    <2>1. /\ UNCHANGED accepted /\ End(a, st) /\ R!Selected(Pc(a), "response")
          /\ thread[a] \in {"new", "create", "loop", "get"}
      BY <1>4 DEF Got, R!DeliverResponse
    <2>2. Decision[a] = IF calls[Pc(a)].row.payload = Refusal THEN "deny" ELSE "approve"
      BY <2>1, GivenIsDecision
    <2>3. /\ st \in States /\ st # "UNKNOWN"
          /\ st = "SUCCESS" => Decision[a] = "approve"
          /\ st = "CANCELED" => Decision[a] = "deny"
      BY <2>2 DEF Process, States
    <2> HIDE DEF st
    <2> QED
      BY <2>1, <2>3, EndsFinish
  <1>5. ASSUME NEW n \in 0..lives, Responding(n)
        PROVE  A!AttemptNext \/ UNCHANGED <<Decision, Outcome>>
    <2>1. UNCHANGED unlock
      BY <1>5 DEF Responding, pcvars
    <2>2. Activity(n) \in Callers
      <3>1. n \in 0..MaxRestarts
        BY CloudAssumption, OnceTyped DEF CloudInv, PhoneInv
      <3> QED
        BY <3>1 DEF Callers
    <2>3. CASE R!StoreResponse(Activity(n))
      BY <2>1, <2>2, <2>3, StoreDecides
    <2>4. CASE UNCHANGED accepted
      BY <1>1, <2>1, <2>4
    <2> QED
      BY <1>5, <2>3, <2>4 DEF Responding, R!RespondStep, R!FindRequest, R!NoRequest,
                              R!RejectResponse, R!Lose
  <1>6. ASSUME NEW a \in Attempts,
               \/ StartClient(a) \/ StopClient(a) \/ Created(a) \/ Get(a) \/ Find(a)
               \/ GotNothing(a) \/ JoinClient(a)
        PROVE  UNCHANGED <<accepted, unlock>>
    BY <1>6 DEF StartClient, StopClient, Created, Get, Find, GotNothing, JoinClient, relayRest,
                rvars, pcvars, R!PostRequest, R!FindResponse, R!NoResponse
  <1>7. CASE \/ Poll \/ Handle \/ Tap \/ (\E ok \in BOOLEAN : Decide(ok)) \/ Respond \/ Die
             \/ Tick \/ UNCHANGED vars
    <2>1. UNCHANGED <<accepted, unlock>>
      BY <1>7 DEF Poll, Handle, Tap, Decide, Respond, Die, Tick, vars, rvars, pcvars, relayRest
    <2> QED
      BY <1>1, <2>1
  <1> QED
    BY <1>1, <1>2, <1>3, <1>4, <1>5, <1>6, <1>7 DEF Next, ClientStep, PhoneStep

LEMMA InitRefines == Init => A!AttemptInit
  <1> SUFFICES ASSUME Init PROVE A!AttemptInit
    OBVIOUS
  <1>1. accepted = {} /\ \A a \in Attempts : unlock[a] = "UNKNOWN"
    BY DEF Init, R!RelayInit
  <1> QED
    BY <1>1 DEF A!AttemptInit, Decision, Outcome

LEMMA AnswerInvariance == Spec => []AnswerInv
  <1> QED
    BY AnswerInvInit, AnswerInvStep, CloudInvariance, PTL DEF Spec

\* While no handler of POST /v1/relay/requests/:id/response hangs for 60 s between its
\* SELECT and its batch, every attempt over the relay is decided once, by the first
\* answer stored, and CloudUnlockClient reports what that answer says or a failure:
\* neither calls that are lost, nor a phone that asks its user again, nor two answers
\* that both found the request open change what was decided (cloud/src/index.ts,
\* CloudUnlockClient.cpp, CloudController.kt).
THEOREM CloudDecidedOnce == Spec /\ []HandledSoon => DecidedOnce
  <1> QED
    BY InitRefines, StepRefines, OnceInvInit, OnceInvStep, AnswerInvariance, PTL
       DEF Spec, DecidedOnce, A!AttemptSpec
=============================================================================
