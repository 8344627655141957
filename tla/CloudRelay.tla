----------------------------- MODULE CloudRelay -----------------------------
(***************************************************************************)
(* The relay worker (cloud/src/index.ts) for one enrolled phone: the table *)
(* relay_messages and the handlers of the relay routes for requests.  A    *)
(* handler runs its SQL statements one by one, so handlers of different    *)
(* calls interleave between a SELECT and the statements that act on what   *)
(* it found; a D1 batch is one transaction.  The routes for commands,      *)
(* accounts and devices are left out, and every call is authorised.        *)
(*                                                                         *)
(* Every caller has at most one call under way.  The last step of a        *)
(* handler is also the arrival of its reply: a slow reply looks to the     *)
(* caller like a call that was slow to arrive.                             *)
(***************************************************************************)
EXTENDS Integers, FiniteSets

CONSTANTS Clients,      \* who calls the relay: threads of PCs and of the phone
          TTL           \* how long a row lives (120 s)

VARIABLES now,          \* the clock, in ticks
          rows,         \* relay_messages
          minted,       \* how many row ids have been generated
          calls,        \* per caller: its call
          accepted      \* observation: the first answer stored for a request, and when

\* relay_messages; request is the request that a response answers, else 0.
Row(id, direction, request, payload, t) ==
    [id |-> id, direction |-> direction, request |-> request, payload |-> payload,
     created |-> t, expires |-> t + TTL, consumed |-> FALSE]

Requests  == {m \in rows : m.direction = "pc_to_phone"}
Responses == {m \in rows : m.direction = "phone_to_pc"}
NoCall    == [phase |-> "idle"]

RelayInit ==
    /\ now = 0
    /\ rows = {}
    /\ minted = 0
    /\ calls = [c \in Clients |-> NoCall]
    /\ accepted = {}

RelayTypeOK ==
    /\ now \in Nat
    /\ minted \in Nat
    /\ \A m \in rows : /\ m.id \in 1..minted /\ m.request \in 0..minted
                       /\ m.direction \in {"pc_to_phone", "phone_to_pc"}
                       /\ m.created <= now /\ m.expires = m.created + TTL
                       /\ m.consumed \in BOOLEAN
    /\ \A m, n \in rows : m.id = n.id => m = n
    /\ DOMAIN calls = Clients
    /\ \A c \in Clients : calls[c].phase \in {"idle", "sent", "selected"}

-----------------------------------------------------------------------------

Send(c, op, arg) ==
    /\ calls[c] = NoCall
    /\ calls' = [calls EXCEPT ![c] = [phase |-> "sent", op |-> op, arg |-> arg]]
Select(c, m) ==
    calls' = [calls EXCEPT ![c] = [phase |-> "selected", op |-> @.op, arg |-> @.arg,
                                   row |-> m, t |-> now]]
Return(c) == calls' = [calls EXCEPT ![c] = NoCall]

Arrived(c, op)  == calls[c].phase = "sent" /\ calls[c].op = op
Selected(c, op) == calls[c].phase = "selected" /\ calls[c].op = op

\* The call does not reach the worker; the caller gives up.
Lose(c) ==
    /\ calls[c].phase = "sent"
    /\ Return(c)
    /\ UNCHANGED <<now, rows, minted, accepted>>

\* Mutant: forgets that a row expires.
OpenNoExpiry(m) == ~m.consumed
Open(m) == ~m.consumed /\ m.expires > now

\* Mutant: deletes by the time of creation.
ExpiredByCreation(m) == m.created <= now
Expired(m) == m.expires <= now

Consume(id) == {IF m.id = id THEN [m EXCEPT !.consumed = TRUE] ELSE m : m \in rows}

\* POST /v1/relay/requests: one batch; replies the id of the new row.
PostRequest(c) ==
    /\ Arrived(c, "request")
    /\ rows' = {m \in rows : ~Expired(m)}
               \cup {Row(minted + 1, "pc_to_phone", 0, calls[c].arg, now)}
    /\ minted' = minted + 1
    /\ Return(c)
    /\ UNCHANGED <<now, accepted>>

\* GET /v1/relay/devices/:id/requests: ORDER BY created_at LIMIT 1, where rows
\* of the same second come in any order.  It reads and changes nothing.
PollRequests ==
    LET open == {m \in Requests : Open(m)}
    IN  {m \in open : \A n \in open : m.created <= n.created}

\* POST /v1/relay/requests/:id/response, up to the SELECT.
FindRequest(c) ==
    /\ Arrived(c, "respond")
    /\ \E m \in Requests : m.id = calls[c].arg.request /\ Open(m) /\ Select(c, m)
    /\ UNCHANGED <<now, rows, minted, accepted>>

NoRequest(c) ==
    /\ Arrived(c, "respond")
    /\ \A m \in Requests : m.id = calls[c].arg.request => ~Open(m)
    /\ Return(c)
    /\ UNCHANGED <<now, rows, minted, accepted>>

\* Mutant: the table has no such index.
OneResponseNever(request) == TRUE
\* The unique index relay_one_response.
OneResponse(request) == \A m \in Responses : m.request # request

\* ... and its batch: consume the request, and insert the response with the time
\* taken before the SELECT.
StoreResponse(c) ==
    /\ Selected(c, "respond")
    /\ LET request == calls[c].row IN
       /\ OneResponse(request.id)
       /\ rows' = Consume(request.id) \cup
                  {Row(minted + 1, "phone_to_pc", request.id, calls[c].arg.answer, calls[c].t)}
       /\ accepted' = IF \E x \in accepted : x.request.id = request.id THEN accepted
                      ELSE accepted \cup {[request |-> request, at |-> calls[c].t,
                                           answer |-> calls[c].arg.answer]}
    /\ minted' = minted + 1
    /\ Return(c)
    /\ UNCHANGED now

\* A second response breaks the index: the batch is rolled back.
RejectResponse(c) ==
    /\ Selected(c, "respond")
    /\ ~OneResponse(calls[c].row.id)
    /\ Return(c)
    /\ UNCHANGED <<now, rows, minted, accepted>>

RespondStep(c) == FindRequest(c) \/ NoRequest(c) \/ StoreResponse(c) \/ RejectResponse(c)

\* Mutant: selects any response of the device.
AnswersAny(m, request) == TRUE
Answers(m, request) == m.request = request

\* GET /v1/relay/requests/:id/response, up to the SELECT.
FindResponse(c) ==
    /\ Arrived(c, "response")
    /\ \E m \in Responses : Answers(m, calls[c].arg) /\ Open(m) /\ Select(c, m)
    /\ UNCHANGED <<now, rows, minted, accepted>>

NoResponse(c) ==
    /\ Arrived(c, "response")
    /\ \A m \in Responses : Answers(m, calls[c].arg) => ~Open(m)
    /\ Return(c)
    /\ UNCHANGED <<now, rows, minted, accepted>>

\* ... and its UPDATE; replies the payload selected before.
DeliverResponse(c) ==
    /\ Selected(c, "response")
    /\ rows' = Consume(calls[c].row.id)
    /\ Return(c)
    /\ UNCHANGED <<now, minted, accepted>>
=============================================================================
