----------------------------- MODULE CoapSeparate -----------------------------
(***************************************************************************)
(* The separate-response resource of the Contiki-NG CoAP example server    *)
(* (resources/res-separate.c) together with the button loop that resumes   *)
(* it (coap-example-server.c), the part of the CoAP engine the two rely on *)
(* (transactions, message ids, retransmission), clients that retransmit,   *)
(* and a datagram network that loses and reorders.                         *)
(*                                                                         *)
(* Contiki runs the engine and the server process cooperatively: a request *)
(* handler and a button event each run to completion, so each is one       *)
(* action.  The engine keeps no record of handled message ids, so every    *)
(* copy of a retransmitted request reaches the handler.                    *)
(***************************************************************************)
EXTENDS Naturals, Sequences, SequencesExt, FiniteSets

CONSTANTS
  Req,                        \* the requests clients make (endpoint and token)
  Confirmable,                \* those sent as CON; the others are NON
  NoMetadata,                 \* content of a slot never written
  COAP_MAX_OPEN_SEPARATE,     \* 2 in the source
  COAP_MAX_OPEN_TRANSACTIONS, \* size of the engine's transaction pool
  Observers,                  \* observers of the button resource
  MaxRetransmit,              \* how often a client repeats a CON request
  MaxResponseRetransmit,      \* how often the engine repeats a CON response
  MaxLosses                   \* bound on the datagrams the network loses

ASSUME ReqAssumption == Confirmable \subseteq Req
ASSUME SizeAssumption ==
  /\ COAP_MAX_OPEN_SEPARATE \in Nat \ {0}
  /\ COAP_MAX_OPEN_TRANSACTIONS \in Nat \ {0}
  /\ Observers \in Nat
ASSUME BoundAssumption ==
  /\ MaxRetransmit \in Nat
  /\ MaxResponseRetransmit \in Nat
  /\ MaxLosses \in Nat

VARIABLES
  separate_active,  \* static uint8_t separate_active
  separate_store,   \* static application_separate_store_t separate_store[]
  transactions,     \* engine transactions that hold an unacknowledged CON response
  other,            \* engine transactions held by notifications of other resources
  next_mid,         \* the engine's next message id
  client,           \* phase of each request at its client
  copies,           \* copies of each request its client has sent
  network,          \* datagrams under way
  losses,           \* datagrams lost so far
  open,             \* history: exchanges accepted since the last response, oldest first
  responded,        \* history: exchanges a response was sent for
  abandoned         \* history: exchanges forgotten when a later one was answered

server == <<separate_active, separate_store, open, responded, abandoned>>
engine == <<transactions, other, next_mid>>
clients == <<client, copies>>
vars == <<server, engine, clients, network, losses>>

Slots == 0 .. COAP_MAX_OPEN_SEPARATE - 1

\* What coap_separate_accept saves: whom to answer, and under which new message id.
Metadata == [req: Req, mid: Nat]

Phase == {"idle", "waiting", "acked", "answered", "refused", "failed"}

Transaction == [req: Confirmable, mid: Nat, copy: 0 .. MaxResponseRetransmit]

Get(r, n) == [kind |-> "get", req |-> r, copy |-> n]
Ack(m) == [kind |-> "ack", req |-> m.req, copy |-> m.copy]
Unavailable(m) == [kind |-> "unavailable", req |-> m.req, copy |-> m.copy]
Content(md, n) == [kind |-> "content", req |-> md.req, mid |-> md.mid, copy |-> n]
ContentAck(m) == [kind |-> "contentAck", mid |-> m.mid, copy |-> m.copy]

Message ==
  [kind: {"get", "ack", "unavailable"}, req: Req, copy: 0 .. MaxRetransmit]
    \cup [kind: {"content"}, req: Req, mid: Nat, copy: 0 .. MaxResponseRetransmit]
    \cup [kind: {"contentAck"}, mid: Nat, copy: 0 .. MaxResponseRetransmit]

\* Transactions coap_new_transaction can still hand out.
Free == COAP_MAX_OPEN_TRANSACTIONS - (Cardinality(transactions) + other)

Init ==
  /\ separate_active = 0
  /\ separate_store = [s \in Slots |-> NoMetadata]
  /\ transactions = {} /\ other = 0 /\ next_mid = 0
  /\ client = [r \in Req |-> "idle"] /\ copies = [r \in Req |-> 0]
  /\ network = {} /\ losses = 0
  /\ open = <<>> /\ responded = {} /\ abandoned = {}

-----------------------------------------------------------------------------
(* Clients.                                                                *)

SendRequest(r) ==
  /\ client[r] = "idle"
  /\ client' = [client EXCEPT ![r] = "waiting"]
  /\ copies' = [copies EXCEPT ![r] = 1]
  /\ network' = network \cup {Get(r, 0)}
  /\ UNCHANGED <<server, engine, losses>>

\* A CON request nobody acknowledged is sent again.
RetransmitRequest(r) ==
  /\ client[r] = "waiting" /\ r \in Confirmable /\ copies[r] <= MaxRetransmit
  /\ copies' = [copies EXCEPT ![r] = @ + 1]
  /\ network' = network \cup {Get(r, copies[r])}
  /\ UNCHANGED <<server, engine, client, losses>>

GiveUp(r) ==
  /\ client[r] = "waiting"
  /\ r \in Confirmable => copies[r] > MaxRetransmit
  /\ client' = [client EXCEPT ![r] = "failed"]
  /\ UNCHANGED <<server, engine, copies, network, losses>>

\* The empty acknowledgement announces a separate response.
ReceiveAck(m) ==
  /\ m.kind = "ack"
  /\ client' = [client EXCEPT ![m.req] = IF @ = "waiting" THEN "acked" ELSE @]
  /\ network' = network \ {m}
  /\ UNCHANGED <<server, engine, copies, losses>>

\* A 5.03 for a request that is already acknowledged answers a stale copy: it is ignored.
ReceiveUnavailable(m) ==
  /\ m.kind = "unavailable"
  /\ client' = [client EXCEPT ![m.req] = IF @ = "waiting" THEN "refused" ELSE @]
  /\ network' = network \ {m}
  /\ UNCHANGED <<server, engine, copies, losses>>

\* A CON response is acknowledged whatever the client makes of it (a reset
\* from a client that has given up ends the transaction just as well).
ReceiveContent(m) ==
  /\ m.kind = "content"
  /\ client' = [client EXCEPT ![m.req] = IF @ \in {"waiting", "acked"} THEN "answered" ELSE @]
  /\ network' = (network \ {m})
                  \cup (IF m.req \in Confirmable THEN {ContentAck(m)} ELSE {})
  /\ UNCHANGED <<server, engine, copies, losses>>

-----------------------------------------------------------------------------
(* The request handler, as the engine calls it.                            *)

\* The engine has no transaction for the response: the handler is not called.
NoFreeTransaction(m) ==
  /\ m.kind = "get" /\ Free <= 0
  /\ network' = (network \ {m}) \cup {Unavailable(m)}
  /\ UNCHANGED <<server, engine, clients, losses>>

\* Fault: acknowledges the request before it looks at the counter.
SeparateRejectAfterAck(m) ==
  /\ m.kind = "get" /\ Free > 0
  /\ separate_active >= COAP_MAX_OPEN_SEPARATE
  /\ network' = (network \ {m}) \cup {Ack(m)}
  /\ UNCHANGED <<server, engine, clients, losses>>

\* coap_separate_reject: the engine answers 5.03.
SeparateReject(m) ==
  /\ m.kind = "get" /\ Free > 0
  /\ separate_active >= COAP_MAX_OPEN_SEPARATE
  /\ network' = (network \ {m}) \cup {Unavailable(m)}
  /\ UNCHANGED <<server, engine, clients, losses>>

\* The engine and the client see the same whichever slot the handler writes:
\* coap_separate_accept takes a new message id and acknowledges a CON request.
AcceptInto(m, slot) ==
  /\ m.kind = "get" /\ Free > 0
  /\ separate_active' = separate_active + 1
  /\ LET md == [req |-> m.req, mid |-> next_mid] IN
       /\ separate_store' = [separate_store EXCEPT ![slot] = md]
       /\ open' = Append(open, md)
  /\ next_mid' = next_mid + 1
  /\ network' = (network \ {m}) \cup (IF m.req \in Confirmable THEN {Ack(m)} ELSE {})
  /\ UNCHANGED <<responded, abandoned, transactions, other, clients, losses>>

\* Fault: a list of stores that res_resume_handler knows nothing of.
SeparateAcceptNextSlot(m) ==
  separate_active < COAP_MAX_OPEN_SEPARATE /\ AcceptInto(m, separate_active)

\* coap_separate_accept(request, &separate_store->request_metadata): the slot
\* written is the first one, whatever the counter says.
SeparateAccept(m) ==
  separate_active < COAP_MAX_OPEN_SEPARATE /\ AcceptInto(m, 0)

-----------------------------------------------------------------------------
(* The button event: res_event.trigger() and then res_separate.resume().   *)
(* The notifications trigger sends as CON keep n transactions.             *)

\* resume with an open exchange and a transaction to answer it in; the counter
\* and the exchanges still open afterwards are the arguments.
ResumeLeaving(n, active, rest) ==
  /\ n < Free /\ separate_active > 0
  /\ other' = other + n
  /\ LET md == separate_store[0] IN
       /\ network' = network \cup {Content(md, 0)}
       /\ transactions' = IF md.req \in Confirmable
                            THEN transactions \cup {[req |-> md.req, mid |-> md.mid, copy |-> 0]}
                            ELSE transactions
       /\ responded' = responded \cup {md}
  /\ separate_active' = active
  /\ open' = rest
  /\ abandoned' = abandoned \cup (ToSet(Front(open)) \ ToSet(rest))
  /\ UNCHANGED <<separate_store, next_mid, clients, losses>>

\* Fault: the counter is not reset.
ButtonAnswersAgain(n) == ResumeLeaving(n, separate_active, open)

\* Fault: the FIXME "there could me more!" done by decrementing the counter.
ButtonAnswersOne(n) == ResumeLeaving(n, separate_active - 1, Front(open))

\* separate_active = 0, "FIXME there could me more!"
ButtonAnswers(n) == ResumeLeaving(n, 0, <<>>)

\* Fault: the counter is reset although no response was sent.
ButtonForgets(n) ==
  /\ n <= Free
  /\ separate_active = 0 \/ n = Free
  /\ other' = other + n
  /\ separate_active' = 0
  /\ open' = <<>>
  /\ UNCHANGED <<separate_store, responded, abandoned, transactions, next_mid, clients,
                 network, losses>>

\* resume with nothing open, or with no transaction left: the exchange waits
\* for another press.
ButtonWaits(n) ==
  /\ n <= Free
  /\ separate_active = 0 \/ n = Free
  /\ other' = other + n
  /\ UNCHANGED <<server, transactions, next_mid, clients, network, losses>>

ButtonPress == \E n \in 0 .. Observers : ButtonAnswers(n) \/ ButtonWaits(n)

-----------------------------------------------------------------------------
(* Engine transactions and the network.                                    *)

RetransmitContent(t) ==
  /\ t.copy < MaxResponseRetransmit
  /\ transactions' = (transactions \ {t}) \cup {[t EXCEPT !.copy = @ + 1]}
  /\ network' = network \cup {Content(t, t.copy + 1)}
  /\ UNCHANGED <<server, other, next_mid, clients, losses>>

\* The last repetition went unanswered: the engine clears the transaction.
ExpireContent(t) ==
  /\ t.copy = MaxResponseRetransmit
  /\ transactions' = transactions \ {t}
  /\ UNCHANGED <<server, other, next_mid, clients, network, losses>>

ReceiveContentAck(m) ==
  /\ m.kind = "contentAck"
  /\ transactions' = {t \in transactions : t.mid # m.mid}
  /\ network' = network \ {m}
  /\ UNCHANGED <<server, other, next_mid, clients, losses>>

\* A periodic resource notifies an observer with a CON message ...
OtherOpens ==
  /\ Free > 0
  /\ other' = other + 1
  /\ UNCHANGED <<server, transactions, next_mid, clients, network, losses>>

\* ... which is acknowledged or given up.
OtherCloses ==
  /\ other > 0
  /\ other' = other - 1
  /\ UNCHANGED <<server, transactions, next_mid, clients, network, losses>>

Lose(m) ==
  /\ losses < MaxLosses
  /\ losses' = losses + 1
  /\ network' = network \ {m}
  /\ UNCHANGED <<server, engine, clients>>

Deliver(m) ==
  \/ ReceiveAck(m) \/ ReceiveUnavailable(m) \/ ReceiveContent(m)
  \/ NoFreeTransaction(m) \/ SeparateReject(m) \/ SeparateAccept(m)
  \/ ReceiveContentAck(m)

Next ==
  \/ \E r \in Req : SendRequest(r) \/ RetransmitRequest(r) \/ GiveUp(r)
  \/ \E m \in network : Deliver(m) \/ Lose(m)
  \/ ButtonPress
  \/ \E t \in transactions : RetransmitContent(t) \/ ExpireContent(t)
  \/ OtherOpens \/ OtherCloses

Spec == Init /\ [][Next]_vars

\* The network delivers what it does not lose; the engine's timers run;
\* notifications of other resources end; and whoever presses the button does
\* not press only at moments when every transaction is taken.
Fairness ==
  /\ WF_vars(\E m \in network : Deliver(m))
  /\ WF_vars(\E t \in transactions : RetransmitContent(t) \/ ExpireContent(t))
  /\ WF_vars(OtherCloses)
  /\ SF_vars(\E n \in 0 .. Observers : ButtonAnswers(n))

FairSpec == Spec /\ Fairness

-----------------------------------------------------------------------------
TypeOK ==
  /\ separate_active \in 0 .. COAP_MAX_OPEN_SEPARATE
  /\ separate_store \in [Slots -> Metadata \cup {NoMetadata}]
  /\ transactions \subseteq Transaction
  /\ other \in Nat
  /\ next_mid \in Nat
  /\ client \in [Req -> Phase]
  /\ copies \in [Req -> 0 .. MaxRetransmit + 1]
  /\ network \subseteq Message
  /\ losses \in 0 .. MaxLosses
  /\ open \in Seq(Metadata)
  /\ responded \subseteq Metadata
  /\ abandoned \subseteq Metadata

\* The counter counts the exchanges accepted since the last response, and while
\* one is open the first slot identifies the latest of them: res_resume_handler
\* never answers from metadata that was not written, or from older metadata.
SlotHoldsLatest ==
  /\ separate_active = Len(open)
  /\ separate_active > 0 => separate_store[0] = Last(open)

\* No press answers an exchange an earlier press answered, although the slot
\* keeps its metadata after the response.
NeverAnsweredTwice == \A i \in DOMAIN open : open[i] \notin responded

\* The counter falls only in a step that answers an exchange, and when a single
\* exchange was open it is that one: a press that finds no transaction leaves
\* the exchange for the next press.
ReleaseAnswers ==
  [][separate_active' < separate_active =>
       /\ responded' # responded
       /\ separate_active = 1 => responded' = responded \cup {open[1]}]_vars

Awaited(r) ==
  \/ \E i \in DOMAIN open : open[i].req = r
  \/ \E t \in transactions : t.req = r
  \/ \E m \in network : m.kind = "content" /\ m.req = r

Abandoned(r) == \E md \in abandoned : md.req = r

\* A client told to wait for a separate response still has one coming unless a
\* later exchange took its slot or the network lost every copy of the response.
SilenceNeedsLoss ==
  \A r \in Confirmable :
    client[r] = "acked" =>
      Awaited(r) \/ Abandoned(r) \/ losses > MaxResponseRetransmit

\* A client told to wait is answered, unless its exchange was overwritten or
\* every copy of the response was lost.
AckedIsServed ==
  \A r \in Confirmable :
    client[r] = "acked" ~>
      (client[r] = "answered" \/ Abandoned(r) \/ losses > MaxResponseRetransmit)

\* The server behaves as the mailbox that answers only its newest entry.
Mailbox == INSTANCE SeparateMailbox
  WITH Exchange <- Metadata, Capacity <- COAP_MAX_OPEN_SEPARATE,
       pending <- open, answered <- responded

ImplementsMailbox == Mailbox!Spec

\* ... and, as long as the button is pressed, one that keeps answering:
\* transactions are not leaked until no press finds one.
ServesMailbox == Mailbox!FairSpec
=============================================================================
