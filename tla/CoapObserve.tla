------------------------------ MODULE CoapObserve ------------------------------
(***************************************************************************)
(* The event resource, triggered by the button, and the push resource,     *)
(* triggered by a timer, of the CoAP example server (resources/res-event.c *)
(* and res-push.c): each has a counter and notifies its observers of every *)
(* step.  The engine's observers, its transaction pool, a network that     *)
(* loses and reorders, and the clients are modelled from their use.        *)
(***************************************************************************)
EXTENDS Integers, FiniteSets

CONSTANTS
  EventObserver, PushObserver,   \* clients, by the resource they observe
  COAP_MAX_OPEN_TRANSACTIONS,
  COAP_OBSERVE_REFRESH_INTERVAL, \* each so many notifications one is confirmable
  COAP_MAX_RETRANSMIT,
  MaxEvents                      \* bound: steps of the two counters

Observer == EventObserver \cup PushObserver
Resource == {"event", "push"}
Observes(o) == IF o \in EventObserver THEN "event" ELSE "push"

VARIABLES
  event_counter,  \* of each resource
  obs_counter,    \* the engine's list: for each observer its next sequence number, or None
  open,           \* open transactions: confirmable notifications with the repetitions left
  net,            \* notifications on their way
  view,           \* a client's newest notification
  missed          \* history: the newest notification for o was skipped or lost

obsVars == <<event_counter, obs_counter, open, net, view, missed>>

None == -1   \* not on the list; also the sequence number of an earlier registration
Registered == {o \in Observer : obs_counter[o] # None}
Notification == [to: Observer, seq: Nat, count: Nat, con: BOOLEAN]

Init ==
  /\ event_counter = [r \in Resource |-> 0]
  /\ obs_counter = [o \in Observer |-> None]
  /\ open = {} /\ net = {}
  /\ view = [o \in Observer |-> [seq |-> None, count |-> 0]]
  /\ missed = [o \in Observer |-> FALSE]

-----------------------------------------------------------------------------
(* The resources.                                                          *)

\* Fault: a counter of too few bits, one here.
IncrementedNarrow(count) == (count + 1) % 2

\* ++event_counter
Incremented(count) == count + 1

\* coap_notify_observers: one notification with payload count for each observer
\* of r that finds a transaction; others are skipped.  A confirmable one keeps
\* its transaction until it is acknowledged.
CoapNotifyObservers(r, count) ==
  LET observers == {o \in Registered : Observes(o) = r}
      con(o) == obs_counter[o] % COAP_OBSERVE_REFRESH_INTERVAL = 0
      free == COAP_MAX_OPEN_TRANSACTIONS - Cardinality(open)
      sent(o) == [to |-> o, seq |-> obs_counter[o], count |-> count, con |-> con(o)]
  IN \E served \in SUBSET observers :
       LET kept == {o \in served : con(o)} IN
         /\ Cardinality(kept) <= free /\ (free = 0 => served = {})
         /\ served # observers => Cardinality(kept) = free
         /\ open' = open \cup {[msg |-> sent(o), left |-> COAP_MAX_RETRANSMIT] : o \in kept}
         /\ net' = net \cup {sent(o) : o \in served}
         /\ obs_counter' = [o \in Observer |-> obs_counter[o] + (IF o \in served THEN 1 ELSE 0)]
         /\ missed' = [o \in Observer |-> IF o \in observers THEN o \notin served ELSE missed[o]]

\* Fault: observers are notified first.
HandlerNotifiesFirst(r) ==
  /\ event_counter["event"] + event_counter["push"] < MaxEvents
  /\ event_counter' = [event_counter EXCEPT ![r] = Incremented(@)]
  /\ CoapNotifyObservers(r, event_counter[r])
  /\ UNCHANGED view

\* res_event_handler (a press) and res_periodic_handler (the timer); the get
\* handler, called for each observer, writes the counter.
Handler(r) ==
  /\ event_counter["event"] + event_counter["push"] < MaxEvents
  /\ event_counter' = [event_counter EXCEPT ![r] = Incremented(@)]
  /\ CoapNotifyObservers(r, event_counter'[r])
  /\ UNCHANGED view

\* A GET with the Observe option puts a client on the list, with sequence
\* number 0; what is left of an earlier registration has another token.
Register(o) ==
  /\ obs_counter[o] = None
  /\ obs_counter' = [obs_counter EXCEPT ![o] = 1]
  /\ view' = [view EXCEPT ![o] = [seq |-> 0, count |-> event_counter[Observes(o)]]]
  /\ missed' = [missed EXCEPT ![o] = FALSE]
  /\ net' = {m \in net : m.to # o}
  /\ open' = {IF t.msg.to = o THEN [t EXCEPT !.msg.seq = None] ELSE t : t \in open}
  /\ UNCHANGED event_counter

-----------------------------------------------------------------------------
(* Engine, network and clients.                                            *)

\* The client cancels, or rejects a notification.
Cancel(o) ==
  /\ o \in Registered
  /\ obs_counter' = [obs_counter EXCEPT ![o] = None]
  /\ UNCHANGED <<event_counter, open, net, view, missed>>

\* A client keeps the newest notification; the acknowledgement it returns for a
\* confirmable one may be lost.
Receive(m) ==
  /\ net' = net \ {m}
  /\ view' = IF m.seq > view[m.to].seq
               THEN [view EXCEPT ![m.to] = [seq |-> m.seq, count |-> m.count]] ELSE view
  /\ open' \in {open, {t \in open : t.msg # m}}
  /\ UNCHANGED <<event_counter, obs_counter, missed>>

Lose(m) ==
  /\ net' = net \ {m}
  /\ missed' = IF m.con \/ m.seq # obs_counter[m.to] - 1 THEN missed
               ELSE [missed EXCEPT ![m.to] = TRUE]
  /\ UNCHANGED <<event_counter, obs_counter, open, view>>

\* A transaction repeats its own payload, however old.
Retransmit(t) ==
  /\ t.left > 0
  /\ open' = (open \ {t}) \cup {[t EXCEPT !.left = @ - 1]}
  /\ net' = net \cup (IF t.msg.seq = None THEN {} ELSE {t.msg})
  /\ UNCHANGED <<event_counter, obs_counter, view, missed>>

\* The client rejects what has the token of an earlier registration.
Reject(t) ==
  /\ t.msg.seq = None
  /\ open' = open \ {t}
  /\ UNCHANGED <<event_counter, obs_counter, net, view, missed>>

\* After the last repetition the client is taken off the list.
TransactionTimeout(t) ==
  /\ t.left = 0
  /\ open' = open \ {t}
  /\ obs_counter' = [obs_counter EXCEPT ![t.msg.to] = None]
  /\ UNCHANGED <<event_counter, net, view, missed>>

Next ==
  \/ \E r \in Resource : Handler(r)
  \/ \E o \in Observer : Register(o) \/ Cancel(o)
  \/ \E m \in net : Receive(m) \/ Lose(m)
  \/ \E t \in open : Retransmit(t) \/ Reject(t) \/ TransactionTimeout(t)

Spec == Init /\ [][Next]_obsVars

-----------------------------------------------------------------------------
TypeOK ==
  /\ event_counter \in [Resource -> 0 .. MaxEvents]
  /\ obs_counter \in [Observer -> {None} \cup 1 .. MaxEvents + 1]
  /\ Cardinality(open) <= COAP_MAX_OPEN_TRANSACTIONS
  /\ net \subseteq Notification
  /\ view \in [Observer -> [seq: {None} \cup Nat, count: Nat]]
  /\ missed \in [Observer -> BOOLEAN]

\* An observer on the list knows the counter, or is about to: the value is on
\* its way or in a transaction that will repeat it.  Otherwise its notification
\* was skipped for want of a transaction, or was not confirmable and got lost.
UpToDateOrMissed ==
  \A o \in Registered :
    LET count == event_counter[Observes(o)] IN
      \/ view[o].count = count
      \/ \E m \in net \cup {t.msg : t \in open} :
           m.to = o /\ m.count = count /\ m.seq > view[o].seq
      \/ missed[o]
=============================================================================
