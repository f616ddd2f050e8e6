------------------------- MODULE ExercisesServerProofs -------------------------
(***************************************************************************)
(* Invariants of the CoAP server's programs of Exercises, the observable   *)
(* resources of CoapObserve and the getters of CoapGetters, for any        *)
(* observers, transactions and repetitions.                                *)
(***************************************************************************)
EXTENDS Exercises, FiniteSetTheorems, WellFoundedInduction, TLAPS

\* Notifications on their way, or kept in a transaction that repeats them.
Sent == net \cup {t.msg : t \in open}

\* It belongs to the registration its receiver has, or had last.
Current(m) == m.seq # Observe!None

Client == Observe!Observer
Kept == [to: Client, seq: Nat \cup {Observe!None}, count: Nat, con: BOOLEAN]

ObserveType ==
  /\ event_counter \in [Observe!Resource -> Nat]
  /\ obs_counter \in [Client -> Nat \cup {Observe!None}]
  /\ open \subseteq [msg: Kept, left: 0 .. COAP_MAX_RETRANSMIT]
  /\ net \subseteq Observe!Notification
  /\ view \in [Client -> [seq: Nat \cup {Observe!None}, count: Nat]]
  /\ missed \in [Client -> BOOLEAN]

\* Later notifications, and later than what the client knows, do not count less.
OrderInv ==
  /\ \A a, b \in Sent : a.to = b.to /\ Current(a) /\ a.seq <= b.seq => a.count <= b.count
  /\ \A m \in Sent : m.seq > view[m.to].seq => m.count >= view[m.to].count

\* Nobody knows or will hear of events that did not happen.
CountInv ==
  /\ \A m \in Sent : Current(m) => m.count <= event_counter[Observe!Observes(m.to)]
  /\ \A o \in Client : view[o].count <= event_counter[Observe!Observes(o)]

\* The engine's next sequence number is above those in use, and a notification
\* of the last event has the one before it.
SeqInv ==
  /\ \A o \in Observe!Registered : view[o].seq < obs_counter[o]
  /\ \A m \in Sent : Current(m) /\ m.to \in Observe!Registered =>
       /\ m.seq < obs_counter[m.to]
       /\ m.count = event_counter[Observe!Observes(m.to)] => m.seq = obs_counter[m.to] - 1

\* A confirmable notification that its receiver has not seen is repeated.
ConInv ==
  \A m \in net : m.con /\ m.seq > view[m.to].seq /\ m.to \in Observe!Registered =>
    \E t \in open : t.msg = m

ObserveInv ==
  ObserveType /\ OrderInv /\ CountInv /\ SeqInv /\ ConInv /\ UpToDateOrMissed

-----------------------------------------------------------------------------
LEMMA ObserveInit == Observe!Init => ObserveInv
<1> SUFFICES ASSUME Observe!Init PROVE ObserveInv
  OBVIOUS
<1> USE DEF Observe!Init, Observe!None
<1>1. ObserveType
  BY DEF ObserveType, Client
<1>2. Sent = {} /\ net = {} /\ Observe!Registered = {}
  BY DEF Sent, Observe!Registered
<1>3. CountInv
  BY <1>2 DEF CountInv, Client, Observe!Observes, Observe!Resource
<1> QED BY <1>1, <1>2, <1>3
        DEF ObserveInv, OrderInv, SeqInv, ConInv, UpToDateOrMissed, Observe!UpToDateOrMissed

\* What the types say of messages.
LEMMA SentTypes ==
  ASSUME ObserveType
  PROVE  /\ \A m \in Sent : m \in Kept /\ m.to \in Client /\ m.count \in Nat
                            /\ m.seq \in Int /\ m.seq >= -1 /\ m.con \in BOOLEAN
         /\ \A m \in net : m \in Sent /\ Current(m) /\ m.seq \in Nat
         /\ \A t \in open : t.msg \in Sent /\ t.msg \in Kept /\ t.left \in Nat
         /\ \A o \in Client : /\ view[o].seq \in Int /\ view[o].seq >= -1
                              /\ view[o].count \in Nat
                              /\ event_counter[Observe!Observes(o)] \in Nat
                              /\ obs_counter[o] \in Int
                              /\ o \in Observe!Registered => obs_counter[o] \in Nat
<1> USE DEF ObserveType, Observe!None, Observe!Notification
<1>1. \A m \in net : m \in Sent /\ m \in Kept /\ Current(m) /\ m.seq \in Nat
  BY DEF Sent, Current, Kept, Client
<1>2. \A t \in open : t.msg \in Sent /\ t.msg \in Kept /\ t.left \in Nat
  BY DEF Sent
<1>3. \A m \in Sent : m \in Kept
  BY <1>1, <1>2 DEF Sent
<1>4. \A m \in Kept : m.to \in Client /\ m.count \in Nat
                      /\ m.seq \in Int /\ m.seq >= -1 /\ m.con \in BOOLEAN
  BY DEF Kept
<1>5. \A o \in Client : /\ view[o].seq \in Int /\ view[o].seq >= -1 /\ view[o].count \in Nat
                        /\ obs_counter[o] \in Int
                        /\ o \in Observe!Registered => obs_counter[o] \in Nat
  BY DEF Observe!Registered
<1>6. \A o \in Client : event_counter[Observe!Observes(o)] \in Nat
  BY DEF Observe!Observes, Observe!Resource
<1> QED BY <1>1, <1>2, <1>3, <1>4, <1>5, <1>6

-----------------------------------------------------------------------------
(* The resources.                                                          *)

\* A notification of the event that has just been counted.
Fresh(m, r, served) ==
  m.to \in served /\ m.seq = obs_counter[m.to] /\ m.count = event_counter[r] + 1

\* Of the observers of r, those served get a fresh notification, which is
\* repeated if it is confirmable; the others miss one.
HandlerFacts(r, served) ==
  /\ served \subseteq {o \in Observe!Registered : Observe!Observes(o) = r}
  /\ event_counter' = [event_counter EXCEPT ![r] = @ + 1]
  /\ obs_counter' = [o \in Client |-> obs_counter[o] + (IF o \in served THEN 1 ELSE 0)]
  /\ view' = view
  /\ missed' = [o \in Client |-> IF o \in {x \in Observe!Registered : Observe!Observes(x) = r}
                                   THEN o \notin served ELSE missed[o]]
  /\ net \subseteq net' /\ net' \subseteq Observe!Notification
  /\ open \subseteq open' /\ open' \subseteq [msg: Kept, left: 0 .. COAP_MAX_RETRANSMIT]
  /\ \A m \in Sent' : m \in Sent \/ Fresh(m, r, served)
  /\ \A o \in served : \E m \in net' : m.to = o /\ Fresh(m, r, served)
  /\ \A m \in net' \ net : m.con => \E t \in open' : t.msg = m

LEMMA HandlerNotifies ==
  ASSUME ObserveInv, NEW r \in Observe!Resource, Observe!Handler(r)
  PROVE  \E served : HandlerFacts(r, served)
<1> DEFINE observers == {o \in Observe!Registered : Observe!Observes(o) = r}
           con(o) == obs_counter[o] % COAP_OBSERVE_REFRESH_INTERVAL = 0
           count == event_counter[r] + 1
           sent(o) == [to |-> o, seq |-> obs_counter[o], count |-> count, con |-> con(o)]
           kept(served) == {o \in served : con(o)}
<1>1. /\ event_counter' = [event_counter EXCEPT ![r] = @ + 1]
      /\ event_counter'[r] = count /\ count \in Nat /\ view' = view
  BY DEF Observe!Handler, Observe!Incremented, ObserveInv, ObserveType
<1>2. PICK served \in SUBSET observers :
        /\ open' = open \cup {[msg |-> sent(o), left |-> COAP_MAX_RETRANSMIT] : o \in kept(served)}
        /\ net' = net \cup {sent(o) : o \in served}
        /\ obs_counter' = [o \in Client |-> obs_counter[o] + (IF o \in served THEN 1 ELSE 0)]
        /\ missed' = [o \in Client |-> IF o \in observers THEN o \notin served ELSE missed[o]]
  BY <1>1 DEF Observe!Handler, Observe!CoapNotifyObservers, Client
<1>3. ASSUME NEW o \in served
      PROVE  /\ sent(o) \in Observe!Notification /\ sent(o) \in Kept
             /\ sent(o).to = o /\ Fresh(sent(o), r, served) /\ sent(o).con = con(o)
  <2>1. o \in Client /\ obs_counter[o] \in Nat
    BY SentTypes DEF ObserveInv, Observe!Registered, Client
  <2>2. con(o) \in BOOLEAN
    OBVIOUS
  <2> HIDE DEF con, count
  <2> QED BY <2>1, <2>2, <1>1 DEF Observe!Notification, Kept, Fresh, Client, count
<1> HIDE DEF con, count, sent
<1>4. net' \subseteq Observe!Notification
  BY <1>2, <1>3 DEF ObserveInv, ObserveType
<1>5. open' \subseteq [msg: Kept, left: 0 .. COAP_MAX_RETRANSMIT]
  BY <1>2, <1>3, ObserveAssumption DEF ObserveInv, ObserveType
<1>6. \A m \in Sent' : m \in Sent \/ Fresh(m, r, served)
  BY <1>2, <1>3 DEF Sent
<1>7. \A o \in served : \E m \in net' : m.to = o /\ Fresh(m, r, served)
  BY <1>2, <1>3
<1>8. \A m \in net' \ net : m.con => \E t \in open' : t.msg = m
  <2> SUFFICES ASSUME NEW m \in net' \ net, m.con PROVE \E t \in open' : t.msg = m
    OBVIOUS
  <2>1. PICK o \in served : m = sent(o)
    BY <1>2
  <2>2. o \in kept(served)
    BY <2>1, <1>3
  <2>3. [msg |-> sent(o), left |-> COAP_MAX_RETRANSMIT] \in open'
    BY <1>2, <2>2
  <2> QED BY <2>1, <2>3
<1> QED BY <1>1, <1>2, <1>4, <1>5, <1>6, <1>7, <1>8 DEF HandlerFacts

LEMMA HandlerStep ==
  ASSUME ObserveInv, NEW r \in Observe!Resource, Observe!Handler(r)
  PROVE  ObserveInv' /\ UNCHANGED view
<1>0. /\ ObserveType /\ OrderInv /\ CountInv /\ SeqInv /\ ConInv /\ Observe!UpToDateOrMissed
  BY DEF ObserveInv, UpToDateOrMissed
<1>1. PICK served : HandlerFacts(r, served)
  BY HandlerNotifies
<1>2. /\ served \subseteq {o \in Observe!Registered : Observe!Observes(o) = r}
      /\ event_counter' = [event_counter EXCEPT ![r] = @ + 1]
      /\ obs_counter' = [o \in Client |-> obs_counter[o] + (IF o \in served THEN 1 ELSE 0)]
      /\ view' = view /\ net \subseteq net' /\ open \subseteq open'
      /\ \A m \in Sent' : m \in Sent \/ Fresh(m, r, served)
  BY <1>1 DEF HandlerFacts
<1>3. ObserveType'
  <2>1. event_counter' \in [Observe!Resource -> Nat]
    BY <1>0, <1>2 DEF ObserveType
  <2>2. obs_counter' \in [Client -> Nat \cup {Observe!None}]
    <3>1. ASSUME NEW o \in Client, o \in served PROVE obs_counter[o] + 1 \in Nat
      BY <3>1, <1>0, <1>2, SentTypes
    <3>2. ASSUME NEW o \in Client PROVE obs_counter[o] + 0 \in Nat \cup {Observe!None}
      BY <1>0 DEF ObserveType, Observe!None
    <3> QED BY <1>2, <3>1, <3>2
  <2>3. missed' \in [Client -> BOOLEAN]
    BY <1>0, <1>1 DEF ObserveType, HandlerFacts
  <2> QED BY <2>1, <2>2, <2>3, <1>0, <1>1 DEF ObserveType, HandlerFacts
<1>4. /\ Observe!Registered' = Observe!Registered
      /\ \A o \in Client : /\ o \in served => obs_counter'[o] = obs_counter[o] + 1
                           /\ o \notin served => obs_counter'[o] = obs_counter[o]
  <2>1. \A o \in Client : /\ o \in served => obs_counter'[o] = obs_counter[o] + 1
                          /\ o \notin served => obs_counter'[o] = obs_counter[o]
    BY <1>0, <1>2, SentTypes
  <2>2. \A o \in served : o \in Client /\ obs_counter[o] \in Nat
    BY <1>0, <1>2, SentTypes DEF Observe!Registered, Client
  <2> QED BY <2>1, <2>2, <1>2 DEF Observe!Registered, Client, Observe!None
<1>5. \A o \in Client :
        /\ Observe!Observes(o) = r => event_counter'[Observe!Observes(o)] = event_counter[r] + 1
        /\ Observe!Observes(o) # r =>
             event_counter'[Observe!Observes(o)] = event_counter[Observe!Observes(o)]
  BY <1>0, <1>2 DEF ObserveType, Observe!Observes, Observe!Resource
<1>6. \A m \in Sent' \ Sent :
        /\ m.to \in Client /\ m.to \in served /\ m.to \in Observe!Registered
        /\ Observe!Observes(m.to) = r
        /\ m.seq = obs_counter[m.to] /\ m.seq \in Nat /\ Current(m)
        /\ m.count = event_counter[r] + 1 /\ event_counter[r] \in Nat
  BY <1>0, <1>2, SentTypes DEF Fresh, Observe!Registered, Client, Current, Observe!None
<1>7. OrderInv'
  <2>1. ASSUME NEW a \in Sent', NEW b \in Sent', a.to = b.to, Current(a), a.seq <= b.seq
        PROVE  a.count <= b.count
    <3>1. CASE a \in Sent /\ b \in Sent
      BY <1>0, <2>1, <3>1 DEF OrderInv
    <3>2. CASE a \in Sent /\ b \notin Sent
      <4>1. b.count = event_counter[r] + 1 /\ Observe!Observes(a.to) = r /\ event_counter[r] \in Nat
        BY <1>6, <2>1, <3>2
      <4>2. a.count <= event_counter[r] /\ a.count \in Nat
        BY <1>0, <2>1, <3>2, <4>1, SentTypes DEF CountInv
      <4> QED BY <4>1, <4>2
    <3>3. CASE a \notin Sent /\ b \in Sent
      <4>1. a.seq = obs_counter[b.to] /\ a.seq \in Nat /\ b.to \in Observe!Registered
        BY <1>6, <2>1, <3>3
      <4>2. b.seq \in Int /\ b.seq >= a.seq
        BY <1>0, <2>1, <3>3, <4>1, SentTypes
      <4>3. Current(b)
        BY <4>1, <4>2 DEF Current, Observe!None
      <4>4. b.seq < obs_counter[b.to]
        BY <1>0, <3>3, <4>1, <4>3 DEF SeqInv
      <4> QED BY <4>1, <4>2, <4>4
    <3>4. CASE a \notin Sent /\ b \notin Sent
      BY <1>6, <2>1, <3>4
    <3> QED BY <3>1, <3>2, <3>3, <3>4
  <2>2. ASSUME NEW m \in Sent', m.seq > view[m.to].seq
        PROVE  m.count >= view[m.to].count
    <3>1. CASE m \in Sent
      BY <1>0, <2>2, <3>1 DEF OrderInv
    <3>2. CASE m \notin Sent
      <4>1. m.to \in Client /\ m.count = event_counter[r] + 1 /\ event_counter[r] \in Nat
            /\ view[m.to].count <= event_counter[r] /\ view[m.to].count \in Nat
        BY <1>0, <1>6, <3>2, SentTypes DEF CountInv
      <4> QED BY <4>1
    <3> QED BY <3>1, <3>2
  <2> QED BY <1>2, <2>1, <2>2 DEF OrderInv, Current
<1>8. CountInv'
  <2>1. \A o \in Client : event_counter'[Observe!Observes(o)] \in Nat
                         /\ event_counter'[Observe!Observes(o)] >= event_counter[Observe!Observes(o)]
    BY <1>0, <1>5, SentTypes
  <2>2. ASSUME NEW m \in Sent', Current(m)
        PROVE  m.count <= event_counter'[Observe!Observes(m.to)]
    <3>1. CASE m \in Sent
      <4>1. m.count <= event_counter[Observe!Observes(m.to)] /\ m.to \in Client /\ m.count \in Nat
            /\ event_counter[Observe!Observes(m.to)] \in Nat
        BY <1>0, <2>2, <3>1, SentTypes DEF CountInv
      <4> QED BY <2>1, <4>1
    <3>2. CASE m \notin Sent
      BY <1>5, <1>6, <3>2
    <3> QED BY <3>1, <3>2
  <2>3. \A o \in Client : view[o].count <= event_counter'[Observe!Observes(o)]
    BY <1>0, <2>1, SentTypes DEF CountInv
  <2> QED BY <1>2, <2>2, <2>3 DEF CountInv, Current, Observe!Observes
<1>9. SeqInv'
  <2>1. \A o \in Observe!Registered : o \in Client /\ obs_counter[o] \in Nat
          /\ obs_counter'[o] \in Nat /\ obs_counter'[o] >= obs_counter[o]
    <3>1. \A o \in Observe!Registered : o \in Client /\ obs_counter[o] \in Nat
      BY <1>0, SentTypes DEF Observe!Registered, Client
    <3> QED BY <1>4, <3>1
  <2>2. \A o \in Observe!Registered : view[o].seq < obs_counter'[o]
    <3> SUFFICES ASSUME NEW o \in Observe!Registered PROVE view[o].seq < obs_counter'[o]
      OBVIOUS
    <3>1. view[o].seq < obs_counter[o] /\ view[o].seq \in Int
      BY <1>0, <2>1, SentTypes DEF SeqInv
    <3> QED BY <2>1, <3>1
  <2>3. ASSUME NEW m \in Sent', Current(m), m.to \in Observe!Registered
        PROVE  /\ m.seq < obs_counter'[m.to]
               /\ m.count = event_counter'[Observe!Observes(m.to)] => m.seq = obs_counter'[m.to] - 1
    <3>1. CASE m \in Sent
      <4>1. m.seq < obs_counter[m.to] /\ m.seq \in Int /\ m.to \in Client
            /\ (m.count = event_counter[Observe!Observes(m.to)] => m.seq = obs_counter[m.to] - 1)
            /\ m.count <= event_counter[Observe!Observes(m.to)] /\ m.count \in Nat
            /\ event_counter[Observe!Observes(m.to)] \in Nat
        BY <1>0, <2>3, <3>1, SentTypes DEF SeqInv, CountInv
      <4>2. m.seq < obs_counter'[m.to]
        BY <2>1, <2>3, <4>1
      <4>3. CASE Observe!Observes(m.to) = r
        <5>1. m.count # event_counter'[Observe!Observes(m.to)]
          BY <1>5, <4>1, <4>3
        <5> QED BY <4>2, <5>1
      <4>4. CASE Observe!Observes(m.to) # r
        <5>1. m.to \notin served
          BY <1>2, <4>4
        <5>2. obs_counter'[m.to] = obs_counter[m.to]
          BY <1>4, <4>1, <5>1
        <5> QED BY <1>5, <4>1, <4>4, <5>2
      <4> QED BY <4>3, <4>4
    <3>2. CASE m \notin Sent
      <4>1. m.to \in Client /\ m.to \in served /\ m.seq = obs_counter[m.to] /\ m.seq \in Nat
        BY <1>6, <3>2
      <4>2. obs_counter'[m.to] = m.seq + 1
        BY <1>4, <4>1
      <4> QED BY <4>1, <4>2
    <3> QED BY <3>1, <3>2
  <2> QED BY <1>2, <1>4, <2>2, <2>3 DEF SeqInv, Current, Observe!Observes
<1>10. ConInv'
  <2> SUFFICES ASSUME NEW m \in net', m.con, m.seq > view[m.to].seq, m.to \in Observe!Registered
               PROVE  \E t \in open' : t.msg = m
    BY <1>2, <1>4 DEF ConInv
  <2>1. CASE m \in net
    BY <1>0, <1>2, <2>1 DEF ConInv
  <2>2. CASE m \notin net
    BY <1>1, <2>2 DEF HandlerFacts
  <2> QED BY <2>1, <2>2
<1>11. Observe!UpToDateOrMissed'
  <2> SUFFICES ASSUME NEW o \in Observe!Registered
               PROVE  \/ view[o].count = event_counter'[Observe!Observes(o)]
                      \/ \E m \in Sent' : /\ m.to = o /\ m.count = event_counter'[Observe!Observes(o)]
                                          /\ m.seq > view[o].seq
                      \/ missed'[o]
    BY <1>2, <1>4 DEF Observe!UpToDateOrMissed, Sent, Observe!Observes
  <2>0. o \in Client
    BY DEF Observe!Registered, Client
  <2>1. CASE o \in served
    <3>1. PICK m \in net' : m.to = o /\ Fresh(m, r, served)
      BY <1>1, <2>1 DEF HandlerFacts
    <3>2. m \in Sent' /\ m.count = event_counter'[Observe!Observes(o)] /\ m.seq = obs_counter[o]
      BY <1>2, <1>5, <2>0, <2>1, <3>1 DEF Fresh, Sent
    <3>3. m.seq > view[o].seq
      BY <1>0, <2>0, <3>2, SentTypes DEF SeqInv
    <3> QED BY <3>1, <3>2, <3>3
  <2>2. CASE o \notin served /\ Observe!Observes(o) = r
    BY <1>1, <2>0, <2>2 DEF HandlerFacts
  <2>3. CASE o \notin served /\ Observe!Observes(o) # r
    <3>1. Sent \subseteq Sent'
      BY <1>2 DEF Sent
    <3>2. missed'[o] = missed[o]
      BY <1>1, <2>0, <2>3 DEF HandlerFacts
    <3> QED BY <1>0, <1>5, <2>0, <2>3, <3>1, <3>2 DEF Observe!UpToDateOrMissed, Sent
  <2> QED BY <2>1, <2>2, <2>3
<1> QED BY <1>2, <1>3, <1>7, <1>8, <1>9, <1>10, <1>11 DEF ObserveInv, UpToDateOrMissed

-----------------------------------------------------------------------------
(* The engine, the network and the clients.                                *)

\* Nothing new is sent, and registrations only end.
LEMMA NothingNew ==
  ASSUME ObserveInv, UNCHANGED <<event_counter, view>>, Sent' \subseteq Sent,
         Observe!Registered' \subseteq Observe!Registered,
         \A o \in Observe!Registered' : obs_counter'[o] = obs_counter[o]
  PROVE  OrderInv' /\ CountInv' /\ SeqInv'
<1> USE DEF ObserveInv, Current, Observe!Observes
<1>1. OrderInv'
  BY DEF OrderInv
<1>2. CountInv'
  BY DEF CountInv
<1>3. SeqInv'
  BY DEF SeqInv
<1> QED BY <1>1, <1>2, <1>3

\* Whoever is up to date stays so while what it waits for stays.
LEMMA StillUpToDate ==
  ASSUME ObserveInv, UNCHANGED <<event_counter, view>>,
         Observe!Registered' \subseteq Observe!Registered,
         \A o \in Observe!Registered' : missed[o] => missed'[o],
         \A o \in Observe!Registered', m \in Sent :
           m.to = o /\ m.seq > view[o].seq /\ m.count = event_counter[Observe!Observes(o)]
             => m \in Sent' \/ missed'[o]
  PROVE  UpToDateOrMissed'
BY DEF ObserveInv, UpToDateOrMissed, Observe!UpToDateOrMissed, Sent, Observe!Observes

LEMMA CancelStep == ASSUME ObserveInv, NEW o \in Client, Observe!Cancel(o) PROVE ObserveInv'
<1>1. /\ obs_counter' = [obs_counter EXCEPT ![o] = Observe!None]
      /\ UNCHANGED <<event_counter, open, net, view, missed>>
  BY DEF Observe!Cancel
<1>2. ObserveType'
  BY <1>1 DEF ObserveInv, ObserveType
<1>3. /\ Observe!Registered' \subseteq Observe!Registered /\ Sent' = Sent
      /\ \A x \in Observe!Registered' : obs_counter'[x] = obs_counter[x]
  BY <1>1 DEF Observe!Registered, Sent, ObserveInv, ObserveType, Client
<1>4. ConInv'
  BY <1>1, <1>3 DEF ObserveInv, ConInv
<1>5. UpToDateOrMissed'
  BY <1>1, <1>3, StillUpToDate
<1> QED BY <1>1, <1>2, <1>3, <1>4, <1>5, NothingNew DEF ObserveInv

LEMMA LoseStep == ASSUME ObserveInv, NEW m \in net, Observe!Lose(m) PROVE ObserveInv'
<1>0. m \in Sent /\ m.to \in Client /\ Current(m)
  BY SentTypes DEF ObserveInv
<1>1. /\ net' = net \ {m} /\ UNCHANGED <<event_counter, obs_counter, open, view>>
      /\ missed' = IF m.con \/ m.seq # obs_counter[m.to] - 1 THEN missed
                   ELSE [missed EXCEPT ![m.to] = TRUE]
  BY DEF Observe!Lose
<1>2. ObserveType'
  <2>1. missed' \in [Client -> BOOLEAN]
    BY <1>1 DEF ObserveInv, ObserveType
  <2> QED BY <1>1, <2>1 DEF ObserveInv, ObserveType
<1>3. Observe!Registered' = Observe!Registered /\ Sent' \subseteq Sent
  BY <1>1 DEF Observe!Registered, Sent
<1>4. ConInv'
  BY <1>1, <1>3 DEF ObserveInv, ConInv
<1>5. UpToDateOrMissed'
  <2>1. \A o \in Observe!Registered' : missed[o] => missed'[o]
    BY <1>0, <1>1 DEF ObserveInv, ObserveType, Observe!Registered, Client
  <2>2. ASSUME NEW o \in Observe!Registered', NEW x \in Sent,
               x.to = o, x.seq > view[o].seq, x.count = event_counter[Observe!Observes(o)]
        PROVE  x \in Sent' \/ missed'[o]
    <3>1. CASE x # m
      BY <1>1, <3>1 DEF Sent
    <3>2. CASE x = m /\ m.con
      <4>1. PICK t \in open : t.msg = m
        BY <1>3, <2>2, <3>2 DEF ObserveInv, ConInv
      <4> QED BY <1>1, <3>2, <4>1 DEF Sent
    <3>3. CASE x = m /\ ~m.con
      <4>1. m.seq = obs_counter[m.to] - 1
        BY <1>0, <1>3, <2>2, <3>3 DEF ObserveInv, SeqInv
      <4> QED BY <1>0, <1>1, <2>2, <3>3, <4>1 DEF ObserveInv, ObserveType
    <3> QED BY <3>1, <3>2, <3>3
  <2> QED BY <1>1, <1>3, <2>1, <2>2, StillUpToDate
<1> QED BY <1>1, <1>2, <1>3, <1>4, <1>5, NothingNew DEF ObserveInv

LEMMA RetransmitStep ==
  ASSUME ObserveInv, NEW t \in open, Observe!Retransmit(t) PROVE ObserveInv'
<1> DEFINE again == [t EXCEPT !.left = @ - 1]
<1>0. t \in [msg: Kept, left: 0 .. COAP_MAX_RETRANSMIT] /\ t.left > 0 /\ t.left \in Nat
  BY SentTypes DEF ObserveInv, ObserveType, Observe!Retransmit
<1>1. /\ open' = (open \ {t}) \cup {again}
      /\ net' = net \cup (IF t.msg.seq = Observe!None THEN {} ELSE {t.msg})
      /\ UNCHANGED <<event_counter, obs_counter, view, missed>>
  BY DEF Observe!Retransmit
<1>2. again.msg = t.msg /\ again \in [msg: Kept, left: 0 .. COAP_MAX_RETRANSMIT]
  BY <1>0, ObserveAssumption
<1> HIDE DEF again
<1>3. ObserveType'
  <2>1. open' \subseteq [msg: Kept, left: 0 .. COAP_MAX_RETRANSMIT]
    BY <1>1, <1>2 DEF ObserveInv, ObserveType
  <2>2. t.msg.seq # Observe!None => t.msg \in Observe!Notification
    BY <1>0 DEF Kept, Observe!Notification, Client
  <2>3. net' \subseteq Observe!Notification
    BY <1>1, <2>2 DEF ObserveInv, ObserveType
  <2> QED BY <1>1, <2>1, <2>3 DEF ObserveInv, ObserveType
<1>4. Observe!Registered' = Observe!Registered /\ Sent' = Sent
  BY <1>1, <1>2 DEF Observe!Registered, Sent
<1>5. ConInv'
  <2> SUFFICES ASSUME NEW m \in net', m.con, m.seq > view[m.to].seq, m.to \in Observe!Registered
               PROVE  \E x \in open' : x.msg = m
    BY <1>1, <1>4 DEF ConInv
  <2>1. CASE m \in net
    <3>1. PICK x \in open : x.msg = m
      BY <2>1 DEF ObserveInv, ConInv
    <3> QED BY <1>1, <1>2, <3>1
  <2>2. CASE m \notin net
    BY <1>1, <1>2, <2>2
  <2> QED BY <2>1, <2>2
<1>6. UpToDateOrMissed'
  BY <1>1, <1>4, StillUpToDate
<1> QED BY <1>1, <1>3, <1>4, <1>5, <1>6, NothingNew DEF ObserveInv

LEMMA RejectStep == ASSUME ObserveInv, NEW t \in open, Observe!Reject(t) PROVE ObserveInv'
<1>1. /\ t.msg.seq = Observe!None /\ open' = open \ {t}
      /\ UNCHANGED <<event_counter, obs_counter, net, view, missed>>
  BY DEF Observe!Reject
<1>2. ObserveType'
  BY <1>1 DEF ObserveInv, ObserveType
<1>3. Observe!Registered' = Observe!Registered /\ Sent' \subseteq Sent
  BY <1>1 DEF Observe!Registered, Sent
<1>4. ConInv'
  <2> SUFFICES ASSUME NEW m \in net, m.con, m.seq > view[m.to].seq, m.to \in Observe!Registered
               PROVE  \E x \in open' : x.msg = m
    BY <1>1, <1>3 DEF ConInv
  <2>1. PICK x \in open : x.msg = m
    BY DEF ObserveInv, ConInv
  <2>2. x # t
    BY <1>1, <2>1, SentTypes DEF ObserveInv, Current
  <2> QED BY <1>1, <2>1, <2>2
<1>5. UpToDateOrMissed'
  <2>1. ASSUME NEW o \in Observe!Registered', NEW m \in Sent, m.to = o, m.seq > view[o].seq
        PROVE  m \in Sent'
    <3>1. m.seq # Observe!None
      BY <2>1, SentTypes DEF ObserveInv, Observe!None
    <3> QED BY <1>1, <3>1 DEF Sent
  <2> QED BY <1>1, <1>3, <2>1, StillUpToDate
<1> QED BY <1>1, <1>2, <1>3, <1>4, <1>5, NothingNew DEF ObserveInv

LEMMA TimeoutStep ==
  ASSUME ObserveInv, NEW t \in open, Observe!TransactionTimeout(t) PROVE ObserveInv'
<1>1. /\ open' = open \ {t} /\ obs_counter' = [obs_counter EXCEPT ![t.msg.to] = Observe!None]
      /\ UNCHANGED <<event_counter, net, view, missed>>
  BY DEF Observe!TransactionTimeout
<1>2. ObserveType'
  BY <1>1 DEF ObserveInv, ObserveType
<1>3. /\ Observe!Registered' \subseteq Observe!Registered /\ Sent' \subseteq Sent
      /\ \A o \in Observe!Registered' : obs_counter'[o] = obs_counter[o] /\ o # t.msg.to
  BY <1>1 DEF Observe!Registered, Sent, ObserveInv, ObserveType, Client
<1>4. ConInv'
  <2> SUFFICES ASSUME NEW m \in net, m.con, m.seq > view[m.to].seq, m.to \in Observe!Registered'
               PROVE  \E x \in open' : x.msg = m
    BY <1>1 DEF ConInv
  <2>1. PICK x \in open : x.msg = m
    BY <1>3 DEF ObserveInv, ConInv
  <2> QED BY <1>1, <1>3, <2>1
<1>5. UpToDateOrMissed'
  <2>1. ASSUME NEW o \in Observe!Registered', NEW m \in Sent, m.to = o
        PROVE  m \in Sent'
    BY <1>1, <1>3, <2>1 DEF Sent
  <2> QED BY <1>1, <1>3, <2>1, StillUpToDate
<1> QED BY <1>1, <1>2, <1>3, <1>4, <1>5, NothingNew DEF ObserveInv

\* A client that receives m takes it exactly if it is newer, and then its
\* counter does not go back.
LEMMA ReceiveFacts ==
  ASSUME ObserveInv, NEW m \in net, Observe!Receive(m)
  PROVE  /\ m \in Sent /\ m.to \in Client /\ Current(m) /\ m.seq \in Nat /\ m.count \in Nat
         /\ net' = net \ {m} /\ UNCHANGED <<event_counter, obs_counter, missed>>
         /\ open' \subseteq open /\ \A t \in open : t.msg # m => t \in open'
         /\ Sent' \subseteq Sent /\ \A x \in Sent : x # m => x \in Sent'
         /\ view' \in [Client -> [seq: Nat \cup {Observe!None}, count: Nat]]
         /\ \A o \in Client : \/ view'[o] = view[o] /\ (o = m.to => m.seq <= view[o].seq)
                              \/ /\ o = m.to /\ m.seq > view[o].seq /\ m.count >= view[o].count
                                 /\ view'[o].seq = m.seq /\ view'[o].count = m.count
<1>1. /\ m \in Sent /\ m.to \in Client /\ Current(m) /\ m.seq \in Nat /\ m.count \in Nat
      /\ view[m.to].seq \in Int
  BY SentTypes DEF ObserveInv
<1>2. /\ net' = net \ {m} /\ UNCHANGED <<event_counter, obs_counter, missed>>
      /\ open' \subseteq open /\ \A t \in open : t.msg # m => t \in open'
      /\ view' = IF m.seq > view[m.to].seq
                   THEN [view EXCEPT ![m.to] = [seq |-> m.seq, count |-> m.count]] ELSE view
  BY DEF Observe!Receive
<1>3. Sent' \subseteq Sent /\ \A x \in Sent : x # m => x \in Sent'
  BY <1>2 DEF Sent
<1>4. view \in [Client -> [seq: Nat \cup {Observe!None}, count: Nat]]
  BY DEF ObserveInv, ObserveType
<1>5. CASE m.seq > view[m.to].seq
  <2>1. view' = [view EXCEPT ![m.to] = [seq |-> m.seq, count |-> m.count]]
    BY <1>2, <1>5
  <2>2. m.count >= view[m.to].count
    BY <1>1, <1>5 DEF ObserveInv, OrderInv
  <2>3. view'[m.to] = [seq |-> m.seq, count |-> m.count]
        /\ \A o \in Client : o # m.to => view'[o] = view[o]
    BY <1>1, <1>4, <2>1
  <2>4. view' \in [Client -> [seq: Nat \cup {Observe!None}, count: Nat]]
    BY <1>1, <1>4, <2>1
  <2> QED BY <1>1, <1>2, <1>3, <1>5, <2>2, <2>3, <2>4
<1>6. CASE ~(m.seq > view[m.to].seq)
  BY <1>1, <1>2, <1>3, <1>4, <1>6
<1> QED BY <1>5, <1>6

LEMMA ReceiveStep == ASSUME ObserveInv, NEW m \in net, Observe!Receive(m) PROVE ObserveInv'
<1>0. /\ ObserveType /\ OrderInv /\ CountInv /\ SeqInv /\ ConInv /\ Observe!UpToDateOrMissed
  BY DEF ObserveInv, UpToDateOrMissed
<1>1. /\ m \in Sent /\ m.to \in Client /\ Current(m) /\ m.seq \in Nat /\ m.count \in Nat
      /\ net' = net \ {m} /\ UNCHANGED <<event_counter, obs_counter, missed>>
      /\ open' \subseteq open /\ \A t \in open : t.msg # m => t \in open'
      /\ Sent' \subseteq Sent /\ \A x \in Sent : x # m => x \in Sent'
      /\ view' \in [Client -> [seq: Nat \cup {Observe!None}, count: Nat]]
  BY ReceiveFacts
<1>2. \A o \in Client : \/ view'[o] = view[o] /\ (o = m.to => m.seq <= view[o].seq)
                        \/ /\ o = m.to /\ m.seq > view[o].seq /\ m.count >= view[o].count
                           /\ view'[o].seq = m.seq /\ view'[o].count = m.count
  BY ReceiveFacts
<1>3. ObserveType' /\ Observe!Registered' = Observe!Registered
  BY <1>0, <1>1 DEF ObserveType, Observe!Registered
<1>4. \A x \in Sent : x.to \in Client /\ x.seq \in Int /\ x.count \in Nat
  BY <1>0, SentTypes
<1>5. \A o \in Client : /\ view[o].seq \in Int /\ view[o].count \in Nat
                        /\ view'[o].seq \in Int /\ view'[o].count \in Nat
                        /\ view'[o].seq >= view[o].seq
  BY <1>0, <1>1, <1>2, SentTypes
<1>6. OrderInv'
  <2>1. ASSUME NEW x \in Sent', x.seq > view'[x.to].seq
        PROVE  x.count >= view'[x.to].count
    <3>1. CASE view'[x.to] = view[x.to]
      BY <1>0, <1>1, <2>1, <3>1 DEF OrderInv
    <3>2. CASE x.to = m.to /\ view'[x.to].seq = m.seq /\ view'[x.to].count = m.count
      <4>1. m.seq <= x.seq
        BY <1>1, <1>4, <2>1, <3>2
      <4>2. m.count <= x.count
        BY <1>0, <1>1, <3>2, <4>1 DEF OrderInv
      <4> QED BY <1>1, <1>4, <3>2, <4>2
    <3> QED BY <1>1, <1>2, <1>4, <3>1, <3>2
  <2> QED BY <1>0, <1>1, <2>1 DEF OrderInv, Current
<1>7. CountInv'
  <2>1. \A o \in Client : view'[o].count <= event_counter[Observe!Observes(o)]
    BY <1>0, <1>1, <1>2 DEF CountInv
  <2> QED BY <1>0, <1>1, <2>1 DEF CountInv, Current, Observe!Observes
<1>8. SeqInv'
  <2>1. \A o \in Observe!Registered : view'[o].seq < obs_counter[o]
    BY <1>0, <1>1, <1>2 DEF SeqInv, Observe!Registered, Client
  <2> QED BY <1>0, <1>1, <1>3, <2>1 DEF SeqInv, Current, Observe!Observes
<1>9. ConInv'
  <2> SUFFICES ASSUME NEW x \in net', x.con, x.seq > view'[x.to].seq, x.to \in Observe!Registered
               PROVE  \E t \in open' : t.msg = x
    BY <1>3 DEF ConInv
  <2>1. x \in net /\ x # m /\ x \in Sent
    BY <1>1 DEF Sent
  <2>2. x.seq > view[x.to].seq
    BY <1>4, <1>5, <2>1
  <2> QED BY <1>0, <1>1, <2>1, <2>2 DEF ConInv
<1>10. UpToDateOrMissed'
  <2> SUFFICES ASSUME NEW o \in Observe!Registered, ~missed[o]
               PROVE  \/ view'[o].count = event_counter[Observe!Observes(o)]
                      \/ \E x \in Sent' : /\ x.to = o /\ x.count = event_counter[Observe!Observes(o)]
                                          /\ x.seq > view'[o].seq
    BY <1>1, <1>3 DEF UpToDateOrMissed, Observe!UpToDateOrMissed, Sent, Observe!Observes
  <2>0. o \in Client
    BY DEF Observe!Registered, Client
  <2>1. \A x \in Sent : x.to = o /\ Current(x) => x.count <= event_counter[Observe!Observes(o)]
    BY <1>0 DEF CountInv
  <2>2. event_counter[Observe!Observes(o)] \in Nat
    BY <1>0, <2>0, SentTypes
  <2>3. CASE view[o].count = event_counter[Observe!Observes(o)]
    BY <1>1, <1>2, <1>5, <2>0, <2>1, <2>2, <2>3
  <2>4. CASE \E x \in Sent : /\ x.to = o /\ x.count = event_counter[Observe!Observes(o)]
                             /\ x.seq > view[o].seq
    <3>1. PICK x \in Sent : /\ x.to = o /\ x.count = event_counter[Observe!Observes(o)]
                            /\ x.seq > view[o].seq
      BY <2>4
    <3>2. CASE x # m /\ x.seq > view'[o].seq
      BY <1>1, <3>1, <3>2
    <3>3. CASE x = m \/ ~(x.seq > view'[o].seq)
      <4>1. o = m.to /\ view'[o].seq = m.seq /\ view'[o].count = m.count
        BY <1>2, <1>4, <1>5, <2>0, <3>1, <3>3
      <4>2. x.seq <= m.seq
        BY <1>1, <1>4, <3>3, <4>1
      <4>3. Current(x)
        BY <1>4, <1>0, <2>0, <3>1, SentTypes DEF Current, Observe!None
      <4>4. x.count <= m.count
        BY <1>0, <1>1, <3>1, <4>1, <4>2, <4>3 DEF OrderInv
      <4> QED BY <1>1, <2>1, <2>2, <3>1, <4>1, <4>4
    <3> QED BY <3>2, <3>3
  <2> QED BY <1>0, <2>3, <2>4 DEF Observe!UpToDateOrMissed, Sent
<1> QED BY <1>3, <1>6, <1>7, <1>8, <1>9, <1>10 DEF ObserveInv

\* What is left of an earlier registration is no longer current; nothing else
\* is sent to the client that registers.
LEMMA RegisterStep ==
  ASSUME ObserveInv, NEW o \in Client, Observe!Register(o)
  PROVE  ObserveInv' /\ view'[o].count >= view[o].count /\ \A x \in Client : x # o => view'[x] = view[x]
<1> DEFINE old(t) == [t EXCEPT !.msg.seq = Observe!None]
<1>0. /\ ObserveType /\ OrderInv /\ CountInv /\ SeqInv /\ ConInv /\ Observe!UpToDateOrMissed
  BY DEF ObserveInv, UpToDateOrMissed
<1>1. /\ obs_counter' = [obs_counter EXCEPT ![o] = 1]
      /\ view' = [view EXCEPT ![o] = [seq |-> 0, count |-> event_counter[Observe!Observes(o)]]]
      /\ missed' = [missed EXCEPT ![o] = FALSE]
      /\ net' = {m \in net : m.to # o}
      /\ open' = {IF t.msg.to = o THEN old(t) ELSE t : t \in open}
      /\ event_counter' = event_counter
  BY DEF Observe!Register
<1>2. \A t \in open : /\ old(t) \in [msg: Kept, left: 0 .. COAP_MAX_RETRANSMIT]
                      /\ old(t).msg.to = t.msg.to /\ ~Current(old(t).msg)
  BY <1>0 DEF ObserveType, Kept, Current
<1> HIDE DEF old
<1>3. event_counter[Observe!Observes(o)] \in Nat
  BY <1>0, SentTypes
<1>4. ObserveType'
  <2>1. open' \subseteq [msg: Kept, left: 0 .. COAP_MAX_RETRANSMIT]
    BY <1>0, <1>1, <1>2 DEF ObserveType
  <2>2. view' \in [Client -> [seq: Nat \cup {Observe!None}, count: Nat]]
    BY <1>0, <1>1, <1>3 DEF ObserveType
  <2>3. obs_counter' \in [Client -> Nat \cup {Observe!None}] /\ missed' \in [Client -> BOOLEAN]
    BY <1>0, <1>1 DEF ObserveType
  <2> QED BY <1>0, <1>1, <2>1, <2>2, <2>3 DEF ObserveType
<1>5. \A m \in Sent' : (m \in Sent /\ m.to # o) \/ (m.to = o /\ ~Current(m))
  <2>1. \A t \in open : IF t.msg.to = o THEN old(t).msg.to = o /\ ~Current(old(t).msg)
                        ELSE t.msg \in Sent
    BY <1>2 DEF Sent
  <2>2. ASSUME NEW t \in open'
        PROVE  (t.msg \in Sent /\ t.msg.to # o) \/ (t.msg.to = o /\ ~Current(t.msg))
    <3>1. PICK u \in open : t = IF u.msg.to = o THEN old(u) ELSE u
      BY <1>1
    <3> QED BY <2>1, <3>1
  <2>3. \A m \in net' : m \in Sent /\ m.to # o
    BY <1>1 DEF Sent
  <2> QED BY <2>2, <2>3 DEF Sent
<1>6. \A m \in Sent : m.to # o => m \in Sent'
  BY <1>1 DEF Sent
<1>7. /\ obs_counter'[o] = 1 /\ view'[o].seq = 0 /\ view'[o].count = event_counter[Observe!Observes(o)]
      /\ \A x \in Client : x # o => /\ obs_counter'[x] = obs_counter[x] /\ view'[x] = view[x]
                                    /\ missed'[x] = missed[x]
  BY <1>0, <1>1 DEF ObserveType
<1>8. Observe!Registered' = Observe!Registered \cup {o}
  BY <1>7 DEF Observe!Registered, Client, Observe!None
<1>9. \A m \in Sent' : m.to \in Client /\ m.seq \in Int
  BY <1>0, <1>4, <1>5, SentTypes DEF Current, Observe!None
<1>10. OrderInv'
  <2>1. ASSUME NEW a \in Sent', NEW b \in Sent', a.to = b.to, Current(a), a.seq <= b.seq
        PROVE  a.count <= b.count
    <3>1. a \in Sent /\ b \in Sent
      BY <1>5, <2>1
    <3> QED BY <1>0, <2>1, <3>1 DEF OrderInv
  <2>2. ASSUME NEW m \in Sent', m.seq > view'[m.to].seq
        PROVE  m.count >= view'[m.to].count
    <3>1. CASE m.to = o
      BY <1>5, <1>7, <2>2, <3>1 DEF Current, Observe!None
    <3>2. CASE m.to # o
      <4>1. m \in Sent /\ view'[m.to] = view[m.to]
        BY <1>5, <1>7, <1>9, <3>2
      <4> QED BY <1>0, <2>2, <4>1 DEF OrderInv
    <3> QED BY <3>1, <3>2
  <2> QED BY <2>1, <2>2 DEF OrderInv, Current
<1>11. CountInv'
  <2>1. \A x \in Client : view'[x].count <= event_counter[Observe!Observes(x)]
    BY <1>0, <1>3, <1>7 DEF CountInv
  <2>2. \A m \in Sent' : Current(m) => m.count <= event_counter[Observe!Observes(m.to)]
    BY <1>0, <1>5 DEF CountInv
  <2> QED BY <1>1, <2>1, <2>2 DEF CountInv, Current, Observe!Observes
<1>12. SeqInv'
  <2>1. \A x \in Observe!Registered' : view'[x].seq < obs_counter'[x]
    BY <1>0, <1>7, <1>8 DEF SeqInv, Observe!Registered, Client
  <2>2. ASSUME NEW m \in Sent', Current(m), m.to \in Observe!Registered'
        PROVE  /\ m.seq < obs_counter'[m.to]
               /\ m.count = event_counter[Observe!Observes(m.to)] => m.seq = obs_counter'[m.to] - 1
    <3>1. m \in Sent /\ m.to # o /\ m.to \in Observe!Registered /\ obs_counter'[m.to] = obs_counter[m.to]
      BY <1>5, <1>7, <1>8, <1>9, <2>2
    <3> QED BY <1>0, <2>2, <3>1 DEF SeqInv
  <2> QED BY <1>1, <2>1, <2>2 DEF SeqInv, Current, Observe!Observes
<1>13. ConInv'
  <2> SUFFICES ASSUME NEW m \in net', m.con, m.seq > view'[m.to].seq, m.to \in Observe!Registered'
               PROVE  \E t \in open' : t.msg = m
    BY DEF ConInv
  <2>1. m \in net /\ m.to # o /\ m.to \in Client
    BY <1>1, <1>9 DEF Sent
  <2>2. PICK t \in open : t.msg = m
    BY <1>0, <1>7, <1>8, <2>1 DEF ConInv
  <2> QED BY <1>1, <2>1, <2>2
<1>14. UpToDateOrMissed'
  <2> SUFFICES ASSUME NEW x \in Observe!Registered'
               PROVE  \/ view'[x].count = event_counter[Observe!Observes(x)]
                      \/ \E m \in Sent' : /\ m.to = x /\ m.count = event_counter[Observe!Observes(x)]
                                          /\ m.seq > view'[x].seq
                      \/ missed'[x]
    BY <1>1 DEF UpToDateOrMissed, Observe!UpToDateOrMissed, Sent, Observe!Observes
  <2>1. CASE x = o
    BY <1>7, <2>1
  <2>2. CASE x # o
    <3>1. x \in Observe!Registered /\ x \in Client
      BY <1>8, <2>2 DEF Observe!Registered, Client
    <3>2. \/ view[x].count = event_counter[Observe!Observes(x)]
          \/ \E m \in Sent : /\ m.to = x /\ m.count = event_counter[Observe!Observes(x)]
                             /\ m.seq > view[x].seq
          \/ missed[x]
      BY <1>0, <3>1 DEF Observe!UpToDateOrMissed, Sent
    <3> QED BY <1>6, <1>7, <2>2, <3>1, <3>2
  <2> QED BY <2>1, <2>2
<1>15. view'[o].count >= view[o].count
  BY <1>0, <1>3, <1>7, SentTypes DEF CountInv
<1> QED BY <1>4, <1>7, <1>10, <1>11, <1>12, <1>13, <1>14, <1>15 DEF ObserveInv

-----------------------------------------------------------------------------
LEMMA ObserveStep ==
  ASSUME ObserveInv, Observe!Next
  PROVE  ObserveInv' /\ \A o \in Client : view'[o].count >= view[o].count
<1>0. \A o \in Client : view[o].count \in Nat
  BY SentTypes DEF ObserveInv
<1>1. CASE \E r \in Observe!Resource : Observe!Handler(r)
  BY <1>0, <1>1, HandlerStep
<1>2. CASE \E o \in Client : Observe!Register(o)
  BY <1>0, <1>2, RegisterStep
<1>3. CASE \E o \in Client : Observe!Cancel(o)
  <2>1. PICK o \in Client : Observe!Cancel(o)
    BY <1>3
  <2>2. view' = view
    BY <2>1 DEF Observe!Cancel
  <2> QED BY <1>0, <2>1, <2>2, CancelStep
<1>4. CASE \E m \in net : Observe!Receive(m)
  <2>1. PICK m \in net : Observe!Receive(m)
    BY <1>4
  <2>2. \A o \in Client : view'[o].count >= view[o].count
    BY <1>0, <2>1, ReceiveFacts
  <2> QED BY <2>1, <2>2, ReceiveStep
<1>5. CASE \E m \in net : Observe!Lose(m)
  BY <1>0, <1>5, LoseStep DEF Observe!Lose
<1>6. CASE \E t \in open : Observe!Retransmit(t) \/ Observe!Reject(t) \/ Observe!TransactionTimeout(t)
  BY <1>0, <1>6, RetransmitStep, RejectStep, TimeoutStep
     DEF Observe!Retransmit, Observe!Reject, Observe!TransactionTimeout
<1> QED BY <1>1, <1>2, <1>3, <1>4, <1>5, <1>6 DEF Observe!Next, Client

LEMMA ObserveStays == ObserveInv /\ UNCHANGED observeVars => ObserveInv'
BY DEF ObserveInv, ObserveType, OrderInv, CountInv, SeqInv, ConInv, UpToDateOrMissed,
       Observe!UpToDateOrMissed, observeVars, Sent, Current, Observe!Registered, Observe!Observes

-----------------------------------------------------------------------------
(* The bounds: of events, of sequence numbers and of open transactions.    *)

PoolInv ==
  /\ event_counter["event"] + event_counter["push"] <= MaxEvents
  /\ \A o \in Observe!Registered :
       1 <= obs_counter[o] /\ obs_counter[o] <= 1 + event_counter[Observe!Observes(o)]
  /\ IsFiniteSet(open) /\ Cardinality(open) <= COAP_MAX_OPEN_TRANSACTIONS

LEMMA PoolInit == Observe!Init => PoolInv
<1> SUFFICES ASSUME Observe!Init PROVE PoolInv
  OBVIOUS
<1>1. Observe!Registered = {} /\ open = {}
  BY DEF Observe!Init, Observe!Registered
<1>2. event_counter["event"] = 0 /\ event_counter["push"] = 0
  BY DEF Observe!Init, Observe!Resource
<1> QED BY <1>1, <1>2, FS_EmptySet, ObserveAssumption DEF PoolInv

LEMMA SameCardinality == ASSUME NEW S PROVE Observe!Cardinality(S) = Cardinality(S)
BY DEF Observe!Cardinality, Cardinality

\* The transactions of the notifications a handler sends fit in the pool.
LEMMA HandlerPool ==
  ASSUME ObserveInv, PoolInv, NEW r \in Observe!Resource, Observe!Handler(r)
  PROVE  IsFiniteSet(open') /\ Cardinality(open') <= COAP_MAX_OPEN_TRANSACTIONS
<1> DEFINE observers == {o \in Observe!Registered : Observe!Observes(o) = r}
           con(o) == obs_counter[o] % COAP_OBSERVE_REFRESH_INTERVAL = 0
           count == event_counter'[r]
           sent(o) == [to |-> o, seq |-> obs_counter[o], count |-> count, con |-> con(o)]
           opened(o) == [msg |-> sent(o), left |-> COAP_MAX_RETRANSMIT]
<1>1. PICK served \in SUBSET observers :
        /\ Cardinality({o \in served : con(o)}) <= COAP_MAX_OPEN_TRANSACTIONS - Cardinality(open)
        /\ open' = open \cup {opened(x) : x \in {o \in served : con(o)}}
  <2>1. Observe!CoapNotifyObservers(r, event_counter'[r])
    BY DEF Observe!Handler
  <2> QED BY <2>1, SameCardinality DEF Observe!CoapNotifyObservers
<1> DEFINE kept == {o \in served : con(o)}
           new == {opened(o) : o \in kept}
           opening == [o \in kept |-> opened(o)]
<1>2. IsFiniteSet(kept)
  <2>1. kept \subseteq Client
    BY DEF Observe!Registered, Client
  <2> QED BY <2>1, FS_Subset, ObserveAssumption DEF Client, Observe!Observer
<1> HIDE DEF con, count, sent, opened
<1>3. opening \in Surjection(kept, new)
  BY DEF Surjection
<1> HIDE DEF kept, new, opening
<1>4. IsFiniteSet(new) /\ Cardinality(new) <= Cardinality(kept)
  BY <1>2, <1>3, FS_Surjection
<1>5. IsFiniteSet(open) /\ open' = open \cup new
      /\ Cardinality(kept) <= COAP_MAX_OPEN_TRANSACTIONS - Cardinality(open)
  BY <1>1 DEF PoolInv, kept, new
<1>6. IsFiniteSet(open \cap new)
  BY <1>5, FS_Subset
<1>7. /\ Cardinality(open) \in Nat /\ Cardinality(new) \in Nat /\ Cardinality(kept) \in Nat
      /\ Cardinality(open \cap new) \in Nat
  BY <1>2, <1>4, <1>5, <1>6, FS_CardinalityType
<1>8. /\ IsFiniteSet(open')
      /\ Cardinality(open') = Cardinality(open) + Cardinality(new) - Cardinality(open \cap new)
  BY <1>4, <1>5, FS_Union
<1> QED BY <1>4, <1>5, <1>7, <1>8, ObserveAssumption

\* No engine step opens a transaction.
LEMMA EnginePool ==
  ASSUME ObserveInv, PoolInv,
         \/ \E o \in Client : Observe!Register(o) \/ Observe!Cancel(o)
         \/ \E m \in net : Observe!Receive(m) \/ Observe!Lose(m)
         \/ \E t \in open : Observe!Retransmit(t) \/ Observe!Reject(t) \/ Observe!TransactionTimeout(t)
  PROVE  IsFiniteSet(open') /\ Cardinality(open') <= COAP_MAX_OPEN_TRANSACTIONS
<1>0. IsFiniteSet(open) /\ Cardinality(open) <= COAP_MAX_OPEN_TRANSACTIONS /\ Cardinality(open) \in Nat
  BY FS_CardinalityType DEF PoolInv
<1>1. CASE open' \subseteq open
  BY <1>0, <1>1, FS_Subset, FS_CardinalityType, ObserveAssumption
<1>2. CASE \E o \in Client : Observe!Register(o)
  <2> DEFINE old(t, o) == IF t.msg.to = o THEN [t EXCEPT !.msg.seq = Observe!None] ELSE t
  <2>1. PICK o \in Client : open' = {old(t, o) : t \in open}
    BY <1>2 DEF Observe!Register
  <2> DEFINE aging == [t \in open |-> old(t, o)]
  <2> HIDE DEF old
  <2>2. aging \in Surjection(open, open')
    BY <2>1 DEF Surjection
  <2>3. IsFiniteSet(open') /\ Cardinality(open') <= Cardinality(open)
    BY <1>0, <2>2, FS_Surjection
  <2> QED BY <1>0, <2>3, FS_CardinalityType, ObserveAssumption
<1>3. CASE \E t \in open : Observe!Retransmit(t)
  <2>0. PICK t \in open : Observe!Retransmit(t)
    BY <1>3
  <2>1. PICK again : open' = (open \ {t}) \cup {again}
    BY <2>0 DEF Observe!Retransmit
  <2>2. IsFiniteSet(open \ {t}) /\ Cardinality(open \ {t}) = Cardinality(open) - 1
    BY <1>0, FS_RemoveElement
  <2> DEFINE others == open \ {t}
  <2>3. /\ IsFiniteSet(others) /\ Cardinality(others) = Cardinality(open) - 1
        /\ open' = others \cup {again}
    BY <2>1, <2>2
  <2> HIDE DEF others
  <2>4. IsFiniteSet(open') /\ Cardinality(open') \in {Cardinality(others), Cardinality(others) + 1}
    BY <2>3, FS_AddElement
  <2> QED BY <1>0, <2>3, <2>4, ObserveAssumption
<1>4. CASE (\E o \in Client : Observe!Cancel(o)) \/ (\E m \in net : Observe!Lose(m))
  BY <1>1, <1>4 DEF Observe!Cancel, Observe!Lose
<1>5. CASE \E m \in net : Observe!Receive(m)
  BY <1>1, <1>5 DEF Observe!Receive
<1>6. CASE \E t \in open : Observe!Reject(t) \/ Observe!TransactionTimeout(t)
  BY <1>1, <1>6 DEF Observe!Reject, Observe!TransactionTimeout
<1> QED BY <1>2, <1>3, <1>4, <1>5, <1>6

LEMMA PoolStep == ASSUME ObserveInv, PoolInv, Observe!Next PROVE PoolInv'
<1>0. \A o \in Observe!Registered : o \in Client /\ obs_counter[o] \in Nat
        /\ event_counter[Observe!Observes(o)] \in Nat
  BY SentTypes DEF ObserveInv, Observe!Registered, Client
<1>1. ASSUME NEW r \in Observe!Resource, Observe!Handler(r) PROVE PoolInv'
  <2>1. PICK served : HandlerFacts(r, served)
    BY <1>1, HandlerNotifies
  <2>2. /\ event_counter' = [event_counter EXCEPT ![r] = @ + 1]
        /\ served \subseteq {o \in Observe!Registered : Observe!Observes(o) = r}
        /\ obs_counter' = [o \in Client |-> obs_counter[o] + (IF o \in served THEN 1 ELSE 0)]
    BY <2>1 DEF HandlerFacts
  <2>3. /\ event_counter["event"] \in Nat /\ event_counter["push"] \in Nat
        /\ event_counter["event"] + event_counter["push"] < MaxEvents
        /\ event_counter \in [{"event", "push"} -> Nat] /\ r \in {"event", "push"}
    BY <1>1 DEF ObserveInv, ObserveType, Observe!Resource, Observe!Handler
  <2>4. event_counter'["event"] + event_counter'["push"] <= MaxEvents
    <3>1. CASE r = "event"
      BY <2>2, <2>3, <3>1, ObserveAssumption
    <3>2. CASE r = "push"
      BY <2>2, <2>3, <3>2, ObserveAssumption
    <3> QED BY <2>3, <3>1, <3>2
  <2>5. Observe!Registered' = Observe!Registered
    <3>1. \A o \in Client : o \in served => obs_counter'[o] = obs_counter[o] + 1
      BY <2>2
    <3>2. \A o \in Client : o \notin served => obs_counter'[o] = obs_counter[o]
      BY <2>2, SentTypes DEF ObserveInv
    <3> QED BY <1>0, <2>2, <3>1, <3>2 DEF Observe!Registered, Client, Observe!None
  <2>6. ASSUME NEW o \in Observe!Registered
        PROVE  1 <= obs_counter'[o] /\ obs_counter'[o] <= 1 + event_counter'[Observe!Observes(o)]
    <3>1. o \in Client /\ obs_counter[o] \in Nat /\ event_counter[Observe!Observes(o)] \in Nat
          /\ 1 <= obs_counter[o] /\ obs_counter[o] <= 1 + event_counter[Observe!Observes(o)]
          /\ Observe!Observes(o) \in {"event", "push"}
      BY <1>0 DEF PoolInv, Observe!Observes
    <3>2. CASE Observe!Observes(o) = r
      <4>1. event_counter'[Observe!Observes(o)] = event_counter[Observe!Observes(o)] + 1
        BY <2>2, <2>3, <3>2
      <4>2. obs_counter'[o] \in {obs_counter[o], obs_counter[o] + 1}
        BY <2>2, <3>1
      <4> QED BY <3>1, <4>1, <4>2
    <3>3. CASE Observe!Observes(o) # r
      <4>1. event_counter'[Observe!Observes(o)] = event_counter[Observe!Observes(o)]
        BY <2>2, <2>3, <3>1, <3>3
      <4>2. obs_counter'[o] = obs_counter[o]
        BY <2>2, <3>1, <3>3
      <4> QED BY <3>1, <4>1, <4>2
    <3> QED BY <3>2, <3>3
  <2> QED BY <1>1, <2>4, <2>5, <2>6, HandlerPool DEF PoolInv, Observe!Observes
<1>2. ASSUME \/ \E o \in Client : Observe!Register(o) \/ Observe!Cancel(o)
             \/ \E m \in net : Observe!Receive(m) \/ Observe!Lose(m)
             \/ \E t \in open :
                  Observe!Retransmit(t) \/ Observe!Reject(t) \/ Observe!TransactionTimeout(t)
      PROVE  PoolInv'
  <2>1. event_counter' = event_counter
    BY <1>2 DEF Observe!Register, Observe!Cancel, Observe!Receive, Observe!Lose,
                Observe!Retransmit, Observe!Reject, Observe!TransactionTimeout
  <2>2. \/ obs_counter' = obs_counter
        \/ \E o \in Client, n \in {1, Observe!None} : obs_counter' = [obs_counter EXCEPT ![o] = n]
    BY <1>2, SentTypes DEF ObserveInv, Observe!Register, Observe!Cancel, Observe!Receive, Observe!Lose,
                Observe!Retransmit, Observe!Reject, Observe!TransactionTimeout
  <2>3. \A o \in Client : \/ obs_counter'[o] = obs_counter[o]
                          \/ obs_counter'[o] = 1 \/ obs_counter'[o] = Observe!None
    BY <2>2 DEF ObserveInv, ObserveType
  <2>4. \A o \in Observe!Registered' :
          1 <= obs_counter'[o] /\ obs_counter'[o] <= 1 + event_counter[Observe!Observes(o)]
    <3> SUFFICES ASSUME NEW o \in Observe!Registered'
                 PROVE  1 <= obs_counter'[o] /\ obs_counter'[o] <= 1 + event_counter[Observe!Observes(o)]
      OBVIOUS
    <3>1. o \in Client /\ obs_counter'[o] # Observe!None
      BY DEF Observe!Registered, Client
    <3>2. CASE obs_counter'[o] = 1
      BY <3>1, <3>2, SentTypes DEF ObserveInv
    <3>3. CASE obs_counter'[o] = obs_counter[o]
      <4>1. o \in Observe!Registered
        BY <3>1, <3>3 DEF Observe!Registered, Client
      <4> QED BY <3>3, <4>1 DEF PoolInv
    <3> QED BY <2>3, <3>1, <3>2, <3>3
  <2> QED BY <1>2, <2>1, <2>4, EnginePool DEF PoolInv, Observe!Observes
<1> QED BY <1>1, <1>2 DEF Observe!Next, Client

LEMMA ObserveTypes == ASSUME ObserveInv, PoolInv PROVE Observe!TypeOK
<1>1. event_counter \in [Observe!Resource -> 0 .. MaxEvents]
  BY ObserveAssumption DEF ObserveInv, ObserveType, PoolInv, Observe!Resource
<1>2. obs_counter \in [Observe!Observer -> {Observe!None} \cup 1 .. MaxEvents + 1]
  <2>1. ASSUME NEW o \in Client PROVE obs_counter[o] \in {Observe!None} \cup 1 .. MaxEvents + 1
    <3>1. CASE o \in Observe!Registered
      <4>1. event_counter[Observe!Observes(o)] \in 0 .. MaxEvents
        BY <1>1 DEF Observe!Observes, Observe!Resource
      <4>2. obs_counter[o] \in Nat /\ 1 <= obs_counter[o]
            /\ obs_counter[o] <= 1 + event_counter[Observe!Observes(o)]
        BY <3>1, SentTypes DEF ObserveInv, PoolInv
      <4> QED BY <4>1, <4>2, ObserveAssumption
    <3>2. CASE o \notin Observe!Registered
      BY <3>2 DEF Observe!Registered, Client
    <3> QED BY <3>1, <3>2
  <2> QED BY <2>1 DEF ObserveInv, ObserveType, Client
<1>3. view \in [Observe!Observer -> [seq: {Observe!None} \cup Nat, count: Nat]]
  <2>1. {Observe!None} \cup Nat = Nat \cup {Observe!None}
    OBVIOUS
  <2> QED BY <2>1 DEF ObserveInv, ObserveType, Client
<1>4. net \subseteq Observe!Notification /\ missed \in [Observe!Observer -> BOOLEAN]
  BY DEF ObserveInv, ObserveType, Client
<1>5. Cardinality(open) <= COAP_MAX_OPEN_TRANSACTIONS
  BY DEF PoolInv
<1> QED BY <1>1, <1>2, <1>3, <1>4, <1>5, SameCardinality DEF Observe!TypeOK

LEMMA PoolStays == PoolInv /\ UNCHANGED observeVars => PoolInv'
BY DEF PoolInv, observeVars, Observe!Registered, Observe!Observes

-----------------------------------------------------------------------------
(* The getters.                                                            *)

GettersInv == Getters!TypeOK /\ Sht11WithinADegree /\ EtagIdentifies /\ CutIsMarked

LEMMA Powers == 2^15 = 32768 /\ 2^16 = 65536 /\ 2^8 = 256
OBVIOUS

\* What the SHT11 measures.
Measurement == 0 .. 16383

\* Two divisions towards zero, in this order, lose less than a degree where their
\* result is not below zero.
LEMMA Sht11Error ==
  ASSUME NEW raw \in Measurement, raw >= 3870
  PROVE  /\ -100 < 100 * Getters!Sht11Celsius(raw) - (raw - 3960)
         /\ 100 * Getters!Sht11Celsius(raw) - (raw - 3960) < 100
<1> DEFINE tenths == raw \div 10 - 396
           celsius == Getters!CDiv(tenths, 10)
<1>1. tenths \in -9 .. 1242 /\ 10 * tenths <= raw - 3960 /\ raw - 3960 < 10 * tenths + 10
      /\ raw \in Nat
  BY DEF Measurement
<1>2. Getters!Sht11Celsius(raw) = celsius % 65536
  BY <1>1, Powers DEF Getters!Sht11Celsius, Getters!Uint16, Getters!CDiv
<1> HIDE DEF tenths
<1>3. /\ celsius \in 0 .. 124
      /\ tenths >= 0 => 10 * celsius <= tenths /\ tenths < 10 * celsius + 10
      /\ tenths < 0 => celsius = 0
  BY <1>1 DEF Getters!CDiv
<1> HIDE DEF celsius
<1>4. celsius % 65536 = celsius
  BY <1>3
<1> QED BY <1>1, <1>2, <1>3, <1>4

\* The byte of the ETag is the length.
LEMMA EtagIsLength ==
  ASSUME NEW len \in LenArg
  PROVE  Getters!HelloGet(len).etag = Getters!HelloGet(len).length
<1>0. len \in Int /\ REST_MAX_CHUNK_SIZE \in Int /\ 0 <= REST_MAX_CHUNK_SIZE
      /\ REST_MAX_CHUNK_SIZE <= 255
  BY GettersAssumption
<1>1. Getters!HelloLength(len) \in 0 .. 255
  BY <1>0 DEF Getters!HelloLength
<1>2. Getters!HelloLength(len) % 2^8 = Getters!HelloLength(len)
  BY <1>1, Powers
<1> QED BY <1>2 DEF Getters!HelloGet

(* The writes of a mirrored request.  That something is true of every prefix *)
(* of them is shown of the shortest prefix it could be false of.             *)

Below == {pair \in Nat \X Nat : pair[1] < pair[2]}

LEMMA BelowWellFounded == IsWellFoundedOn(Below, Nat)
BY NatLessThanWellFounded DEF OpToRel, Below

\* A set of natural numbers that is not empty has a least one.
LEMMA LeastNatural ==
  ASSUME NEW T, T \subseteq Nat, T # {}
  PROVE  \E least \in T : \A n \in T : least <= n
<1>1. PICK least \in T : \A n \in T : <<n, least>> \notin Below
  BY BelowWellFounded, WFMin
<1>2. ASSUME NEW n \in T PROVE ~(n < least)
  <2>1. n < least => <<n, least>> \in Below
    BY DEF Below
  <2> QED BY <1>1, <2>1
<1> QED BY <1>2

\* What is written of the prefixes, as Written builds one from the other.
NextWritten(writes, counts, after, i) ==
  IF i = 0 THEN [strpos |-> 0, begun |-> TRUE, text |-> 0]
  ELSE LET before == after[i - 1]
           made == Getters!Made(writes[i], before)
       IN  [strpos |-> IF made THEN Getters!Advance(before.strpos, writes[i].length, counts)
                       ELSE before.strpos,
            begun |-> made,
            text |-> before.text + writes[i].length]
Prefixes(writes, counts, after, n) ==
  after = [i \in 0 .. n |-> NextWritten(writes, counts, after, i)]

LEMMA PrefixesExist ==
  ASSUME NEW writes, NEW counts, NEW n \in Nat
  PROVE  \E after : Prefixes(writes, counts, after, n)
<1> DEFINE Missing == {k \in Nat : ~ \E after : Prefixes(writes, counts, after, k)}
<1> SUFFICES ASSUME Missing # {} PROVE FALSE
  OBVIOUS
<1>1. PICK m \in Missing : \A k \in Missing : m <= k
  BY LeastNatural
<1>2. m # 0
  <2> DEFINE zero == [i \in 0 .. 0 |-> [strpos |-> 0, begun |-> TRUE, text |-> 0]]
  <2>1. Prefixes(writes, counts, zero, 0)
    BY DEF Prefixes, NextWritten
  <2> QED BY <2>1
<1>3. m - 1 \in Nat /\ m - 1 \notin Missing
  BY <1>1, <1>2
<1>4. PICK before : Prefixes(writes, counts, before, m - 1)
  BY <1>3
<1> DEFINE after == [i \in 0 .. m |-> IF i = m THEN NextWritten(writes, counts, before, m)
                                      ELSE before[i]]
<1>5. ASSUME NEW i \in 0 .. m PROVE after[i] = NextWritten(writes, counts, after, i)
  <2>1. CASE i = 0
    BY <2>1, <1>2, <1>3, <1>4 DEF Prefixes, NextWritten
  <2>2. CASE i # 0
    <3>1. after[i - 1] = before[i - 1]
      BY <2>2
    <3>2. NextWritten(writes, counts, after, i) = NextWritten(writes, counts, before, i)
      BY <3>1 DEF NextWritten
    <3> QED BY <3>2, <1>3, <1>4 DEF Prefixes
  <2> QED BY <2>1, <2>2
<1>6. Prefixes(writes, counts, after, m)
  BY <1>5 DEF Prefixes
<1> QED BY <1>6

\* A request to mirror.
Write == [length: Nat, guarded: BOOLEAN]
Writes == Seq(Write)

LEMMA WrittenIsLast ==
  ASSUME NEW writes \in Writes, NEW counts
  PROVE  \E after : /\ Prefixes(writes, counts, after, Len(writes))
                    /\ Getters!Written(writes, counts) = after[Len(writes)]
<1>1. Len(writes) \in Nat
  BY DEF Writes
<1>2. \E s : Prefixes(writes, counts, s, Len(writes))
  BY <1>1, PrefixesExist
<1> DEFINE after == CHOOSE after : Prefixes(writes, counts, after, Len(writes))
<1>3. Prefixes(writes, counts, after, Len(writes))
  BY <1>2
<1>4. Getters!Written(writes, counts) = after[Len(writes)]
  BY DEF Getters!Written, Prefixes, NextWritten
<1> QED BY <1>3, <1>4

LEMMA PayloadSize == REST_MAX_CHUNK_SIZE \in Nat
<1>1. REST_MAX_CHUNK_SIZE \in 0 .. 255
  BY GettersAssumption
<1> QED BY <1>1

\* strpos is the length of the text, or it is past the end of the buffer, where a
\* write of size below zero does not take it back.
Told(w) ==
  /\ w.strpos \in Int /\ w.text \in Nat /\ w.begun \in BOOLEAN
  /\ w.strpos > REST_MAX_CHUNK_SIZE \/ (w.strpos = w.text /\ w.begun)

LEMMA AdvanceTells ==
  ASSUME NEW before, Told(before), NEW counts \in BOOLEAN, NEW n \in Nat
  PROVE  /\ Getters!Advance(before.strpos, n, counts) \in Int
         /\ before.strpos > REST_MAX_CHUNK_SIZE =>
              Getters!Advance(before.strpos, n, counts) > REST_MAX_CHUNK_SIZE
         /\ before.strpos <= REST_MAX_CHUNK_SIZE =>
              Getters!Advance(before.strpos, n, counts) = before.text + n
BY PayloadSize DEF Told, Getters!Advance

LEMMA ToldAtFirst == Told([strpos |-> 0, begun |-> TRUE, text |-> 0])
<1> DEFINE w == [strpos |-> 0, begun |-> TRUE, text |-> 0]
<1>1. w.strpos = 0 /\ w.text = 0
  OBVIOUS
<1>2. w.begun = TRUE
  BY Zenon
<1> HIDE DEF w
<1>3. w.begun
  BY <1>2, Zenon
<1>4. Told(w)
  BY <1>1, <1>2, <1>3 DEF Told
<1> QED BY <1>4 DEF w

LEMMA NextTells ==
  ASSUME NEW writes \in Writes, NEW counts \in BOOLEAN, NEW after, NEW m \in 1 .. Len(writes),
         Told(after[m - 1])
  PROVE  Told(NextWritten(writes, counts, after, m))
<1> DEFINE before == after[m - 1]
           w == writes[m]
           made == Getters!Made(w, before)
           next == NextWritten(writes, counts, after, m)
           position == Getters!Advance(before.strpos, w.length, counts)
<1>1. w.length \in Nat /\ w.guarded \in BOOLEAN /\ m # 0
  <2>1. w \in Write
    BY DEF Writes
  <2> QED BY <2>1 DEF Write
<1>2. /\ next.strpos = IF made THEN position ELSE before.strpos
      /\ next.begun = made
      /\ next.text = before.text + w.length
  BY <1>1 DEF NextWritten
<1>3. /\ before.strpos \in Int /\ before.text \in Nat /\ before.begun \in BOOLEAN
      /\ before.strpos > REST_MAX_CHUNK_SIZE \/ (before.strpos = before.text /\ before.begun)
  BY DEF Told
<1>4. /\ position \in Int
      /\ before.strpos > REST_MAX_CHUNK_SIZE => position > REST_MAX_CHUNK_SIZE
      /\ before.strpos <= REST_MAX_CHUNK_SIZE => position = before.text + w.length
  BY <1>1, AdvanceTells
<1>5. made \in BOOLEAN /\ (made \/ before.strpos > REST_MAX_CHUNK_SIZE)
  <2>1. REST_MAX_CHUNK_SIZE \in Nat
    BY PayloadSize
  <2>2. CASE w.guarded
    <3>1. made = (before.strpos <= REST_MAX_CHUNK_SIZE)
      BY <2>2 DEF Getters!Made
    <3> QED BY <1>3, <2>1, <3>1
  <2>3. CASE ~w.guarded
    <3>1. made = before.begun
      BY <2>3 DEF Getters!Made
    <3> QED BY <1>3, <3>1
  <2> QED BY <2>2, <2>3
<1> HIDE DEF before, w, made, next, position
<1>6. next.strpos \in Int /\ next.text \in Nat
      /\ (next.strpos > REST_MAX_CHUNK_SIZE \/ (next.strpos = next.text /\ made))
  BY <1>1, <1>2, <1>3, <1>4, <1>5, PayloadSize
<1>7. next.begun \in BOOLEAN /\ (made => next.begun)
  BY <1>2, <1>5, Zenon
<1>8. Told(next)
  BY <1>6, <1>7, Zenon DEF Told
<1> QED BY <1>8 DEF next

LEMMA WrittenTells ==
  ASSUME NEW writes \in Writes, NEW counts \in BOOLEAN
  PROVE  Told(Getters!Written(writes, counts))
<1> DEFINE n == Len(writes)
<1>0. n \in Nat
  BY DEF Writes
<1>1. PICK after : Prefixes(writes, counts, after, n) /\ Getters!Written(writes, counts) = after[n]
  BY WrittenIsLast
<1> DEFINE Wrong == {i \in 0 .. n : ~Told(after[i])}
<1>2. Wrong = {}
  <2> SUFFICES ASSUME Wrong # {} PROVE FALSE
    OBVIOUS
  <2>1. Wrong \subseteq Nat
    BY <1>0
  <2>2. PICK m \in Wrong : \A k \in Wrong : m <= k
    BY <2>1, LeastNatural
  <2>3. \A i \in 0 .. n : after[i] = NextWritten(writes, counts, after, i)
    BY <1>1 DEF Prefixes
  <2>4. m # 0
    BY <2>3, ToldAtFirst DEF NextWritten
  <2>5. m - 1 \in 0 .. n /\ m - 1 \notin Wrong /\ m \in 1 .. n
    BY <1>0, <2>2, <2>4
  <2>6. Told(after[m - 1])
    BY <2>5
  <2>7. Told(after[m])
    BY <2>3, <2>5, <2>6, NextTells
  <2> QED BY <2>7
<1>3. Told(after[n])
  BY <1>0, <1>2
<1> QED BY <1>1, <1>3

LEMMA MirrorStep == ASSUME GettersInv, Getters!GetMirror PROVE GettersInv'
<1>1. PICK writes \in Request, counts \in BOOLEAN :
        exchange' = [to |-> "mirror", text |-> Getters!Written(writes, counts).text,
                     resp |-> Getters!Mirror(writes, counts)]
  BY DEF Getters!GetMirror
<1>2. leds' = leds
  BY DEF Getters!GetMirror
<1>3. CutIsMarked'
  <2> DEFINE w == Getters!Written(writes, counts)
             resp == Getters!Mirror(writes, counts)
  <2>1. REST_MAX_CHUNK_SIZE \in Nat /\ writes \in Writes
    <3>1. Request \subseteq Writes
      BY GettersAssumption DEF Writes, Write
    <3> QED BY <3>1, PayloadSize
  <2>2. /\ w.strpos \in Int /\ w.text \in Nat
        /\ w.strpos > REST_MAX_CHUNK_SIZE \/ w.strpos = w.text
    BY <2>1, WrittenTells DEF Told
  <2>3. /\ resp.length = IF w.strpos < REST_MAX_CHUNK_SIZE THEN w.strpos ELSE REST_MAX_CHUNK_SIZE
        /\ resp.marked <=> w.strpos >= REST_MAX_CHUNK_SIZE
    BY DEF Getters!Mirror, Getters!Smaller, Getters!StrPos
  <2>4. exchange'.text = w.text /\ exchange'.resp = resp
    BY <1>1
  <2> HIDE DEF w, resp
  <2>5. w.text > resp.length => resp.marked
    BY <2>1, <2>2, <2>3
  <2> QED BY <2>4, <2>5 DEF CutIsMarked, Getters!CutIsMarked
<1>4. Sht11WithinADegree' /\ EtagIdentifies'
  BY <1>1 DEF Sht11WithinADegree, Getters!Sht11WithinADegree, EtagIdentifies, Getters!EtagIdentifies
<1> QED BY <1>2, <1>3, <1>4 DEF GettersInv, Getters!TypeOK

LEMMA GettersInit == Getters!Init => GettersInv
BY DEF Getters!Init, GettersInv, Getters!TypeOK, Sht11WithinADegree, Getters!Sht11WithinADegree,
       EtagIdentifies, Getters!EtagIdentifies, CutIsMarked, Getters!CutIsMarked

LEMMA SensorStep ==
  ASSUME GettersInv, NEW accept \in Accept, Getters!GetSensor(accept)
  PROVE  GettersInv'
<1>1. leds' = leds /\ exchange'.to \notin {"hello", "mirror"}
  BY DEF Getters!GetSensor
<1>2. exchange'.to = "sht11" => \E raw \in Raw : /\ exchange'.raw = raw
                                                 /\ exchange'.resp = Getters!Sht11Get(accept, raw)
  BY DEF Getters!GetSensor
<1>3. ASSUME NEW raw \in Raw, Getters!Sht11Get(accept, raw).code = "2.05"
      PROVE  Getters!Sht11Get(accept, raw).value = Getters!Sht11Celsius(raw)
  BY <1>3 DEF Getters!Sht11Get, Getters!Negotiated, Getters!Content, Getters!NotAcceptable
<1>4. Sht11WithinADegree'
  <2> DEFINE error == 100 * exchange'.resp.value - (exchange'.raw - 3960)
  <2> SUFFICES ASSUME exchange'.to = "sht11", exchange'.resp.code = "2.05", exchange'.raw >= 3870
               PROVE  -100 < error /\ error < 100
    BY DEF Sht11WithinADegree, Getters!Sht11WithinADegree, Getters!CelsiusServed
  <2>1. PICK raw \in Raw : exchange'.raw = raw /\ exchange'.resp = Getters!Sht11Get(accept, raw)
    BY <1>2
  <2>2. exchange'.resp.value = Getters!Sht11Celsius(raw) /\ raw \in Measurement /\ raw >= 3870
    BY <1>3, <2>1, GettersAssumption DEF Measurement
  <2>3. error = 100 * Getters!Sht11Celsius(raw) - (raw - 3960)
    BY <2>1, <2>2
  <2> HIDE DEF error
  <2> QED BY <2>2, <2>3, Sht11Error
<1>5. EtagIdentifies' /\ CutIsMarked'
  BY <1>1 DEF EtagIdentifies, Getters!EtagIdentifies, CutIsMarked, Getters!CutIsMarked
<1> QED BY <1>1, <1>4, <1>5 DEF GettersInv, Getters!TypeOK

LEMMA HelloStep == ASSUME GettersInv, Getters!GetHello PROVE GettersInv'
<1>1. PICK len \in LenArg : exchange' = [to |-> "hello", resp |-> Getters!HelloGet(len)]
  BY DEF Getters!GetHello
<1>2. leds' = leds
  BY DEF Getters!GetHello
<1>3. EtagIdentifies'
  BY <1>1, EtagIsLength DEF EtagIdentifies, Getters!EtagIdentifies, Getters!HelloGet, Getters!HelloLength
<1>4. Sht11WithinADegree' /\ CutIsMarked'
  BY <1>1 DEF Sht11WithinADegree, Getters!Sht11WithinADegree, CutIsMarked, Getters!CutIsMarked
<1> QED BY <1>2, <1>3, <1>4 DEF GettersInv, Getters!TypeOK

\* The other requests have no number in their answer.
LEMMA OtherStep ==
  ASSUME GettersInv, leds' \subseteq {"r", "g", "b"},
         exchange'.to \notin {"sht11", "hello", "mirror"}
  PROVE  GettersInv'
BY DEF GettersInv, Getters!TypeOK, Sht11WithinADegree, Getters!Sht11WithinADegree,
       EtagIdentifies, Getters!EtagIdentifies, CutIsMarked, Getters!CutIsMarked

LEMMA GettersStep == ASSUME GettersInv, Getters!Next PROVE GettersInv'
<1>0. leds \subseteq {"r", "g", "b"}
  BY DEF GettersInv, Getters!TypeOK
<1>1. CASE Getters!Respond
  BY <1>0, <1>1, OtherStep DEF Getters!Respond
<1>2. CASE Getters!PostToggle
  BY <1>0, <1>2, OtherStep DEF Getters!PostToggle
<1>3. ASSUME NEW color \in Word, NEW mode \in Word, Getters!PostPutLeds(color, mode)
      PROVE  GettersInv'
  <2>1. leds' \subseteq {"r", "g", "b"}
    BY <1>0, <1>3 DEF Getters!PostPutLeds, Getters!Switched, Getters!LedOf
  <2>2. exchange'.to = "leds"
    BY <1>3 DEF Getters!PostPutLeds
  <2> QED BY <2>1, <2>2, OtherStep
<1> QED BY <1>1, <1>2, <1>3, SensorStep, HelloStep, MirrorStep DEF Getters!Next, Getters!Handle

LEMMA GettersStay == GettersInv /\ UNCHANGED getterVars => GettersInv'
BY DEF GettersInv, getterVars, Getters!TypeOK, Sht11WithinADegree, Getters!Sht11WithinADegree,
       Getters!CelsiusServed, EtagIdentifies, Getters!EtagIdentifies, CutIsMarked, Getters!CutIsMarked
=============================================================================
