-------------------------- MODULE CoapSeparateProofs --------------------------
(***************************************************************************)
(* Theorems about CoapSeparate for every number of requests, open          *)
(* exchanges, transactions, observers, retransmissions and losses.         *)
(***************************************************************************)
EXTENDS CoapSeparate, FiniteSetTheorems, TLAPS

-----------------------------------------------------------------------------
(* Sequences: what Front, Last and Append do to the history of accepted    *)
(* exchanges.                                                              *)

LEMMA AppendFacts ==
  ASSUME NEW S, NEW s \in Seq(S), NEW e \in S
  PROVE  /\ Append(s, e) \in Seq(S)
         /\ Len(Append(s, e)) = Len(s) + 1
         /\ Last(Append(s, e)) = e
         /\ Front(Append(s, e)) = s
         /\ \A i \in DOMAIN s : Append(s, e)[i] = s[i]
         /\ Append(s, e)[Len(s) + 1] = e
BY DEF Last, Front

LEMMA FrontFacts ==
  ASSUME NEW S, NEW s \in Seq(S)
  PROVE  ToSet(Front(s)) \subseteq S
BY DEF Front, ToSet

LEMMA LastFacts ==
  ASSUME NEW S, NEW s \in Seq(S), Len(s) > 0
  PROVE  /\ Last(s) \in S
         /\ Last(s) = s[Len(s)]
         /\ Len(s) \in DOMAIN s
BY DEF Last

-----------------------------------------------------------------------------
(* Type correctness.                                                       *)

\* The invariant of the slot itself: counter, slot and history agree.
SlotInv == TypeOK /\ SlotHoldsLatest

LEMMA InitSlotInv == Init => SlotInv
BY SizeAssumption, BoundAssumption
DEF Init, SlotInv, TypeOK, SlotHoldsLatest, Slots, Phase

\* Clients, the network and the engine's own steps do not touch the slot.
LEMMA ClientStep ==
  ASSUME SlotInv,
         \/ \E r \in Req : SendRequest(r) \/ RetransmitRequest(r) \/ GiveUp(r)
         \/ \E m \in network : ReceiveAck(m) \/ ReceiveUnavailable(m) \/ ReceiveContent(m)
  PROVE  SlotInv' /\ UNCHANGED <<server, engine>>
<1> USE ReqAssumption, SizeAssumption, BoundAssumption
<1> USE DEF SlotInv, TypeOK, SlotHoldsLatest, server, engine
<1>1. ASSUME NEW r \in Req, SendRequest(r) PROVE SlotInv' /\ UNCHANGED <<server, engine>>
  BY <1>1 DEF SendRequest, Phase, Message, Get
<1>2. ASSUME NEW r \in Req, RetransmitRequest(r) PROVE SlotInv' /\ UNCHANGED <<server, engine>>
  BY <1>2 DEF RetransmitRequest, Message, Get
<1>3. ASSUME NEW r \in Req, GiveUp(r) PROVE SlotInv' /\ UNCHANGED <<server, engine>>
  BY <1>3 DEF GiveUp, Phase
<1>4. ASSUME NEW m \in network, ReceiveAck(m) PROVE SlotInv' /\ UNCHANGED <<server, engine>>
  BY <1>4 DEF ReceiveAck, Phase
<1>5. ASSUME NEW m \in network, ReceiveUnavailable(m)
      PROVE SlotInv' /\ UNCHANGED <<server, engine>>
  BY <1>5 DEF ReceiveUnavailable, Phase
<1>6. ASSUME NEW m \in network, ReceiveContent(m)
      PROVE SlotInv' /\ UNCHANGED <<server, engine>>
  <2>1. ContentAck(m) \in Message
    BY <1>6 DEF ReceiveContent, Message, ContentAck
  <2>2. network' \subseteq Message
    BY <1>6, <2>1 DEF ReceiveContent
  <2> QED BY <1>6, <2>2 DEF ReceiveContent, Phase
<1> QED BY <1>1, <1>2, <1>3, <1>4, <1>5, <1>6

LEMMA RefusalStep ==
  ASSUME SlotInv, NEW m \in network, NoFreeTransaction(m) \/ SeparateReject(m)
  PROVE  SlotInv' /\ UNCHANGED <<server, engine>>
<1>1. Unavailable(m) \in Message
  BY DEF NoFreeTransaction, SeparateReject, SlotInv, TypeOK, Message, Unavailable
<1> QED BY <1>1 DEF NoFreeTransaction, SeparateReject, SlotInv, TypeOK, SlotHoldsLatest,
                    server, engine, clients

LEMMA EngineStep ==
  ASSUME SlotInv,
         \/ \E m \in network : ReceiveContentAck(m) \/ Lose(m)
         \/ \E t \in transactions : RetransmitContent(t) \/ ExpireContent(t)
         \/ \E n \in 0 .. Observers : ButtonWaits(n)
         \/ OtherOpens
         \/ OtherCloses
  PROVE  SlotInv' /\ UNCHANGED <<server, next_mid>>
<1> USE ReqAssumption, SizeAssumption, BoundAssumption
<1> USE DEF SlotInv, TypeOK, SlotHoldsLatest, server, engine, clients
<1>1. ASSUME NEW m \in network, ReceiveContentAck(m)
      PROVE SlotInv' /\ UNCHANGED <<server, next_mid>>
  BY <1>1 DEF ReceiveContentAck
<1>2. ASSUME NEW m \in network, Lose(m) PROVE SlotInv' /\ UNCHANGED <<server, next_mid>>
  BY <1>2 DEF Lose
<1>3. ASSUME NEW t \in transactions, RetransmitContent(t)
      PROVE SlotInv' /\ UNCHANGED <<server, next_mid>>
  <2>1. [t EXCEPT !.copy = @ + 1] \in Transaction
    <3>1. t \in Transaction /\ t.copy + 1 \in 0 .. MaxResponseRetransmit
      BY <1>3 DEF RetransmitContent, Transaction
    <3> HIDE DEF SlotInv, TypeOK
    <3> QED BY ONLY <3>1 DEF Transaction
  <2>2. Content(t, t.copy + 1) \in Message
    <3>1. /\ t.req \in Req /\ t.mid \in Nat
          /\ t.copy + 1 \in 0 .. MaxResponseRetransmit
      <4>1. transactions \subseteq Transaction /\ MaxResponseRetransmit \in Nat
        OBVIOUS
      <4>2. t \in Transaction /\ t.copy < MaxResponseRetransmit
        BY ONLY <1>3, <4>1, t \in transactions DEF RetransmitContent
      <4>3. Confirmable \subseteq Req
        BY ONLY ReqAssumption DEF ReqAssumption
      <4> HIDE DEF SlotInv, TypeOK
      <4> QED BY ONLY <4>1, <4>2, <4>3 DEF Transaction
    <3> HIDE DEF SlotInv, TypeOK
    <3> QED BY ONLY <3>1 DEF Content, Message
  <2> QED BY <1>3, <2>1, <2>2 DEF RetransmitContent
<1>4. ASSUME NEW t \in transactions, ExpireContent(t)
      PROVE SlotInv' /\ UNCHANGED <<server, next_mid>>
  BY <1>4 DEF ExpireContent
<1>5. ASSUME NEW n \in 0 .. Observers, ButtonWaits(n)
      PROVE SlotInv' /\ UNCHANGED <<server, next_mid>>
  BY <1>5 DEF ButtonWaits
<1>6. CASE OtherOpens
  BY <1>6 DEF OtherOpens
<1>7. CASE OtherCloses
  BY <1>7 DEF OtherCloses
<1> QED BY <1>1, <1>2, <1>3, <1>4, <1>5, <1>6, <1>7

\* Accepting writes the slot the counter vouches for.
LEMMA AcceptStep ==
  ASSUME SlotInv, NEW m \in network, SeparateAccept(m)
  PROVE  SlotInv'
<1> DEFINE md == [req |-> m.req, mid |-> next_mid]
<1>1. md \in Metadata /\ m.kind = "get" /\ m.req \in Req
  BY DEF SlotInv, TypeOK, SeparateAccept, AcceptInto, Message, Metadata
<1>2. Ack(m) \in Message
  BY <1>1 DEF SlotInv, TypeOK, Message, Ack
<1>3. /\ open' = Append(open, md) /\ open \in Seq(Metadata)
      /\ separate_active' = separate_active + 1
      /\ separate_store' = [separate_store EXCEPT ![0] = md]
  BY DEF SeparateAccept, AcceptInto, SlotInv, TypeOK
<1>4. open' \in Seq(Metadata) /\ Len(open') = Len(open) + 1 /\ Last(open') = md
  BY <1>1, <1>3, AppendFacts
<1>5. separate_store' \in [Slots -> Metadata \cup {NoMetadata}] /\ separate_store'[0] = md
  BY <1>1, <1>3, SizeAssumption DEF SlotInv, TypeOK, Slots
<1>6. SlotHoldsLatest'
  BY <1>3, <1>4, <1>5 DEF SlotInv, SlotHoldsLatest
<1>7. TypeOK'
  <2>1. separate_active' \in 0 .. COAP_MAX_OPEN_SEPARATE
    BY <1>3, SizeAssumption DEF SlotInv, TypeOK, SeparateAccept
  <2>2. network' \subseteq Message
    BY <1>2 DEF SeparateAccept, AcceptInto, SlotInv, TypeOK
  <2> QED BY <1>4, <1>5, <2>1, <2>2 DEF SeparateAccept, AcceptInto, SlotInv, TypeOK, clients
<1> QED BY <1>6, <1>7 DEF SlotInv

\* Answering empties the history of open exchanges with the counter, and what
\* it sends is what the history says was accepted last.
LEMMA AnswerStep ==
  ASSUME SlotInv, NEW n \in 0 .. Observers, ButtonAnswers(n)
  PROVE  /\ SlotInv'
         /\ separate_active > 0 /\ separate_active' = 0
         /\ separate_store[0] = Last(open) /\ Last(open) \in Metadata
         /\ responded' = responded \cup {Last(open)}
         /\ open' = <<>>
<1> DEFINE md == separate_store[0]
<1>1. separate_active > 0 /\ separate_active' = 0 /\ Len(open) > 0 /\ open \in Seq(Metadata)
  BY SizeAssumption DEF ButtonAnswers, ResumeLeaving, SlotInv, TypeOK, SlotHoldsLatest
<1>2. md = Last(open) /\ Last(open) \in Metadata
  BY <1>1, LastFacts DEF SlotInv, SlotHoldsLatest
<1>3. /\ open' = <<>> /\ responded' = responded \cup {md}
      /\ abandoned' = abandoned \cup (ToSet(Front(open)) \ ToSet(<<>>))
  BY DEF ButtonAnswers, ResumeLeaving
<1>4. abandoned' \subseteq Metadata
  BY <1>1, <1>3, FrontFacts DEF SlotInv, TypeOK
<1>5. Content(md, 0) \in Message
  BY <1>2, BoundAssumption DEF Content, Metadata, Message
<1>6. transactions' \subseteq Transaction
  <2>1. md.req \in Confirmable => [req |-> md.req, mid |-> md.mid, copy |-> 0] \in Transaction
    BY <1>2, BoundAssumption DEF Metadata, Transaction
  <2> QED BY <2>1 DEF ButtonAnswers, ResumeLeaving, SlotInv, TypeOK
<1>7. other' \in Nat
  BY SizeAssumption DEF ButtonAnswers, ResumeLeaving, SlotInv, TypeOK
<1>8. TypeOK'
  BY <1>1, <1>2, <1>3, <1>4, <1>5, <1>6, <1>7, SizeAssumption
  DEF ButtonAnswers, ResumeLeaving, SlotInv, TypeOK, clients
<1>9. SlotHoldsLatest'
  BY <1>1, <1>3 DEF SlotHoldsLatest
<1> QED BY <1>1, <1>2, <1>3, <1>8, <1>9 DEF SlotInv

\* Every step is one of: no change to the slot, an acceptance, an answer.
LEMMA StepCases ==
  ASSUME SlotInv, [Next]_vars
  PROVE  \/ UNCHANGED <<server, next_mid>> /\ SlotInv'
         \/ \E m \in network : SeparateAccept(m)
         \/ \E n \in 0 .. Observers : ButtonAnswers(n)
<1>1. CASE UNCHANGED vars
  BY <1>1 DEF vars, server, engine, clients, SlotInv, TypeOK, SlotHoldsLatest
<1>2. CASE \E r \in Req : SendRequest(r) \/ RetransmitRequest(r) \/ GiveUp(r)
  BY <1>2, ClientStep DEF engine
<1>3. CASE \E m \in network : ReceiveAck(m) \/ ReceiveUnavailable(m) \/ ReceiveContent(m)
  BY <1>3, ClientStep DEF engine
<1>4. CASE \E m \in network : NoFreeTransaction(m) \/ SeparateReject(m)
  BY <1>4, RefusalStep DEF engine
<1>5. CASE \/ \E m \in network : ReceiveContentAck(m) \/ Lose(m)
           \/ \E t \in transactions : RetransmitContent(t) \/ ExpireContent(t)
           \/ \E n \in 0 .. Observers : ButtonWaits(n)
           \/ OtherOpens
           \/ OtherCloses
  BY <1>5, EngineStep
<1> QED BY <1>1, <1>2, <1>3, <1>4, <1>5 DEF Next, Deliver, ButtonPress

LEMMA SlotInvStep == SlotInv /\ [Next]_vars => SlotInv'
BY StepCases, AcceptStep, AnswerStep

\* Types are preserved by every step of the server, the engine and the clients.
THEOREM TypeCorrect == Spec => []TypeOK
<1>1. Init => SlotInv
  BY InitSlotInv
<1>2. SlotInv /\ [Next]_vars => SlotInv'
  BY SlotInvStep
<1>3. SlotInv => TypeOK
  BY DEF SlotInv
<1> QED BY <1>1, <1>2, <1>3, PTL DEF Spec

\* Counter, slot and history of acceptances agree for any number of slots.
THEOREM SlotCorrect == Spec => []SlotHoldsLatest
<1>1. Init => SlotInv
  BY InitSlotInv
<1>2. SlotInv /\ [Next]_vars => SlotInv'
  BY SlotInvStep
<1>3. SlotInv => SlotHoldsLatest
  BY DEF SlotInv
<1> QED BY <1>1, <1>2, <1>3, PTL DEF Spec

-----------------------------------------------------------------------------
(* No exchange is answered twice: message ids tell exchanges apart.        *)

\* NeverAnsweredTwice is not inductive: a new exchange differs from the
\* answered ones only because its message id is above all of theirs.
FreshInv ==
  /\ SlotInv
  /\ \A i \in DOMAIN open : open[i].mid < next_mid /\ open[i] \notin responded
  /\ \A md \in responded : md.mid < next_mid

LEMMA FreshAccept ==
  ASSUME FreshInv, NEW m \in network, SeparateAccept(m)
  PROVE  /\ FreshInv'
         /\ Last(open') \in Metadata \ (responded \cup ToSet(open))
         /\ Front(open') = open /\ Len(open') = Len(open) + 1
         /\ responded' = responded
<1> DEFINE md == [req |-> m.req, mid |-> next_mid]
<1>1. SlotInv'
  BY AcceptStep DEF FreshInv
<1>2. md \in Metadata /\ open \in Seq(Metadata) /\ next_mid \in Nat /\ responded \subseteq Metadata
  BY DEF FreshInv, SlotInv, TypeOK, SeparateAccept, AcceptInto, Message, Metadata
<1>3. open' = Append(open, md) /\ next_mid' = next_mid + 1 /\ responded' = responded
  BY DEF SeparateAccept, AcceptInto
<1>4. /\ Last(open') = md /\ Front(open') = open /\ Len(open') = Len(open) + 1
      /\ \A i \in DOMAIN open : open'[i] = open[i]
      /\ open'[Len(open) + 1] = md
      /\ open' \in Seq(Metadata)
  BY <1>2, <1>3, AppendFacts
<1>5. md \notin responded /\ \A i \in DOMAIN open : open[i] # md
  BY <1>2 DEF FreshInv
<1>6. \A i \in DOMAIN open : open[i].mid \in Nat
  <2>1. \A i \in DOMAIN open : open[i] \in Metadata
    BY <1>2
  <2> QED BY <2>1 DEF Metadata
<1>7. \A x \in responded : x.mid \in Nat /\ x.mid < next_mid'
  BY <1>2, <1>3 DEF FreshInv, Metadata
<1>8. \A i \in DOMAIN open' : open'[i].mid < next_mid' /\ open'[i] \notin responded'
  <2> TAKE i \in DOMAIN open'
  <2>1. CASE i \in DOMAIN open
    BY <2>1, <1>2, <1>3, <1>4, <1>6 DEF FreshInv
  <2>2. CASE i = Len(open) + 1
    BY <2>2, <1>2, <1>3, <1>4, <1>5
  <2>3. i \in DOMAIN open \/ i = Len(open) + 1
    BY <1>2, <1>4
  <2> QED BY <2>1, <2>2, <2>3
<1> QED BY <1>1, <1>2, <1>3, <1>4, <1>5, <1>7, <1>8 DEF FreshInv, ToSet

LEMMA FreshAnswer ==
  ASSUME FreshInv, NEW n \in 0 .. Observers, ButtonAnswers(n)
  PROVE  /\ FreshInv'
         /\ Last(open) \notin responded
<1>1. /\ SlotInv' /\ separate_active > 0 /\ Last(open) \in Metadata
      /\ responded' = responded \cup {Last(open)} /\ open' = <<>>
  BY AnswerStep DEF FreshInv
<1>2. /\ Last(open) = open[Len(open)] /\ Len(open) \in DOMAIN open
  BY <1>1, LastFacts DEF FreshInv, SlotInv, TypeOK, SlotHoldsLatest
<1>3. next_mid' = next_mid
  BY DEF ButtonAnswers, ResumeLeaving
<1> QED BY <1>1, <1>2, <1>3 DEF FreshInv

LEMMA FreshInvStep == FreshInv /\ [Next]_vars => FreshInv'
<1> SUFFICES ASSUME FreshInv, [Next]_vars PROVE FreshInv'
  OBVIOUS
<1>1. CASE UNCHANGED <<server, next_mid>> /\ SlotInv'
  BY <1>1 DEF FreshInv, server
<1>2. CASE \E m \in network : SeparateAccept(m)
  BY <1>2, FreshAccept
<1>3. CASE \E n \in 0 .. Observers : ButtonAnswers(n)
  BY <1>3, FreshAnswer
<1> QED BY <1>1, <1>2, <1>3, StepCases DEF FreshInv

LEMMA InitFreshInv == Init => FreshInv
BY InitSlotInv DEF Init, FreshInv

\* However requests are repeated and presses interleave, no press answers an
\* exchange an earlier press answered.
THEOREM AnsweredOnce == Spec => []NeverAnsweredTwice
<1>1. FreshInv => NeverAnsweredTwice
  BY DEF FreshInv, NeverAnsweredTwice
<1> QED BY <1>1, InitFreshInv, FreshInvStep, PTL DEF Spec

\* The counter falls only by answering, and a lone exchange is the one answered.
THEOREM ReleaseCorrect == Spec => ReleaseAnswers
<1> DEFINE Release ==
      separate_active' < separate_active =>
        /\ responded' # responded
        /\ separate_active = 1 => responded' = responded \cup {open[1]}
<1>1. FreshInv /\ [Next]_vars => [Release]_vars
  <2> SUFFICES ASSUME FreshInv, [Next]_vars PROVE Release
    OBVIOUS
  <2>1. separate_active \in Nat
    BY SizeAssumption DEF FreshInv, SlotInv, TypeOK
  <2>2. CASE UNCHANGED <<server, next_mid>>
    BY <2>1, <2>2 DEF server
  <2>3. CASE \E m \in network : SeparateAccept(m)
    BY <2>1, <2>3 DEF SeparateAccept, AcceptInto
  <2>4. CASE \E n \in 0 .. Observers : ButtonAnswers(n)
    <3>1. responded' = responded \cup {Last(open)} /\ Last(open) \notin responded
      BY <2>4, AnswerStep, FreshAnswer DEF FreshInv
    <3>2. separate_active = 1 => Last(open) = open[1]
      <4>1. open \in Seq(Metadata) /\ separate_active = Len(open)
        BY DEF FreshInv, SlotInv, TypeOK, SlotHoldsLatest
      <4> QED BY ONLY <4>1 DEF Last
    <3> QED BY <3>1, <3>2
  <2> QED BY <2>2, <2>3, <2>4, StepCases DEF FreshInv
<1> QED BY <1>1, InitFreshInv, FreshInvStep, PTL DEF Spec, ReleaseAnswers

-----------------------------------------------------------------------------
(* The server implements the mailbox that answers only its newest entry.   *)

THEOREM MailboxImplemented == Spec => ImplementsMailbox
<1>1. Init => Mailbox!Init
  BY DEF Init, Mailbox!Init
<1>2. FreshInv /\ [Next]_vars => [Mailbox!Next]_(Mailbox!vars)
  <2> SUFFICES ASSUME FreshInv, [Next]_vars PROVE [Mailbox!Next]_(Mailbox!vars)
    OBVIOUS
  <2>1. CASE UNCHANGED <<server, next_mid>>
    BY <2>1 DEF server, Mailbox!vars
  <2>2. CASE \E m \in network : SeparateAccept(m)
    <3>1. Len(open) < COAP_MAX_OPEN_SEPARATE
      BY <2>2 DEF SeparateAccept, FreshInv, SlotInv, SlotHoldsLatest
    <3>2. Mailbox!Accept
      BY <2>2, <3>1, FreshAccept 
         DEF Mailbox!Accept, Mailbox!Front, Front, Mailbox!Last, Last, Mailbox!ToSet, ToSet
    <3> QED BY <3>2 DEF Mailbox!Next
  <2>3. CASE \E n \in 0 .. Observers : ButtonAnswers(n)
    <3>1. /\ open # <<>> /\ responded' = responded \cup {Last(open)} /\ open' = <<>>
      BY <2>3, AnswerStep DEF FreshInv, SlotInv, SlotHoldsLatest
    <3>2. Mailbox!Answer
      BY <3>1 DEF Mailbox!Answer, Mailbox!Last, Last
    <3> QED BY <3>2 DEF Mailbox!Next
  <2> QED BY <2>1, <2>2, <2>3, StepCases DEF FreshInv
<1> QED BY <1>1, <1>2, InitFreshInv, FreshInvStep, PTL
        DEF Spec, ImplementsMailbox, Mailbox!Spec

-----------------------------------------------------------------------------
(* A client that was told to wait waits in vain only when every copy of its *)
(* response was lost.                                                       *)

\* A client that takes no more answers.
Ended(r) == client[r] \in {"answered", "refused", "failed"}

AckOnWire(r) == \E m \in network : m.kind = "ack" /\ m.req = r

\* Copies 0 to n of the response to exchange x that are not under way.
Missing(x, n) == {k \in 0 .. n : Content(x, k) \notin network}

\* Whoever was acknowledged, or is about to learn it, has an exchange.
PromiseInv ==
  \A r \in Confirmable :
    client[r] = "acked" \/ AckOnWire(r) =>
      \/ \E i \in DOMAIN open : open[i].req = r
      \/ Abandoned(r)
      \/ \E md \in responded : md.req = r

\* A message id names one exchange and one transaction.
MidInv ==
  /\ \A i \in DOMAIN open : \A md \in responded : md.mid # open[i].mid
  /\ \A md1, md2 \in responded : md1.mid = md2.mid => md1 = md2
  /\ \A t \in transactions : [req |-> t.req, mid |-> t.mid] \in responded
  /\ \A t1, t2 \in transactions : t1.mid = t2.mid => t1 = t2

\* What the server has of a client comes from a request.
StartedInv ==
  /\ \A m \in network : m.kind = "get" => client[m.req] # "idle"
  /\ \A i \in DOMAIN open : client[open[i].req] # "idle"
  /\ \A md \in responded : client[md.req] # "idle"

\* Responses belong to answered exchanges, and their acknowledgements to clients
\* that took one.
ContentInv ==
  \A m \in network :
    /\ m.kind = "content" => [req |-> m.req, mid |-> m.mid] \in responded
    /\ m.kind = "contentAck" => \E md \in responded : md.mid = m.mid /\ Ended(md.req)

\* A copy that was sent, is not under way and was not taken is lost.
LossInv ==
  /\ \A t \in transactions : ~Ended(t.req) => Cardinality(Missing(t, t.copy)) <= losses
  /\ \A md \in responded :
       md.req \in Confirmable /\ ~Ended(md.req) /\ (\A t \in transactions : t.mid # md.mid) =>
         Cardinality(Missing(md, MaxResponseRetransmit)) <= losses

SilenceInv ==
  FreshInv /\ PromiseInv /\ MidInv /\ StartedInv /\ ContentInv /\ LossInv

LEMMA InitSilenceInv == Init => SilenceInv
<1> SUFFICES ASSUME Init PROVE SilenceInv
  OBVIOUS
<1>1. network = {} /\ transactions = {} /\ responded = {} /\ DOMAIN open = {}
      /\ \A r \in Confirmable : client[r] = "idle"
  BY ReqAssumption DEF Init
<1> QED BY <1>1, InitFreshInv
        DEF SilenceInv, PromiseInv, AckOnWire, MidInv, StartedInv, ContentInv, LossInv

LEMMA SubsetFacts ==
  ASSUME NEW n \in Nat, NEW A \in SUBSET (0 .. n), NEW B \in SUBSET A
  PROVE  Cardinality(A) \in Nat /\ Cardinality(B) \in Nat /\ Cardinality(B) <= Cardinality(A)
<1>1. IsFiniteSet(0 .. n)
  BY FS_Interval
<1>2. IsFiniteSet(A)
  BY <1>1, FS_Subset
<1>3. IsFiniteSet(B) /\ Cardinality(B) <= Cardinality(A)
  BY <1>2, FS_Subset
<1> QED BY <1>2, <1>3, FS_CardinalityType

\* Nothing of exchange x is missing that was not missing before.
LEMMA MissingFewer ==
  ASSUME NEW x, NEW n \in Nat,
         \A k \in 0 .. n : Content(x, k) \in network => Content(x, k) \in network'
  PROVE  /\ Cardinality(Missing(x, n)) \in Nat /\ Cardinality(Missing(x, n)') \in Nat
         /\ Cardinality(Missing(x, n)') <= Cardinality(Missing(x, n))
<1>1. /\ Missing(x, n) \in SUBSET (0 .. n)
      /\ Missing(x, n)' \in SUBSET Missing(x, n)
  BY DEF Missing, Content
<1> QED BY ONLY <1>1, n \in Nat, SubsetFacts

\* An element more makes a finite set larger by one at most.
LEMMA AddFacts ==
  ASSUME NEW S, NEW x, IsFiniteSet(S), Cardinality(S) \in Nat
  PROVE  IsFiniteSet(S \cup {x}) /\ Cardinality(S \cup {x}) <= Cardinality(S) + 1
BY FS_AddElement

\* One message less, one copy more is missing at most.
LEMMA MissingOneMore ==
  ASSUME NEW x, NEW n \in Nat, NEW m, network' = network \ {m}
  PROVE  /\ Cardinality(Missing(x, n)) \in Nat /\ Cardinality(Missing(x, n)') \in Nat
         /\ Cardinality(Missing(x, n)') <= Cardinality(Missing(x, n)) + 1
<1>1. Missing(x, n)' \subseteq Missing(x, n) \cup {m.copy}
  BY DEF Missing, Content
<1>2. IsFiniteSet(Missing(x, n)) /\ Cardinality(Missing(x, n)) \in Nat
  <2>1. IsFiniteSet(0 .. n) /\ Missing(x, n) \in SUBSET (0 .. n)
    BY FS_Interval DEF Missing
  <2>2. IsFiniteSet(Missing(x, n))
    BY <2>1, FS_Subset
  <2> QED BY <2>2, FS_CardinalityType
<1>3. /\ IsFiniteSet(Missing(x, n) \cup {m.copy})
      /\ Cardinality(Missing(x, n) \cup {m.copy}) <= Cardinality(Missing(x, n)) + 1
  BY ONLY <1>2, AddFacts
<1>4. /\ IsFiniteSet(Missing(x, n)')
      /\ Cardinality(Missing(x, n)') <= Cardinality(Missing(x, n) \cup {m.copy})
  BY <1>1, <1>3, FS_Subset
<1>5. Cardinality(Missing(x, n)') \in Nat /\ Cardinality(Missing(x, n) \cup {m.copy}) \in Nat
  BY <1>3, <1>4, FS_CardinalityType
<1> QED BY <1>2, <1>3, <1>4, <1>5

\* What the types say of messages, exchanges and transactions.
LEMMA SilenceTypes ==
  ASSUME FreshInv
  PROVE  /\ network \subseteq Message /\ responded \subseteq Metadata
         /\ \A m \in network : m.kind \in {"get", "ack", "unavailable", "content"} => m.req \in Req
         /\ \A md \in responded : md.req \in Req /\ md.mid \in Nat
         /\ \A i \in DOMAIN open : open[i] \in Metadata /\ open[i].req \in Req
         /\ \A t \in transactions :
              t.req \in Confirmable /\ t.req \in Req /\ t.mid \in Nat /\ t.copy \in Nat
         /\ losses \in Nat /\ MaxResponseRetransmit \in Nat /\ client \in [Req -> Phase]
<1> USE ReqAssumption, BoundAssumption DEF FreshInv, SlotInv, TypeOK
<1>1. \A m \in network : m.kind \in {"get", "ack", "unavailable", "content"} => m.req \in Req
  BY DEF Message
<1>2. \A md \in responded : md.req \in Req /\ md.mid \in Nat
  BY DEF Metadata
<1>3. \A i \in DOMAIN open : open[i] \in Metadata /\ open[i].req \in Req
  <2>1. open \in Seq(Metadata)
    OBVIOUS
  <2>2. \A i \in DOMAIN open : open[i] \in Metadata
    BY ONLY <2>1
  <2> QED BY <2>2 DEF Metadata
<1>4. \A t \in transactions :
        t.req \in Confirmable /\ t.req \in Req /\ t.mid \in Nat /\ t.copy \in Nat
  BY DEF Transaction
<1>5. losses \in Nat
  OBVIOUS
<1> QED BY <1>1, <1>2, <1>3, <1>4, <1>5

\* No copy is lost when one only leaves the network for a client that takes it.
LEMMA LossKept ==
  ASSUME SilenceInv, UNCHANGED <<responded, transactions, losses>>,
         \A r \in Req : Ended(r) => Ended(r)',
         \A m \in network : m.kind = "content" => m \in network' \/ Ended(m.req)'
  PROVE  LossInv'
<1>0. FreshInv /\ LossInv
  BY DEF SilenceInv
<1>1. ASSUME NEW x, NEW n \in Nat, ~Ended(x.req)'
      PROVE  Cardinality(Missing(x, n)') <= Cardinality(Missing(x, n))
             /\ Cardinality(Missing(x, n)) \in Nat /\ Cardinality(Missing(x, n)') \in Nat
  <2>1. \A k \in 0 .. n : Content(x, k) \in network => Content(x, k) \in network'
    BY <1>1 DEF Content
  <2> QED BY <2>1, MissingFewer
<1>2. ASSUME NEW t \in transactions, ~Ended(t.req)' PROVE Cardinality(Missing(t, t.copy)') <= losses
  <2>1. ~Ended(t.req) /\ t.copy \in Nat /\ losses \in Nat
    BY <1>0, <1>2, SilenceTypes
  <2> QED BY <1>1, <1>2, <2>1, <1>0 DEF LossInv
<1>3. ASSUME NEW md \in responded, md.req \in Confirmable, ~Ended(md.req)',
             \A t \in transactions : t.mid # md.mid
      PROVE  Cardinality(Missing(md, MaxResponseRetransmit)') <= losses
  <2>1. ~Ended(md.req) /\ losses \in Nat /\ MaxResponseRetransmit \in Nat
    BY <1>0, <1>3, SilenceTypes
  <2>2. Cardinality(Missing(md, MaxResponseRetransmit)) <= losses
    BY <1>3, <2>1, <1>0 DEF LossInv
  <2> QED BY <1>1, <1>3, <2>1, <2>2
<1> QED BY <1>2, <1>3, <1>0 DEF LossInv

\* A step that leaves the resource and its transactions alone, and sends no
\* response, acknowledges nothing and moves clients only onwards.
LEMMA CalmStep ==
  ASSUME SilenceInv, FreshInv', UNCHANGED <<server, transactions, losses>>,
         \A r \in Req : /\ client'[r] = "idle" => client[r] = "idle"
                        /\ Ended(r) => Ended(r)'
                        /\ client'[r] = "acked" => client[r] = "acked" \/ AckOnWire(r),
         \A m \in network' \ network :
           m.kind \in {"get", "unavailable"} /\ client'[m.req] # "idle",
         \A m \in network : m.kind = "content" => m \in network'
  PROVE  SilenceInv'
<1>0. FreshInv /\ PromiseInv /\ MidInv /\ StartedInv /\ ContentInv /\ LossInv
      /\ UNCHANGED <<open, responded, abandoned>>
  BY DEF SilenceInv, server
<1>1. PromiseInv'
  <2> SUFFICES ASSUME NEW r \in Confirmable, client'[r] = "acked" \/ AckOnWire(r)'
               PROVE  (\/ \E i \in DOMAIN open : open[i].req = r
                       \/ Abandoned(r)
                       \/ \E md \in responded : md.req = r)'
    BY DEF PromiseInv
  <2>1. client[r] = "acked" \/ AckOnWire(r)
    BY ReqAssumption DEF AckOnWire
  <2> QED BY <2>1, <1>0 DEF PromiseInv, Abandoned
<1>2. MidInv'
  BY <1>0 DEF MidInv
<1>3. StartedInv'
  BY <1>0, SilenceTypes DEF StartedInv
<1>4. ContentInv'
  BY <1>0, SilenceTypes DEF ContentInv
<1>5. LossInv'
  BY <1>0, LossKept DEF server
<1> QED BY <1>1, <1>2, <1>3, <1>4, <1>5 DEF SilenceInv

LEMMA SilenceClient ==
  ASSUME SilenceInv, FreshInv', NEW r \in Req, SendRequest(r) \/ RetransmitRequest(r) \/ GiveUp(r)
  PROVE  SilenceInv'
<1> USE SilenceTypes DEF SilenceInv, Ended, server, engine, clients, Get
<1>1. CASE SendRequest(r)
  BY <1>1, CalmStep DEF SendRequest
<1>2. CASE RetransmitRequest(r)
  BY <1>2, CalmStep DEF RetransmitRequest
<1>3. CASE GiveUp(r)
  BY <1>3, CalmStep DEF GiveUp
<1> QED BY <1>1, <1>2, <1>3

\* Datagrams that end at a client or are refused, and what only other resources
\* notice.
LEMMA SilenceOther ==
  ASSUME SilenceInv, FreshInv',
         \/ \E m \in network : \/ ReceiveAck(m) \/ ReceiveUnavailable(m)
                               \/ NoFreeTransaction(m) \/ SeparateReject(m)
         \/ \E n \in 0 .. Observers : ButtonWaits(n)
         \/ OtherOpens \/ OtherCloses
  PROVE  SilenceInv'
<1> USE SilenceTypes DEF SilenceInv, Ended, server, engine, clients
<1>1. ASSUME NEW m \in network, ReceiveAck(m) PROVE SilenceInv'
  BY <1>1, CalmStep DEF ReceiveAck, AckOnWire
<1>2. ASSUME NEW m \in network, ReceiveUnavailable(m) PROVE SilenceInv'
  BY <1>2, CalmStep DEF ReceiveUnavailable
<1>3. ASSUME NEW m \in network, NoFreeTransaction(m) \/ SeparateReject(m) PROVE SilenceInv'
  <2>1. m.kind = "get" /\ client[m.req] # "idle" /\ network' = (network \ {m}) \cup {Unavailable(m)}
        /\ UNCHANGED <<server, engine, clients, losses>>
    BY <1>3 DEF NoFreeTransaction, SeparateReject, StartedInv
  <2> QED BY <2>1, CalmStep DEF Unavailable
<1>4. ASSUME NEW n \in 0 .. Observers, ButtonWaits(n) PROVE SilenceInv'
  BY <1>4, CalmStep DEF ButtonWaits
<1>5. CASE OtherOpens \/ OtherCloses
  BY <1>5, CalmStep DEF OtherOpens, OtherCloses
<1> QED BY <1>1, <1>2, <1>3, <1>4, <1>5

\* The acknowledgement a client gets has an exchange behind it.
LEMMA SilenceAccept ==
  ASSUME SilenceInv, FreshInv', NEW m \in network, SeparateAccept(m)
  PROVE  SilenceInv'
<1> DEFINE md == [req |-> m.req, mid |-> next_mid]
<1>0. FreshInv /\ PromiseInv /\ MidInv /\ StartedInv /\ ContentInv /\ LossInv
  BY DEF SilenceInv
<1>1. /\ m.kind = "get" /\ m.req \in Req /\ client[m.req] # "idle"
      /\ open \in Seq(Metadata) /\ md \in Metadata
      /\ \A x \in responded : x.mid \in Nat /\ x.mid < next_mid
  BY <1>0, SilenceTypes
     DEF SeparateAccept, AcceptInto, StartedInv, FreshInv, SlotInv, TypeOK, Metadata
<1>2. /\ open' = Append(open, md)
      /\ network' = (network \ {m}) \cup (IF m.req \in Confirmable THEN {Ack(m)} ELSE {})
      /\ UNCHANGED <<responded, abandoned, transactions, losses, client>>
  BY DEF SeparateAccept, AcceptInto, clients
<1>3. /\ \A i \in DOMAIN open : i \in DOMAIN open' /\ open'[i] = open[i]
      /\ Len(open) + 1 \in DOMAIN open' /\ open'[Len(open) + 1] = md
      /\ \A i \in DOMAIN open' : i \in DOMAIN open \/ open'[i] = md
  BY ONLY <1>1, <1>2
<1>4. PromiseInv'
  <2> SUFFICES ASSUME NEW r \in Confirmable, client'[r] = "acked" \/ AckOnWire(r)'
               PROVE  (\/ \E i \in DOMAIN open : open[i].req = r
                       \/ Abandoned(r)
                       \/ \E x \in responded : x.req = r)'
    BY DEF PromiseInv
  <2>1. CASE r = m.req
    BY <2>1, <1>3
  <2>2. CASE r # m.req
    <3>1. client[r] = "acked" \/ AckOnWire(r)
      BY <2>2, <1>2 DEF AckOnWire, Ack
    <3> QED BY <3>1, <1>0, <1>2, <1>3 DEF PromiseInv, Abandoned
  <2> QED BY <2>1, <2>2
<1>5. MidInv'
  <2>1. \A i \in DOMAIN open' : \A x \in responded : x.mid # open'[i].mid
    BY <1>0, <1>1, <1>3 DEF MidInv
  <2> QED BY <2>1, <1>0, <1>2 DEF MidInv
<1>6. StartedInv'
  BY <1>0, <1>1, <1>2, <1>3 DEF StartedInv, Ack
<1>7. ContentInv'
  <2>1. \A x \in network' : x.kind \in {"content", "contentAck"} => x \in network
    BY <1>2 DEF Ack
  <2> QED BY <2>1, <1>0, <1>2 DEF ContentInv, Ended
<1>8. LossInv'
  BY <1>1, <1>2, LossKept DEF Ended
<1> QED BY <1>4, <1>5, <1>6, <1>7, <1>8 DEF SilenceInv

\* A client that gets a response takes it or has stopped waiting.
LEMMA SilenceReceive ==
  ASSUME SilenceInv, FreshInv', NEW m \in network, ReceiveContent(m)
  PROVE  SilenceInv'
<1>0. FreshInv /\ PromiseInv /\ MidInv /\ StartedInv /\ ContentInv /\ LossInv
  BY DEF SilenceInv
<1>1. /\ m.kind = "content" /\ m.req \in Req /\ client \in [Req -> Phase]
      /\ client[m.req] # "idle" /\ [req |-> m.req, mid |-> m.mid] \in responded
  <2>1. m.kind = "content" /\ [req |-> m.req, mid |-> m.mid] \in responded
    BY <1>0 DEF ReceiveContent, ContentInv
  <2>2. m.req \in Req /\ client \in [Req -> Phase]
    BY <1>0, <2>1, SilenceTypes
  <2> QED BY <2>1, <2>2, <1>0 DEF StartedInv
<1>2. /\ client' = [client EXCEPT ![m.req] = IF @ \in {"waiting", "acked"} THEN "answered" ELSE @]
      /\ network' = (network \ {m}) \cup (IF m.req \in Confirmable THEN {ContentAck(m)} ELSE {})
      /\ UNCHANGED <<open, responded, abandoned, transactions, losses>>
  BY DEF ReceiveContent, server, engine
<1>3. Ended(m.req)' /\ \A r \in Req : /\ client'[r] = "idle" => client[r] = "idle"
                                      /\ client'[r] = "acked" => client[r] = "acked"
                                      /\ Ended(r) => Ended(r)'
  BY <1>1, <1>2 DEF Ended, Phase
<1>4. PromiseInv'
  <2> SUFFICES ASSUME NEW r \in Confirmable, client'[r] = "acked" \/ AckOnWire(r)'
               PROVE  (\/ \E i \in DOMAIN open : open[i].req = r
                       \/ Abandoned(r)
                       \/ \E x \in responded : x.req = r)'
    BY DEF PromiseInv
  <2>1. client[r] = "acked" \/ AckOnWire(r)
    BY <1>2, <1>3, ReqAssumption DEF AckOnWire, ContentAck
  <2> QED BY <2>1, <1>0, <1>2 DEF PromiseInv, Abandoned
<1>5. MidInv'
  BY <1>0, <1>2 DEF MidInv
<1>6. StartedInv'
  BY <1>0, <1>2, <1>3, SilenceTypes DEF StartedInv, ContentAck
<1>7. ContentInv'
  <2>1. ASSUME NEW x \in network', x.kind = "contentAck"
        PROVE  \E md \in responded : md.mid = x.mid /\ Ended(md.req)'
    <3>1. CASE x \in network
      <4>1. PICK md \in responded : md.mid = x.mid /\ Ended(md.req)
        BY <3>1, <2>1, <1>0 DEF ContentInv
      <4> QED BY <4>1, <1>0, <1>3, SilenceTypes
    <3>2. CASE x = ContentAck(m)
      BY <3>2, <1>1, <1>3 DEF ContentAck
    <3> QED BY <3>1, <3>2, <1>2
  <2>2. ASSUME NEW x \in network', x.kind = "content"
        PROVE  [req |-> x.req, mid |-> x.mid] \in responded
    BY <2>2, <1>0, <1>2 DEF ContentInv, ContentAck
  <2> QED BY <2>1, <2>2, <1>2 DEF ContentInv
<1>8. LossInv'
  BY <1>1, <1>2, <1>3, LossKept
<1> QED BY <1>4, <1>5, <1>6, <1>7, <1>8 DEF SilenceInv

\* The response takes the place of the exchange it answers.
LEMMA SilenceAnswer ==
  ASSUME SilenceInv, FreshInv', NEW n \in 0 .. Observers, ButtonAnswers(n)
  PROVE  SilenceInv'
<1>0. FreshInv /\ PromiseInv /\ MidInv /\ StartedInv /\ ContentInv /\ LossInv
  BY DEF SilenceInv
<1>1. PICK md : md = Last(open)
  OBVIOUS
<1>2. /\ md \in Metadata /\ md.req \in Req /\ md.mid \in Nat /\ Len(open) \in DOMAIN open
      /\ md = open[Len(open)] /\ separate_store[0] = md /\ open' = <<>>
      /\ responded' = responded \cup {md} /\ open \in Seq(Metadata)
  <2>1. SlotInv /\ open \in Seq(Metadata)
    BY <1>0 DEF FreshInv, SlotInv, TypeOK
  <2>2. /\ separate_active > 0 /\ separate_store[0] = md /\ md \in Metadata
        /\ responded' = responded \cup {md} /\ open' = <<>>
    BY <1>1, <2>1, AnswerStep
  <2>3. Len(open) > 0
    BY <2>1, <2>2 DEF SlotInv, SlotHoldsLatest
  <2>4. Len(open) \in DOMAIN open /\ md = open[Len(open)]
    BY <1>1, <2>1, <2>3, LastFacts
  <2> QED BY <2>1, <2>2, <2>4 DEF Metadata
<1>3. /\ network' = network \cup {Content(md, 0)}
      /\ abandoned' = abandoned \cup (ToSet(Front(open)) \ {})
      /\ UNCHANGED <<losses, client>>
      /\ transactions' = IF md.req \in Confirmable
                           THEN transactions \cup {[req |-> md.req, mid |-> md.mid, copy |-> 0]}
                           ELSE transactions
  BY <1>2 DEF ButtonAnswers, ResumeLeaving, clients, ToSet
<1>4. \A x \in responded : x.mid # md.mid
  BY <1>0, <1>2 DEF MidInv
<1>5. \A i \in DOMAIN open : open[i] = md \/ open[i] \in abandoned'
  <2>1. \A i \in DOMAIN open : open[i] = md \/ open[i] \in ToSet(Front(open))
    <3>1. ASSUME NEW i \in DOMAIN open, i # Len(open) PROVE open[i] \in ToSet(Front(open))
      <4>1. open \in Seq(Metadata) /\ i \in 1 .. Len(open) - 1
        BY <1>2, <3>1
      <4>2. i \in DOMAIN Front(open) /\ Front(open)[i] = open[i]
        BY ONLY <4>1 DEF Front
      <4> QED BY <4>2 DEF ToSet
    <3> QED BY <3>1, <1>2
  <2> QED BY <2>1, <1>3
<1>6. PromiseInv'
  <2> SUFFICES ASSUME NEW r \in Confirmable, client'[r] = "acked" \/ AckOnWire(r)'
               PROVE  Abandoned(r)' \/ \E x \in responded' : x.req = r
    BY DEF PromiseInv
  <2>1. client[r] = "acked" \/ AckOnWire(r)
    BY <1>3 DEF AckOnWire, Content
  <2>2. CASE \E i \in DOMAIN open : open[i].req = r
    BY <2>2, <1>2, <1>5 DEF Abandoned
  <2>3. CASE Abandoned(r) \/ \E x \in responded : x.req = r
    BY <2>3, <1>2, <1>3 DEF Abandoned
  <2> QED BY <2>1, <2>2, <2>3, <1>0 DEF PromiseInv
<1>7. MidInv'
  <2>1. \A t \in transactions : t.mid # md.mid
    BY <1>0, <1>4 DEF MidInv
  <2>2. md = [req |-> md.req, mid |-> md.mid]
    BY <1>2 DEF Metadata
  <2>3. DOMAIN open' = {}
    BY <1>2
  <2> QED BY <2>1, <2>2, <2>3, <1>0, <1>2, <1>3, <1>4 DEF MidInv
<1>8. StartedInv'
  <2>1. DOMAIN open' = {}
    BY <1>2
  <2> QED BY <2>1, <1>0, <1>2, <1>3 DEF StartedInv, Content
<1>9. ContentInv'
  <2>1. \A x \in network' : x \in network \/ x = Content(md, 0)
    BY <1>3
  <2>2. [req |-> Content(md, 0).req, mid |-> Content(md, 0).mid] = md
        /\ Content(md, 0).kind = "content"
    BY <1>2 DEF Content, Metadata
  <2> QED BY <2>1, <2>2, <1>0, <1>2, <1>3 DEF ContentInv, Ended
<1>10. LossInv'
  <2>1. ASSUME NEW x, NEW k \in Nat
        PROVE  Cardinality(Missing(x, k)') <= Cardinality(Missing(x, k))
               /\ Cardinality(Missing(x, k)) \in Nat /\ Cardinality(Missing(x, k)') \in Nat
    BY <1>3, MissingFewer
  <2>2. ASSUME NEW t \in transactions', ~Ended(t.req)'
        PROVE  Cardinality(Missing(t, t.copy)') <= losses'
    <3>1. CASE t \in transactions
      <4>1. ~Ended(t.req) /\ t.copy \in Nat /\ losses \in Nat
        BY <3>1, <1>0, <1>3, <2>2, SilenceTypes DEF Ended
      <4> QED BY <2>1, <3>1, <4>1, <1>0, <1>3 DEF LossInv
    <3>2. CASE t = [req |-> md.req, mid |-> md.mid, copy |-> 0]
      <4>1. Content(t, 0) \in network' /\ t.copy = 0
        BY <3>2, <1>3 DEF Content
      <4>2. Missing(t, t.copy)' = {}
        BY <4>1 DEF Missing
      <4> QED BY <4>2, <1>0, <1>3, FS_EmptySet, SilenceTypes
    <3> QED BY <3>1, <3>2, <1>3
  <2>3. ASSUME NEW x \in responded', x.req \in Confirmable, ~Ended(x.req)',
               \A t \in transactions' : t.mid # x.mid
        PROVE  Cardinality(Missing(x, MaxResponseRetransmit)') <= losses'
    <3>1. x # md
      <4>1. md.req \in Confirmable =>
              [req |-> md.req, mid |-> md.mid, copy |-> 0] \in transactions'
        BY <1>3
      <4> QED BY <4>1, <2>3
    <3>2. x \in responded /\ ~Ended(x.req) /\ \A t \in transactions : t.mid # x.mid
      BY <2>3, <3>1, <1>2, <1>3 DEF Ended
    <3>3. Cardinality(Missing(x, MaxResponseRetransmit)) <= losses
      BY <3>2, <2>3, <1>0 DEF LossInv
    <3> QED BY <3>3, <2>1, <1>0, <1>3, SilenceTypes
  <2> QED BY <2>2, <2>3 DEF LossInv
<1> QED BY <1>6, <1>7, <1>8, <1>9, <1>10 DEF SilenceInv

\* A repetition is under way; the set of copies that are missing does not grow.
LEMMA SilenceRetransmit ==
  ASSUME SilenceInv, FreshInv', NEW t \in transactions, RetransmitContent(t)
  PROVE  SilenceInv'
<1> DEFINE u == [t EXCEPT !.copy = @ + 1]
<1>0. FreshInv /\ PromiseInv /\ MidInv /\ StartedInv /\ ContentInv /\ LossInv
  BY DEF SilenceInv
<1>1. /\ t \in Transaction /\ t.copy \in Nat /\ u.req = t.req /\ u.mid = t.mid
      /\ u.copy = t.copy + 1
  <2>1. t \in Transaction
    BY <1>0 DEF FreshInv, SlotInv, TypeOK
  <2> QED BY ONLY <2>1 DEF Transaction
<1>2. /\ transactions' = (transactions \ {t}) \cup {u}
      /\ network' = network \cup {Content(t, t.copy + 1)}
      /\ UNCHANGED <<open, responded, abandoned, losses, client>>
  BY DEF RetransmitContent, server, clients
<1> HIDE DEF u
<1>3. PromiseInv'
  <2>1. \A r : AckOnWire(r)' => AckOnWire(r)
    BY <1>2 DEF AckOnWire, Content
  <2> QED BY <2>1, <1>0, <1>2 DEF PromiseInv, Abandoned
<1>4. MidInv'
  BY <1>0, <1>1, <1>2 DEF MidInv
<1>5. StartedInv'
  BY <1>0, <1>2 DEF StartedInv, Content
<1>6. ContentInv'
  <2>1. \A x \in network' : x \in network \/ x = Content(t, t.copy + 1)
    BY <1>2
  <2>2. /\ [req |-> Content(t, t.copy + 1).req, mid |-> Content(t, t.copy + 1).mid] \in responded
        /\ Content(t, t.copy + 1).kind = "content"
    BY <1>0 DEF Content, MidInv
  <2> QED BY <2>1, <2>2, <1>0, <1>2 DEF ContentInv, Ended
<1>7. LossInv'
  <2>1. ASSUME NEW x, NEW k \in Nat
        PROVE  Cardinality(Missing(x, k)') <= Cardinality(Missing(x, k))
               /\ Cardinality(Missing(x, k)) \in Nat /\ Cardinality(Missing(x, k)') \in Nat
    BY <1>2, MissingFewer
  <2>2. ASSUME NEW x \in transactions', ~Ended(x.req)'
        PROVE  Cardinality(Missing(x, x.copy)') <= losses'
    <3>1. CASE x \in transactions
      <4>1. ~Ended(x.req) /\ x.copy \in Nat /\ losses \in Nat
        BY <3>1, <1>0, <1>2, <2>2, SilenceTypes DEF Ended
      <4> QED BY <2>1, <3>1, <4>1, <1>0, <1>2 DEF LossInv
    <3>2. CASE x = u
      <4>1. \A k : Content(x, k) = Content(t, k)
        BY <3>2, <1>1 DEF Content
      <4>2. Missing(x, x.copy)' = Missing(t, t.copy)'
        <5>1. x.copy = t.copy + 1 /\ Content(x, x.copy) \in network'
          BY <3>2, <1>1, <1>2, <4>1
        <5> QED BY <5>1, <4>1, <1>1 DEF Missing
      <4>3. ~Ended(t.req) /\ losses \in Nat
        BY <3>2, <1>0, <1>1, <1>2, <2>2, SilenceTypes DEF Ended
      <4>4. Cardinality(Missing(t, t.copy)) <= losses
        BY <4>3, <1>0 DEF LossInv
      <4> QED BY <4>2, <4>3, <4>4, <2>1, <1>1, <1>2
    <3> QED BY <3>1, <3>2, <1>2
  <2>3. ASSUME NEW x \in responded', x.req \in Confirmable, ~Ended(x.req)',
               \A y \in transactions' : y.mid # x.mid
        PROVE  Cardinality(Missing(x, MaxResponseRetransmit)') <= losses'
    <3>1. x \in responded /\ ~Ended(x.req) /\ \A y \in transactions : y.mid # x.mid
      BY <2>3, <1>1, <1>2 DEF Ended
    <3>2. Cardinality(Missing(x, MaxResponseRetransmit)) <= losses
      BY <3>1, <2>3, <1>0 DEF LossInv
    <3> QED BY <3>2, <2>1, <1>0, <1>2, SilenceTypes
  <2> QED BY <2>2, <2>3 DEF LossInv
<1> QED BY <1>3, <1>4, <1>5, <1>6, <1>7 DEF SilenceInv

\* Only the count of lost copies can suffer from what disappears.
LEMMA SilenceFewer ==
  ASSUME SilenceInv, FreshInv', transactions' \subseteq transactions, network' \subseteq network,
         UNCHANGED <<open, responded, abandoned, client>>, LossInv'
  PROVE  SilenceInv'
<1>0. PromiseInv /\ MidInv /\ StartedInv /\ ContentInv
  BY DEF SilenceInv
<1>1. PromiseInv'
  <2>1. \A r : AckOnWire(r)' => AckOnWire(r)
    BY DEF AckOnWire
  <2> QED BY <2>1, <1>0 DEF PromiseInv, Abandoned
<1>2. MidInv'
  BY <1>0 DEF MidInv
<1>3. StartedInv'
  BY <1>0 DEF StartedInv
<1>4. ContentInv'
  BY <1>0 DEF ContentInv, Ended
<1> QED BY <1>1, <1>2, <1>3, <1>4 DEF SilenceInv

\* A transaction ends when every copy was sent, or when the client has a copy.
LEMMA SilenceEnd ==
  ASSUME SilenceInv, FreshInv',
         \/ \E t \in transactions : ExpireContent(t)
         \/ \E m \in network : ReceiveContentAck(m)
  PROVE  SilenceInv'
<1>0. FreshInv /\ MidInv /\ ContentInv /\ LossInv
  BY DEF SilenceInv
<1>1. ASSUME NEW x, NEW k \in Nat, \A m \in network : m.kind = "content" => m \in network'
      PROVE  Cardinality(Missing(x, k)') <= Cardinality(Missing(x, k))
             /\ Cardinality(Missing(x, k)) \in Nat /\ Cardinality(Missing(x, k)') \in Nat
  <2>1. \A j \in 0 .. k : Content(x, j) \in network => Content(x, j) \in network'
    BY <1>1 DEF Content
  <2> QED BY <2>1, MissingFewer
<1>2. ASSUME NEW t \in transactions, ExpireContent(t) PROVE SilenceInv'
  <2>1. /\ transactions' = transactions \ {t} /\ t.copy = MaxResponseRetransmit
        /\ UNCHANGED <<open, responded, abandoned, client, losses, network>>
    BY <1>2 DEF ExpireContent, server, clients
  <2>2. ASSUME NEW md \in responded, md.req \in Confirmable, ~Ended(md.req),
               \A u \in transactions' : u.mid # md.mid
        PROVE  Cardinality(Missing(md, MaxResponseRetransmit)) <= losses
    <3>1. CASE t.mid = md.mid
      <4>1. t.req = md.req
        <5>1. [req |-> t.req, mid |-> t.mid] = md
          BY <3>1, <1>0 DEF MidInv
        <5> QED BY <5>1
      <4>2. Missing(t, t.copy) = Missing(md, MaxResponseRetransmit)
        BY <3>1, <4>1, <2>1 DEF Missing, Content
      <4> QED BY <4>1, <4>2, <2>2, <1>0 DEF LossInv
    <3>2. CASE t.mid # md.mid
      BY <3>2, <2>1, <2>2, <1>0 DEF LossInv
    <3> QED BY <3>1, <3>2
  <2>3. LossInv'
    BY <2>1, <2>2, <1>0 DEF LossInv, Ended, Missing
  <2> QED BY <2>1, <2>3, SilenceFewer
<1>3. ASSUME NEW m \in network, ReceiveContentAck(m) PROVE SilenceInv'
  <2>1. /\ m.kind = "contentAck" /\ network' = network \ {m}
        /\ transactions' = {t \in transactions : t.mid # m.mid}
        /\ UNCHANGED <<open, responded, abandoned, client, losses>>
    BY <1>3 DEF ReceiveContentAck, server, clients
  <2>2. PICK acked \in responded : acked.mid = m.mid /\ Ended(acked.req)
    BY <2>1, <1>0 DEF ContentInv
  <2>3. ASSUME NEW t \in transactions', ~Ended(t.req)'
        PROVE  Cardinality(Missing(t, t.copy)') <= losses'
    <3>1. t \in transactions /\ ~Ended(t.req) /\ t.copy \in Nat /\ losses \in Nat
      BY <2>1, <2>3, <1>0, SilenceTypes DEF Ended
    <3> QED BY <3>1, <2>1, <1>0, <1>1 DEF LossInv
  <2>4. ASSUME NEW md \in responded, md.req \in Confirmable, ~Ended(md.req),
               \A t \in transactions' : t.mid # md.mid
        PROVE  Cardinality(Missing(md, MaxResponseRetransmit)') <= losses'
    <3>1. md.mid # m.mid
      BY <2>2, <2>4, <1>0 DEF MidInv
    <3>2. \A t \in transactions : t.mid # md.mid
      BY <3>1, <2>1, <2>4
    <3>3. Cardinality(Missing(md, MaxResponseRetransmit)) <= losses
      BY <3>2, <2>4, <1>0 DEF LossInv
    <3> QED BY <3>3, <2>1, <1>0, <1>1, SilenceTypes
  <2>5. LossInv'
    BY <2>1, <2>3, <2>4 DEF LossInv, Ended
  <2> QED BY <2>1, <2>5, SilenceFewer
<1> QED BY <1>2, <1>3

LEMMA SilenceLose ==
  ASSUME SilenceInv, FreshInv', NEW m \in network, Lose(m)
  PROVE  SilenceInv'
<1>0. FreshInv /\ LossInv
  BY DEF SilenceInv
<1>1. /\ network' = network \ {m} /\ losses' = losses + 1
      /\ UNCHANGED <<open, responded, abandoned, client, transactions>>
  BY DEF Lose, server, engine, clients
<1>2. ASSUME NEW x, NEW n \in Nat, Cardinality(Missing(x, n)) <= losses
      PROVE  Cardinality(Missing(x, n)') <= losses'
  <2>1. losses \in Nat
    BY <1>0, SilenceTypes
  <2> QED BY <2>1, <1>1, <1>2, MissingOneMore
<1>3. LossInv'
  BY <1>0, <1>1, <1>2, SilenceTypes DEF LossInv, Ended
<1> QED BY <1>1, <1>3, SilenceFewer

LEMMA SilenceInvStep == SilenceInv /\ [Next]_vars => SilenceInv'
<1> SUFFICES ASSUME SilenceInv, [Next]_vars PROVE SilenceInv'
  OBVIOUS
<1>1. FreshInv'
  BY FreshInvStep DEF SilenceInv
<1>2. CASE \E r \in Req : SendRequest(r) \/ RetransmitRequest(r) \/ GiveUp(r)
  BY <1>1, <1>2, SilenceClient
<1>3. CASE \/ \E m \in network : \/ ReceiveAck(m) \/ ReceiveUnavailable(m)
                                 \/ NoFreeTransaction(m) \/ SeparateReject(m)
           \/ \E n \in 0 .. Observers : ButtonWaits(n)
           \/ OtherOpens \/ OtherCloses
  BY <1>1, <1>3, SilenceOther
<1>4. CASE \E m \in network : SeparateAccept(m) \/ ReceiveContent(m) \/ Lose(m)
  BY <1>1, <1>4, SilenceAccept, SilenceReceive, SilenceLose
<1>5. CASE \E n \in 0 .. Observers : ButtonAnswers(n)
  BY <1>1, <1>5, SilenceAnswer
<1>6. CASE \E t \in transactions : RetransmitContent(t)
  BY <1>1, <1>6, SilenceRetransmit
<1>7. CASE \/ \E t \in transactions : ExpireContent(t)
           \/ \E m \in network : ReceiveContentAck(m)
  BY <1>1, <1>7, SilenceEnd
<1>8. CASE UNCHANGED vars
  <2>1. UNCHANGED <<server, transactions, losses, network, client>>
    BY <1>8 DEF vars, engine, clients
  <2> QED BY <2>1, <1>1, CalmStep DEF Ended
<1> QED BY <1>2, <1>3, <1>4, <1>5, <1>6, <1>7, <1>8 DEF Next, Deliver, ButtonPress

\* A client told to wait for a separate response still has one coming, unless a
\* later exchange took its slot or the network lost more datagrams than the
\* response has repetitions, for any number of clients, slots and repetitions.
THEOREM SilenceExplained == Spec => []SilenceNeedsLoss
<1>1. SilenceInv => SilenceNeedsLoss
  <2> SUFFICES ASSUME SilenceInv, NEW r \in Confirmable, client[r] = "acked",
                      ~Awaited(r), ~Abandoned(r)
               PROVE  losses > MaxResponseRetransmit
    BY DEF SilenceNeedsLoss
  <2>1. FreshInv /\ PromiseInv /\ LossInv
    BY DEF SilenceInv
  <2>2. PICK md \in responded : md.req = r
    BY <2>1 DEF PromiseInv, Awaited
  <2>3. \A t \in transactions : t.mid # md.mid
    <3>1. \A t \in transactions : [req |-> t.req, mid |-> t.mid] \in responded
      BY DEF SilenceInv, MidInv
    <3>2. \A t \in transactions : t.mid = md.mid => [req |-> t.req, mid |-> t.mid] = md
      BY <3>1 DEF SilenceInv, MidInv
    <3> QED BY <3>2, <2>2 DEF Awaited
  <2>4. Missing(md, MaxResponseRetransmit) = 0 .. MaxResponseRetransmit
    BY <2>2 DEF Missing, Content, Awaited
  <2>5. Cardinality(Missing(md, MaxResponseRetransmit)) <= losses
    BY <2>1, <2>2, <2>3 DEF LossInv, Ended
  <2>6. Cardinality(0 .. MaxResponseRetransmit) = MaxResponseRetransmit + 1
    BY FS_Interval, BoundAssumption
  <2> QED BY <2>1, <2>4, <2>5, <2>6, SilenceTypes
<1> QED BY <1>1, InitSilenceInv, SilenceInvStep, PTL DEF Spec

=============================================================================
