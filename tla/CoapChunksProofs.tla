--------------------------- MODULE CoapChunksProofs ---------------------------
(***************************************************************************)
(* Theorems about CoapChunks for every length of the representation and    *)
(* every set of block sizes.                                               *)
(***************************************************************************)
EXTENDS CoapChunks, TLAPS

\* Nobody asks beyond the end, so every answer is a block of the representation
\* and its More flag says whether it is the last.
WireInv ==
  /\ asked < CHUNKS_TOTAL
  /\ \A q \in requests : q.offset < CHUNKS_TOTAL
  /\ \A b \in replies :
       /\ b.code = "2.05"
       /\ b.offset + b.len <= CHUNKS_TOTAL
       /\ b.more <=> b.offset + b.len < CHUNKS_TOTAL

\* The client has put together exactly what lies before the block it waits for.
ClientInv ==
  /\ phase = "asking" => got = asked
  /\ phase = "done" => got = CHUNKS_TOTAL
  /\ phase # "refused"

Inv == TypeOK /\ WireInv /\ ClientInv

-----------------------------------------------------------------------------
\* The handler, asked inside the representation: it answers with bytes, not
\* beyond the end, and with -1 exactly when they reach it.
LEMMA HandlerFacts ==
  ASSUME NEW offset \in 0 .. CHUNKS_TOTAL, NEW s \in BlockSize, offset < CHUNKS_TOTAL
  PROVE  LET h == ResGetHandler(offset, s) IN
           /\ h.code = "2.05"
           /\ h.len \in 1 .. CHUNKS_TOTAL
           /\ offset + h.len <= CHUNKS_TOTAL
           /\ h.next # -1 <=> offset + h.len < CHUNKS_TOTAL
<1>1. s \in Nat \ {0} /\ CHUNKS_TOTAL \in Nat \ {0} /\ offset \in Nat
  BY ChunksAssumption
<1> DEFINE strpos == IF offset + s > CHUNKS_TOTAL THEN CHUNKS_TOTAL - offset ELSE s
<1>2. strpos \in 1 .. CHUNKS_TOTAL /\ offset + strpos <= CHUNKS_TOTAL
  BY <1>1
<1>3. ResGetHandler(offset, s) =
        [code |-> "2.05", len |-> strpos,
         next |-> IF offset + strpos >= CHUNKS_TOTAL THEN -1 ELSE offset + strpos]
  BY <1>1 DEF ResGetHandler
<1> HIDE DEF strpos
<1> QED BY <1>1, <1>2, <1>3

LEMMA InitInv == Init => Inv
<1> SUFFICES ASSUME Init PROVE Inv
  OBVIOUS
<1>1. TypeOK
  BY ChunksAssumption DEF Init, TypeOK, Request
<1>2. WireInv /\ ClientInv
  BY ChunksAssumption DEF Init, WireInv, ClientInv
<1> QED BY <1>1, <1>2 DEF Inv

-----------------------------------------------------------------------------
LEMMA ServeInv == ASSUME Inv, NEW q \in requests, ServeBlock(q) PROVE Inv'
<1> DEFINE h == ResGetHandler(q.offset, q.size)
           b == [offset |-> q.offset, code |-> h.code, len |-> h.len, more |-> h.next # -1]
<1>1. q.offset \in 0 .. CHUNKS_TOTAL /\ q.size \in BlockSize /\ q.offset < CHUNKS_TOTAL
  BY DEF Inv, TypeOK, WireInv, Request
<1>2. /\ h.code = "2.05" /\ h.len \in 1 .. CHUNKS_TOTAL
      /\ q.offset + h.len <= CHUNKS_TOTAL
      /\ h.next # -1 <=> q.offset + h.len < CHUNKS_TOTAL
  BY <1>1, HandlerFacts
<1>3. /\ replies' = replies \cup {b} /\ requests' = requests \ {q}
      /\ UNCHANGED <<phase, asked, size, got>>
  BY DEF ServeBlock
<1> HIDE DEF h
<1>4. b \in Block
  BY <1>1, <1>2 DEF Block
<1>5. /\ b.code = "2.05" /\ b.offset + b.len <= CHUNKS_TOTAL
      /\ b.more <=> b.offset + b.len < CHUNKS_TOTAL
  BY <1>2
<1> HIDE DEF b
<1>6. TypeOK'
  BY <1>3, <1>4 DEF Inv, TypeOK
<1>7. WireInv'
  BY <1>3, <1>5 DEF Inv, WireInv
<1>8. ClientInv'
  BY <1>3 DEF Inv, ClientInv
<1> QED BY <1>6, <1>7, <1>8 DEF Inv

LEMMA ReceiveInv == ASSUME Inv, NEW b \in replies, ReceiveBlock(b) PROVE Inv'
<1>1. /\ b.offset \in 0 .. CHUNKS_TOTAL /\ b.len \in 0 .. CHUNKS_TOTAL
      /\ b.code = "2.05" /\ b.offset + b.len <= CHUNKS_TOTAL
      /\ b.more <=> b.offset + b.len < CHUNKS_TOTAL
  BY DEF Inv, TypeOK, WireInv, Block
<1>2. replies' = replies \ {b}
  BY DEF ReceiveBlock
<1> USE ChunksAssumption
<1>3. CASE ~(phase = "asking" /\ b.offset = asked)
  BY <1>2, <1>3 DEF ReceiveBlock, Inv, TypeOK, WireInv, ClientInv
<1>4. CASE phase = "asking" /\ b.offset = asked
  <2>1. got = b.offset
    BY <1>4 DEF Inv, ClientInv
  <2>2. CASE Finish(b)
    BY <1>1, <1>2, <1>4, <2>1, <2>2 DEF Finish, Inv, TypeOK, WireInv, ClientInv
  <2>3. CASE Refuse(b)
    BY <1>1, <2>3 DEF Refuse
  <2>4. ASSUME NEW s \in BlockSize, Continue(b, s) PROVE Inv'
    <3>1. /\ phase' = phase /\ size' = s /\ got' = got + b.len
          /\ asked' = b.offset + b.len /\ asked' < CHUNKS_TOTAL
          /\ requests' = requests \cup {[offset |-> asked', size |-> s]}
      BY <1>1, <2>4 DEF Continue
    <3>2. asked' \in 0 .. CHUNKS_TOTAL /\ got' = asked'
      BY <1>1, <2>1, <3>1
    <3>3. [offset |-> asked', size |-> s] \in Request
      BY <3>2 DEF Request
    <3>4. TypeOK'
      BY <1>2, <3>1, <3>2, <3>3 DEF Inv, TypeOK
    <3>5. WireInv'
      BY <1>2, <3>1 DEF Inv, WireInv
    <3>6. ClientInv'
      BY <1>4, <3>1, <3>2 DEF ClientInv
    <3> QED BY <3>4, <3>5, <3>6 DEF Inv
  <2> QED BY <1>4, <2>2, <2>3, <2>4 DEF ReceiveBlock
<1> QED BY <1>3, <1>4

LEMMA NextInv == Inv /\ [Next]_vars => Inv'
<1> SUFFICES ASSUME Inv, [Next]_vars PROVE Inv'
  OBVIOUS
<1> USE DEF Inv, TypeOK, WireInv, ClientInv
<1>1. CASE RepeatRequest
  <2>1. [offset |-> asked, size |-> size] \in Request
    BY DEF Request
  <2> QED BY <1>1, <2>1 DEF RepeatRequest
<1>2. ASSUME NEW q \in requests, LoseRequest(q) PROVE Inv'
  BY <1>2 DEF LoseRequest
<1>3. ASSUME NEW b \in replies, LoseReply(b) PROVE Inv'
  BY <1>3 DEF LoseReply
<1>4. CASE UNCHANGED vars
  BY <1>4 DEF vars
<1> QED
  <2> HIDE DEF Inv
  <2> QED BY <1>1, <1>2, <1>3, <1>4, ServeInv, ReceiveInv DEF Next

\* Inv is inductive; the theorems below read off its parts.
LEMMA AlwaysInv == Spec => []Inv
BY InitInv, NextInv, PTL DEF Spec

-----------------------------------------------------------------------------
\* Every reachable state is well typed: in particular a client never puts
\* together more bytes than the representation has.
THEOREM TypeCorrect == Spec => []TypeOK
<1>1. Inv => TypeOK
  BY DEF Inv
<1> QED BY <1>1, AlwaysInv, PTL

\* The last block, and no other, has its More flag unset, whether the
\* representation ends inside a block or with one.
THEOREM EndIsSignalled == Spec => []EndSignalled
<1>1. Inv => EndSignalled
  BY DEF Inv, WireInv, EndSignalled
<1> QED BY <1>1, AlwaysInv, PTL

\* A client that follows the More flags is never answered BlockOutOfScope.
THEOREM InScope == Spec => []NeverOutOfScope
<1>1. Inv => NeverOutOfScope
  BY DEF Inv, ClientInv, NeverOutOfScope
<1> QED BY <1>1, AlwaysInv, PTL

\* A finished transfer has the whole representation, in spite of lost and
\* repeated messages and changing block sizes.
THEOREM Whole == Spec => []WholeTransferred
<1>1. Inv => WholeTransferred
  BY DEF Inv, ClientInv, WholeTransferred
<1> QED BY <1>1, AlwaysInv, PTL
=============================================================================
