----------------------- MODULE CoapBlock1SeparateProofs -----------------------
(***************************************************************************)
(* Theorems about CoapBlock1Separate for any number of clients, any sizes  *)
(* of buffer, block and message, and any number of repeated requests.      *)
(***************************************************************************)
EXTENDS CoapBlock1Separate, TLAPS

\* The first n bytes fit the buffer and have been written.
Written(n) == n <= MAX_DATA_LEN /\ \A p \in 0 .. n - 1 : big_msg[p] # Nobody

\* A block is posted, or posted again, inside its client's message and behind
\* bytes that are in the buffer already.
RequestInv(q) ==
  /\ q \in [kind: {"block1", "block2"}, c: Client, offset: Nat]
  /\ phase[q.c] # "idle"
  /\ q.kind = "block1" => q.offset < length[q.c] /\ Written(q.offset)

ReplyInv(b) ==
  /\ b \in [kind: {"error", "continue", "ack", "first", "next"}, c: Client, offset: Nat,
            payload: Seq(Byte), more: BOOLEAN]
  /\ phase[b.c] # "idle"
  /\ b.kind = "continue" => b.offset + BLOCK_SIZE < length[b.c] /\ Written(b.offset + BLOCK_SIZE)

\* The first block for a client is on its way, or never will be.
Answered(c) == c \in starved \/ \E b \in replies : b.kind = "first" /\ b.c = c

WireInv == (\A q \in requests : RequestInv(q)) /\ (\A b \in replies : ReplyInv(b))
PostInv == \A c \in Client : pos[c] < length[c] /\ Written(pos[c])
AnswerInv ==
  /\ \A c \in Client : phase[c] = "acked" => Answered(c)
  /\ \A b \in replies : b.kind = "ack" /\ phase[b.c] = "posting" => Answered(b.c)

Inv == TypeOK /\ WireInv /\ PostInv /\ Written(big_msg_len) /\ AnswerInv

-----------------------------------------------------------------------------
LEMMA InitInv == Init => Inv
<1> SUFFICES ASSUME Init PROVE Inv
  OBVIOUS
<1> USE SizeAssumption
<1>1. TypeOK
  BY DEF Init, TypeOK, Offsets, Phase
<1>2. WireInv /\ PostInv /\ Written(big_msg_len)
  BY DEF Init, WireInv, PostInv, Written
<1>3. AnswerInv
  BY DEF Init, AnswerInv
<1> QED BY <1>1, <1>2, <1>3 DEF Inv

\* Bytes of a buffer of the right type are bytes of the wire.
LEMMA BytesType ==
  ASSUME NEW buffer \in [0 .. MAX_DATA_LEN - 1 -> Client \cup {Nobody}], NEW p \in Nat, NEW n \in Nat
  PROVE  BufferBytes(buffer, p, n) \in Seq(Byte)
<1> USE SizeAssumption
<1>1. ASSUME NEW i \in 1 .. n PROVE BufferBytes(buffer, p, n)[i] \in Byte
  <2>1. CASE p + i - 1 \in DOMAIN buffer
    BY <2>1 DEF BufferBytes, Byte, Offsets
  <2>2. CASE p + i - 1 \notin DOMAIN buffer
    BY <2>2 DEF BufferBytes, Blank, Byte, Offsets
  <2> QED BY <2>1, <2>2
<1>2. BufferBytes(buffer, p, n) = [i \in 1 .. n |-> BufferBytes(buffer, p, n)[i]]
  BY DEF BufferBytes
<1> QED BY <1>1, <1>2

LEMMA PostFacts ==
  ASSUME TypeOK, NEW q \in requests, RequestInv(q), q.kind = "block1"
  PROVE  /\ PostLen(q) \in 1 .. BLOCK_SIZE /\ PostEnd(q) = q.offset + PostLen(q)
         /\ PostEnd(q) \in Nat \ {0}
         /\ PostMore(q) => PostEnd(q) = q.offset + BLOCK_SIZE
<1> USE SizeAssumption
<1>1. q.offset \in Nat /\ q.c \in Client /\ q.offset < length[q.c] /\ length[q.c] \in Nat
  BY DEF RequestInv, TypeOK
<1> QED BY <1>1 DEF PostLen, PostEnd, PostMore, Smaller

-----------------------------------------------------------------------------
\* A stored block keeps what was written and extends it to its end.
LEMMA StoreWrites ==
  ASSUME Inv, NEW q \in requests, StoreBlock(q)
  PROVE  /\ big_msg' \in [0 .. MAX_DATA_LEN - 1 -> Client \cup {Nobody}]
         /\ big_msg_len' = PostEnd(q) /\ big_msg_len' \in Offsets
         /\ \A n \in Nat : Written(n) => Written(n)'
         /\ Written(PostEnd(q))'
         /\ UNCHANGED <<length, repeats, client>> /\ requests' = requests \ {q}
         /\ disturbed' \subseteq Client
<1> USE SizeAssumption
<1>1. TypeOK /\ RequestInv(q) /\ q.kind = "block1" /\ q.c \in Client /\ q.offset \in Nat
  BY DEF Inv, WireInv, RequestInv, StoreBlock, StoreBlockEnding
<1>2. PostLen(q) \in 1 .. BLOCK_SIZE /\ PostEnd(q) = q.offset + PostLen(q) /\ PostEnd(q) \in Nat
  BY <1>1, PostFacts
<1>3. PostEnd(q) <= MAX_DATA_LEN /\ big_msg_len' = PostEnd(q)
      /\ requests' = requests \ {q} /\ UNCHANGED <<length, repeats, client>>
      /\ big_msg' = [p \in 0 .. MAX_DATA_LEN - 1 |->
                       IF p \in q.offset .. PostEnd(q) - 1 THEN q.c ELSE big_msg[p]]
  BY DEF StoreBlock, StoreBlockEnding
<1>4. big_msg' \in [0 .. MAX_DATA_LEN - 1 -> Client \cup {Nobody}]
  BY <1>1, <1>3 DEF TypeOK
<1>5. \A n \in Nat : Written(n) => Written(n)'
  BY <1>1, <1>3 DEF Written
<1>6. Written(PostEnd(q))'
  <2> SUFFICES ASSUME NEW p \in 0 .. PostEnd(q) - 1 PROVE big_msg'[p] # Nobody
    BY <1>2, <1>3 DEF Written, PostEnd, PostLen, client, Smaller
  <2>1. CASE p < q.offset
    BY <2>1, <1>1, <1>2, <1>3 DEF RequestInv, Written
  <2>2. CASE p >= q.offset
    BY <2>2, <1>1, <1>2, <1>3
  <2> QED BY <2>1, <2>2, <1>1, <1>2
<1>7. disturbed' \subseteq Client
  BY <1>1 DEF StoreBlock, StoreBlockEnding, TypeOK
<1> QED BY <1>2, <1>3, <1>4, <1>5, <1>6, <1>7 DEF Offsets

\* The message then ends where the block does.
LEMMA StoreWritten == ASSUME Inv, NEW q \in requests, StoreBlock(q) PROVE Written(big_msg_len)'
<1>1. PICK n : n = PostEnd(q)
  OBVIOUS
<1>2. big_msg_len' = n /\ UNCHANGED <<length>>
  BY <1>1, StoreWrites
<1>3. Written(PostEnd(q))'
  BY StoreWrites
<1>4. PostEnd(q)' = PostEnd(q)
  BY <1>2 DEF PostEnd, PostLen
<1> QED BY <1>1, <1>2, <1>3, <1>4 DEF Written

\* Replies the handler may add.
Fitting(R) == \A b \in R : ReplyInv(b)' /\ (b.kind = "ack" => Answered(b.c)')

\* What every handler step does: it takes one request, adds replies and keeps
\* what is written of the message.
Handled(q, R) ==
  /\ UNCHANGED <<length, repeats, client>>
  /\ requests' = requests \ {q} /\ replies' = replies \cup R
  /\ big_msg' \in [0 .. MAX_DATA_LEN - 1 -> Client \cup {Nobody}]
  /\ big_msg_len' \in Offsets /\ Written(big_msg_len)'
  /\ \A n \in Nat : Written(n) => Written(n)'
  /\ starved \subseteq starved' /\ starved' \subseteq Client /\ disturbed' \subseteq Client
  /\ Fitting(R)

LEMMA HandlerStep == ASSUME Inv, NEW q, NEW R, Handled(q, R) PROVE Inv'
<1> USE DEF Handled, Fitting
<1>0. TypeOK /\ UNCHANGED <<phase, pos, echo, length, repeats>>
  BY DEF Inv, client
<1>1. TypeOK'
  BY <1>0 DEF TypeOK
<1>2. ASSUME NEW r \in requests' PROVE RequestInv(r)'
  <2>1. RequestInv(r) /\ r.offset \in Nat
    BY <1>2 DEF Inv, WireInv, RequestInv
  <2> QED BY <2>1, <1>0 DEF RequestInv
<1>3. ASSUME NEW b \in replies PROVE ReplyInv(b)'
  <2>1. ReplyInv(b) /\ b.offset + BLOCK_SIZE \in Nat
    BY SizeAssumption DEF Inv, WireInv, ReplyInv
  <2> QED BY <2>1, <1>0 DEF ReplyInv
<1>4. PostInv'
  BY <1>0 DEF Inv, PostInv, TypeOK
<1>5. ASSUME NEW c, Answered(c) PROVE Answered(c)'
  BY <1>5 DEF Answered
<1>6. AnswerInv'
  BY <1>0, <1>5 DEF Inv, AnswerInv
<1> QED BY <1>1, <1>2, <1>3, <1>4, <1>6 DEF Inv, WireInv

LEMMA PostTooLargeStep == ASSUME Inv, NEW q \in requests, PostTooLarge(q) PROVE Inv'
<1> DEFINE b == Reply("error", q.c, q.offset, <<>>, FALSE)
<1>1. RequestInv(q) /\ TypeOK
  BY DEF Inv, WireInv
<1>2. ReplyInv(b)' /\ b.kind = "error"
  BY <1>1 DEF PostTooLarge, client, RequestInv, ReplyInv, Reply
<1>3. UNCHANGED server /\ UNCHANGED <<length, repeats, client, starved, disturbed>>
      /\ requests' = requests \ {q} /\ replies' = replies \cup {b}
  BY DEF PostTooLarge
<1> HIDE DEF b
<1>4. Handled(q, {b})
  BY <1>1, <1>2, <1>3 DEF Handled, Fitting, Inv, server, TypeOK, Written
<1> QED BY <1>4, HandlerStep

\* The steps that store a block.
LEMMA StoreStep ==
  ASSUME Inv, NEW q \in requests, NEW R, StoreBlock(q), replies' = replies \cup R,
         starved \subseteq starved', starved' \subseteq Client,
         Fitting(R)
  PROVE  Inv'
<1>1. PICK n : n = PostEnd(q)
  OBVIOUS
<1>2. Handled(q, R)
  <2>1. /\ big_msg' \in [0 .. MAX_DATA_LEN - 1 -> Client \cup {Nobody}]
        /\ big_msg_len' = n /\ big_msg_len' \in Offsets
        /\ \A m \in Nat : Written(m) => Written(m)'
        /\ UNCHANGED <<length, repeats, client>> /\ requests' = requests \ {q}
        /\ disturbed' \subseteq Client
    BY <1>1, StoreWrites
  <2>2. Written(big_msg_len)'
    BY StoreWritten
  <2> QED BY <2>1, <2>2 DEF Handled
<1> QED BY <1>2, HandlerStep

LEMMA PostContinueStep == ASSUME Inv, NEW q \in requests, PostContinue(q) PROVE Inv'
<1>1. PICK b : b = Reply("continue", q.c, q.offset, <<>>, FALSE)
  OBVIOUS
<1>2. RequestInv(q) /\ TypeOK /\ StoreBlock(q) /\ PostMore(q) /\ q.kind = "block1"
  BY DEF Inv, WireInv, PostContinue, StoreBlock, StoreBlockEnding
<1>3. big_msg_len' = q.offset + BLOCK_SIZE
  BY <1>2, PostFacts, StoreWrites
<1>4. ReplyInv(b)'
  <2>1. Written(big_msg_len)' /\ UNCHANGED <<length, phase>>
    BY <1>2, StoreWritten, StoreWrites DEF client
  <2>2. Written(q.offset + BLOCK_SIZE)'
    BY <1>3, <2>1 DEF Written
  <2> QED BY <1>1, <1>2, <2>1, <2>2 DEF PostMore, RequestInv, ReplyInv, Reply
<1>5. starved' = starved /\ replies' = replies \cup {b} /\ b.kind = "continue"
  BY <1>1 DEF PostContinue, Reply
<1>6. Fitting({b})
  BY <1>4, <1>5 DEF Fitting
<1> QED BY <1>2, <1>5, <1>6, StoreStep DEF TypeOK

\* An answer that is no Continue needs only its types.
LEMMA OtherReply ==
  ASSUME NEW q \in requests, RequestInv(q), UNCHANGED phase, NEW b,
         NEW kind \in {"error", "ack", "first", "next"}, NEW p \in Nat,
         NEW payload \in Seq(Byte), NEW more \in BOOLEAN,
         b = Reply(kind, q.c, p, payload, more)
  PROVE  ReplyInv(b)' /\ b.kind = kind /\ b.c = q.c
BY DEF RequestInv, ReplyInv, Reply

LEMMA EmptyReply ==
  ASSUME NEW q \in requests, RequestInv(q), UNCHANGED phase, NEW b,
         NEW kind \in {"error", "ack"}, NEW p \in Nat, b = Reply(kind, q.c, p, <<>>, FALSE)
  PROVE  ReplyInv(b)' /\ b.kind = kind /\ b.c = q.c
<1>1. <<>> \in Seq(Byte) /\ FALSE \in BOOLEAN
  OBVIOUS
<1> QED BY <1>1, OtherReply

LEMMA PostLastStep == ASSUME Inv, NEW q \in requests, PostLast(q) PROVE Inv'
<1>1. RequestInv(q) /\ TypeOK /\ StoreBlock(q) /\ q.kind = "block1" /\ q.offset \in Nat
  BY DEF Inv, WireInv, PostLast, StoreBlock, StoreBlockEnding, RequestInv
<1>2. PICK n \in Nat : n = Smaller(PostEnd(q), BLOCK_SIZE)
  BY <1>1, PostFacts, SizeAssumption DEF Smaller
<1>3. PICK payload \in Seq(Byte) : payload = BufferBytes(big_msg', 0, n)
  BY <1>1, StoreWrites, BytesType
<1>4. PICK a : a = Reply("ack", q.c, q.offset, <<>>, FALSE)
  OBVIOUS
<1>5. PICK more \in BOOLEAN : more = (PostEnd(q) > BLOCK_SIZE)
  <2>1. (PostEnd(q) > BLOCK_SIZE) \in BOOLEAN
    BY <1>1, PostFacts, SizeAssumption
  <2> QED BY <2>1, Zenon
<1>6. PICK b : b = Reply("first", q.c, 0, payload, more)
  OBVIOUS
<1>7. replies' = replies \cup {a, b} /\ starved' = starved
  BY <1>2, <1>3, <1>4, <1>5, <1>6 DEF PostLast, SendFirst
<1>8. UNCHANGED phase
  BY <1>1, StoreWrites DEF client
<1>9. ReplyInv(a)' /\ a.kind = "ack" /\ a.c = q.c
  BY <1>1, <1>4, <1>8, EmptyReply
<1>10. ReplyInv(b)' /\ b.kind = "first" /\ b.c = q.c
  BY <1>1, <1>6, <1>8, OtherReply
<1>11. Answered(q.c)'
  BY <1>7, <1>10 DEF Answered
<1>12. Fitting({a, b})
  BY <1>9, <1>10, <1>11 DEF Fitting
<1> QED BY <1>1, <1>7, <1>12, StoreStep DEF TypeOK

LEMMA PostLastNoTransactionStep ==
  ASSUME Inv, NEW q \in requests, PostLastNoTransaction(q) PROVE Inv'
<1>1. RequestInv(q) /\ TypeOK /\ StoreBlock(q) /\ q.c \in Client /\ q.offset \in Nat
  BY DEF Inv, WireInv, PostLastNoTransaction, RequestInv
<1>2. PICK a : a = Reply("ack", q.c, q.offset, <<>>, FALSE)
  OBVIOUS
<1>3. replies' = replies \cup {a} /\ starved' = starved \cup {q.c}
  BY <1>2 DEF PostLastNoTransaction
<1>4. UNCHANGED phase
  BY <1>1, StoreWrites DEF client
<1>5. ReplyInv(a)' /\ a.kind = "ack" /\ a.c = q.c
  BY <1>1, <1>2, <1>4, EmptyReply
<1>6. Answered(q.c)'
  BY <1>3 DEF Answered
<1>7. Fitting({a})
  BY <1>5, <1>6 DEF Fitting
<1> QED BY <1>1, <1>3, <1>7, StoreStep DEF TypeOK

LEMMA BlockOutOfScopeStep == ASSUME Inv, NEW q \in requests, BlockOutOfScope(q) PROVE Inv'
<1>1. PICK b : b = Reply("error", q.c, q.offset, <<>>, FALSE)
  OBVIOUS
<1>2. RequestInv(q) /\ TypeOK /\ q.offset \in Nat
  BY DEF Inv, WireInv, RequestInv
<1>3. UNCHANGED server /\ UNCHANGED <<length, repeats, client, starved, disturbed>>
      /\ requests' = requests \ {q} /\ replies' = replies \cup {b}
  BY <1>1 DEF BlockOutOfScope
<1>4. ReplyInv(b)' /\ b.kind = "error"
  BY <1>1, <1>2, <1>3, EmptyReply DEF client
<1>5. Handled(q, {b})
  BY <1>2, <1>3, <1>4 DEF Handled, Fitting, Inv, server, TypeOK, Written
<1> QED BY <1>5, HandlerStep

LEMMA ServeBlockStep == ASSUME Inv, NEW q \in requests, ServeBlock(q) PROVE Inv'
<1>1. RequestInv(q) /\ TypeOK /\ q.offset \in Nat /\ q.offset < big_msg_len
  BY DEF Inv, WireInv, ServeBlock, RequestInv
<1>2. PICK n \in Nat : n = Smaller(BLOCK_SIZE, big_msg_len - q.offset)
  BY <1>1, SizeAssumption DEF Smaller, TypeOK, Offsets
<1>3. PICK payload \in Seq(Byte) : payload = BlockPayload(q.offset, n)
  <2>1. BufferBytes(big_msg, q.offset, n) \in Seq(Byte)
        /\ DOMAIN BufferBytes(big_msg, q.offset, n) = 1 .. n
    BY <1>1, <1>2, BytesType DEF TypeOK, BufferBytes
  <2>2. [by |-> Nobody, at |-> 0] \in Byte
    BY SizeAssumption DEF Byte, Offsets
  <2>3. ASSUME NEW i \in 1 .. n PROVE BufferBytes(big_msg, q.offset, n)[i] \in Byte
    BY <2>1, <1>2
  <2>4. BlockPayload(q.offset, n) \in Seq(Byte)
    BY <2>2, <2>3, <1>2 DEF BlockPayload, Blank
  <2> QED BY <2>4
<1>4. PICK more \in BOOLEAN : more = (NextOffset(q.offset, BLOCK_SIZE) # -1)
  OBVIOUS
<1>5. PICK b : b = Reply("next", q.c, q.offset, payload, more)
  OBVIOUS
<1>6. UNCHANGED server /\ UNCHANGED <<length, repeats, client, starved, disturbed>>
      /\ requests' = requests \ {q} /\ replies' = replies \cup {b}
  BY <1>2, <1>3, <1>4, <1>5 DEF ServeBlock
<1>7. ReplyInv(b)' /\ b.kind = "next"
  BY <1>1, <1>5, <1>6, OtherReply DEF client
<1>8. Handled(q, {b})
  BY <1>1, <1>6, <1>7 DEF Handled, Fitting, Inv, server, TypeOK, Written
<1> QED BY <1>8, HandlerStep

-----------------------------------------------------------------------------
\* Every client step takes at most one reply, may send requests Q and keeps the
\* server's state.
Acted(Q) ==
  /\ UNCHANGED <<server, length, starved, disturbed>>
  /\ requests' = requests \cup Q /\ replies' \subseteq replies
  /\ TypeOK' /\ PostInv' /\ (\A c \in Client : phase'[c] = "idle" => phase[c] = "idle")
  /\ \A q \in Q : RequestInv(q)'

LEMMA ClientStep == ASSUME Inv, NEW Q, Acted(Q), AnswerInv' PROVE Inv'
<1>0. TypeOK /\ UNCHANGED <<big_msg, big_msg_len, length, starved>>
  BY DEF Inv, Acted, server
<1>1. ASSUME NEW q \in requests' PROVE RequestInv(q)'
  <2>1. CASE q \in Q
    BY <2>1 DEF Acted
  <2>2. CASE q \in requests
    BY <2>2, <1>0 DEF Inv, WireInv, Acted, RequestInv, Written
  <2> QED BY <2>1, <2>2 DEF Acted
<1>2. ASSUME NEW b \in replies' PROVE ReplyInv(b)'
  <2>1. ReplyInv(b)
    BY <1>2 DEF Inv, WireInv, Acted
  <2> QED BY <2>1, <1>0 DEF Acted, ReplyInv, Written
<1>3. Written(big_msg_len)'
  BY <1>0 DEF Inv, Written
<1> QED BY <1>1, <1>2, <1>3 DEF Inv, WireInv, Acted

LEMMA StartPostStep == ASSUME Inv, NEW c \in Client, StartPost(c) PROVE Inv'
<1> USE SizeAssumption
<1>1. PICK q : q = Block1(c, 0)
  OBVIOUS
<1>2. TypeOK /\ PostInv
  BY DEF Inv
<1>3. phase' = [phase EXCEPT ![c] = "posting"] /\ UNCHANGED <<server, length, pos, starved, replies>>
  BY DEF StartPost
<1>4. RequestInv(q)'
  BY <1>1, <1>2, <1>3 DEF Block1, RequestInv, Written, TypeOK
<1>5. Acted({q})
  BY <1>1, <1>2, <1>3, <1>4 DEF StartPost, Acted, TypeOK, PostInv, Written, Phase, server
<1>6. AnswerInv'
  <2>1. \A b \in replies : b.c \in Client /\ b.c # c
    BY DEF Inv, WireInv, ReplyInv, StartPost
  <2>2. \A d : Answered(d) => Answered(d)'
    BY <1>3 DEF Answered
  <2> QED BY <2>1, <2>2, <1>2, <1>3 DEF Inv, AnswerInv, TypeOK
<1> QED BY <1>5, <1>6, ClientStep

LEMMA RepeatRequestStep == ASSUME Inv, NEW c \in Client, RepeatRequest(c) PROVE Inv'
<1>1. TypeOK /\ PostInv /\ AnswerInv
  BY DEF Inv
<1>2. UNCHANGED <<server, length, phase, pos, echo, starved, disturbed, replies>>
  BY DEF RepeatRequest, client
<1>3. PICK q : /\ requests' = requests \cup {q}
               /\ \/ phase[c] = "posting" /\ q = Block1(c, pos[c])
                  \/ phase[c] = "fetching" /\ q = Block2(c, Len(echo[c]))
  BY DEF RepeatRequest
<1>4. pos[c] \in Nat /\ Len(echo[c]) \in Nat
  BY <1>1, SizeAssumption DEF TypeOK
<1>5. RequestInv(q)'
  BY <1>1, <1>2, <1>3, <1>4 DEF PostInv, Block1, Block2, RequestInv, Written, server
<1>6. Acted({q})
  <2>1. TypeOK'
    BY <1>1, <1>2, SizeAssumption DEF RepeatRequest, TypeOK, server
  <2>2. PostInv'
    BY <1>1, <1>2 DEF PostInv, Written, server
  <2>3. \A r \in {q} : RequestInv(r)'
    BY <1>5
  <2> QED BY <2>1, <2>2, <2>3, <1>2, <1>3 DEF Acted
<1>7. AnswerInv'
  BY <1>1, <1>2 DEF AnswerInv, Answered
<1> QED BY <1>6, <1>7, ClientStep

LEMMA ReceiveContinueStep == ASSUME Inv, NEW b \in replies, ReceiveContinue(b) PROVE Inv'
<1> USE SizeAssumption
<1>1. TypeOK /\ PostInv /\ AnswerInv /\ ReplyInv(b) /\ b.c \in Client /\ b.kind = "continue"
  BY DEF Inv, WireInv, ReplyInv, ReceiveContinue
<1>2. /\ UNCHANGED <<server, length, repeats, phase, echo, starved, disturbed>>
      /\ replies' = replies \ {b}
  BY DEF ReceiveContinue
<1>3. AnswerInv'
  BY <1>1, <1>2 DEF AnswerInv, Answered
<1>4. CASE phase[b.c] = "posting" /\ b.offset = pos[b.c]
  <2>1. pos' = [pos EXCEPT ![b.c] = @ + BLOCK_SIZE]
    BY <1>4 DEF ReceiveContinue
  <2>2. pos'[b.c] \in Nat /\ pos'[b.c] < length[b.c] /\ Written(pos'[b.c]) /\ pos'[b.c] = b.offset + BLOCK_SIZE
    BY <2>1, <1>1, <1>4 DEF TypeOK, ReplyInv
  <2>3. PICK n \in Nat : n = pos'[b.c]
    BY <2>2
  <2>4. PICK q : q = Block1(b.c, n)
    OBVIOUS
  <2>5. requests' = requests \cup {q}
    BY <2>3, <2>4, <1>4 DEF ReceiveContinue
  <2>6. RequestInv(q)'
    BY <2>2, <2>3, <2>4, <1>1, <1>2, <1>4 DEF Block1, RequestInv, Written, server
  <2>7. TypeOK'
    BY <2>1, <2>2, <1>1, <1>2 DEF TypeOK, server
  <2>8. PostInv'
    BY <2>1, <2>2, <1>1, <1>2 DEF PostInv, Written, TypeOK, server
  <2>9. UNCHANGED <<server, length, phase, starved, disturbed>> /\ replies' \subseteq replies
    BY <1>2 DEF server
  <2>10. \A r \in {q} : RequestInv(r)'
    BY <2>6
  <2>11. Acted({q})
    BY <2>5, <2>7, <2>8, <2>9, <2>10 DEF Acted
  <2> QED BY <2>11, <1>3, ClientStep
<1>5. CASE ~(phase[b.c] = "posting" /\ b.offset = pos[b.c])
  <2>1. UNCHANGED <<pos, requests>>
    BY <1>5 DEF ReceiveContinue
  <2>2. Acted({})
    BY <2>1, <1>1, <1>2 DEF Acted, TypeOK, PostInv, Written, server
  <2> QED BY <2>2, <1>3, ClientStep
<1> QED BY <1>4, <1>5

LEMMA ReceiveAckStep == ASSUME Inv, NEW b \in replies, ReceiveAck(b) PROVE Inv'
<1>1. TypeOK /\ PostInv /\ AnswerInv /\ b.c \in Client /\ b.kind = "ack"
  BY DEF Inv, WireInv, ReplyInv, ReceiveAck
<1>2. /\ UNCHANGED <<server, length, repeats, pos, echo, requests, starved, disturbed>>
      /\ replies' = replies \ {b}
      /\ phase' = [phase EXCEPT ![b.c] = IF @ = "posting" THEN "acked" ELSE @]
  BY DEF ReceiveAck
<1>3. AnswerInv'
  <2>1. \A c : Answered(c) => Answered(c)'
    BY <1>1, <1>2 DEF Answered
  <2> QED BY <2>1, <1>1, <1>2 DEF AnswerInv, TypeOK
<1>4. Acted({})
  BY <1>1, <1>2 DEF Acted, TypeOK, PostInv, Written, Phase, server
<1> QED BY <1>3, <1>4, ClientStep

\* A payload is taken from a reply that phase and offset fit.
LEMMA TakePayloadStep ==
  ASSUME Inv, NEW b \in replies, phase[b.c] # "idle", TakePayload(b),
         replies' = replies \ {b},
         UNCHANGED <<server, length, repeats, pos, starved, disturbed>>
  PROVE  Inv'
<1>1. TypeOK /\ PostInv /\ AnswerInv /\ b.c \in Client /\ b.payload \in Seq(Byte) /\ b.more \in BOOLEAN
  BY DEF Inv, WireInv, ReplyInv
<1>2. PICK bytes \in Seq(Byte) : bytes = echo[b.c] \o b.payload
  <2>1. echo[b.c] \in Seq(Byte)
    BY <1>1 DEF TypeOK
  <2>2. echo[b.c] \o b.payload \in Seq(Byte)
    BY <2>1, <1>1
  <2> QED BY <2>2
<1>3. PICK p : p = IF b.more THEN "fetching" ELSE "done"
  OBVIOUS
<1>4. echo' = [echo EXCEPT ![b.c] = bytes] /\ phase' = [phase EXCEPT ![b.c] = p]
  BY <1>1, <1>2, <1>3 DEF TakePayload, TypeOK
<1>5. p \in {"fetching", "done"} /\ Len(bytes) \in Nat
  <2>1. p \in {"fetching", "done"}
    BY <1>3
  <2>2. Len(bytes) \in Nat
    OBVIOUS
  <2> QED BY <2>1, <2>2
<1>6. TypeOK'
  BY <1>1, <1>4, <1>5 DEF TypeOK, Phase, server
<1>7. PostInv' /\ (\A c \in Client : phase'[c] = "idle" => phase[c] = "idle")
  BY <1>1, <1>4, <1>5 DEF TypeOK, PostInv, Written, server
<1>8. AnswerInv'
  <2>1. ASSUME NEW c \in Client, phase'[c] \in {"acked", "posting"}
        PROVE  c # b.c /\ phase'[c] = phase[c] /\ (Answered(c) => Answered(c)')
    <3>1. c # b.c /\ phase'[c] = phase[c]
      BY <2>1, <1>1, <1>4, <1>5 DEF TypeOK
    <3>2. Answered(c) => Answered(c)'
      BY <3>1 DEF Answered
    <3> QED BY <3>1, <3>2
  <2>2. \A r \in replies : r.c \in Client
    BY DEF Inv, WireInv, ReplyInv
  <2> QED BY <2>1, <2>2, <1>1 DEF AnswerInv
<1>9. UNCHANGED <<server, length, starved, disturbed>> /\ replies' \subseteq replies
  OBVIOUS
<1>10. CASE b.more
  <2>1. PICK q : q = Block2(b.c, Len(bytes))
    OBVIOUS
  <2>2. requests' = requests \cup {q}
    BY <2>1, <1>1, <1>4, <1>10 DEF TakePayload, TypeOK
  <2>3. RequestInv(q)'
    BY <2>1, <1>1, <1>4, <1>5 DEF RequestInv, Block2, TypeOK
  <2>4. Acted({q})
    BY <2>2, <2>3, <1>6, <1>7, <1>9 DEF Acted
  <2> QED BY <2>4, <1>8, ClientStep
<1>11. CASE ~b.more
  <2>1. requests' = requests \cup {}
    BY <1>11 DEF TakePayload
  <2>2. Acted({})
    BY <2>1, <1>6, <1>7, <1>9 DEF Acted
  <2> QED BY <2>2, <1>8, ClientStep
<1> QED BY <1>10, <1>11

\* A reply that is only dropped, one no client waits for.
LEMMA DropStep ==
  ASSUME Inv, NEW b \in replies, replies' = replies \ {b},
         b.kind = "first" => phase[b.c] \notin {"posting", "acked"},
         UNCHANGED <<server, length, client, requests, repeats, starved, disturbed>>
  PROVE  Inv'
<1>1. TypeOK /\ PostInv /\ AnswerInv
  BY DEF Inv
<1>2. AnswerInv'
  <2>1. UNCHANGED <<phase, starved>>
    BY DEF client
  <2>2. ASSUME NEW c \in Client, phase[c] \in {"acked", "posting"}, Answered(c) PROVE Answered(c)'
    BY <2>1, <2>2 DEF Answered
  <2>3. \A r \in replies : r.c \in Client
    BY DEF Inv, WireInv, ReplyInv
  <2> QED BY <2>1, <2>2, <2>3, <1>1 DEF AnswerInv
<1>3. Acted({})
  BY <1>1 DEF Acted, TypeOK, PostInv, Written, server, client
<1> QED BY <1>2, <1>3, ClientStep

LEMMA ReceiveFirstStep == ASSUME Inv, NEW b \in replies, ReceiveFirst(b) PROVE Inv'
<1>1. CASE phase[b.c] \in {"posting", "acked"}
  BY <1>1, TakePayloadStep DEF ReceiveFirst
<1>2. CASE phase[b.c] \notin {"posting", "acked"}
  BY <1>2, DropStep DEF ReceiveFirst, client
<1> QED BY <1>1, <1>2

LEMMA ReceiveNextStep == ASSUME Inv, NEW b \in replies, ReceiveNext(b) PROVE Inv'
<1>1. CASE phase[b.c] = "fetching" /\ b.offset = Len(echo[b.c])
  BY <1>1, TakePayloadStep DEF ReceiveNext
<1>2. CASE ~(phase[b.c] = "fetching" /\ b.offset = Len(echo[b.c]))
  BY <1>2, DropStep DEF ReceiveNext, client
<1> QED BY <1>1, <1>2

LEMMA ReceiveErrorStep == ASSUME Inv, NEW b \in replies, ReceiveError(b) PROVE Inv'
<1>1. TypeOK /\ PostInv /\ AnswerInv /\ b.c \in Client /\ b.kind = "error"
  BY DEF Inv, WireInv, ReplyInv, ReceiveError
<1>2. /\ UNCHANGED <<server, length, repeats, pos, echo, requests, starved, disturbed>>
      /\ replies' = replies \ {b}
      /\ phase' = [phase EXCEPT ![b.c] = IF @ \in {"posting", "fetching"} THEN "failed" ELSE @]
  BY DEF ReceiveError
<1>3. AnswerInv'
  <2>1. \A c : Answered(c) => Answered(c)'
    BY <1>1, <1>2 DEF Answered
  <2>2. \A r \in replies : r.c \in Client
    BY DEF Inv, WireInv, ReplyInv
  <2> QED BY <2>1, <2>2, <1>1, <1>2 DEF AnswerInv, TypeOK
<1>4. Acted({})
  BY <1>1, <1>2 DEF Acted, TypeOK, PostInv, Written, Phase, server
<1> QED BY <1>3, <1>4, ClientStep

LEMMA Inductive == Inv /\ [Next]_vars => Inv'
<1> SUFFICES ASSUME Inv, [Next]_vars PROVE Inv'
  OBVIOUS
<1>1. ASSUME NEW c \in Client, StartPost(c) \/ RepeatRequest(c) PROVE Inv'
  BY <1>1, StartPostStep, RepeatRequestStep
<1>2. ASSUME NEW q \in requests, HandleRequest(q) PROVE Inv'
  BY <1>2, PostTooLargeStep, PostContinueStep, PostLastStep, PostLastNoTransactionStep,
     BlockOutOfScopeStep, ServeBlockStep DEF HandleRequest
<1>3. ASSUME NEW b \in replies, ReceiveReply(b) PROVE Inv'
  BY <1>3, ReceiveContinueStep, ReceiveAckStep, ReceiveFirstStep, ReceiveNextStep,
     ReceiveErrorStep DEF ReceiveReply
<1>4. CASE UNCHANGED vars
  BY <1>4 DEF vars, server, client, Inv, TypeOK, WireInv, RequestInv, ReplyInv, PostInv,
     AnswerInv, Answered, Written
<1> QED BY <1>1, <1>2, <1>3, <1>4 DEF Next

LEMMA SpecInv == Spec => []Inv
BY InitInv, Inductive, PTL DEF Spec

\* Whatever clients post, repeat and interleave, every variable keeps its type:
\* big_msg_len stays inside big_msg, a client's position inside its message.
THEOREM TypeCorrect == Spec => []TypeOK
<1>1. Inv => TypeOK
  BY DEF Inv
<1> QED BY <1>1, SpecInv, PTL

\* The message length never covers a byte of big_msg nobody has written.
THEOREM OnlyWrittenServed == Spec => []MessageWritten
<1>1. Inv => MessageWritten
  BY DEF Inv, Written, MessageWritten
<1> QED BY <1>1, SpecInv, PTL

\* A client that got the bare acknowledgement has its first block under way,
\* unless coap_new_transaction gave none.
THEOREM AckedAnswered == Spec => []AckedIsAnswered
<1>1. Inv => AckedIsAnswered
  BY DEF Inv, AnswerInv, Answered, AckedIsAnswered
<1> QED BY <1>1, SpecInv, PTL

-----------------------------------------------------------------------------
(* What an undisturbed client gets back.                                   *)

\* The first n bytes of the buffer are c's.
Own(c, n) == \A p \in 0 .. n - 1 : big_msg[p] = c

\* The buffer holds c's message and nothing else.
Complete(c) ==
  /\ big_msg_len = length[c] /\ length[c] <= MAX_DATA_LEN /\ Own(c, length[c])
  /\ length[c] <= pos[c] + BLOCK_SIZE

\* Blocks, and the answers to them, are never ahead of their client.
OffsetInv ==
  /\ \A q \in requests : q.kind = "block1" => q.offset <= pos[q.c]
  /\ \A b \in replies : b.kind = "continue" => b.offset <= pos[b.c]
  /\ \A c \in Client :
       /\ phase[c] = "idle" => pos[c] = 0
       /\ phase[c] \in {"idle", "posting", "acked"} => echo[c] = <<>>

FirstBlock(b) ==
  /\ Len(b.payload) = Smaller(length[b.c], BLOCK_SIZE)
  /\ \A i \in 1 .. Len(b.payload) : b.payload[i] = [by |-> b.c, at |-> i - 1]
  /\ b.more <=> length[b.c] > BLOCK_SIZE

NextBlock(b) ==
  /\ b.offset < length[b.c]
  /\ Len(b.payload) = Smaller(BLOCK_SIZE, length[b.c] - b.offset)
  /\ \A i \in 1 .. Len(b.payload) :
       i <= COPIED => b.payload[i] = [by |-> b.c, at |-> b.offset + i - 1]
  /\ b.more <=> length[b.c] - b.offset >= BLOCK_SIZE

OwnReply(b) ==
  /\ b.kind = "continue" /\ b.offset = pos[b.c] => Own(b.c, b.offset + BLOCK_SIZE)
  /\ b.kind \in {"ack", "first", "next"} => Complete(b.c)
  /\ b.kind = "first" => FirstBlock(b)
  /\ b.kind = "next" => NextBlock(b)

OwnInv ==
  /\ \A c \in Client \ disturbed :
       /\ Own(c, pos[c])
       /\ phase[c] \in {"acked", "fetching", "done"} => Complete(c)
  /\ \A q \in requests : q.c \notin disturbed /\ q.kind = "block2" => Complete(q.c)
  /\ \A b \in replies : b.c \notin disturbed => OwnReply(b)

\* These bytes are c's own, where the handler copied them.
Tells(c, bytes) ==
  \A i \in 1 .. Len(bytes) :
    i <= BLOCK_SIZE \/ (i - 1) % BLOCK_SIZE < COPIED => bytes[i] = [by |-> c, at |-> i - 1]

EchoInv ==
  \A c \in Client \ disturbed :
    /\ phase[c] = "fetching" =>
         /\ Len(echo[c]) >= BLOCK_SIZE /\ Len(echo[c]) <= length[c]
         /\ Len(echo[c]) % BLOCK_SIZE = 0 /\ Tells(c, echo[c])
    /\ phase[c] = "done" => Len(echo[c]) = length[c] /\ Tells(c, echo[c])

BufferInv == Inv /\ OffsetInv /\ OwnInv /\ EchoInv

LEMMA InitBuffer == Init => BufferInv
<1> SUFFICES ASSUME Init PROVE BufferInv
  OBVIOUS
<1>1. OffsetInv /\ EchoInv
  BY DEF Init, OffsetInv, EchoInv
<1>2. OwnInv
  BY DEF Init, OwnInv, Own
<1> QED BY <1>1, <1>2, InitInv DEF BufferInv

\* A block stored for a client that stays undisturbed is the client's current
\* one: it extends what is its own, and the last one completes the message.
LEMMA StoreOwn ==
  ASSUME BufferInv, NEW q \in requests, StoreBlock(q),
         NEW c \in Client \ disturbed', phase[c] # "idle"
  PROVE  /\ c = q.c /\ q.offset = pos[c] /\ c \notin disturbed
         /\ \A n \in Offsets : Own(c, n) => Own(c, n)'
         /\ Own(c, PostEnd(q))'
         /\ PostEnd(q) <= MAX_DATA_LEN /\ big_msg_len' = PostEnd(q)
         /\ ~PostMore(q) => PostEnd(q) = length[c] /\ length[c] <= pos[c] + BLOCK_SIZE
         /\ Complete(c) => ~PostMore(q)
<1> USE SizeAssumption
<1>1. Inv /\ TypeOK /\ RequestInv(q) /\ q.kind = "block1" /\ q.c \in Client /\ q.offset \in Nat
      /\ q.offset < length[q.c] /\ length[q.c] \in Nat
  BY DEF BufferInv, Inv, WireInv, RequestInv, StoreBlock, StoreBlockEnding, TypeOK
<1>2. c = q.c /\ q.offset = pos[c] /\ c \notin disturbed
  BY DEF StoreBlock, StoreBlockEnding
<1>3. PostEnd(q) <= MAX_DATA_LEN /\ big_msg_len' = PostEnd(q)
      /\ big_msg' = [p \in 0 .. MAX_DATA_LEN - 1 |->
                       IF p \in q.offset .. PostEnd(q) - 1 THEN q.c ELSE big_msg[p]]
  BY DEF StoreBlock, StoreBlockEnding
<1>4. PostLen(q) \in 1 .. BLOCK_SIZE /\ PostEnd(q) = q.offset + PostLen(q) /\ PostEnd(q) \in Nat
  BY <1>1, PostFacts
<1>5. \A n \in Offsets : Own(c, n) => Own(c, n)'
  BY <1>2, <1>3 DEF Own, Offsets
<1>6. Own(c, PostEnd(q))'
  <2>1. Own(c, q.offset)
    BY <1>2 DEF BufferInv, OwnInv
  <2>2. ASSUME NEW p \in 0 .. PostEnd(q) - 1 PROVE big_msg'[p] = c
    BY <2>1, <2>2, <1>1, <1>2, <1>3, <1>4 DEF Own
  <2>3. PICK n : n = PostEnd(q)
    OBVIOUS
  <2>4. PostEnd(q)' = n
    BY <2>3, StoreWrites, <1>1 DEF PostEnd, PostLen
  <2> QED BY <2>2, <2>3, <2>4 DEF Own
<1>7. ~PostMore(q) => PostEnd(q) = length[c] /\ length[c] <= pos[c] + BLOCK_SIZE
  BY <1>1, <1>2 DEF PostMore, PostEnd, PostLen, Smaller
<1>8. Complete(c) => ~PostMore(q)
  BY <1>1, <1>2 DEF PostMore, Complete
<1> QED BY <1>2, <1>3, <1>5, <1>6, <1>7, <1>8

\* So a complete message stays complete, and the last block makes it so.
LEMMA StoreCompletes ==
  ASSUME BufferInv, NEW q \in requests, StoreBlock(q),
         NEW c \in Client \ disturbed', phase[c] # "idle"
  PROVE  /\ ~PostMore(q) => Complete(c)'
         /\ Complete(c) => Complete(c)'
<1>1. PICK n : n = PostEnd(q)
  OBVIOUS
<1>2. UNCHANGED <<length, pos>>
  BY StoreWrites DEF BufferInv, client
<1>3. n <= MAX_DATA_LEN /\ big_msg_len' = n
  BY <1>1, StoreOwn
<1>4. Own(c, n)'
  <2>1. PostEnd(q)' = n
    BY <1>1, <1>2 DEF PostEnd, PostLen
  <2> QED BY <2>1, StoreOwn DEF Own
<1>5. ~PostMore(q) => n = length[c] /\ length[c] <= pos[c] + BLOCK_SIZE
  BY <1>1, StoreOwn
<1>6. ~PostMore(q) => Complete(c)'
  BY <1>2, <1>3, <1>4, <1>5 DEF Complete, Own
<1> QED BY <1>6, StoreOwn

-----------------------------------------------------------------------------
\* What a handler step that adds the replies R does to undisturbed clients.
Kept(R) ==
  /\ UNCHANGED <<length, client>>
  /\ requests' \subseteq requests /\ replies' = replies \cup R /\ disturbed \subseteq disturbed'
  /\ \A c \in Client \ disturbed' :
       phase[c] # "idle" => /\ \A n \in Offsets : Own(c, n) => Own(c, n)'
                            /\ Complete(c) => Complete(c)'
  /\ \A b \in R : /\ b.kind = "continue" => b.offset <= pos[b.c]
                  /\ b.c \notin disturbed' => OwnReply(b)'

LEMMA ServerKeeps == ASSUME BufferInv, NEW R, Kept(R), Inv' PROVE BufferInv'
<1> USE SizeAssumption
<1>1. Inv /\ TypeOK /\ OffsetInv /\ OwnInv /\ EchoInv /\ UNCHANGED <<length, phase, pos, echo>>
  BY DEF BufferInv, Inv, Kept, client
<1>2. OffsetInv'
  BY <1>1 DEF OffsetInv, Kept
<1>3. EchoInv'
  BY <1>1 DEF EchoInv, Tells, Kept
<1>4. ASSUME NEW c \in Client \ disturbed'
      PROVE  /\ Own(c, pos[c])'
             /\ phase[c] \in {"acked", "fetching", "done"} => Complete(c)'
  <2>1. c \notin disturbed
    BY DEF Kept
  <2>2. CASE phase[c] = "idle"
    BY <2>2, <1>1 DEF OffsetInv, Own
  <2>3. CASE phase[c] # "idle"
    <3>1. PICK n \in Offsets : n = pos[c]
      BY <1>1 DEF Inv, PostInv, Written, TypeOK, Offsets
    <3>2. Own(c, n)'
      BY <2>1, <2>3, <3>1, <1>1 DEF OwnInv, Kept
    <3> QED BY <2>1, <2>3, <3>1, <3>2, <1>1 DEF OwnInv, Kept, Own
  <2> QED BY <2>2, <2>3
<1>5. ASSUME NEW q \in requests', q.c \notin disturbed', q.kind = "block2" PROVE Complete(q.c)'
  <2>1. q \in requests /\ q.c \in Client /\ phase[q.c] # "idle" /\ q.c \notin disturbed
    BY <1>1, <1>5 DEF Kept, Inv, WireInv, RequestInv
  <2> QED BY <2>1, <1>1, <1>5 DEF OwnInv, Kept
<1>6. ASSUME NEW b \in replies, b.c \notin disturbed' PROVE OwnReply(b)'
  <2>1. b.c \in Client /\ phase[b.c] # "idle" /\ b.c \notin disturbed /\ OwnReply(b)
    BY <1>1, <1>6 DEF Kept, Inv, WireInv, ReplyInv, OwnInv
  <2>0. PICK c \in Client \ disturbed' : c = b.c
    BY <2>1, <1>6
  <2>2. b.kind = "continue" /\ b.offset = pos[b.c] => Own(b.c, b.offset + BLOCK_SIZE)'
    <3> SUFFICES ASSUME b.kind = "continue", b.offset = pos[b.c]
                 PROVE  Own(b.c, b.offset + BLOCK_SIZE)'
      OBVIOUS
    <3>1. PICK n \in Offsets : n = b.offset + BLOCK_SIZE
      BY <1>1 DEF Inv, WireInv, ReplyInv, Written, Offsets
    <3>2. Own(c, n)
      BY <2>0, <2>1, <3>1 DEF OwnReply
    <3>3. Own(c, n)'
      BY <2>0, <2>1, <3>2 DEF Kept
    <3> QED BY <2>0, <3>1, <3>3 DEF Own
  <2>3. b.kind \in {"ack", "first", "next"} => Complete(b.c)'
    <3>1. Complete(c) => Complete(c)'
      BY <2>0, <2>1 DEF Kept
    <3> QED BY <2>0, <2>1, <3>1 DEF OwnReply, Complete, Own
  <2>4. (b.kind = "first" => FirstBlock(b)') /\ (b.kind = "next" => NextBlock(b)')
    BY <2>1, <1>1 DEF OwnReply, FirstBlock, NextBlock
  <2> QED BY <2>2, <2>3, <2>4, <1>1 DEF OwnReply
<1>7. ASSUME NEW b \in R, b.c \notin disturbed' PROVE OwnReply(b)'
  BY <1>7 DEF Kept
<1>8. OwnInv'
  BY <1>1, <1>4, <1>5, <1>6, <1>7 DEF OwnInv, Kept
<1> QED BY <1>2, <1>3, <1>8 DEF BufferInv

\* The replies R to q are its client's own.
OwnReplies(q, R) ==
  \A b \in R : /\ b.kind = "continue" => b.offset = q.offset /\ b.c = q.c
               /\ b.c \notin disturbed' => OwnReply(b)'

\* The steps that store a block.
LEMMA StoreKeeps ==
  ASSUME BufferInv, NEW q \in requests, StoreBlock(q), NEW R, replies' = replies \cup R,
         OwnReplies(q, R), Inv'
  PROVE  BufferInv'
<1>1. Inv /\ q.kind = "block1" /\ q.offset <= pos[q.c]
  BY DEF BufferInv, OffsetInv, StoreBlock, StoreBlockEnding
<1>2. UNCHANGED <<length, client>> /\ requests' \subseteq requests /\ disturbed \subseteq disturbed'
  BY <1>1, StoreWrites DEF StoreBlock, StoreBlockEnding
<1>3. ASSUME NEW c \in Client \ disturbed', phase[c] # "idle"
      PROVE  /\ \A n \in Offsets : Own(c, n) => Own(c, n)'
             /\ Complete(c) => Complete(c)'
  BY <1>3, StoreOwn, StoreCompletes
<1>4. Kept(R)
  BY <1>1, <1>2, <1>3 DEF Kept, OwnReplies
<1> QED BY <1>4, ServerKeeps

LEMMA PostContinueKeeps ==
  ASSUME BufferInv, NEW q \in requests, PostContinue(q), Inv' PROVE BufferInv'
<1> USE SizeAssumption
<1>1. PICK b : b = Reply("continue", q.c, q.offset, <<>>, FALSE)
  OBVIOUS
<1>2. /\ Inv /\ TypeOK /\ RequestInv(q) /\ StoreBlock(q) /\ PostMore(q) /\ q.kind = "block1"
      /\ replies' = replies \cup {b} /\ q.c \in Client /\ phase[q.c] # "idle"
      /\ b.kind = "continue" /\ b.c = q.c /\ b.offset = q.offset
  BY <1>1 DEF BufferInv, Inv, WireInv, RequestInv, PostContinue, StoreBlock, StoreBlockEnding, Reply
<1>3. ASSUME b.c \notin disturbed' PROVE OwnReply(b)'
  <2>1. PICK n : n = PostEnd(q)
    OBVIOUS
  <2>2. n = q.offset + BLOCK_SIZE
    BY <2>1, <1>2, PostFacts
  <2>3. PostEnd(q)' = n
    BY <2>1, <1>2, StoreWrites DEF PostEnd, PostLen
  <2>4. PICK c \in Client \ disturbed' : c = q.c
    BY <1>2, <1>3
  <2>5. Own(c, PostEnd(q))'
    BY <2>4, <1>2, StoreOwn
  <2>6. \A p \in 0 .. n - 1 : big_msg'[p] = c
    BY <2>3, <2>5 DEF Own
  <2> QED BY <2>2, <2>4, <2>6, <1>2 DEF OwnReply, Own
<1>4. OwnReplies(q, {b})
  BY <1>2, <1>3 DEF OwnReplies
<1> QED BY <1>2, <1>4, StoreKeeps

LEMMA LastCompletes ==
  ASSUME BufferInv, NEW q \in requests, StoreBlock(q), ~PostMore(q), q.c \notin disturbed'
  PROVE  Complete(q.c)' /\ PostEnd(q) = length[q.c]
<1>1. RequestInv(q)
  BY DEF BufferInv, Inv, WireInv
<1>2. PICK c \in Client \ disturbed' : c = q.c /\ phase[c] # "idle"
  BY <1>1 DEF RequestInv
<1>3. Complete(c)' /\ PostEnd(q) = length[c]
  BY <1>2, StoreOwn, StoreCompletes
<1> QED BY <1>2, <1>3 DEF Complete, Own

LEMMA PostLastNoTransactionKeeps ==
  ASSUME BufferInv, NEW q \in requests, PostLastNoTransaction(q), Inv' PROVE BufferInv'
<1>1. PICK a : a = Reply("ack", q.c, q.offset, <<>>, FALSE)
  OBVIOUS
<1>2. /\ StoreBlock(q) /\ ~PostMore(q) /\ replies' = replies \cup {a}
      /\ a.kind = "ack" /\ a.c = q.c
  BY <1>1 DEF PostLastNoTransaction, Reply
<1>3. ASSUME a.c \notin disturbed' PROVE OwnReply(a)'
  <2>1. Complete(q.c)'
    BY <1>2, <1>3, LastCompletes
  <2> QED BY <2>1, <1>2 DEF OwnReply, Complete, Own
<1>4. OwnReplies(q, {a})
  BY <1>2, <1>3 DEF OwnReplies
<1> QED BY <1>2, <1>4, StoreKeeps

LEMMA PostLastKeeps == ASSUME BufferInv, NEW q \in requests, PostLast(q), Inv' PROVE BufferInv'
<1> USE SizeAssumption
<1>1. /\ Inv /\ TypeOK /\ RequestInv(q) /\ StoreBlock(q) /\ ~PostMore(q)
      /\ q.c \in Client /\ q.kind = "block1"
  BY DEF BufferInv, Inv, WireInv, RequestInv, PostLast, StoreBlock, StoreBlockEnding
<1>2. PICK n \in Nat : n = Smaller(PostEnd(q), BLOCK_SIZE)
  BY <1>1, PostFacts DEF Smaller
<1>3. PICK payload : payload = BufferBytes(big_msg', 0, n)
  OBVIOUS
<1>4. PICK a : a = Reply("ack", q.c, q.offset, <<>>, FALSE)
  OBVIOUS
<1>5. PICK b : b = Reply("first", q.c, 0, payload, PostEnd(q) > BLOCK_SIZE)
  OBVIOUS
<1>6. replies' = replies \cup {a, b}
  BY <1>2, <1>3, <1>4, <1>5 DEF PostLast, SendFirst
<1>7. /\ a.kind = "ack" /\ a.c = q.c /\ b.kind = "first" /\ b.c = q.c
      /\ b.payload = payload /\ (b.more <=> PostEnd(q) > BLOCK_SIZE)
  BY <1>4, <1>5 DEF Reply
<1>8. ASSUME q.c \notin disturbed' PROVE OwnReply(a)' /\ OwnReply(b)'
  <2>1. Complete(q.c)' /\ PostEnd(q) = length[q.c]
    BY <1>1, <1>8, LastCompletes
  <2>2. OwnReply(a)'
    BY <2>1, <1>7 DEF OwnReply, Complete, Own
  <2>3. /\ big_msg' \in [0 .. MAX_DATA_LEN - 1 -> Client \cup {Nobody}] /\ length' = length
        /\ length[q.c] \in Nat
    BY <1>1, StoreWrites DEF TypeOK
  <2>4. n <= length[q.c] /\ length[q.c] <= MAX_DATA_LEN /\ \A p \in 0 .. length[q.c] - 1 : big_msg'[p] = q.c
    BY <2>1, <2>3, <1>2 DEF Complete, Own, Smaller
  <2>5. Len(payload) = n /\ DOMAIN payload = 1 .. n
    BY <1>3 DEF BufferBytes
  <2>6. ASSUME NEW i \in 1 .. n PROVE payload[i] = [by |-> q.c, at |-> i - 1]
    <3>1. i - 1 \in DOMAIN big_msg' /\ i - 1 \in 0 .. length[q.c] - 1 /\ 0 + i - 1 = i - 1
      BY <2>3, <2>4, <2>6
    <3> QED BY <3>1, <2>4, <1>3 DEF BufferBytes
  <2>7. FirstBlock(b)'
    BY <2>1, <2>3, <2>5, <2>6, <1>2, <1>7 DEF FirstBlock, Smaller
  <2> QED BY <2>1, <2>2, <2>7, <1>7 DEF OwnReply, Complete, Own
<1>9. OwnReplies(q, {a, b})
  BY <1>7, <1>8 DEF OwnReplies
<1> QED BY <1>1, <1>6, <1>7, <1>9, StoreKeeps

\* The steps that leave the buffer alone.
LEMMA ServeKeeps ==
  ASSUME BufferInv, NEW q \in requests, UNCHANGED <<server, length, client, disturbed>>,
         requests' = requests \ {q}, NEW R, replies' = replies \cup R, OwnReplies(q, R),
         \A b \in R : b.kind # "continue",
         Inv'
  PROVE  BufferInv'
<1>1. UNCHANGED <<big_msg, big_msg_len, length, phase, pos, echo, disturbed>>
  BY DEF server, client
<1>2. ASSUME NEW c \in Client
      PROVE  /\ \A n \in Offsets : Own(c, n) => Own(c, n)'
             /\ Complete(c) => Complete(c)'
  BY <1>1 DEF Complete, Own
<1>3. Kept(R)
  BY <1>1, <1>2 DEF Kept, OwnReplies
<1> QED BY <1>3, ServerKeeps

LEMMA PostTooLargeKeeps ==
  ASSUME BufferInv, NEW q \in requests, PostTooLarge(q), Inv' PROVE BufferInv'
<1>1. PICK b : b = Reply("error", q.c, q.offset, <<>>, FALSE)
  OBVIOUS
<1>2. replies' = replies \cup {b} /\ b.kind = "error"
  BY <1>1 DEF PostTooLarge, Reply
<1>3. OwnReplies(q, {b})
  BY <1>2 DEF OwnReplies, OwnReply
<1>4. UNCHANGED <<server, length, client, disturbed>> /\ requests' = requests \ {q}
  BY DEF PostTooLarge
<1> QED BY <1>2, <1>3, <1>4, ServeKeeps

LEMMA BlockOutOfScopeKeeps ==
  ASSUME BufferInv, NEW q \in requests, BlockOutOfScope(q), Inv' PROVE BufferInv'
<1>1. PICK b : b = Reply("error", q.c, q.offset, <<>>, FALSE)
  OBVIOUS
<1>2. replies' = replies \cup {b} /\ b.kind = "error"
  BY <1>1 DEF BlockOutOfScope, Reply
<1>3. OwnReplies(q, {b})
  BY <1>2 DEF OwnReplies, OwnReply
<1>4. UNCHANGED <<server, length, client, disturbed>> /\ requests' = requests \ {q}
  BY DEF BlockOutOfScope
<1> QED BY <1>2, <1>3, <1>4, ServeKeeps

LEMMA ServeBlockKeeps ==
  ASSUME BufferInv, NEW q \in requests, ServeBlock(q), Inv' PROVE BufferInv'
<1> USE SizeAssumption
<1>1. /\ TypeOK /\ q.c \in Client /\ q.offset \in Nat /\ q.offset < big_msg_len
      /\ q.kind = "block2" /\ big_msg_len \in Nat
  BY DEF BufferInv, Inv, WireInv, RequestInv, ServeBlock, TypeOK, Offsets
<1>2. PICK n \in Nat : n = Smaller(BLOCK_SIZE, big_msg_len - q.offset)
  BY <1>1 DEF Smaller
<1>3. PICK payload : payload = BlockPayload(q.offset, n)
  OBVIOUS
<1>4. PICK b : b = Reply("next", q.c, q.offset, payload, NextOffset(q.offset, BLOCK_SIZE) # -1)
  OBVIOUS
<1>0. NextOffset(q.offset, BLOCK_SIZE) # -1 <=> big_msg_len - q.offset >= BLOCK_SIZE
  BY <1>1 DEF NextOffset
<1>5. /\ UNCHANGED <<server, length, client, disturbed>> /\ requests' = requests \ {q}
      /\ replies' = replies \cup {b}
  BY <1>2, <1>3, <1>4 DEF ServeBlock
<1>6. /\ b.kind = "next" /\ b.c = q.c /\ b.offset = q.offset /\ b.payload = payload
      /\ b.more <=> big_msg_len - q.offset >= BLOCK_SIZE
  BY <1>0, <1>4 DEF Reply
<1>7. ASSUME q.c \notin disturbed PROVE OwnReply(b)
  <2>1. Complete(q.c)
    BY <1>1, <1>7 DEF BufferInv, OwnInv
  <2>2. length[q.c] = big_msg_len /\ \A p \in 0 .. big_msg_len - 1 : big_msg[p] = q.c
    BY <2>1 DEF Complete, Own
  <2>3. Len(payload) = n /\ DOMAIN payload = 1 .. n
    BY <1>3 DEF BlockPayload
  <2>4. ASSUME NEW i \in 1 .. n, i <= COPIED
        PROVE  payload[i] = [by |-> q.c, at |-> q.offset + i - 1]
    <3>1. q.offset + i - 1 \in 0 .. big_msg_len - 1
      BY <2>4, <1>1, <1>2 DEF Smaller
    <3>2. q.offset + i - 1 \in DOMAIN big_msg
      BY <3>1, <1>1 DEF TypeOK, Offsets
    <3>3. BufferBytes(big_msg, q.offset, n)[i] = [by |-> q.c, at |-> q.offset + i - 1]
      BY <3>1, <3>2, <2>2, <2>4 DEF BufferBytes
    <3> QED BY <3>3, <2>4, <1>3 DEF BlockPayload
  <2>5. NextBlock(b)
    BY <2>2, <2>3, <2>4, <1>1, <1>2, <1>6 DEF NextBlock
  <2> QED BY <2>1, <2>5, <1>6 DEF OwnReply
<1>8. OwnReplies(q, {b})
  <2>1. OwnReply(b) => OwnReply(b)'
    BY <1>5, <1>6 DEF OwnReply, Complete, Own, NextBlock, server, client
  <2> QED BY <2>1, <1>5, <1>6, <1>7 DEF OwnReplies
<1> QED BY <1>5, <1>6, <1>8, ServeKeeps

-----------------------------------------------------------------------------
\* Remainders: what is added to a multiple of b is what is left over.
LEMMA Remainder ==
  ASSUME NEW b \in Int, b > 0, NEW x \in Int, NEW q \in Int, NEW r \in 0 .. b - 1, x = b * q + r
  PROVE  x % b = r
OBVIOUS

LEMMA Quotient ==
  ASSUME NEW b \in Int, b > 0, NEW x \in Int
  PROVE  x \div b \in Int /\ x % b = x - b * (x \div b)
OBVIOUS

LEMMA NextMultiple ==
  ASSUME NEW b \in Nat \ {0}, NEW k \in Nat, k % b = 0
  PROVE  (k + b) % b = 0 /\ \A j \in 0 .. b - 1 : (k + j) % b = j
<1>1. PICK q \in Int : q = k \div b
  BY Quotient
<1>2. k % b = k - b * q
  BY <1>1, Quotient
<1>3. PICK m \in Int : m = b * q
  OBVIOUS
<1>4. k = m
  BY <1>2, <1>3
<1>5. ASSUME NEW j \in 0 .. b - 1 PROVE (k + j) % b = j
  <2>1. k + j \in Int /\ k + j = b * q + j
    BY <1>3, <1>4
  <2> QED BY <2>1, Remainder
<1>6. (k + b) % b = 0
  <2>1. b * (q + 1) = b * q + b
    OBVIOUS
  <2>2. k + b \in Int /\ q + 1 \in Int /\ 0 \in 0 .. b - 1 /\ k + b = b * (q + 1) + 0
    BY <2>1, <1>3, <1>4
  <2> QED BY <2>2, Remainder
<1> QED BY <1>5, <1>6

-----------------------------------------------------------------------------
\* What a client step that sends the requests Q may do.
Behaves(Q) ==
  /\ UNCHANGED <<server, length, pos, disturbed>>
  /\ requests' = requests \cup Q /\ replies' \subseteq replies
  /\ \A q \in Q : /\ q.kind = "block1" => q.offset <= pos[q.c]
                  /\ q.kind = "block2" /\ q.c \notin disturbed => Complete(q.c)
  /\ \A c \in Client :
       /\ phase'[c] = "idle" => phase[c] = "idle"
       /\ phase'[c] \in {"idle", "posting", "acked"} => echo'[c] = <<>>
       /\ phase'[c] \in {"acked", "fetching", "done"} /\ c \notin disturbed => Complete(c)

LEMMA ClientKeeps ==
  ASSUME BufferInv, NEW Q, Behaves(Q), Inv', EchoInv' PROVE BufferInv'
<1>1. OffsetInv /\ OwnInv /\ UNCHANGED <<big_msg, big_msg_len, length, pos, disturbed>>
  BY DEF BufferInv, Behaves, server
<1>2. OffsetInv'
  BY <1>1 DEF OffsetInv, Behaves
<1>3. ASSUME NEW c, Complete(c) PROVE Complete(c)'
  BY <1>1, <1>3 DEF Complete, Own
<1>4. ASSUME NEW b \in replies', b.c \notin disturbed' PROVE OwnReply(b)'
  <2>1. OwnReply(b)
    BY <1>1, <1>4 DEF OwnInv, Behaves
  <2> QED BY <2>1, <1>1 DEF OwnReply, FirstBlock, NextBlock, Complete, Own
<1>5. ASSUME NEW c \in Client \ disturbed'
      PROVE  /\ Own(c, pos[c])'
             /\ phase'[c] \in {"acked", "fetching", "done"} => Complete(c)'
  BY <1>1, <1>3 DEF OwnInv, Own, Behaves
<1>6. ASSUME NEW q \in requests', q.c \notin disturbed', q.kind = "block2" PROVE Complete(q.c)'
  <2>1. Complete(q.c)
    BY <1>1, <1>6 DEF OwnInv, Behaves
  <2> QED BY <2>1, <1>1 DEF Complete, Own
<1>7. OwnInv'
  BY <1>4, <1>5, <1>6 DEF OwnInv
<1> QED BY <1>2, <1>7 DEF BufferInv

\* Clients that fetch or are done have what they had.
LEMMA EchoKept ==
  ASSUME EchoInv, UNCHANGED <<length, echo, disturbed>>,
         \A c \in Client : phase'[c] \in {"fetching", "done"} => phase'[c] = phase[c]
  PROVE  EchoInv'
BY DEF EchoInv, Tells

LEMMA StartPostKeeps ==
  ASSUME BufferInv, NEW c \in Client, StartPost(c), Inv' PROVE BufferInv'
<1>1. PICK q : q = Block1(c, 0)
  OBVIOUS
<1>2. /\ TypeOK /\ PostInv /\ OffsetInv /\ OwnInv /\ EchoInv
      /\ phase' = [phase EXCEPT ![c] = "posting"] /\ requests' = requests \cup {q}
      /\ UNCHANGED <<server, length, pos, echo, replies, disturbed>> /\ phase[c] = "idle"
  BY <1>1 DEF BufferInv, Inv, StartPost
<1>3. EchoInv'
  BY <1>2, EchoKept DEF TypeOK
<1>4. q.kind = "block1" /\ q.offset <= pos[q.c]
  BY <1>1, <1>2 DEF Block1, OffsetInv
<1>5. Behaves({q})
  BY <1>2, <1>4 DEF Behaves, TypeOK, OffsetInv, OwnInv
<1> QED BY <1>3, <1>5, ClientKeeps

LEMMA RepeatRequestKeeps ==
  ASSUME BufferInv, NEW c \in Client, RepeatRequest(c), Inv' PROVE BufferInv'
<1>1. /\ TypeOK /\ PostInv /\ OffsetInv /\ OwnInv /\ EchoInv
      /\ UNCHANGED <<server, length, phase, pos, echo, replies, disturbed>>
  BY DEF BufferInv, Inv, RepeatRequest, client
<1>2. PICK q : /\ requests' = requests \cup {q}
               /\ \/ phase[c] = "posting" /\ q = Block1(c, pos[c])
                  \/ phase[c] = "fetching" /\ q = Block2(c, Len(echo[c]))
  BY DEF RepeatRequest
<1>3. EchoInv'
  BY <1>1, EchoKept
<1>4. /\ q.kind = "block1" => q.offset <= pos[q.c]
      /\ q.kind = "block2" /\ q.c \notin disturbed => Complete(q.c)
  <2>1. CASE phase[c] = "posting" /\ q = Block1(c, pos[c])
    <3>1. pos[c] \in Int
      BY <1>1 DEF TypeOK
    <3> QED BY <2>1, <3>1 DEF Block1
  <2>2. CASE phase[c] = "fetching" /\ q = Block2(c, Len(echo[c]))
    <3>1. q.kind = "block2" /\ q.c = c
      BY <2>2 DEF Block2
    <3> QED BY <2>2, <3>1, <1>1 DEF OwnInv
  <2> QED BY <1>2, <2>1, <2>2
<1>5. Behaves({q})
  BY <1>1, <1>2, <1>4 DEF Behaves, OffsetInv, OwnInv
<1> QED BY <1>3, <1>5, ClientKeeps

LEMMA ReceiveAckKeeps ==
  ASSUME BufferInv, NEW b \in replies, ReceiveAck(b), Inv' PROVE BufferInv'
<1>1. /\ TypeOK /\ OffsetInv /\ OwnInv /\ EchoInv /\ b.kind = "ack" /\ b.c \in Client
      /\ phase' = [phase EXCEPT ![b.c] = IF @ = "posting" THEN "acked" ELSE @]
      /\ UNCHANGED <<server, length, pos, echo, requests, disturbed>> /\ replies' = replies \ {b}
  BY DEF BufferInv, Inv, WireInv, ReplyInv, ReceiveAck
<1>2. b.c \notin disturbed => Complete(b.c)
  BY <1>1 DEF OwnInv, OwnReply
<1>3. EchoInv'
  BY <1>1, EchoKept DEF TypeOK
<1>4. Behaves({})
  BY <1>1, <1>2 DEF Behaves, TypeOK, OffsetInv, OwnInv
<1> QED BY <1>3, <1>4, ClientKeeps

LEMMA ReceiveErrorKeeps ==
  ASSUME BufferInv, NEW b \in replies, ReceiveError(b), Inv' PROVE BufferInv'
<1>1. /\ TypeOK /\ OffsetInv /\ OwnInv /\ EchoInv /\ b.c \in Client
      /\ phase' = [phase EXCEPT ![b.c] = IF @ \in {"posting", "fetching"} THEN "failed" ELSE @]
      /\ UNCHANGED <<server, length, pos, echo, requests, disturbed>> /\ replies' = replies \ {b}
  BY DEF BufferInv, Inv, WireInv, ReplyInv, ReceiveError
<1>2. EchoInv'
  BY <1>1, EchoKept DEF TypeOK
<1>3. Behaves({})
  BY <1>1 DEF Behaves, TypeOK, OffsetInv, OwnInv
<1> QED BY <1>2, <1>3, ClientKeeps

\* A reply that is only dropped.
LEMMA DropKeeps ==
  ASSUME BufferInv, NEW b \in replies, replies' = replies \ {b},
         UNCHANGED <<server, length, client, requests, disturbed>>, Inv'
  PROVE  BufferInv'
<1>1. OffsetInv /\ OwnInv /\ EchoInv /\ UNCHANGED <<server, length, phase, pos, echo, disturbed>>
  BY DEF BufferInv, client
<1>2. EchoInv'
  BY <1>1, EchoKept
<1>3. Behaves({})
  BY <1>1 DEF Behaves, OffsetInv, OwnInv
<1> QED BY <1>2, <1>3, ClientKeeps

\* A Continue for the current block moves the client past bytes that are its own.
LEMMA ReceiveContinueKeeps ==
  ASSUME BufferInv, NEW b \in replies, ReceiveContinue(b), Inv' PROVE BufferInv'
<1> USE SizeAssumption
<1>1. CASE ~(phase[b.c] = "posting" /\ b.offset = pos[b.c])
  BY <1>1, DropKeeps DEF ReceiveContinue, client
<1>2. CASE phase[b.c] = "posting" /\ b.offset = pos[b.c]
  <2>1. /\ TypeOK /\ OffsetInv /\ OwnInv /\ EchoInv /\ WireInv /\ ReplyInv(b) /\ b.c \in Client
        /\ b.kind = "continue" /\ UNCHANGED <<server, length, phase, echo, disturbed>>
        /\ replies' = replies \ {b} /\ pos' = [pos EXCEPT ![b.c] = @ + BLOCK_SIZE]
        /\ requests' = requests \cup {Block1(b.c, pos'[b.c])}
    BY <1>2 DEF BufferInv, Inv, WireInv, ReplyInv, ReceiveContinue
  <2>2. /\ pos[b.c] \in Nat /\ pos'[b.c] = pos[b.c] + BLOCK_SIZE
        /\ \A c \in Client : c # b.c => pos'[c] = pos[c]
        /\ \A c \in Client : pos[c] \in Nat /\ pos[c] <= pos'[c]
    BY <2>1 DEF TypeOK
  <2>3. EchoInv'
    BY <2>1, EchoKept
  <2>4. OffsetInv'
    <3>1. ASSUME NEW q \in requests', q.kind = "block1" PROVE q.offset <= pos'[q.c]
      <4>1. CASE q \in requests
        <5>1. q.offset \in Nat /\ q.c \in Client /\ q.offset <= pos[q.c]
          BY <4>1, <3>1, <2>1 DEF WireInv, RequestInv, OffsetInv
        <5> QED BY <5>1, <2>2
      <4>2. CASE q = Block1(b.c, pos'[b.c])
        BY <4>2, <2>2 DEF Block1
      <4> QED BY <4>1, <4>2, <2>1
    <3>2. ASSUME NEW r \in replies', r.kind = "continue" PROVE r.offset <= pos'[r.c]
      <4>1. r.offset \in Nat /\ r.c \in Client /\ r.offset <= pos[r.c]
        BY <3>2, <2>1 DEF WireInv, ReplyInv, OffsetInv
      <4> QED BY <4>1, <2>2
    <3> QED BY <3>1, <3>2, <2>1, <2>2, <1>2 DEF OffsetInv
  <2>5. ASSUME NEW c \in Client, Complete(c) PROVE Complete(c)'
    <3>1. length[c] \in Nat
      BY <2>1 DEF TypeOK
    <3> QED BY <3>1, <2>1, <2>2, <2>5 DEF Complete, Own, server
  <2>6. ASSUME NEW c \in Client \ disturbed'
        PROVE  /\ Own(c, pos[c])'
               /\ phase'[c] \in {"acked", "fetching", "done"} => Complete(c)'
    <3>1. c \notin disturbed /\ (phase'[c] \in {"acked", "fetching", "done"} => Complete(c)')
      BY <2>1, <2>5 DEF OwnInv
    <3>2. CASE c # b.c
      BY <3>1, <3>2, <2>1, <2>2 DEF OwnInv, Own, server
    <3>3. CASE c = b.c
      <4>1. Own(b.c, b.offset + BLOCK_SIZE)
        BY <3>1, <3>3, <2>1, <1>2 DEF OwnInv, OwnReply
      <4> QED BY <4>1, <3>1, <3>3, <2>1, <2>2, <1>2 DEF Own, server
    <3> QED BY <3>2, <3>3
  <2>7. ASSUME NEW q \in requests', q.c \notin disturbed', q.kind = "block2" PROVE Complete(q.c)'
    <3>1. q \in requests /\ q.c \in Client
      BY <2>7, <2>1 DEF Block1, WireInv, RequestInv
    <3>2. PICK c \in Client : c = q.c
      BY <3>1
    <3>3. Complete(c)
      BY <3>1, <3>2, <2>1, <2>7 DEF OwnInv
    <3>4. Complete(c)'
      BY <3>3, <2>5
    <3> QED BY <3>2, <3>4 DEF Complete, Own
  <2>8. ASSUME NEW r \in replies', r.c \notin disturbed' PROVE OwnReply(r)'
    <3>1. r \in replies /\ r.c \in Client /\ r.offset \in Nat /\ OwnReply(r)
      BY <2>8, <2>1 DEF WireInv, ReplyInv, OwnInv
    <3>2. PICK c \in Client : c = r.c
      BY <3>1
    <3>3. r.kind \in {"ack", "first", "next"} => Complete(r.c)'
      <4>1. Complete(c) => Complete(c)'
        BY <2>5
      <4> QED BY <4>1, <3>1, <3>2 DEF OwnReply, Complete, Own
    <3>4. r.kind = "continue" /\ r.offset = pos'[r.c] => Own(r.c, r.offset + BLOCK_SIZE)'
      <4>1. r.kind = "continue" /\ r.offset = pos'[r.c] => r.c # b.c /\ r.offset = pos[r.c]
        BY <3>1, <2>1, <2>2 DEF OffsetInv
      <4> QED BY <4>1, <3>1, <2>1 DEF OwnReply, Own, server
    <3> QED BY <3>1, <3>3, <3>4, <2>1 DEF OwnReply, FirstBlock, NextBlock
  <2>9. OwnInv'
    BY <2>6, <2>7, <2>8 DEF OwnInv
  <2> QED BY <2>3, <2>4, <2>9 DEF BufferInv
<1> QED BY <1>1, <1>2

\* What a client has after a payload: full blocks when more follow, else all.
Got(c, bytes, more) ==
  /\ Tells(c, bytes)
  /\ more => Len(bytes) >= BLOCK_SIZE /\ Len(bytes) <= length[c] /\ Len(bytes) % BLOCK_SIZE = 0
  /\ ~more => Len(bytes) = length[c]

LEMMA TakeKeeps ==
  ASSUME BufferInv, NEW b \in replies, TakePayload(b), replies' = replies \ {b},
         UNCHANGED <<server, length, pos, disturbed>>,
         b.c \notin disturbed => Complete(b.c) /\ Got(b.c, echo[b.c] \o b.payload, b.more),
         Inv'
  PROVE  BufferInv'
<1>1. /\ TypeOK /\ OffsetInv /\ OwnInv /\ EchoInv /\ b.c \in Client /\ b.more \in BOOLEAN
      /\ b.payload \in Seq(Byte) /\ echo[b.c] \in Seq(Byte)
  BY DEF BufferInv, Inv, WireInv, ReplyInv, TypeOK
<1>2. PICK bytes : bytes = echo[b.c] \o b.payload
  OBVIOUS
<1>3. PICK p : p = IF b.more THEN "fetching" ELSE "done"
  OBVIOUS
<1>4. echo' = [echo EXCEPT ![b.c] = bytes] /\ phase' = [phase EXCEPT ![b.c] = p]
  BY <1>1, <1>2, <1>3 DEF TakePayload, TypeOK
<1>5. /\ echo'[b.c] = bytes /\ phase'[b.c] = p /\ p \in {"fetching", "done"}
      /\ \A c \in Client : c # b.c => echo'[c] = echo[c] /\ phase'[c] = phase[c]
  BY <1>1, <1>3, <1>4 DEF TypeOK
<1>6. EchoInv'
  <2> SUFFICES ASSUME NEW c \in Client \ disturbed
               PROVE  /\ phase'[c] = "fetching" =>
                           /\ Len(echo'[c]) >= BLOCK_SIZE /\ Len(echo'[c]) <= length[c]
                           /\ Len(echo'[c]) % BLOCK_SIZE = 0 /\ Tells(c, echo'[c])
                      /\ phase'[c] = "done" => Len(echo'[c]) = length[c] /\ Tells(c, echo'[c])
    BY DEF EchoInv, Tells
  <2>1. CASE c # b.c
    BY <2>1, <1>1, <1>5 DEF EchoInv
  <2>2. CASE c = b.c
    <3>1. Got(c, bytes, b.more)
      BY <2>2, <1>2
    <3> QED BY <2>2, <3>1, <1>3, <1>5 DEF Got
  <2> QED BY <2>1, <2>2
<1>7. PICK Q : Q = IF b.more THEN {Block2(b.c, Len(bytes))} ELSE {}
  OBVIOUS
<1>8. Behaves(Q)
  <2>1. requests' = requests \cup Q /\ \A q \in Q : q.kind = "block2" /\ q.c = b.c
    <3>1. CASE b.more
      <4>1. Q = {Block2(b.c, Len(bytes))}
        BY <3>1, <1>7
      <4>2. requests' = requests \cup Q
        BY <3>1, <4>1, <1>5 DEF TakePayload
      <4> QED BY <4>1, <4>2 DEF Block2
    <3>2. CASE ~b.more
      BY <3>2, <1>7 DEF TakePayload
    <3> QED BY <3>1, <3>2
  <2>2. \A c \in Client :
          /\ phase'[c] = "idle" => phase[c] = "idle"
          /\ phase'[c] \in {"idle", "posting", "acked"} => echo'[c] = <<>>
          /\ phase'[c] \in {"acked", "fetching", "done"} /\ c \notin disturbed => Complete(c)
    BY <1>1, <1>5 DEF OffsetInv, OwnInv
  <2> QED BY <2>1, <2>2, <1>7 DEF Behaves
<1> QED BY <1>6, <1>8, ClientKeeps

\* The facts about an undisturbed client's reply.
LEMMA ReplyFacts ==
  ASSUME BufferInv, NEW b \in replies, b.c \notin disturbed, b.kind \in {"first", "next"}
  PROVE  /\ Complete(b.c) /\ b.payload \in Seq(Byte) /\ echo[b.c] \in Seq(Byte)
         /\ length[b.c] \in Nat \ {0} /\ b.c \in Client /\ b.more \in BOOLEAN
         /\ b.kind = "first" => FirstBlock(b)
         /\ b.kind = "next" => NextBlock(b)
<1>1. WireInv /\ TypeOK /\ OwnReply(b)
  BY DEF BufferInv, Inv, OwnInv
<1>2. b.c \in Client /\ b.payload \in Seq(Byte) /\ b.more \in BOOLEAN
  BY <1>1 DEF WireInv, ReplyInv
<1> QED BY <1>1, <1>2 DEF OwnReply, TypeOK

LEMMA ReceiveFirstKeeps ==
  ASSUME BufferInv, NEW b \in replies, ReceiveFirst(b), Inv' PROVE BufferInv'
<1> USE SizeAssumption
<1>1. CASE phase[b.c] \notin {"posting", "acked"}
  BY <1>1, DropKeeps DEF ReceiveFirst, client
<1>2. CASE phase[b.c] \in {"posting", "acked"}
  <2>1. ASSUME b.c \notin disturbed
        PROVE  Complete(b.c) /\ Got(b.c, echo[b.c] \o b.payload, b.more)
    <3>1. b.kind = "first" /\ Complete(b.c) /\ FirstBlock(b) /\ b.payload \in Seq(Byte)
          /\ length[b.c] \in Nat \ {0} /\ b.c \in Client /\ b.more \in BOOLEAN
      BY <2>1, ReplyFacts DEF ReceiveFirst
    <3>2. echo[b.c] = <<>>
      BY <1>2, <3>1 DEF BufferInv, OffsetInv
    <3>3. PICK bytes \in Seq(Byte) : bytes = b.payload
      BY <3>1
    <3>4. echo[b.c] \o b.payload = bytes
      BY <3>2, <3>3
    <3>5. Len(bytes) = Smaller(length[b.c], BLOCK_SIZE) /\ (b.more <=> length[b.c] > BLOCK_SIZE)
      BY <3>1, <3>3 DEF FirstBlock
    <3>6. Tells(b.c, bytes)
      BY <3>1, <3>3 DEF FirstBlock, Tells
    <3>7. b.more => Len(bytes) = BLOCK_SIZE /\ BLOCK_SIZE <= length[b.c]
      BY <3>1, <3>5 DEF Smaller
    <3>8. ~b.more => Len(bytes) = length[b.c]
      BY <3>1, <3>5 DEF Smaller
    <3>9. BLOCK_SIZE % BLOCK_SIZE = 0
      <4>1. PICK size \in Int : size = BLOCK_SIZE /\ size > 0
        OBVIOUS
      <4>2. 0 \in 0 .. size - 1 /\ 0 = size * 0 + 0
        BY <4>1
      <4>3. 0 % size = 0
        BY <4>1, <4>2, Remainder
      <4> QED BY <4>1, <4>3, NextMultiple
    <3>10. Got(b.c, bytes, b.more)
      BY <3>6, <3>7, <3>8, <3>9 DEF Got
    <3> QED BY <3>1, <3>4, <3>10
  <2> QED BY <1>2, <2>1, TakeKeeps DEF ReceiveFirst
<1> QED BY <1>1, <1>2

LEMMA ReceiveNextKeeps ==
  ASSUME BufferInv, NEW b \in replies, ReceiveNext(b), Inv' PROVE BufferInv'
<1> USE SizeAssumption
<1>1. CASE ~(phase[b.c] = "fetching" /\ b.offset = Len(echo[b.c]))
  BY <1>1, DropKeeps DEF ReceiveNext, client
<1>2. CASE phase[b.c] = "fetching" /\ b.offset = Len(echo[b.c])
  <2>1. ASSUME b.c \notin disturbed
        PROVE  Complete(b.c) /\ Got(b.c, echo[b.c] \o b.payload, b.more)
    <3>1. b.kind = "next" /\ Complete(b.c) /\ NextBlock(b) /\ b.payload \in Seq(Byte)
          /\ length[b.c] \in Nat /\ b.c \in Client /\ b.more \in BOOLEAN
      BY <2>1, ReplyFacts DEF ReceiveNext
    <3>2. PICK had \in Seq(Byte) : had = echo[b.c]
      BY <2>1, <3>1, ReplyFacts
    <3>3. PICK got \in Seq(Byte) : got = b.payload
      BY <3>1
    <3>4. PICK k \in Nat : k = Len(had)
      OBVIOUS
    <3>5. k >= BLOCK_SIZE /\ k <= length[b.c] /\ k % BLOCK_SIZE = 0 /\ Tells(b.c, had)
      BY <1>2, <2>1, <3>1, <3>2, <3>4 DEF BufferInv, EchoInv
    <3>6. /\ k < length[b.c] /\ Len(got) = Smaller(BLOCK_SIZE, length[b.c] - k)
          /\ \A i \in 1 .. Len(got) : i <= COPIED => got[i] = [by |-> b.c, at |-> k + i - 1]
          /\ b.more <=> length[b.c] - k >= BLOCK_SIZE
      BY <1>2, <3>1, <3>2, <3>3, <3>4 DEF NextBlock
    <3>7. PICK bytes \in Seq(Byte) : bytes = had \o got
      <4>1. had \o got \in Seq(Byte)
        OBVIOUS
      <4> QED BY <4>1
    <3>8. /\ Len(bytes) = k + Len(got)
          /\ \A i \in 1 .. k : bytes[i] = had[i]
          /\ \A i \in 1 .. Len(got) : bytes[k + i] = got[i]
      BY <3>4, <3>7
    <3>9. (k + BLOCK_SIZE) % BLOCK_SIZE = 0 /\ \A j \in 0 .. BLOCK_SIZE - 1 : (k + j) % BLOCK_SIZE = j
      BY <3>5, NextMultiple
    <3>10. Len(got) \in Nat /\ Len(got) <= BLOCK_SIZE
      BY <3>1, <3>6 DEF Smaller
    <3>11. ASSUME NEW i \in 1 .. Len(bytes), i <= BLOCK_SIZE \/ (i - 1) % BLOCK_SIZE < COPIED
           PROVE  bytes[i] = [by |-> b.c, at |-> i - 1]
      <4>1. CASE i <= k
        <5>1. i \in 1 .. k
          BY <4>1
        <5> QED BY <5>1, <3>4, <3>5, <3>8, <3>11 DEF Tells
      <4>2. CASE i > k
        <5>1. PICK j \in 1 .. Len(got) : i = k + j
          BY <4>2, <3>8, <3>10
        <5>2. PICK h \in 0 .. BLOCK_SIZE - 1 : h = j - 1
          BY <3>10
        <5>3. i - 1 = k + h /\ ~(i <= BLOCK_SIZE)
          BY <5>1, <5>2, <3>5
        <5>4. h < COPIED
          BY <5>3, <3>9, <3>11
        <5>5. j <= COPIED
          BY <5>2, <5>4
        <5> QED BY <5>1, <5>5, <3>6, <3>8
      <4> QED BY <4>1, <4>2
    <3>12. Tells(b.c, bytes)
      BY <3>11 DEF Tells
    <3>13. b.more => Len(bytes) = k + BLOCK_SIZE /\ k + BLOCK_SIZE <= length[b.c]
      <4>1. b.more => Smaller(BLOCK_SIZE, length[b.c] - k) = BLOCK_SIZE
        BY <3>1, <3>6 DEF Smaller
      <4> QED BY <4>1, <3>1, <3>6, <3>8
    <3>14. ~b.more => Len(bytes) = length[b.c]
      BY <3>1, <3>6, <3>8 DEF Smaller
    <3>15. Got(b.c, bytes, b.more)
      BY <3>5, <3>9, <3>12, <3>13, <3>14 DEF Got
    <3> QED BY <3>1, <3>2, <3>3, <3>7, <3>15
  <2> QED BY <1>2, <2>1, TakeKeeps DEF ReceiveNext
<1> QED BY <1>1, <1>2

LEMMA BufferInductive == BufferInv /\ [Next]_vars => BufferInv'
<1> SUFFICES ASSUME BufferInv, [Next]_vars PROVE BufferInv'
  OBVIOUS
<1>0. Inv'
  BY Inductive DEF BufferInv
<1>1. ASSUME NEW c \in Client, StartPost(c) \/ RepeatRequest(c) PROVE BufferInv'
  BY <1>0, <1>1, StartPostKeeps, RepeatRequestKeeps
<1>2. ASSUME NEW q \in requests, HandleRequest(q) PROVE BufferInv'
  BY <1>0, <1>2, PostTooLargeKeeps, PostContinueKeeps, PostLastKeeps,
     PostLastNoTransactionKeeps, BlockOutOfScopeKeeps, ServeBlockKeeps DEF HandleRequest
<1>3. ASSUME NEW b \in replies, ReceiveReply(b) PROVE BufferInv'
  BY <1>0, <1>3, ReceiveContinueKeeps, ReceiveAckKeeps, ReceiveFirstKeeps, ReceiveNextKeeps,
     ReceiveErrorKeeps DEF ReceiveReply
<1>4. CASE UNCHANGED vars
  <2>1. Behaves({})
    BY <1>4 DEF vars, server, client, BufferInv, OffsetInv, OwnInv, Behaves
  <2>2. EchoInv'
    BY <1>4, EchoKept DEF vars, client, BufferInv
  <2> QED BY <1>0, <2>1, <2>2, ClientKeeps
<1> QED BY <1>1, <1>2, <1>3, <1>4 DEF Next

\* A client whose message no other request wrote over ends with its own message:
\* all of its first block, and the bytes the handler copies of every other one.
EchoIsPost ==
  \A c \in Client \ disturbed :
    phase[c] = "done" =>
      /\ Len(echo[c]) = length[c]
      /\ \A i \in 1 .. length[c] :
           i <= BLOCK_SIZE \/ (i - 1) % BLOCK_SIZE < COPIED =>
             echo[c][i] = [by |-> c, at |-> i - 1]

THEOREM EchoRight == Spec => []EchoIsPost
<1>1. BufferInv => EchoIsPost
  BY DEF BufferInv, EchoInv, Tells, EchoIsPost
<1> QED BY <1>1, InitBuffer, BufferInductive, PTL DEF Spec

-----------------------------------------------------------------------------
(* The refinement of EchoService.  These are its variables.                *)

message == [c \in Client |-> Promised(Message(c))]
exchange == [c \in Client |-> Exchange(c)]
returned == [c \in Client |-> IF c \in disturbed THEN <<>> ELSE Promised(echo[c])]

\* What a client has of a message that tells its own bytes is the beginning of
\* what it was promised.
LEMMA TellsPrefix ==
  ASSUME NEW c \in Client, NEW bytes \in Seq(Byte), Tells(c, bytes),
         length[c] \in Nat, Len(bytes) <= length[c]
  PROVE  /\ Len(Promised(Message(c))) = length[c]
         /\ Len(Promised(bytes)) = Len(bytes)
         /\ Promised(bytes) = SubSeq(Promised(Message(c)), 1, Len(bytes))
<1>1. DOMAIN Message(c) = 1 .. length[c] /\ DOMAIN bytes = 1 .. Len(bytes)
  BY DEF Message
<1>2. PICK whole : whole = Promised(Message(c))
  OBVIOUS
<1>3. PICK part : part = Promised(bytes)
  OBVIOUS
<1>4. DOMAIN whole = 1 .. length[c] /\ DOMAIN part = 1 .. Len(bytes)
  BY <1>1, <1>2, <1>3 DEF Promised
<1>5. ASSUME NEW i \in 1 .. Len(bytes) PROVE part[i] = whole[i]
  <2>1. i \in DOMAIN Message(c) /\ i \in DOMAIN bytes /\ Message(c)[i] = [by |-> c, at |-> i - 1]
    BY <1>1 DEF Message
  <2>2. part[i] = IF i <= BLOCK_SIZE \/ (i - 1) % BLOCK_SIZE < COPIED THEN bytes[i] ELSE Blank
    BY <2>1, <1>3 DEF Promised
  <2>3. whole[i] = IF i <= BLOCK_SIZE \/ (i - 1) % BLOCK_SIZE < COPIED
                     THEN Message(c)[i] ELSE Blank
    BY <2>1, <1>2 DEF Promised
  <2> QED BY <2>1, <2>2, <2>3 DEF Tells
<1>6. part = [i \in 1 .. Len(bytes) |-> part[i]] /\ whole = [i \in 1 .. length[c] |-> whole[i]]
  BY <1>2, <1>3, <1>4 DEF Promised, Message
<1>7. Len(whole) = length[c] /\ Len(part) = Len(bytes)
  BY <1>6
<1>8. SubSeq(whole, 1, Len(bytes)) = [i \in 1 .. Len(bytes) |-> whole[i]]
  BY <1>7
<1> QED BY <1>2, <1>3, <1>5, <1>6, <1>7, <1>8

\* The engine and what is lost or repeated concern no client.
LEMMA EchoStutters ==
  ASSUME UNCHANGED <<length, phase, echo, disturbed>>
  PROVE  UNCHANGED <<message, exchange, returned>>
<1>1. UNCHANGED message
  BY DEF message, Message, Promised, Blank
<1>2. UNCHANGED exchange
  BY DEF exchange, Exchange
<1>3. UNCHANGED returned
  BY DEF returned, Promised, Blank
<1> QED BY <1>1, <1>2, <1>3

\* A block that is stored is forgotten to whom it disturbs.
LEMMA StoreForgets ==
  ASSUME NEW q, StoreBlock(q), TypeOK
  PROVE  Echo!Forget(disturbed')
<1>1. UNCHANGED <<length, phase, echo>> /\ disturbed \subseteq disturbed'
  BY DEF StoreBlock, StoreBlockEnding, client
<1>2. UNCHANGED message
  BY <1>1 DEF message, Message, Promised, Blank
<1>3. exchange' = [c \in Client |-> IF c \in disturbed' THEN "forgotten" ELSE exchange[c]]
  BY <1>1 DEF exchange, Exchange
<1>4. returned' = [c \in Client |-> IF c \in disturbed' THEN <<>> ELSE returned[c]]
  <2>1. ASSUME NEW c \in Client
        PROVE  (IF c \in disturbed' THEN <<>> ELSE Promised(echo[c])')
                 = IF c \in disturbed' THEN <<>> ELSE returned[c]
    BY <1>1 DEF returned, Promised, Blank
  <2> QED BY <2>1, <1>1 DEF returned, Promised, Blank
<1> QED BY <1>2, <1>3, <1>4 DEF Echo!Forget, message, exchange, returned

\* Where only the phase of one client changes.
LEMMA PhaseMoves ==
  ASSUME TypeOK, NEW c \in Client, NEW p \in Phase, phase' = [phase EXCEPT ![c] = p],
         UNCHANGED <<length, echo, disturbed>>
  PROVE  /\ UNCHANGED <<message, returned>>
         /\ c \in disturbed => UNCHANGED exchange
         /\ c \notin disturbed =>
              exchange' = [exchange EXCEPT ![c] =
                             IF p \in {"posting", "acked", "fetching"} THEN "waiting" ELSE p]
<1>1. UNCHANGED <<message, returned>>
  BY DEF message, Message, returned, Promised, Blank
<1>2. phase'[c] = p /\ \A d \in Client : d # c => phase'[d] = phase[d]
  BY DEF TypeOK
<1>3. \A d \in Client : d # c \/ d \in disturbed => Exchange(d)' = Exchange(d)
  BY <1>2 DEF Exchange
<1>4. c \in disturbed => UNCHANGED exchange
  BY <1>3 DEF exchange
<1>5. ASSUME c \notin disturbed
      PROVE  exchange' = [exchange EXCEPT ![c] =
                            IF p \in {"posting", "acked", "fetching"} THEN "waiting" ELSE p]
  <2>1. Exchange(c)' = IF p \in {"posting", "acked", "fetching"} THEN "waiting" ELSE p
    BY <1>2, <1>5 DEF Exchange
  <2> QED BY <2>1, <1>3 DEF exchange
<1> QED BY <1>1, <1>4, <1>5

\* What a disturbed client takes is nobody's concern.
LEMMA TakeStutters ==
  ASSUME TypeOK, NEW b, TakePayload(b), b.c \in disturbed, UNCHANGED <<length, disturbed>>
  PROVE  UNCHANGED <<message, exchange, returned>>
<1>1. UNCHANGED message
  BY DEF message, Message, Promised, Blank
<1>2. \A d \in Client \ disturbed : phase'[d] = phase[d] /\ echo'[d] = echo[d]
  BY DEF TakePayload, TypeOK
<1>3. UNCHANGED exchange
  BY <1>2 DEF exchange, Exchange
<1>4. UNCHANGED returned
  BY <1>2 DEF returned, Promised, Blank
<1> QED BY <1>1, <1>3, <1>4

\* A payload that an undisturbed client takes brings more of its message back.
LEMMA TakeReturns ==
  ASSUME BufferInv, BufferInv', NEW b \in replies, TakePayload(b),
         b.c \notin disturbed, phase[b.c] \in {"posting", "acked", "fetching"},
         b.payload \in Seq(Byte), Len(b.payload) # 0, UNCHANGED <<length, disturbed>>
  PROVE  Echo!Return(b.c)
<1>1. PICK c \in Client : c = b.c
  BY DEF BufferInv, Inv, WireInv, ReplyInv
<1>2. TypeOK /\ echo[c] \in Seq(Byte) /\ length[c] \in Nat /\ b.payload \in Seq(Byte)
  BY DEF BufferInv, Inv, TypeOK
<1>3. PICK bytes \in Seq(Byte) :
        bytes = echo[c] \o b.payload /\ Len(bytes) = Len(echo[c]) + Len(b.payload)
  <2>1. PICK had \in Seq(Byte), got \in Seq(Byte) : had = echo[c] /\ got = b.payload
    BY <1>2
  <2>2. had \o got \in Seq(Byte) /\ Len(had \o got) = Len(had) + Len(got)
    OBVIOUS
  <2> QED BY <2>1, <2>2
<1>4. PICK p : p = IF b.more THEN "fetching" ELSE "done"
  OBVIOUS
<1>5. echo' = [echo EXCEPT ![c] = bytes] /\ phase' = [phase EXCEPT ![c] = p]
      /\ p \in {"fetching", "done"}
  BY <1>1, <1>3, <1>4 DEF TakePayload
<1>6. echo'[c] = bytes /\ phase'[c] = p
      /\ \A d \in Client : d # c => echo'[d] = echo[d] /\ phase'[d] = phase[d]
  BY <1>2, <1>5 DEF TypeOK
<1>7. Tells(c, bytes) /\ Len(bytes) <= length[c] /\ (p = "done" => Len(bytes) = length[c])
  <2>1. PICK size : size = length[c]
    OBVIOUS
  <2>2. length'[c] = size /\ c \in Client \ disturbed'
    BY <1>1, <2>1
  <2>3. Tells(c, bytes)' /\ Len(bytes) <= size /\ (p = "done" => Len(bytes) = size)
    BY <1>2, <1>5, <1>6, <2>1, <2>2 DEF BufferInv, EchoInv, Tells
  <2> QED BY <2>1, <2>3 DEF Tells
<1>8. Len(echo[c]) + 1 <= Len(bytes)
  <2>1. Len(echo[c]) \in Nat /\ Len(b.payload) \in Nat
    BY <1>2
  <2> QED BY <2>1, <1>3
<1>9. /\ Len(message[c]) = length[c] /\ Len(Promised(bytes)) = Len(bytes)
      /\ Promised(bytes) = SubSeq(message[c], 1, Len(bytes))
  BY <1>2, <1>7, TellsPrefix DEF message
<1>10. Len(returned[c]) = Len(echo[c])
  <2>1. PICK had \in Seq(Byte) : had = echo[c]
    BY <1>2
  <2>2. Promised(had) = [i \in 1 .. Len(had) |-> Promised(had)[i]]
    BY DEF Promised
  <2>3. Len(Promised(had)) = Len(had)
    BY <2>2
  <2> QED BY <1>1, <2>1, <2>3 DEF returned
<1>11. exchange[c] = "waiting" /\ UNCHANGED message
  BY <1>1 DEF exchange, Exchange, message, Message, Promised, Blank
<1>12. returned' = [returned EXCEPT ![c] = SubSeq(message[c], 1, Len(bytes))]
  <2>1. \A d \in Client : returned'[d] = IF d = c THEN Promised(bytes) ELSE returned[d]
    BY <1>1, <1>6 DEF returned, Promised, Blank
  <2>2. returned' = [d \in Client |-> returned'[d]] /\ returned = [d \in Client |-> returned[d]]
    BY DEF returned
  <2> QED BY <2>1, <2>2, <1>9
<1>13. exchange' = [exchange EXCEPT ![c] = IF p = "fetching" THEN "waiting" ELSE p]
  <2>1. \A d \in Client :
          exchange'[d] = IF d # c THEN exchange[d] ELSE IF p = "fetching" THEN "waiting" ELSE p
    BY <1>1, <1>5, <1>6 DEF exchange, Exchange
  <2>2. exchange' = [d \in Client |-> exchange'[d]] /\ exchange = [d \in Client |-> exchange[d]]
    BY DEF exchange
  <2> QED BY <2>1, <2>2
<1>14. \/ UNCHANGED exchange
       \/ Len(bytes) = Len(message[c]) /\ exchange' = [exchange EXCEPT ![c] = "done"]
  <2>1. CASE p = "fetching"
    <3>1. exchange = [exchange EXCEPT ![c] = "waiting"]
      BY <1>11 DEF exchange
    <3> QED BY <2>1, <3>1, <1>13
  <2>2. CASE p = "done"
    BY <2>2, <1>7, <1>9, <1>13
  <2> QED BY <2>1, <2>2, <1>5
<1>15. Len(bytes) \in Len(returned[c]) + 1 .. Len(message[c])
  BY <1>2, <1>7, <1>8, <1>9, <1>10
<1> QED BY <1>1, <1>11, <1>12, <1>14, <1>15 DEF Echo!Return, message, exchange, returned

\* A client that is alone with the buffer gets its message back from the first
\* byte on, whatever it and the network repeat, and is done when it has all of
\* it: res-b1-sep-b2.c implements EchoService.
THEOREM EchoImplemented == Spec => ImplementsEcho
<1>1. Init => Echo!Init
  <2> SUFFICES ASSUME Init PROVE Echo!Init
    OBVIOUS
  <2>1. ASSUME NEW c \in Client PROVE Promised(Message(c)) \in Seq(Byte)
    <3>1. PICK n \in Nat : n = length[c] /\ n <= MAX_DATA_LEN + 1
      BY SizeAssumption DEF Init
    <3>2. ASSUME NEW i \in 1 .. n PROVE Promised(Message(c))[i] \in Byte
      BY <3>1, SizeAssumption DEF Promised, Message, Blank, Byte, Offsets
    <3>3. Promised(Message(c)) = [i \in 1 .. n |-> Promised(Message(c))[i]]
      BY <3>1 DEF Promised, Message
    <3> QED BY <3>2, <3>3
  <2>2. \A c \in Client : Exchange(c) = "idle"
    BY DEF Init, Exchange
  <2>3. \A c \in Client : (IF c \in disturbed THEN <<>> ELSE Promised(echo[c])) = <<>>
    BY DEF Init, Promised
  <2> QED BY <2>1, <2>2, <2>3 DEF Echo!Init
<1>2. BufferInv /\ BufferInv' /\ [Next]_vars => [Echo!Next]_(Echo!vars)
  <2> SUFFICES ASSUME BufferInv, BufferInv', [Next]_vars PROVE [Echo!Next]_(Echo!vars)
    OBVIOUS
  <2>0. TypeOK
    BY DEF BufferInv, Inv
  <2>1. ASSUME UNCHANGED <<message, exchange, returned>> PROVE [Echo!Next]_(Echo!vars)
    BY <2>1 DEF Echo!vars, message, exchange, returned
  <2>2. ASSUME UNCHANGED <<length, phase, echo, disturbed>> PROVE [Echo!Next]_(Echo!vars)
    BY <2>1, <2>2, EchoStutters
  <2>3. ASSUME NEW c \in Client, StartPost(c) PROVE [Echo!Next]_(Echo!vars)
    <3>1. phase[c] = "idle" /\ phase' = [phase EXCEPT ![c] = "posting"]
          /\ UNCHANGED <<length, echo, disturbed>>
      BY <2>3 DEF StartPost
    <3>2. CASE c \in disturbed
      BY <2>0, <2>1, <3>1, <3>2, PhaseMoves DEF Phase
    <3>3. CASE c \notin disturbed
      <4>1. UNCHANGED <<message, returned>> /\ exchange' = [exchange EXCEPT ![c] = "waiting"]
        BY <2>0, <3>1, <3>3, PhaseMoves DEF Phase
      <4>2. exchange[c] = "idle"
        BY <3>1, <3>3 DEF exchange, Exchange
      <4>3. Echo!Post(c)
        BY <4>1, <4>2 DEF Echo!Post, message, exchange, returned
      <4> QED BY <4>3 DEF Echo!Next
    <3> QED BY <3>2, <3>3
  <2>4. ASSUME NEW c \in Client, RepeatRequest(c) PROVE [Echo!Next]_(Echo!vars)
    BY <2>2, <2>4 DEF RepeatRequest, client
  <2>5. ASSUME NEW q \in requests, HandleRequest(q) PROVE [Echo!Next]_(Echo!vars)
    <3>1. CASE PostTooLarge(q) \/ BlockOutOfScope(q) \/ ServeBlock(q)
      BY <2>2, <3>1 DEF PostTooLarge, BlockOutOfScope, ServeBlock, client
    <3>2. CASE StoreBlock(q)
      <4>1. disturbed' \in SUBSET Client
        BY DEF BufferInv, Inv, TypeOK
      <4>2. Echo!Forget(disturbed')
        BY <2>0, <3>2, StoreForgets
      <4>3. PICK d \in SUBSET Client : d = disturbed'
        BY <4>1
      <4>4. Echo!Forget(d)
        BY <4>2, <4>3 DEF Echo!Forget
      <4> QED BY <4>4 DEF Echo!Next
    <3> QED BY <2>5, <3>1, <3>2 DEF HandleRequest, PostContinue, PostLast, PostLastNoTransaction
  <2>6. ASSUME NEW b \in replies, TakePayload(b), UNCHANGED <<length, disturbed>>,
               \/ b.kind = "first" /\ phase[b.c] \in {"posting", "acked"}
               \/ b.kind = "next" /\ phase[b.c] = "fetching" /\ b.offset = Len(echo[b.c])
        PROVE  [Echo!Next]_(Echo!vars)
    <3>1. CASE b.c \in disturbed
      BY <2>0, <2>1, <2>6, <3>1, TakeStutters
    <3>2. CASE b.c \notin disturbed
      <4>1. /\ b.payload \in Seq(Byte) /\ length[b.c] \in Nat \ {0} /\ b.c \in Client
            /\ echo[b.c] \in Seq(Byte)
            /\ b.kind = "first" => FirstBlock(b)
            /\ b.kind = "next" => NextBlock(b)
        BY <2>6, <3>2, ReplyFacts
      <4>2. PICK size \in Nat : size = length[b.c] /\ size # 0
        BY <4>1
      <4>3. ASSUME b.kind = "first" PROVE Len(b.payload) # 0
        BY <4>1, <4>2, <4>3, SizeAssumption DEF FirstBlock, Smaller
      <4>4. ASSUME b.kind = "next" PROVE Len(b.payload) # 0
        <5>1. PICK k \in Nat : k = Len(echo[b.c])
          BY <4>1
        <5>2. k < size /\ Len(b.payload) = IF BLOCK_SIZE < size - k THEN BLOCK_SIZE ELSE size - k
          BY <2>6, <4>1, <4>2, <4>4, <5>1 DEF NextBlock, Smaller
        <5> QED BY <5>1, <5>2, <4>2, SizeAssumption
      <4>5. Len(b.payload) # 0
        BY <2>6, <4>3, <4>4
      <4>6. Echo!Return(b.c)
        BY <2>6, <3>2, <4>1, <4>5, TakeReturns
      <4> QED BY <4>1, <4>6 DEF Echo!Next
    <3> QED BY <3>1, <3>2
  <2>7. ASSUME NEW b \in replies, ReceiveFirst(b) PROVE [Echo!Next]_(Echo!vars)
    BY <2>2, <2>6, <2>7 DEF ReceiveFirst
  <2>8. ASSUME NEW b \in replies, ReceiveNext(b) PROVE [Echo!Next]_(Echo!vars)
    BY <2>2, <2>6, <2>8 DEF ReceiveNext
  <2>9. ASSUME NEW b \in replies, ReceiveContinue(b) PROVE [Echo!Next]_(Echo!vars)
    BY <2>2, <2>9 DEF ReceiveContinue
  <2>10. ASSUME NEW b \in replies, ReceiveAck(b) PROVE [Echo!Next]_(Echo!vars)
    <3>1. b.c \in Client /\ UNCHANGED <<length, echo, disturbed>>
      BY <2>10 DEF ReceiveAck, BufferInv, Inv, WireInv, ReplyInv
    <3>2. CASE phase[b.c] = "posting"
      <4>1. phase' = [phase EXCEPT ![b.c] = "acked"] /\ Exchange(b.c) = Exchange(b.c)'
        BY <2>0, <2>10, <3>1, <3>2 DEF ReceiveAck, TypeOK, Exchange
      <4>2. \A d \in Client : Exchange(d) = Exchange(d)'
        BY <2>0, <3>1, <4>1 DEF Exchange, TypeOK
      <4>3. UNCHANGED exchange
        BY <4>2 DEF exchange
      <4>4. UNCHANGED <<message, returned>>
        BY <2>0, <3>1, <4>1, PhaseMoves DEF Phase
      <4> QED BY <2>1, <4>3, <4>4
    <3>3. CASE phase[b.c] # "posting"
      BY <2>0, <2>2, <2>10, <3>1, <3>3 DEF ReceiveAck, TypeOK
    <3> QED BY <3>2, <3>3
  <2>11. ASSUME NEW b \in replies, ReceiveError(b) PROVE [Echo!Next]_(Echo!vars)
    <3>1. b.c \in Client /\ UNCHANGED <<length, echo, disturbed>>
      BY <2>11 DEF ReceiveError, BufferInv, Inv, WireInv, ReplyInv
    <3>2. CASE phase[b.c] \in {"posting", "fetching"}
      <4>1. phase' = [phase EXCEPT ![b.c] = "failed"]
        BY <2>11, <3>2 DEF ReceiveError
      <4>2. CASE b.c \in disturbed
        BY <2>0, <2>1, <3>1, <4>1, <4>2, PhaseMoves DEF Phase
      <4>3. CASE b.c \notin disturbed
        <5>1. UNCHANGED <<message, returned>> /\ exchange' = [exchange EXCEPT ![b.c] = "failed"]
          BY <2>0, <3>1, <4>1, <4>3, PhaseMoves DEF Phase
        <5>2. exchange[b.c] = "waiting"
          BY <3>1, <3>2, <4>3 DEF exchange, Exchange
        <5>3. Echo!Fail(b.c)
          BY <5>1, <5>2 DEF Echo!Fail, message, exchange, returned
        <5> QED BY <3>1, <5>3 DEF Echo!Next
      <4> QED BY <4>2, <4>3
    <3>3. CASE phase[b.c] \notin {"posting", "fetching"}
      BY <2>0, <2>2, <2>11, <3>1, <3>3 DEF ReceiveError, TypeOK
    <3> QED BY <3>2, <3>3
  <2>12. CASE UNCHANGED vars
    BY <2>2, <2>12 DEF vars, client
  <2> QED BY <2>3, <2>4, <2>5, <2>7, <2>8, <2>9, <2>10, <2>11, <2>12 DEF Next, ReceiveReply
<1> QED BY <1>1, <1>2, InitBuffer, BufferInductive, PTL DEF Spec, ImplementsEcho, Echo!Spec
=============================================================================
