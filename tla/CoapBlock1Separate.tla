-------------------------- MODULE CoapBlock1Separate --------------------------
(***************************************************************************)
(* The resource test/b1sepb2 of the CoAP example server                    *)
(* (resources/res-b1-sep-b2.c): a client posts a message block by block    *)
(* (Block1), is told to wait, gets the first block of the same message as  *)
(* a separate response and fetches the others (Block2).  The message lives *)
(* in one static buffer: "Example allows only one request on time.  There  *)
(* are no checks for multiply access !!!"                                  *)
(***************************************************************************)
EXTENDS Integers, Sequences, FiniteSets

CONSTANTS
  Client,
  Nobody,        \* writer of a byte of big_msg nobody has written
  MAX_DATA_LEN,  \* size of big_msg, 256 in the source
  BLOCK_SIZE,    \* block size the clients and the engine settle on
  COPIED,        \* bytes the handler copies for a block, 32 in the source
  MaxRepeats     \* bound on the requests repeated by a client or the network

ASSUME SizeAssumption ==
  /\ MAX_DATA_LEN \in Nat \ {0} /\ BLOCK_SIZE \in Nat \ {0} /\ COPIED \in Nat \ {0}
  /\ MaxRepeats \in Nat
  /\ Nobody \notin Client

VARIABLES
  big_msg,      \* static uint8_t big_msg[]: who wrote each byte
  big_msg_len,  \* static size_t big_msg_len
  length,       \* length of the message each client posts
  phase,        \* where each client is
  pos,          \* offset of the block it is posting
  echo,         \* the bytes it got back so far
  requests, replies,
  repeats,      \* requests repeated so far
  starved,      \* history: clients whose separate response found no transaction
  disturbed     \* history: clients whose message was written over by another request

server == <<big_msg, big_msg_len>>
client == <<phase, pos, echo>>
vars == <<server, length, client, requests, replies, repeats, starved, disturbed>>

Smaller(a, b) == IF a < b THEN a ELSE b
Offsets == 0 .. MAX_DATA_LEN

\* A byte on the wire: who wrote it, at which position of the message.
Byte == [by: Client \cup {Nobody}, at: Offsets]
Phase == {"idle", "posting", "acked", "fetching", "done", "failed"}

Block1(c, p) == [kind |-> "block1", c |-> c, offset |-> p]
Block2(c, p) == [kind |-> "block2", c |-> c, offset |-> p]
Reply(kind, c, p, payload, more) ==
  [kind |-> kind, c |-> c, offset |-> p, payload |-> payload, more |-> more]

\* A byte of which the code says nothing.
Blank == [by |-> Nobody, at |-> 0]

\* n bytes of a buffer from offset p on.
BufferBytes(buffer, p, n) ==
  [i \in 1 .. n |-> IF p + i - 1 \in DOMAIN buffer
                      THEN [by |-> buffer[p + i - 1], at |-> p + i - 1]
                      ELSE Blank]

Init ==
  /\ big_msg = [p \in 0 .. MAX_DATA_LEN - 1 |-> Nobody] /\ big_msg_len = 0
  /\ length \in [Client -> 1 .. MAX_DATA_LEN + 1]
  /\ phase = [c \in Client |-> "idle"]
  /\ pos = [c \in Client |-> 0]
  /\ echo = [c \in Client |-> <<>>]
  /\ requests = {} /\ replies = {} /\ repeats = 0
  /\ starved = {} /\ disturbed = {}

-----------------------------------------------------------------------------
(* The handler, offset 0: a block of the client's message.                 *)

PostLen(q) == Smaller(BLOCK_SIZE, length[q.c] - q.offset)
PostEnd(q) == q.offset + PostLen(q)
PostMore(q) == q.offset + BLOCK_SIZE < length[q.c]

\* coap_block1_handler refuses what the buffer cannot hold.
PostTooLarge(q) ==
  /\ q.kind = "block1"
  /\ PostEnd(q) > MAX_DATA_LEN
  /\ replies' = replies \cup {Reply("error", q.c, q.offset, <<>>, FALSE)}
  /\ requests' = requests \ {q}
  /\ UNCHANGED <<server, length, repeats, client, starved, disturbed>>

\* The block is stored if it fits, and the message then ends at end.
StoreBlockEnding(q, end) ==
  /\ q.kind = "block1"
  /\ PostEnd(q) <= MAX_DATA_LEN
  /\ big_msg' = [p \in 0 .. MAX_DATA_LEN - 1 |->
                   IF p \in q.offset .. PostEnd(q) - 1 THEN q.c ELSE big_msg[p]]
  /\ big_msg_len' = end
  /\ requests' = requests \ {q}
  /\ disturbed' = disturbed
       \cup {c \in Client \ {q.c} : phase[c] # "idle"}
       \cup (IF q.offset = pos[q.c] THEN {} ELSE {q.c})
  /\ UNCHANGED <<length, repeats, client>>

\* Fault: the last block is taken for a full one.
StoreBlockFull(q) ==
  StoreBlockEnding(q, Smaller(q.offset + BLOCK_SIZE, MAX_DATA_LEN))

\* coap_block1_handler stores the block where it belongs and takes its end for
\* the end of the message.
StoreBlock(q) == StoreBlockEnding(q, PostEnd(q))

\* More blocks will follow: return with 2.31 Continue.
PostContinue(q) ==
  /\ StoreBlock(q) /\ PostMore(q)
  /\ replies' = replies \cup {Reply("continue", q.c, q.offset, <<>>, FALSE)}
  /\ UNCHANGED starved

\* The acknowledgement, and a first block of n bytes; more follow when the
\* message is longer than a block.
SendFirst(q, n) ==
  replies' = replies \cup {Reply("ack", q.c, q.offset, <<>>, FALSE),
                           Reply("first", q.c, 0, BufferBytes(big_msg', 0, n),
                                 PostEnd(q) > BLOCK_SIZE)}

\* Fault: the first block always has the full size.
PostLastFullBlock(q) ==
  /\ StoreBlock(q) /\ ~PostMore(q)
  /\ SendFirst(q, BLOCK_SIZE)
  /\ UNCHANGED starved

\* Fault: the response is only sent when it fits one block.
PostLastShortOnly(q) ==
  /\ StoreBlock(q) /\ ~PostMore(q)
  /\ IF PostEnd(q) <= BLOCK_SIZE
       THEN SendFirst(q, PostEnd(q))
       ELSE replies' = replies \cup {Reply("ack", q.c, q.offset, <<>>, FALSE)}
  /\ UNCHANGED starved

\* Last block was received: accept, and send the first block of the response.
PostLast(q) ==
  /\ StoreBlock(q) /\ ~PostMore(q)
  /\ SendFirst(q, Smaller(PostEnd(q), BLOCK_SIZE))
  /\ UNCHANGED starved

\* ... but coap_new_transaction returns NULL: the client keeps the bare
\* acknowledgement.
PostLastNoTransaction(q) ==
  /\ StoreBlock(q) /\ ~PostMore(q)
  /\ replies' = replies \cup {Reply("ack", q.c, q.offset, <<>>, FALSE)}
  /\ starved' = starved \cup {q.c}

-----------------------------------------------------------------------------
(* The handler, other offsets: a request for more blocks.                  *)

\* The first COPIED bytes come from big_msg, the others are what the engine's
\* buffer held before.
BlockPayload(p, n) ==
  [i \in 1 .. n |-> IF i <= COPIED THEN BufferBytes(big_msg, p, n)[i] ELSE Blank]

\* The offset where to continue, -1 at the end: the handler takes a last block
\* of full size for one that more blocks follow.
NextOffset(p, preferred_size) ==
  IF big_msg_len - p < preferred_size THEN -1 ELSE p + preferred_size

BlockOutOfScope(q) ==
  /\ q.kind = "block2" /\ q.offset >= big_msg_len
  /\ replies' = replies \cup {Reply("error", q.c, q.offset, <<>>, FALSE)}
  /\ requests' = requests \ {q}
  /\ UNCHANGED <<server, length, repeats, client, starved, disturbed>>

ServeBlock(q) ==
  /\ q.kind = "block2" /\ q.offset < big_msg_len
  /\ LET n == Smaller(BLOCK_SIZE, big_msg_len - q.offset) IN
       replies' = replies \cup {Reply("next", q.c, q.offset, BlockPayload(q.offset, n),
                                      NextOffset(q.offset, BLOCK_SIZE) # -1)}
  /\ requests' = requests \ {q}
  /\ UNCHANGED <<server, length, repeats, client, starved, disturbed>>

-----------------------------------------------------------------------------
(* Clients: one request at a time each.                                    *)

StartPost(c) ==
  /\ phase[c] = "idle"
  /\ phase' = [phase EXCEPT ![c] = "posting"]
  /\ requests' = requests \cup {Block1(c, 0)}
  /\ UNCHANGED <<server, length, repeats, pos, echo, replies, starved, disturbed>>

\* A request that is still unanswered is sent again, or duplicated on its way.
RepeatRequest(c) ==
  /\ repeats < MaxRepeats /\ repeats' = repeats + 1
  /\ \/ phase[c] = "posting" /\ requests' = requests \cup {Block1(c, pos[c])}
     \/ phase[c] = "fetching" /\ requests' = requests \cup {Block2(c, Len(echo[c]))}
  /\ UNCHANGED <<server, length, client, replies, starved, disturbed>>

ReceiveContinue(b) ==
  /\ b.kind = "continue"
  /\ IF phase[b.c] = "posting" /\ b.offset = pos[b.c]
       THEN /\ pos' = [pos EXCEPT ![b.c] = @ + BLOCK_SIZE]
            /\ requests' = requests \cup {Block1(b.c, pos'[b.c])}
       ELSE UNCHANGED <<pos, requests>>
  /\ replies' = replies \ {b}
  /\ UNCHANGED <<server, length, repeats, phase, echo, starved, disturbed>>

ReceiveAck(b) ==
  /\ b.kind = "ack"
  /\ phase' = [phase EXCEPT ![b.c] = IF @ = "posting" THEN "acked" ELSE @]
  /\ replies' = replies \ {b}
  /\ UNCHANGED <<server, length, repeats, pos, echo, requests, starved, disturbed>>

\* The payload is appended; the More flag says whether to ask for another block.
TakePayload(b) ==
  /\ echo' = [echo EXCEPT ![b.c] = @ \o b.payload]
  /\ phase' = [phase EXCEPT ![b.c] = IF b.more THEN "fetching" ELSE "done"]
  /\ requests' = IF b.more THEN requests \cup {Block2(b.c, Len(echo'[b.c]))} ELSE requests

ReceiveFirst(b) ==
  /\ b.kind = "first"
  /\ IF phase[b.c] \in {"posting", "acked"} THEN TakePayload(b)
     ELSE UNCHANGED <<echo, phase, requests>>
  /\ replies' = replies \ {b}
  /\ UNCHANGED <<server, length, repeats, pos, starved, disturbed>>

ReceiveNext(b) ==
  /\ b.kind = "next"
  /\ IF phase[b.c] = "fetching" /\ b.offset = Len(echo[b.c]) THEN TakePayload(b)
     ELSE UNCHANGED <<echo, phase, requests>>
  /\ replies' = replies \ {b}
  /\ UNCHANGED <<server, length, repeats, pos, starved, disturbed>>

ReceiveError(b) ==
  /\ b.kind = "error"
  /\ phase' = [phase EXCEPT ![b.c] =
                 IF @ \in {"posting", "fetching"} THEN "failed" ELSE @]
  /\ replies' = replies \ {b}
  /\ UNCHANGED <<server, length, repeats, pos, echo, requests, starved, disturbed>>

HandleRequest(q) ==
  \/ PostTooLarge(q) \/ PostContinue(q) \/ PostLast(q) \/ PostLastNoTransaction(q)
  \/ BlockOutOfScope(q) \/ ServeBlock(q)

ReceiveReply(b) ==
  \/ ReceiveContinue(b) \/ ReceiveAck(b) \/ ReceiveFirst(b) \/ ReceiveNext(b)
  \/ ReceiveError(b)

Next ==
  \/ \E c \in Client : StartPost(c) \/ RepeatRequest(c)
  \/ \E q \in requests : HandleRequest(q)
  \/ \E b \in replies : ReceiveReply(b)

Spec == Init /\ [][Next]_vars

\* Clients start, the engine handles what arrives and the network delivers.
FairSpec ==
  /\ Spec
  /\ \A c \in Client : WF_vars(StartPost(c))
  /\ WF_vars(\E q \in requests : HandleRequest(q))
  /\ WF_vars(\E b \in replies : ReceiveReply(b))

-----------------------------------------------------------------------------
TypeOK ==
  /\ big_msg \in [0 .. MAX_DATA_LEN - 1 -> Client \cup {Nobody}]
  /\ big_msg_len \in Offsets
  /\ length \in [Client -> 1 .. MAX_DATA_LEN + 1]
  /\ phase \in [Client -> Phase]
  /\ pos \in [Client -> 0 .. MAX_DATA_LEN + 1]
  /\ echo \in [Client -> Seq(Byte)]
  /\ repeats \in 0 .. MaxRepeats
  /\ starved \subseteq Client /\ disturbed \subseteq Client

\* However posts interleave and repeat, the message length never covers a byte
\* of the buffer nobody has written.
MessageWritten == \A p \in 0 .. big_msg_len - 1 : big_msg[p] # Nobody

\* What is promised of the bytes at positions 1, 2, ...: all of the first block,
\* and the first COPIED bytes of every other one.
Promised(bytes) ==
  [i \in DOMAIN bytes |->
     IF i <= BLOCK_SIZE \/ (i - 1) % BLOCK_SIZE < COPIED THEN bytes[i] ELSE Blank]

\* The message a client posts, and its exchange as it sees it.
Message(c) == [i \in 1 .. length[c] |-> [by |-> c, at |-> i - 1]]
Exchange(c) ==
  IF c \in disturbed THEN "forgotten"
  ELSE IF phase[c] \in {"posting", "acked", "fetching"} THEN "waiting" ELSE phase[c]

Echo == INSTANCE EchoService
  WITH message <- [c \in Client |-> Promised(Message(c))],
       phase <- [c \in Client |-> Exchange(c)],
       returned <- [c \in Client |-> IF c \in disturbed THEN <<>> ELSE Promised(echo[c])]

\* A client alone with the buffer gets its own message back from the first byte
\* on, every piece where it belongs, is done when it has all of it, and takes
\* nothing after the end, whatever is repeated.
ImplementsEcho == Echo!Spec

\* A client told to wait has its first block under way, unless the response
\* found no transaction.
AckedIsAnswered ==
  \A c \in Client :
    phase[c] = "acked" => c \in starved \/ \E b \in replies : b.kind = "first" /\ b.c = c

\* The contract res-chunks.c states for chunk-wise resources: the handler sets
\* the offset "to its new position or -1 of the end is reached", from which the
\* engine derives the More flag.  Of the blocks served of a client's undisturbed
\* message, all but the last announce another one.
EndSignalled ==
  \A b \in replies :
    b.kind = "next" /\ b.c \notin disturbed =>
      (b.more <=> b.offset + Len(b.payload) < length[b.c])

\* Every exchange ends, well or badly, unless the response found no transaction.
ExchangeEnds == \A c \in Client : <>(phase[c] \in {"done", "failed"} \/ c \in starved)
=============================================================================
